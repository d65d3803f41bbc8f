------------------------- MODULE Invocation_proof -------------------------
(***************************************************************************)
(* Proofs about Invocation, for any clients and calls: the daemon counts   *)
(* its clients and the references to their records exactly, never waits    *)
(* for the bus on the main loop, ends only when it is not needed and not   *)
(* later, and aborts, crashes or answers twice only as explained.          *)
(***************************************************************************)
EXTENDS Invocation, FiniteSetTheorems, TLAPS

(* The main loop's queue: what is in it, in which order.                   *)
Elems(t) == {t[i] : i \in DOMAIN t}
Q == Elems(todo)

(* The news of a client comes before anything else of that client. *)
Precedes(x, y) == \E c \in Clients :
                      /\ x = <<"appeared", c>>
                      /\ \/ y = <<"disappeared", c>>
                         \/ \E k \in Calls : Caller[k] = c /\ y = <<"dispatch", k>>

Orderly(t) ==
    /\ t \in Seq(Sources)
    /\ \A i, j \in DOMAIN t : t[i] = t[j] => i = j
    /\ \A i, j \in DOMAIN t : Precedes(t[i], t[j]) => i < j

CallOK(k) ==
    /\ <<"dispatch", k>> \in Q <=> pc[k] = "queued"
    /\ <<"handle", k>> \in Q <=> pc[k] = "passed"
    /\ pc[k] # "none" => uid_state[Caller[k]] # "none"
    /\ pc[k] \in {"none", "queued", "looking", "waiting", "woken", "checking"} =>
          failed[k] = "no"
    /\ failed[k] = "no" => replies[k] = IF pc[k] = "done" THEN 1 ELSE 0
    /\ failed[k] = "no" /\ pc[k] \in {"checking", "passed", "running"} =>
          uid_state[Caller[k]] = "valid"
    /\ failed[k] = "caller" => Caller[k] \notin clients
    /\ failed[k] = "uid" => uid_state[Caller[k]] = "failed"

ClientOK(c) ==
    /\ c \in clients => uid_state[c] # "none"
    /\ uid_state[c] # "none" /\ c \notin clients => c \notin connected
    /\ c \in asked => uid_state[c] = "loading"
    /\ <<"appeared", c>> \in Q =>
          /\ c \in clients \/ <<"disappeared", c>> \in Q
          /\ \A k \in Calls : Caller[k] = c => pc[k] \in {"none", "queued"}
    /\ <<"disappeared", c>> \in Q => c \notin clients /\ uid_state[c] # "none"

(* TypeOK without the counts, which are those of finite sets. *)
Typed ==
    /\ connected \subseteq Clients /\ clients \subseteq Clients
    /\ pc \in [Calls -> Stages]
    /\ asked \subseteq Clients
    /\ uid_state \in [Clients -> {"none", "loading", "valid", "failed"}]
    /\ refs \in [Clients -> Int]
    /\ failed \in [Calls -> {"no", "caller", "uid"}]
    /\ replies \in [Calls -> Nat]
    /\ authority \in BOOLEAN
    /\ name \in {"requested", "owned", "lost", "released"}
    /\ up \in {"running", "finished", "aborted", "crashed"}

Running == {k \in Calls : pc[k] = "running"}
Known == {c \in Clients : /\ c \in clients \/ <<"disappeared", c>> \in Q
                          /\ <<"appeared", c>> \notin Q}

ClientsCounted == num_clients = Cardinality(Known)
JobsCounted == num_jobs = Cardinality(Running)

Inv ==
    /\ Typed
    /\ Orderly(todo)
    /\ \A k \in Calls : CallOK(k)
    /\ \A c \in Clients : ClientOK(c)
    /\ ClientsCounted
    /\ JobsCounted
    /\ RefsExact
-----------------------------------------------------------------------------
(* Finite sets of clients and calls, and how they grow and shrink. *)
LEMMA Finite ==
    /\ \A S \in SUBSET Clients : IsFiniteSet(S) /\ Cardinality(S) \in Nat
    /\ \A S \in SUBSET Calls : IsFiniteSet(S) /\ Cardinality(S) \in Nat
  BY FiniteAssumption, FS_Subset, FS_CardinalityType

LEMMA CallsFinite ==
    /\ \A k \in Calls : Caller[k] \in Clients
    /\ \A c \in Clients : Holders(c) \in SUBSET Calls
    /\ Running \in SUBSET Calls /\ Known \in SUBSET Clients
  BY CallerAssumption DEF Holders, Running, Known

(* The queue after an idle source is added. *)
LEMMA Appended ==
    ASSUME NEW t, Orderly(t), NEW e \in Sources, e \notin Elems(t),
           \A y \in Elems(t) : ~Precedes(e, y)
    PROVE  /\ Orderly(Append(t, e))
           /\ Elems(Append(t, e)) = Elems(t) \union {e}
<1> DEFINE u == Append(t, e)
<1>1. t \in Seq(Sources) /\ Len(t) \in Nat /\ DOMAIN t = 1 .. Len(t)
  BY DEF Orderly
<1>2. /\ u \in Seq(Sources) /\ Len(u) = Len(t) + 1 /\ DOMAIN u = 1 .. (Len(t) + 1)
      /\ \A i \in DOMAIN t : u[i] = t[i]
      /\ u[Len(t) + 1] = e
  BY <1>1
<1> HIDE DEF u
<1>3. \A i \in DOMAIN u : i \in DOMAIN t \/ i = Len(t) + 1
  BY <1>1, <1>2
<1>4. Elems(u) = Elems(t) \union {e}
  <2>1. \A x \in Elems(u) : x \in Elems(t) \union {e}
    BY <1>2, <1>3 DEF Elems
  <2>2. \A x \in Elems(t) : x \in Elems(u)
    <3>1. DOMAIN t \subseteq DOMAIN u
      BY <1>1, <1>2
    <3> QED
      BY <1>2, <3>1 DEF Elems
  <2>3. e \in Elems(u)
    <3>1. Len(t) + 1 \in DOMAIN u
      BY <1>1, <1>2
    <3> QED
      BY <1>2, <3>1 DEF Elems
  <2> QED
    BY <2>1, <2>2, <2>3
<1>5. \A i \in DOMAIN t : t[i] \in Elems(t)
  BY DEF Elems
<1>6. ~Precedes(e, e)
  BY DEF Precedes
<1>7. \A i, j \in DOMAIN u : u[i] = u[j] => i = j
  BY <1>2, <1>3, <1>5 DEF Orderly
<1>8. \A i, j \in DOMAIN u : Precedes(u[i], u[j]) => i < j
  <2> SUFFICES ASSUME NEW i \in DOMAIN u, NEW j \in DOMAIN u, Precedes(u[i], u[j])
               PROVE  i < j
    OBVIOUS
  <2>1. CASE i \in DOMAIN t /\ j \in DOMAIN t
    BY <1>2, <2>1 DEF Orderly
  <2>2. CASE i \in DOMAIN t /\ j = Len(t) + 1
    BY <1>1, <2>2
  <2>3. i # Len(t) + 1
    BY <1>2, <1>3, <1>5, <1>6
  <2> QED
    BY <1>3, <2>1, <2>2, <2>3
<1> QED
  BY <1>2, <1>4, <1>7, <1>8 DEF Orderly, u

(* The queue after its oldest source is taken. *)
LEMMA Taken ==
    ASSUME NEW s, Orderly(todo), Take(s)
    PROVE  /\ Orderly(todo') /\ s \in Q /\ Q' = Q \ {s}
           /\ \A x \in Q : ~Precedes(x, s)
<1> DEFINE t == todo
           u == Tail(todo)
<1>1. /\ t \in Seq(Sources) /\ t # <<>> /\ Head(t) = s /\ todo' = u
      /\ Len(t) \in Nat /\ DOMAIN t = 1 .. Len(t)
  BY DEF Orderly, Take
<1>2. Len(t) > 0 /\ t[1] = s
  BY <1>1
<1>3. /\ u \in Seq(Sources) /\ Len(u) = Len(t) - 1 /\ DOMAIN u = 1 .. (Len(t) - 1)
      /\ \A i \in DOMAIN u : u[i] = t[i + 1]
  BY <1>1, <1>2
<1>4. /\ \A i, j \in DOMAIN t : t[i] = t[j] => i = j
      /\ \A i, j \in DOMAIN t : Precedes(t[i], t[j]) => i < j
  BY DEF Orderly
<1> HIDE DEF u, t
<1>5. \A i \in DOMAIN u : i + 1 \in DOMAIN t /\ i + 1 # 1 /\ i \in Nat
  BY <1>1, <1>3
<1>6. /\ \A i, j \in DOMAIN u : u[i] = u[j] => i = j
      /\ \A i, j \in DOMAIN u : Precedes(u[i], u[j]) => i < j
  <2>1. ASSUME NEW i \in DOMAIN u, NEW j \in DOMAIN u
        PROVE  /\ u[i] = u[j] => i = j
               /\ Precedes(u[i], u[j]) => i < j
    <3>1. u[i] = t[i + 1] /\ u[j] = t[j + 1]
      BY <1>3
    <3>2. u[i] = u[j] => i + 1 = j + 1
      BY <1>4, <1>5, <3>1
    <3>3. Precedes(u[i], u[j]) => i + 1 < j + 1
      BY <1>4, <1>5, <3>1
    <3> QED
      BY <1>5, <3>2, <3>3
  <2> QED
    BY <2>1
<1>7. s \in Elems(t)
  BY <1>1, <1>2 DEF Elems
<1>8. Elems(u) = Elems(t) \ {s}
  <2>1. \A x \in Elems(u) : x \in Elems(t) /\ x # s
    BY <1>1, <1>2, <1>3, <1>4, <1>5 DEF Elems
  <2>2. \A x \in Elems(t) \ {s} : x \in Elems(u)
    <3> SUFFICES ASSUME NEW i \in DOMAIN t, t[i] # s PROVE t[i] \in Elems(u)
      BY DEF Elems
    <3>1. i - 1 \in DOMAIN u /\ (i - 1) + 1 = i
      BY <1>1, <1>2, <1>3
    <3>2. t[i] = u[i - 1]
      BY <1>3, <3>1
    <3> QED
      BY <3>1, <3>2 DEF Elems
  <2> QED
    BY <2>1, <2>2
<1>9. \A x \in Elems(t) : ~Precedes(x, s)
  <2>1. ASSUME NEW i \in DOMAIN t, Precedes(t[i], s) PROVE FALSE
    <3>1. 1 \in DOMAIN t /\ i >= 1
      BY <1>1, <1>2
    <3> QED
      BY <1>2, <1>4, <2>1, <3>1
  <2> QED
    BY <2>1 DEF Elems
<1> QED
  BY <1>1, <1>3, <1>6, <1>7, <1>8, <1>9 DEF Orderly, Q, t
-----------------------------------------------------------------------------
LEMMA InitInv == Init => Inv
<1> SUFFICES ASSUME Init PROVE Inv
  OBVIOUS
<1>1. /\ connected = Clients /\ clients = {} /\ asked = {} /\ todo = <<>>
      /\ pc = [k \in Calls |-> "none"] /\ failed = [k \in Calls |-> "no"]
      /\ replies = [k \in Calls |-> 0] /\ refs = [c \in Clients |-> 0]
      /\ uid_state = [c \in Clients |-> "none"]
      /\ num_clients = 0 /\ num_jobs = 0
  BY DEF Init
<1>2. Typed
  BY <1>1 DEF Init, Typed, Stages
<1>3. todo \in Seq(Sources) /\ DOMAIN todo = {}
  BY <1>1
<1>4. Orderly(todo) /\ Q = {}
  BY <1>3 DEF Orderly, Q, Elems
<1>5. ASSUME NEW k \in Calls PROVE CallOK(k)
  BY <1>1, <1>4, CallsFinite DEF CallOK
<1>6. ASSUME NEW c \in Clients PROVE ClientOK(c)
  BY <1>1, <1>4 DEF ClientOK
<1>7. Known = {} /\ Running = {}
  BY <1>1, <1>4 DEF Known, Running
<1>8. ASSUME NEW c \in Clients
      PROVE  refs[c] = Cardinality(Holders(c)) + IF c \in clients THEN 1 ELSE 0
  <2>1. Holders(c) = {}
    BY <1>1 DEF Holders
  <2>2. Cardinality(Holders(c)) = 0
    BY <2>1, FS_EmptySet
  <2> QED
    BY <1>1, <2>2
<1>9. ClientsCounted /\ JobsCounted
  <2>1. Cardinality({}) = 0
    BY FS_EmptySet
  <2> QED
    BY <1>1, <1>7, <2>1 DEF ClientsCounted, JobsCounted
<1> QED
  BY <1>2, <1>4, <1>5, <1>6, <1>8, <1>9 DEF Inv, RefsExact

(* What the counts depend on. *)
LEMMA SameClients ==
    ASSUME ClientsCounted, clients' = clients, num_clients' = num_clients,
           \A c \in Clients : /\ <<"appeared", c>> \in Q' <=> <<"appeared", c>> \in Q
                              /\ <<"disappeared", c>> \in Q' <=> <<"disappeared", c>> \in Q
    PROVE  ClientsCounted'
<1>1. \A c \in Clients : c \in Known' <=> c \in Known
  BY DEF Known
<1>2. Known \subseteq Clients /\ Known' \subseteq Clients
  BY DEF Known
<1>3. Known' = Known
  BY <1>1, <1>2
<1> QED
  BY <1>3 DEF ClientsCounted

LEMMA SameJobs ==
    ASSUME JobsCounted, num_jobs' = num_jobs,
           \A k \in Calls : pc'[k] = "running" <=> pc[k] = "running"
    PROVE  JobsCounted'
<1>1. Running' = Running
  BY DEF Running
<1> QED
  BY <1>1 DEF JobsCounted

LEMMA SameRefs ==
    ASSUME RefsExact, clients' = clients, refs' = refs,
           \A k \in Calls :
              (pc'[k] \in {"waiting", "woken", "checking"} \/ failed'[k] = "uid")
              <=> (pc[k] \in {"waiting", "woken", "checking"} \/ failed[k] = "uid")
    PROVE  RefsExact'
<1>1. \A c \in Clients : Holders(c)' = Holders(c)
  BY DEF Holders
<1> QED
  BY <1>1 DEF RefsExact

(* The bus name, the end of the daemon and polkit are of no concern. *)
LEMMA NameInv ==
    ASSUME Inv, UNCHANGED <<busVars, clientVars, callVars, authority, todo,
                            num_clients, num_jobs>>,
           name' \in {"requested", "owned", "lost", "released"},
           up' \in {"running", "finished", "aborted", "crashed"}
    PROVE  Inv'
<1>1. UNCHANGED <<connected, asked, clients, uid_state, refs, pc, failed, replies,
                  authority, todo, num_clients, num_jobs>> /\ Q' = Q
  BY DEF busVars, clientVars, callVars, Q
<1>2. Typed' /\ Orderly(todo)'
  BY <1>1 DEF Inv, Typed, Orderly
<1>3. \A k \in Calls : CallOK(k)'
  BY <1>1 DEF Inv, CallOK
<1>4. \A c \in Clients : ClientOK(c)'
  BY <1>1 DEF Inv, ClientOK
<1>5. ClientsCounted' /\ JobsCounted' /\ RefsExact'
  BY <1>1, SameClients, SameJobs, SameRefs DEF Inv
<1> QED
  BY <1>2, <1>3, <1>4, <1>5 DEF Inv

LEMMA DisconnectInv == ASSUME Inv, NEW c \in Clients, Disconnect(c) PROVE Inv'
<1>1. /\ UNCHANGED <<asked, clients, uid_state, refs, pc, failed, replies, authority,
                     todo, name, num_clients, num_jobs, up>>
      /\ Q' = Q /\ connected' \subseteq connected
  BY DEF Disconnect, clientVars, callVars, daemonVars, Q
<1>2. Typed' /\ Orderly(todo)'
  BY <1>1 DEF Inv, Typed, Orderly
<1>3. \A k \in Calls : CallOK(k)'
  BY <1>1 DEF Inv, CallOK
<1>4. \A d \in Clients : ClientOK(d)'
  BY <1>1 DEF Inv, ClientOK
<1>5. ClientsCounted' /\ JobsCounted' /\ RefsExact'
  BY <1>1, SameClients, SameJobs, SameRefs DEF Inv
<1> QED
  BY <1>2, <1>3, <1>4, <1>5 DEF Inv

(* The answer with a uid finds its client: the bus sends it before the     *)
(* news that the client left. *)
LEMMA AnswerFindsClient ==
    ASSUME Inv, NEW c \in Clients, GotUnixUser(c)
    PROVE  up' = up
<1>1. c \notin clients => c \notin connected
  BY DEF GotUnixUser, Inv, ClientOK
<1> QED
  BY <1>1 DEF GotUnixUser, Answers

LEMMA GotUnixUserInv == ASSUME Inv, NEW c \in Clients, GotUnixUser(c) PROVE Inv'
<1>1. /\ UNCHANGED <<connected, clients, refs, failed, replies, authority, todo, name,
                     num_clients, num_jobs>>
      /\ asked' = asked \ {c} /\ pc' = Broadcast /\ Q' = Q
      /\ up' = up
  BY AnswerFindsClient DEF GotUnixUser, daemonVars, Q
<1>2. uid_state[c] = "loading"
  BY DEF GotUnixUser, Inv, ClientOK
<1>3. /\ uid_state' \in [Clients -> {"none", "loading", "valid", "failed"}]
      /\ \A d \in Clients : uid_state'[d] = uid_state[d]
            \/ (d = c /\ uid_state'[c] \in {"valid", "failed"})
  <2>1. uid_state' = uid_state
        \/ \E a \in {"valid", "failed"} : uid_state' = [uid_state EXCEPT ![c] = a]
    BY DEF GotUnixUser, Answers
  <2> QED
    BY <2>1 DEF Inv, Typed
<1>4. pc' \in [Calls -> Stages]
      /\ \A k \in Calls : pc'[k] = pc[k] \/ (pc[k] = "waiting" /\ pc'[k] = "woken")
  BY <1>1 DEF Broadcast, Stages, Inv, Typed
<1>5. Typed' /\ Orderly(todo)'
  <2>1. up' \in {"running", "finished", "aborted", "crashed"}
    BY <1>1 DEF Inv, Typed
  <2> QED
    BY <1>1, <1>3, <1>4, <2>1 DEF Inv, Typed, Orderly
<1>6. ASSUME NEW k \in Calls PROVE CallOK(k)'
  <2>1. CallOK(k) /\ Caller[k] \in Clients
    BY CallsFinite DEF Inv
  <2> QED
    BY <1>1, <1>2, <1>3, <1>4, <2>1 DEF CallOK
<1>7. ASSUME NEW d \in Clients PROVE ClientOK(d)'
  <2>1. ClientOK(d)
    BY DEF Inv
  <2>2. \A k \in Calls : pc[k] \in {"none", "queued"} => pc'[k] = pc[k]
    BY <1>4
  <2>3. d \in asked' => uid_state'[d] = "loading"
    BY <1>1, <1>3, <2>1 DEF ClientOK
  <2>4. (uid_state'[d] = "none") <=> (uid_state[d] = "none")
    BY <1>2, <1>3
  <2> QED
    BY <1>1, <2>1, <2>2, <2>3, <2>4 DEF ClientOK
<1>8. ClientsCounted' /\ JobsCounted' /\ RefsExact'
  <2>1. ClientsCounted'
    BY <1>1, SameClients DEF Inv
  <2>2. JobsCounted'
    BY <1>1, <1>4, SameJobs DEF Inv
  <2>3. RefsExact'
    BY <1>1, <1>4, SameRefs DEF Inv
  <2> QED
    BY <2>1, <2>2, <2>3
<1> QED
  BY <1>5, <1>6, <1>7, <1>8 DEF Inv

(* The actions whose handler runs as an idle source of the main loop. *)
LEMMA ClientAppearedInv ==
    ASSUME Inv, NEW c \in Clients, ClientAppeared(c) PROVE Inv'
<1> DEFINE e == <<"appeared", c>>
<1>1. /\ UNCHANGED <<connected, asked, clients, uid_state, refs, pc, failed, replies,
                     authority, name, num_jobs, up>>
      /\ num_clients' = num_clients + 1
      /\ Take(e)
  BY DEF ClientAppeared, busVars, clientVars, callVars
<1>2. Orderly(todo') /\ e \in Q /\ Q' = Q \ {e}
      /\ \A x \in Q : ~Precedes(x, e)
  BY <1>1, Taken DEF Inv
<1>3. Typed'
  BY <1>1 DEF Inv, Typed
<1>4. ASSUME NEW k \in Calls PROVE CallOK(k)'
  <2>1. CallOK(k)
    BY DEF Inv
  <2>2. /\ <<"dispatch", k>> \in Q' <=> <<"dispatch", k>> \in Q
        /\ <<"handle", k>> \in Q' <=> <<"handle", k>> \in Q
    BY <1>2
  <2> QED
    BY <1>1, <2>1, <2>2 DEF CallOK
<1>5. ASSUME NEW d \in Clients PROVE ClientOK(d)'
  <2>1. ClientOK(d)
    BY DEF Inv
  <2>2. /\ <<"appeared", d>> \in Q' => <<"appeared", d>> \in Q
        /\ <<"disappeared", d>> \in Q' <=> <<"disappeared", d>> \in Q
    BY <1>2
  <2> QED
    BY <1>1, <2>1, <2>2 DEF ClientOK
<1>6. ClientsCounted'
  <2>1. ClientOK(c)
    BY DEF Inv
  <2>2. c \in clients \/ <<"disappeared", c>> \in Q
    BY <1>2, <2>1 DEF ClientOK
  <2>3. \A d \in Clients : d \in Known' <=> d \in Known \union {c}
    BY <1>1, <1>2, <2>2 DEF Known
  <2>4. Known \in SUBSET Clients /\ Known' \in SUBSET Clients
    BY DEF Known
  <2>5. Known' = Known \union {c} /\ c \notin Known
    <3>1. c \notin Known
      BY <1>2 DEF Known
    <3> QED
      BY <2>3, <2>4, <3>1
  <2>6. IsFiniteSet(Known)
    BY <2>4, Finite
  <2>7. Cardinality(Known \union {c}) = Cardinality(Known) + 1
    BY <2>5, <2>6, FS_AddElement
  <2>8. num_clients = Cardinality(Known)
    BY DEF Inv, ClientsCounted
  <2> QED
    BY <1>1, <2>5, <2>7, <2>8 DEF ClientsCounted
<1>7. JobsCounted' /\ RefsExact'
  BY <1>1, SameJobs, SameRefs DEF Inv
<1> QED
  BY <1>2, <1>3, <1>4, <1>5, <1>6, <1>7 DEF Inv

(* The assertion on num_clients holds: the client that disappears is one   *)
(* of those that were counted. *)
LEMMA DisappearedWasKnown ==
    ASSUME Inv, NEW c \in Clients, ClientDisappeared(c)
    PROVE  c \in Known /\ c \notin clients /\ num_clients \in Nat \ {0}
<1> DEFINE e == <<"disappeared", c>>
<1>1. e \in Q /\ \A x \in Q : ~Precedes(x, e)
  BY Taken DEF ClientDisappeared, Inv
<1>2. <<"appeared", c>> \notin Q
  BY <1>1 DEF Precedes
<1>3. c \in Known
  BY <1>1, <1>2 DEF Known
<1>4. c \notin clients
  BY <1>1 DEF Inv, ClientOK
<1>5. IsFiniteSet(Known) /\ Cardinality(Known) \in Nat
  BY Finite, CallsFinite
<1>6. Cardinality(Known) # 0
  BY <1>3, <1>5, FS_EmptySet
<1>7. num_clients = Cardinality(Known)
  BY DEF Inv, ClientsCounted
<1> QED
  BY <1>3, <1>4, <1>5, <1>6, <1>7

LEMMA ClientDisappearedInv ==
    ASSUME Inv, up = "running", NEW c \in Clients, ClientDisappeared(c) PROVE Inv'
<1> DEFINE e == <<"disappeared", c>>
<1>1. /\ UNCHANGED <<connected, asked, clients, uid_state, refs, pc, failed, replies,
                     authority, num_jobs>>
      /\ Take(e)
  BY DEF ClientDisappeared, busVars, clientVars, callVars
<1>2. num_clients' = num_clients - 1
  BY DisappearedWasKnown DEF ClientDisappeared
<1>3. /\ name' \in {"requested", "owned", "lost", "released"}
      /\ up' \in {"running", "finished", "aborted", "crashed"}
  BY DEF ClientDisappeared, MaybeFinished, Inv, Typed
<1>4. Orderly(todo') /\ e \in Q /\ Q' = Q \ {e}
      /\ \A x \in Q : ~Precedes(x, e)
  BY <1>1, Taken DEF Inv
<1>5. Typed'
  BY <1>1, <1>3 DEF Inv, Typed
<1>6. ASSUME NEW k \in Calls PROVE CallOK(k)'
  <2>1. CallOK(k)
    BY DEF Inv
  <2>2. /\ <<"dispatch", k>> \in Q' <=> <<"dispatch", k>> \in Q
        /\ <<"handle", k>> \in Q' <=> <<"handle", k>> \in Q
    BY <1>4
  <2> QED
    BY <1>1, <2>1, <2>2 DEF CallOK
<1>7. <<"appeared", c>> \notin Q
  BY <1>4 DEF Precedes
<1>8. ASSUME NEW d \in Clients PROVE ClientOK(d)'
  <2>1. ClientOK(d)
    BY DEF Inv
  <2>2. /\ <<"appeared", d>> \in Q' => <<"appeared", d>> \in Q /\ d # c
        /\ <<"disappeared", d>> \in Q' => <<"disappeared", d>> \in Q
        /\ d # c /\ <<"disappeared", d>> \in Q => <<"disappeared", d>> \in Q'
    BY <1>4, <1>7
  <2> QED
    BY <1>1, <2>1, <2>2 DEF ClientOK
<1>9. ClientsCounted'
  <2>1. c \in Known /\ c \notin clients
    BY DisappearedWasKnown
  <2>2. \A d \in Clients : d \in Known' <=> d \in Known /\ d # c
    BY <1>1, <1>4, <2>1 DEF Known
  <2>3. Known \in SUBSET Clients /\ Known' \in SUBSET Clients
    BY DEF Known
  <2>4. Known' = Known \ {c}
    BY <2>2, <2>3
  <2>5. IsFiniteSet(Known)
    BY <2>3, Finite
  <2>6. Cardinality(Known \ {c}) = Cardinality(Known) - 1
    BY <2>1, <2>5, FS_RemoveElement
  <2>7. num_clients = Cardinality(Known)
    BY DEF Inv, ClientsCounted
  <2> QED
    BY <1>2, <2>4, <2>6, <2>7 DEF ClientsCounted
<1>10. JobsCounted' /\ RefsExact'
  BY <1>1, SameJobs, SameRefs DEF Inv
<1> QED
  BY <1>4, <1>5, <1>6, <1>8, <1>9, <1>10 DEF Inv

LEMMA DispatchInv == ASSUME Inv, NEW k \in Calls, Dispatch(k) PROVE Inv'
<1> DEFINE e == <<"dispatch", k>>
<1>1. /\ UNCHANGED <<connected, asked, clients, uid_state, refs, failed, replies,
                     authority, name, num_clients, num_jobs, up>>
      /\ pc' = [pc EXCEPT ![k] = "looking"]
      /\ Take(e)
  BY DEF Dispatch, busVars, clientVars, daemonVars
<1>2. Orderly(todo') /\ e \in Q /\ Q' = Q \ {e}
      /\ \A x \in Q : ~Precedes(x, e)
  BY <1>1, Taken DEF Inv
<1>3. /\ Caller[k] \in Clients /\ pc[k] = "queued"
      /\ <<"appeared", Caller[k]>> \notin Q
  BY <1>2, CallsFinite DEF Inv, CallOK, Precedes
<1>4. /\ \A j \in Calls : pc'[j] = IF j = k THEN "looking" ELSE pc[j]
      /\ pc' \in [Calls -> Stages]
  BY <1>1 DEF Inv, Typed, Stages
<1>5. Typed'
  BY <1>1, <1>4 DEF Inv, Typed
<1>6. ASSUME NEW j \in Calls PROVE CallOK(j)'
  <2>1. CallOK(j)
    BY DEF Inv
  <2>2. /\ <<"dispatch", j>> \in Q' <=> <<"dispatch", j>> \in Q /\ j # k
        /\ <<"handle", j>> \in Q' <=> <<"handle", j>> \in Q
    BY <1>2
  <2> QED
    BY <1>1, <1>3, <1>4, <2>1, <2>2 DEF CallOK
<1>7. ASSUME NEW d \in Clients PROVE ClientOK(d)'
  <2>1. ClientOK(d)
    BY DEF Inv
  <2>2. /\ <<"appeared", d>> \in Q' => <<"appeared", d>> \in Q /\ d # Caller[k]
        /\ <<"disappeared", d>> \in Q' <=> <<"disappeared", d>> \in Q
    BY <1>2, <1>3
  <2> QED
    BY <1>1, <1>4, <2>1, <2>2 DEF ClientOK
<1>8. ClientsCounted'
  BY <1>1, <1>2, SameClients DEF Inv
<1>9. JobsCounted' /\ RefsExact'
  BY <1>1, <1>3, <1>4, SameJobs, SameRefs DEF Inv
<1> QED
  BY <1>2, <1>5, <1>6, <1>7, <1>8, <1>9 DEF Inv
-----------------------------------------------------------------------------
(* The calls that hold a reference to their caller's record. *)
Holds(k) == pc[k] \in {"waiting", "woken", "checking"} \/ failed[k] = "uid"

LEMMA RefTaken ==
    ASSUME Typed, RefsExact, clients' = clients, NEW k \in Calls,
           ~Holds(k), Holds(k)', \A j \in Calls \ {k} : Holds(j)' <=> Holds(j),
           refs' = [refs EXCEPT ![Caller[k]] = @ + 1]
    PROVE  RefsExact'
<1>1. Caller[k] \in Clients /\ refs \in [Clients -> Int]
  BY CallsFinite DEF Typed
<1>2. ASSUME NEW c \in Clients
      PROVE  refs'[c] = Cardinality(Holders(c)') + IF c \in clients' THEN 1 ELSE 0
  <2>1. refs[c] = Cardinality(Holders(c)) + IF c \in clients THEN 1 ELSE 0
    BY DEF RefsExact
  <2>2. /\ Holders(c) \in SUBSET Calls /\ Holders(c)' \in SUBSET Calls
        /\ \A j \in Calls : /\ j \in Holders(c) <=> (Caller[j] = c /\ Holds(j))
                            /\ j \in Holders(c)' <=> (Caller[j] = c /\ Holds(j)')
    BY DEF Holders, Holds
  <2>3. IsFiniteSet(Holders(c)) /\ Cardinality(Holders(c)) \in Nat
    BY <2>2, Finite
  <2>4. CASE c = Caller[k]
    <3>1. k \notin Holders(c) /\ Holders(c)' = Holders(c) \union {k}
      BY <2>2, <2>4
    <3>2. Cardinality(Holders(c)') = Cardinality(Holders(c)) + 1
      BY <2>3, <3>1, FS_AddElement
    <3> QED
      BY <1>1, <2>1, <2>3, <2>4, <3>2
  <2>5. CASE c # Caller[k]
    <3>1. Holders(c)' = Holders(c)
      BY <2>2, <2>5
    <3>2. refs'[c] = refs[c]
      BY <1>1, <2>5
    <3> QED
      BY <2>1, <3>1, <3>2
  <2> QED
    BY <2>4, <2>5
<1> QED
  BY <1>2 DEF RefsExact

LEMMA RefGiven ==
    ASSUME Typed, RefsExact, clients' = clients, NEW k \in Calls,
           Holds(k), ~Holds(k)', \A j \in Calls \ {k} : Holds(j)' <=> Holds(j),
           refs' = [refs EXCEPT ![Caller[k]] = @ - 1]
    PROVE  RefsExact'
<1>1. Caller[k] \in Clients /\ refs \in [Clients -> Int]
  BY CallsFinite DEF Typed
<1>2. ASSUME NEW c \in Clients
      PROVE  refs'[c] = Cardinality(Holders(c)') + IF c \in clients' THEN 1 ELSE 0
  <2>1. refs[c] = Cardinality(Holders(c)) + IF c \in clients THEN 1 ELSE 0
    BY DEF RefsExact
  <2>2. /\ Holders(c) \in SUBSET Calls /\ Holders(c)' \in SUBSET Calls
        /\ \A j \in Calls : /\ j \in Holders(c) <=> (Caller[j] = c /\ Holds(j))
                            /\ j \in Holders(c)' <=> (Caller[j] = c /\ Holds(j)')
    BY DEF Holders, Holds
  <2>3. IsFiniteSet(Holders(c)) /\ Cardinality(Holders(c)) \in Nat
    BY <2>2, Finite
  <2>4. CASE c = Caller[k]
    <3>1. k \in Holders(c) /\ Holders(c)' = Holders(c) \ {k}
      BY <2>2, <2>4
    <3>2. Cardinality(Holders(c)') = Cardinality(Holders(c)) - 1
      BY <2>3, <3>1, FS_RemoveElement
    <3> QED
      BY <1>1, <2>1, <2>3, <2>4, <3>2
  <2>5. CASE c # Caller[k]
    <3>1. Holders(c)' = Holders(c)
      BY <2>2, <2>5
    <3>2. refs'[c] = refs[c]
      BY <1>1, <2>5
    <3> QED
      BY <2>1, <3>1, <3>2
  <2> QED
    BY <2>4, <2>5
<1> QED
  BY <1>2 DEF RefsExact

(* A call that may go on is queued for its handler, once. *)
LEMMA HandleAppended ==
    ASSUME Inv, NEW k \in Calls, pc[k] # "passed",
           todo' = Append(todo, <<"handle", k>>)
    PROVE  Orderly(todo') /\ Q' = Q \union {<<"handle", k>>}
<1> DEFINE h == <<"handle", k>>
<1>1. h \in Sources /\ h \notin Q /\ Orderly(todo)
  BY DEF Sources, Inv, CallOK
<1>2. \A y \in Elems(todo) : ~Precedes(h, y)
  BY DEF Precedes
<1>3. h \notin Elems(todo)
  BY <1>1 DEF Q
<1> HIDE DEF h
<1>4. Orderly(Append(todo, h)) /\ Elems(Append(todo, h)) = Elems(todo) \union {h}
  BY <1>1, <1>2, <1>3, Appended
<1> QED
  BY <1>4 DEF Q, h
-----------------------------------------------------------------------------
LEMMA ClientVanishedInv ==
    ASSUME Inv, NEW c \in Clients, ClientVanished(c) PROVE Inv'
<1> DEFINE e == <<"disappeared", c>>
<1>1. /\ UNCHANGED <<connected, asked, uid_state, pc, failed, replies, authority, name,
                     num_clients, num_jobs, up>>
      /\ c \in clients /\ c \notin connected
      /\ clients' = clients \ {c} /\ refs' = [refs EXCEPT ![c] = @ - 1]
      /\ todo' = Append(todo, e)
  BY DEF ClientVanished, busVars, callVars, daemonVars
<1>2. e \notin Q /\ e \in Sources /\ Orderly(todo)
  BY <1>1 DEF Inv, ClientOK, Sources
<1>3. Orderly(todo') /\ Q' = Q \union {e}
  <2>1. e \notin Elems(todo) /\ \A y \in Elems(todo) : ~Precedes(e, y)
    BY <1>2 DEF Precedes, Q
  <2> HIDE DEF e
  <2>2. Orderly(Append(todo, e)) /\ Elems(Append(todo, e)) = Elems(todo) \union {e}
    BY <1>2, <2>1, Appended
  <2> QED
    BY <1>1, <2>2 DEF Q
<1>4. Typed'
  <2>1. refs' \in [Clients -> Int]
    BY <1>1 DEF Inv, Typed
  <2> QED
    BY <1>1, <2>1 DEF Inv, Typed
<1>5. ASSUME NEW k \in Calls PROVE CallOK(k)'
  <2>1. CallOK(k)
    BY DEF Inv
  <2>2. /\ <<"dispatch", k>> \in Q' <=> <<"dispatch", k>> \in Q
        /\ <<"handle", k>> \in Q' <=> <<"handle", k>> \in Q
    BY <1>3
  <2> QED
    BY <1>1, <2>1, <2>2 DEF CallOK
<1>6. ASSUME NEW d \in Clients PROVE ClientOK(d)'
  <2>1. ClientOK(d)
    BY DEF Inv
  <2>2. /\ <<"appeared", d>> \in Q' => <<"appeared", d>> \in Q
        /\ <<"disappeared", d>> \in Q' => (d = c \/ <<"disappeared", d>> \in Q)
        /\ <<"disappeared", d>> \in Q => <<"disappeared", d>> \in Q'
        /\ <<"disappeared", c>> \in Q'
    BY <1>3
  <2> QED
    BY <1>1, <2>1, <2>2 DEF ClientOK
<1>7. ClientsCounted'
  <2>1. \A d \in Clients : d \in Known' <=> d \in Known
    BY <1>1, <1>3 DEF Known
  <2>2. Known' = Known
    BY <2>1 DEF Known
  <2> QED
    BY <1>1, <2>2 DEF Inv, ClientsCounted
<1>8. JobsCounted'
  BY <1>1, SameJobs DEF Inv
<1>9. RefsExact'
  <2>1. ASSUME NEW d \in Clients
        PROVE  refs'[d] = Cardinality(Holders(d)') + IF d \in clients' THEN 1 ELSE 0
    <3>1. Holders(d)' = Holders(d)
      BY <1>1 DEF Holders
    <3>2. Cardinality(Holders(d)) \in Nat
      BY Finite, CallsFinite
    <3>3. refs[d] = Cardinality(Holders(d)) + IF d \in clients THEN 1 ELSE 0
      BY DEF Inv, RefsExact
    <3>4. refs'[d] = IF d = c THEN refs[d] - 1 ELSE refs[d]
      BY <1>1 DEF Inv, Typed
    <3> QED
      BY <1>1, <3>1, <3>2, <3>3, <3>4
  <2> QED
    BY <2>1 DEF RefsExact
<1> QED
  BY <1>3, <1>4, <1>5, <1>6, <1>7, <1>8, <1>9 DEF Inv

(* A call of a client the table knows. *)
LEMMA FilterKnownInv ==
    ASSUME Inv, NEW k \in Calls, Filter(k), Caller[k] \in clients PROVE Inv'
<1> DEFINE e == <<"dispatch", k>>
<1>1. /\ UNCHANGED <<connected, asked, clients, uid_state, refs, failed, replies,
                     authority, name, num_clients, num_jobs, up>>
      /\ pc[k] = "none" /\ pc' = [pc EXCEPT ![k] = "queued"]
      /\ todo' = Append(todo, e)
  BY DEF Filter, busVars, clientVars, daemonVars
<1>2. e \notin Q /\ e \in Sources /\ Orderly(todo)
  BY <1>1 DEF Inv, CallOK, Sources
<1>3. Orderly(todo') /\ Q' = Q \union {e}
  <2>1. e \notin Elems(todo) /\ \A y \in Elems(todo) : ~Precedes(e, y)
    BY <1>2 DEF Precedes, Q
  <2> HIDE DEF e
  <2>2. Orderly(Append(todo, e)) /\ Elems(Append(todo, e)) = Elems(todo) \union {e}
    BY <1>2, <2>1, Appended
  <2> QED
    BY <1>1, <2>2 DEF Q
<1>4. /\ \A j \in Calls : pc'[j] = IF j = k THEN "queued" ELSE pc[j]
      /\ pc' \in [Calls -> Stages]
  BY <1>1 DEF Inv, Typed, Stages
<1>5. Typed'
  BY <1>1, <1>4 DEF Inv, Typed
<1>6. uid_state[Caller[k]] # "none"
  BY CallsFinite DEF Inv, ClientOK
<1>7. ASSUME NEW j \in Calls PROVE CallOK(j)'
  <2>1. CallOK(j)
    BY DEF Inv
  <2>2. /\ <<"dispatch", j>> \in Q' <=> (<<"dispatch", j>> \in Q \/ j = k)
        /\ <<"handle", j>> \in Q' <=> <<"handle", j>> \in Q
    BY <1>3
  <2> QED
    BY <1>1, <1>4, <1>6, <2>1, <2>2 DEF CallOK
<1>8. ASSUME NEW d \in Clients PROVE ClientOK(d)'
  <2>1. ClientOK(d)
    BY DEF Inv
  <2>2. /\ <<"appeared", d>> \in Q' => <<"appeared", d>> \in Q
        /\ <<"disappeared", d>> \in Q' <=> <<"disappeared", d>> \in Q
    BY <1>3
  <2> QED
    BY <1>1, <1>4, <2>1, <2>2 DEF ClientOK
<1>9. ClientsCounted'
  BY <1>1, <1>3, SameClients DEF Inv
<1>10. JobsCounted' /\ RefsExact'
  BY <1>1, <1>4, SameJobs, SameRefs DEF Inv
<1> QED
  BY <1>3, <1>5, <1>7, <1>8, <1>9, <1>10 DEF Inv

(* The first call of a client: nothing of this client was ever queued. *)
LEMMA FilterNewInv ==
    ASSUME Inv, NEW k \in Calls, Filter(k), Caller[k] \notin clients PROVE Inv'
<1> DEFINE c == Caller[k]
           a == <<"appeared", c>>
           e == <<"dispatch", k>>
<1>1. /\ UNCHANGED <<connected, failed, replies, authority, name, num_clients,
                     num_jobs, up>>
      /\ pc[k] = "none" /\ c \in connected
      /\ clients' = clients \union {c} /\ asked' = asked \union {c}
      /\ uid_state' = [uid_state EXCEPT ![c] = "loading"]
      /\ refs' = [refs EXCEPT ![c] = 1]
      /\ pc' = [pc EXCEPT ![k] = "queued"]
      /\ todo' = Append(Append(todo, a), e)
  BY DEF Filter, daemonVars
<1>2. c \in Clients /\ uid_state[c] = "none"
  BY <1>1, CallsFinite DEF Inv, ClientOK
<1>3. \A j \in Calls : Caller[j] = c =>
         pc[j] = "none" /\ failed[j] = "no" /\ <<"dispatch", j>> \notin Q
  BY <1>2 DEF Inv, CallOK
<1>4. a \notin Q /\ <<"disappeared", c>> \notin Q /\ e \notin Q
  BY <1>1, <1>2, <1>3 DEF Inv, ClientOK
<1>5. a \in Sources /\ e \in Sources /\ a # e /\ Orderly(todo)
  BY <1>2 DEF Inv, Sources
<1>6. Orderly(todo') /\ Q' = Q \union {a, e}
  <2> DEFINE u == Append(todo, a)
  <2>1. a \notin Elems(todo) /\ \A y \in Elems(todo) : ~Precedes(a, y)
    BY <1>3, <1>4 DEF Precedes, Q
  <2>2. \A y : ~Precedes(e, y)
    BY DEF Precedes
  <2> HIDE DEF a, e
  <2>3. Orderly(Append(todo, a)) /\ Elems(Append(todo, a)) = Elems(todo) \union {a}
    BY <1>5, <2>1, Appended
  <2> HIDE DEF u
  <2>4. Orderly(u) /\ Elems(u) = Q \union {a}
    BY <2>3 DEF u, Q
  <2>5. e \notin Elems(u)
    BY <1>4, <1>5, <2>4
  <2>6. Orderly(Append(u, e)) /\ Elems(Append(u, e)) = Elems(u) \union {e}
    BY <1>5, <2>2, <2>4, <2>5, Appended
  <2> QED
    BY <1>1, <2>4, <2>6 DEF Q, u
<1>7. /\ \A j \in Calls : pc'[j] = IF j = k THEN "queued" ELSE pc[j]
      /\ pc' \in [Calls -> Stages]
  BY <1>1 DEF Inv, Typed, Stages
<1>8. /\ \A d \in Clients : uid_state'[d] = IF d = c THEN "loading" ELSE uid_state[d]
      /\ \A d \in Clients : refs'[d] = IF d = c THEN 1 ELSE refs[d]
      /\ uid_state' \in [Clients -> {"none", "loading", "valid", "failed"}]
      /\ refs' \in [Clients -> Int]
  BY <1>1, <1>2 DEF Inv, Typed
<1>9. Typed'
  BY <1>1, <1>2, <1>7, <1>8 DEF Inv, Typed
<1>10. ASSUME NEW j \in Calls PROVE CallOK(j)'
  <2>1. CallOK(j) /\ Caller[j] \in Clients
    BY CallsFinite DEF Inv
  <2>2. /\ <<"dispatch", j>> \in Q' <=> (<<"dispatch", j>> \in Q \/ j = k)
        /\ <<"handle", j>> \in Q' <=> <<"handle", j>> \in Q
    BY <1>6
  <2>3. CASE Caller[j] = c
    <3>1. pc'[j] \in {"none", "queued"} /\ failed'[j] = "no" /\ replies'[j] = 0
      BY <1>1, <1>3, <1>7, <2>1, <2>3 DEF CallOK
    <3>2. uid_state'[Caller[j]] # "none"
      BY <1>2, <1>8, <2>3
    <3>3. /\ <<"dispatch", j>> \in Q' <=> pc'[j] = "queued"
          /\ <<"handle", j>> \in Q' <=> pc'[j] = "passed"
      BY <1>3, <1>7, <2>1, <2>2, <2>3 DEF CallOK
    <3> QED
      BY <3>1, <3>2, <3>3 DEF CallOK
  <2>4. CASE Caller[j] # c
    <3>1. /\ pc'[j] = pc[j] /\ failed'[j] = failed[j] /\ replies'[j] = replies[j]
          /\ uid_state'[Caller[j]] = uid_state[Caller[j]] /\ j # k
          /\ Caller[j] \in clients' <=> Caller[j] \in clients
      BY <1>1, <1>7, <1>8, <2>1, <2>4
    <3> QED
      BY <2>1, <2>2, <3>1 DEF CallOK
  <2> QED
    BY <2>3, <2>4
<1>11. ASSUME NEW d \in Clients PROVE ClientOK(d)'
  <2>1. ClientOK(d)
    BY DEF Inv
  <2>2. /\ <<"appeared", d>> \in Q' => (<<"appeared", d>> \in Q \/ d = c)
        /\ <<"disappeared", d>> \in Q' <=> <<"disappeared", d>> \in Q
    BY <1>6
  <2>3. CASE d = c
    <3>1. d \in clients' /\ uid_state'[d] = "loading" /\ <<"disappeared", d>> \notin Q'
      BY <1>1, <1>4, <1>8, <2>2, <2>3
    <3>2. \A j \in Calls : Caller[j] = d => pc'[j] \in {"none", "queued"}
      BY <1>3, <1>7, <2>3
    <3> QED
      BY <3>1, <3>2 DEF ClientOK
  <2>4. CASE d # c
    <3>1. \A j \in Calls : Caller[j] = d => pc'[j] = pc[j]
      BY <1>7, <2>4
    <3> QED
      BY <1>1, <1>8, <2>1, <2>2, <2>4, <3>1 DEF ClientOK
  <2> QED
    BY <2>3, <2>4
<1>12. ClientsCounted'
  <2>1. \A d \in Clients : d \in Known' <=> d \in Known
    BY <1>1, <1>4, <1>6 DEF Known
  <2>2. Known' = Known
    BY <2>1 DEF Known
  <2> QED
    BY <1>1, <2>2 DEF Inv, ClientsCounted
<1>13. JobsCounted'
  BY <1>1, <1>7, SameJobs DEF Inv
<1>14. RefsExact'
  <2>1. ASSUME NEW d \in Clients
        PROVE  refs'[d] = Cardinality(Holders(d)') + IF d \in clients' THEN 1 ELSE 0
    <3>1. Holders(d)' = Holders(d)
      BY <1>1, <1>7 DEF Holders
    <3>2. Cardinality(Holders(d)) \in Nat
      BY Finite, CallsFinite
    <3>3. refs[d] = Cardinality(Holders(d)) + IF d \in clients THEN 1 ELSE 0
      BY DEF Inv, RefsExact
    <3>4. CASE d = c
      <4>1. Holders(d) = {}
        BY <1>3, <3>4 DEF Holders
      <4>2. Cardinality(Holders(d)') = 0
        BY <3>1, <4>1, FS_EmptySet
      <4> QED
        BY <1>1, <1>8, <3>4, <4>2
    <3>5. CASE d # c
      BY <1>1, <1>8, <3>1, <3>2, <3>3, <3>5
    <3> QED
      BY <3>4, <3>5
  <2> QED
    BY <2>1 DEF RefsExact
<1> QED
  BY <1>6, <1>9, <1>10, <1>11, <1>12, <1>13, <1>14 DEF Inv
-----------------------------------------------------------------------------
(* A step of the thread that authorizes call k: what it must establish. *)
LEMMA ThreadStep ==
    ASSUME Inv, NEW k \in Calls,
           UNCHANGED <<connected, asked, clients, uid_state, authority, name,
                       num_clients, num_jobs>>,
           Typed', Orderly(todo'),
           Q' = Q \/ Q' = Q \union {<<"handle", k>>},
           \A j \in Calls \ {k} : /\ pc'[j] = pc[j] /\ failed'[j] = failed[j]
                                  /\ replies'[j] = replies[j],
           pc[k] \notin {"none", "queued", "running"},
           pc'[k] \notin {"none", "queued", "running"},
           CallOK(k)', RefsExact'
    PROVE  Inv'
<1>1. ASSUME NEW j \in Calls PROVE CallOK(j)'
  <2>1. CASE j = k
    BY <2>1
  <2>2. CASE j # k
    <3>1. CallOK(j) /\ pc'[j] = pc[j] /\ failed'[j] = failed[j] /\ replies'[j] = replies[j]
      BY <2>2 DEF Inv
    <3>2. /\ <<"dispatch", j>> \in Q' <=> <<"dispatch", j>> \in Q
          /\ <<"handle", j>> \in Q' <=> <<"handle", j>> \in Q
      BY <2>2
    <3> QED
      BY <3>1, <3>2 DEF CallOK
  <2> QED
    BY <2>1, <2>2
<1>2. ASSUME NEW d \in Clients PROVE ClientOK(d)'
  <2>1. ClientOK(d)
    BY DEF Inv
  <2>2. /\ <<"appeared", d>> \in Q' <=> <<"appeared", d>> \in Q
        /\ <<"disappeared", d>> \in Q' <=> <<"disappeared", d>> \in Q
    OBVIOUS
  <2>3. \A j \in Calls : pc[j] \in {"none", "queued"} => pc'[j] = pc[j]
    OBVIOUS
  <2> QED
    BY <2>1, <2>2, <2>3 DEF ClientOK
<1>3. ClientsCounted'
  BY SameClients DEF Inv
<1>4. JobsCounted'
  BY SameJobs DEF Inv
<1> QED
  BY <1>1, <1>2, <1>3, <1>4 DEF Inv

LEMMA LookupInv == ASSUME Inv, NEW k \in Calls, Lookup(k) PROVE Inv'
<1> DEFINE c == Caller[k]
<1>1. /\ UNCHANGED <<connected, asked, clients, uid_state, authority, name,
                     num_clients, num_jobs, up>>
      /\ pc[k] \in {"looking", "woken"}
      /\ c \in Clients /\ failed[k] = "no" /\ CallOK(k)
  <2>1. CallOK(k) /\ pc[k] \in {"looking", "woken"}
    BY DEF Inv, Lookup
  <2> QED
    BY <2>1, CallsFinite DEF Lookup, busVars, daemonVars, CallOK
<1>2. \/ pc[k] = "looking" /\ refs' = [refs EXCEPT ![c] = @ + 1]
      \/ pc[k] = "woken" /\ refs' = refs
  BY DEF Lookup
<1>3. refs' \in [Clients -> Int]
  BY <1>2 DEF Inv, Typed
<1>4. ASSUME NEW j \in Calls PROVE pc[j] \in Stages /\ failed[j] \in {"no", "caller", "uid"}
                                   /\ replies[j] \in Nat
  BY DEF Inv, Typed
<1>5. CASE uid_state[c] \in {"loading", "valid"}
  <2> DEFINE s == IF uid_state[c] = "loading" THEN "waiting" ELSE "checking"
  <2>1. /\ UNCHANGED <<failed, replies, todo>> /\ pc' = [pc EXCEPT ![k] = s]
        /\ Q' = Q
    BY <1>5 DEF Lookup, Q
  <2>2. s \in {"waiting", "checking"} /\ (s = "checking" => uid_state[c] = "valid")
    BY <1>5
  <2> HIDE DEF s
  <2>3. /\ pc' \in [Calls -> Stages] /\ pc'[k] = s
        /\ \A j \in Calls \ {k} : pc'[j] = pc[j]
    BY <2>1, <2>2 DEF Inv, Typed, Stages
  <2>4. Typed'
    BY <1>1, <1>3, <2>1, <2>3 DEF Inv, Typed
  <2>5. CallOK(k)'
    BY <1>1, <2>1, <2>2, <2>3 DEF CallOK
  <2>6. RefsExact'
    <3>1. CASE pc[k] = "looking"
      <4>1. ~Holds(k) /\ Holds(k)' /\ \A j \in Calls \ {k} : Holds(j)' <=> Holds(j)
        BY <1>1, <2>1, <2>2, <2>3, <3>1 DEF Holds
      <4> QED
        BY <1>1, <1>2, <3>1, <4>1, RefTaken DEF Inv
    <3>2. CASE pc[k] = "woken"
      <4>1. refs' = refs
        BY <1>2, <3>2
      <4>2. ASSUME NEW j \in Calls
            PROVE  (pc'[j] \in {"waiting", "woken", "checking"} \/ failed'[j] = "uid")
                   <=> (pc[j] \in {"waiting", "woken", "checking"} \/ failed[j] = "uid")
        BY <2>1, <2>2, <2>3, <3>2
      <4> QED
        BY <1>1, <4>1, <4>2, SameRefs DEF Inv
    <3> QED
      BY <1>1, <3>1, <3>2
  <2>7. /\ pc[k] \notin {"none", "queued", "running"}
        /\ pc'[k] \notin {"none", "queued", "running"}
    BY <1>1, <2>2, <2>3
  <2>8. Orderly(todo')
    BY <2>1 DEF Inv
  <2> QED
    BY <1>1, <2>1, <2>3, <2>4, <2>5, <2>6, <2>7, <2>8, ThreadStep
<1>6. CASE uid_state[c] = "failed"
  <2>1. /\ pc' = [pc EXCEPT ![k] = "passed"] /\ failed' = [failed EXCEPT ![k] = "uid"]
        /\ replies' = [replies EXCEPT ![k] = @ + 1]
        /\ todo' = Append(todo, <<"handle", k>>)
    BY <1>6 DEF Lookup, FailLookup
  <2>2. /\ pc' \in [Calls -> Stages] /\ failed' \in [Calls -> {"no", "caller", "uid"}]
        /\ replies' \in [Calls -> Nat]
        /\ pc'[k] = "passed" /\ failed'[k] = "uid"
        /\ \A j \in Calls \ {k} : /\ pc'[j] = pc[j] /\ failed'[j] = failed[j]
                                  /\ replies'[j] = replies[j]
    BY <2>1 DEF Inv, Typed, Stages
  <2>3. Orderly(todo') /\ Q' = Q \union {<<"handle", k>>}
    BY <1>1, <2>1, HandleAppended
  <2>4. Typed'
    BY <1>1, <1>3, <2>2 DEF Inv, Typed
  <2>5. CallOK(k)'
    <3>1. <<"handle", k>> \in Q' /\ <<"dispatch", k>> \notin Q'
      BY <1>1, <2>3 DEF CallOK
    <3> QED
      BY <1>1, <1>6, <2>2, <3>1 DEF CallOK
  <2>6. RefsExact'
    <3>1. CASE pc[k] = "looking"
      <4>1. ~Holds(k) /\ Holds(k)' /\ \A j \in Calls \ {k} : Holds(j)' <=> Holds(j)
        BY <1>1, <2>2, <3>1 DEF Holds
      <4> QED
        BY <1>1, <1>2, <3>1, <4>1, RefTaken DEF Inv
    <3>2. CASE pc[k] = "woken"
      <4>1. refs' = refs
        BY <1>2, <3>2
      <4>2. ASSUME NEW j \in Calls
            PROVE  (pc'[j] \in {"waiting", "woken", "checking"} \/ failed'[j] = "uid")
                   <=> (pc[j] \in {"waiting", "woken", "checking"} \/ failed[j] = "uid")
        BY <2>2, <3>2
      <4> QED
        BY <1>1, <4>1, <4>2, SameRefs DEF Inv
    <3> QED
      BY <1>1, <3>1, <3>2
  <2>7. /\ pc[k] \notin {"none", "queued", "running"}
        /\ pc'[k] \notin {"none", "queued", "running"}
    BY <1>1, <2>2
  <2> QED
    BY <1>1, <2>2, <2>3, <2>4, <2>5, <2>6, <2>7, ThreadStep
<1> QED
  BY <1>5, <1>6 DEF Lookup

LEMMA LookupUnknownInv == ASSUME Inv, NEW k \in Calls, LookupUnknown(k) PROVE Inv'
<1>1. /\ UNCHANGED <<connected, asked, clients, uid_state, refs, authority, name,
                     num_clients, num_jobs, up>>
      /\ pc[k] = "looking" /\ Caller[k] \notin clients
      /\ pc' = [pc EXCEPT ![k] = "passed"] /\ failed' = [failed EXCEPT ![k] = "caller"]
      /\ replies' = [replies EXCEPT ![k] = @ + 1]
      /\ todo' = Append(todo, <<"handle", k>>)
  BY DEF LookupUnknown, FailLookup, busVars, clientVars, daemonVars
<1>2. CallOK(k) /\ failed[k] = "no"
  BY <1>1 DEF Inv, CallOK
<1>3. /\ pc' \in [Calls -> Stages] /\ failed' \in [Calls -> {"no", "caller", "uid"}]
      /\ replies' \in [Calls -> Nat]
      /\ pc'[k] = "passed" /\ failed'[k] = "caller"
      /\ \A j \in Calls \ {k} : /\ pc'[j] = pc[j] /\ failed'[j] = failed[j]
                                /\ replies'[j] = replies[j]
  BY <1>1 DEF Inv, Typed, Stages
<1>4. Orderly(todo') /\ Q' = Q \union {<<"handle", k>>}
  BY <1>1, HandleAppended
<1>5. Typed'
  BY <1>1, <1>3 DEF Inv, Typed
<1>6. CallOK(k)'
  <2>1. <<"handle", k>> \in Q' /\ <<"dispatch", k>> \notin Q'
    BY <1>1, <1>2, <1>4 DEF CallOK
  <2> QED
    BY <1>1, <1>2, <1>3, <2>1 DEF CallOK
<1>7. RefsExact'
  <2>1. ASSUME NEW j \in Calls
        PROVE  (pc'[j] \in {"waiting", "woken", "checking"} \/ failed'[j] = "uid")
               <=> (pc[j] \in {"waiting", "woken", "checking"} \/ failed[j] = "uid")
    BY <1>1, <1>2, <1>3
  <2> QED
    BY <1>1, <2>1, SameRefs DEF Inv
<1>8. /\ pc[k] \notin {"none", "queued", "running"}
      /\ pc'[k] \notin {"none", "queued", "running"}
  BY <1>1, <1>3
<1> QED
  BY <1>1, <1>3, <1>4, <1>5, <1>6, <1>7, <1>8, ThreadStep

LEMMA CheckAuthorizationInv ==
    ASSUME Inv, NEW k \in Calls, CheckAuthorization(k) PROVE Inv'
<1>1. /\ UNCHANGED <<connected, asked, clients, uid_state, failed, authority, name,
                     num_clients, num_jobs>>
      /\ pc[k] = "checking" /\ refs' = [refs EXCEPT ![Caller[k]] = @ - 1]
      /\ up' \in {"running", "crashed", up}
  BY DEF CheckAuthorization, busVars, daemonVars
<1>2. /\ CallOK(k) /\ failed[k] = "no" /\ uid_state[Caller[k]] = "valid"
      /\ replies[k] = 0 /\ up \in {"running", "finished", "aborted", "crashed"}
  BY <1>1 DEF Inv, CallOK, Typed
<1>3. \/ /\ pc' = [pc EXCEPT ![k] = "passed"] /\ replies' = replies
         /\ todo' = Append(todo, <<"handle", k>>)
      \/ /\ pc' = [pc EXCEPT ![k] = "done"]
         /\ replies' = [replies EXCEPT ![k] = @ + 1] /\ todo' = todo
  BY DEF CheckAuthorization, WithoutPolkit, Authorize, Refuse
<1>4. refs' \in [Clients -> Int]
  <2>1. refs \in [Clients -> Int] /\ Caller[k] \in Clients
    BY CallsFinite DEF Inv, Typed
  <2>2. refs[Caller[k]] - 1 \in Int
    BY <2>1
  <2> QED
    BY <1>1, <2>1, <2>2
<1>5. /\ pc' \in [Calls -> Stages] /\ replies' \in [Calls -> Nat]
      /\ pc'[k] \in {"passed", "done"}
      /\ replies'[k] = IF pc'[k] = "done" THEN 1 ELSE 0
      /\ \A j \in Calls \ {k} : pc'[j] = pc[j] /\ replies'[j] = replies[j]
  <2>1. pc \in [Calls -> Stages] /\ replies \in [Calls -> Nat]
    BY DEF Inv, Typed
  <2>2. CASE pc' = [pc EXCEPT ![k] = "passed"] /\ replies' = replies
    BY <1>2, <2>1, <2>2 DEF Stages
  <2>3. CASE /\ pc' = [pc EXCEPT ![k] = "done"]
             /\ replies' = [replies EXCEPT ![k] = @ + 1]
    <3>1. pc' \in [Calls -> Stages] /\ replies' \in [Calls -> Nat]
      BY <2>1, <2>3 DEF Stages
    <3>2. pc'[k] = "done" /\ replies'[k] = 1
      BY <1>2, <2>1, <2>3
    <3> QED
      BY <2>1, <2>3, <3>1, <3>2
  <2> QED
    BY <1>3, <2>2, <2>3
<1>6. /\ Orderly(todo')
      /\ \/ pc'[k] = "passed" /\ Q' = Q \union {<<"handle", k>>}
         \/ pc'[k] = "done" /\ Q' = Q
  <2>1. CASE todo' = Append(todo, <<"handle", k>>) /\ pc' = [pc EXCEPT ![k] = "passed"]
    <3>1. Orderly(todo') /\ Q' = Q \union {<<"handle", k>>}
      BY <1>1, <2>1, HandleAppended
    <3> QED
      BY <2>1, <3>1 DEF Inv, Typed
  <2>2. CASE todo' = todo /\ pc' = [pc EXCEPT ![k] = "done"]
    BY <2>2 DEF Inv, Typed, Q
  <2> QED
    BY <1>3, <2>1, <2>2
<1>7. Typed'
  BY <1>1, <1>2, <1>4, <1>5 DEF Inv, Typed
<1>8. CallOK(k)'
  <2>1. <<"handle", k>> \notin Q /\ <<"dispatch", k>> \notin Q
    BY <1>1, <1>2 DEF CallOK
  <2>2. <<"dispatch", k>> \notin Q' /\ (<<"handle", k>> \in Q' <=> pc'[k] = "passed")
    BY <1>6, <2>1
  <2> QED
    BY <1>1, <1>2, <1>5, <2>2 DEF CallOK
<1>9. RefsExact'
  <2>1. Holds(k) /\ ~Holds(k)' /\ \A j \in Calls \ {k} : Holds(j)' <=> Holds(j)
    BY <1>1, <1>2, <1>5 DEF Holds
  <2> QED
    BY <1>1, <2>1, RefGiven DEF Inv
<1>10. /\ pc[k] \notin {"none", "queued", "running"}
       /\ pc'[k] \notin {"none", "queued", "running"}
  BY <1>1, <1>5
<1> QED
  BY <1>1, <1>5, <1>6, <1>7, <1>8, <1>9, <1>10, ThreadStep
-----------------------------------------------------------------------------
LEMMA HandleLaunchingInv ==
    ASSUME Inv, NEW k \in Calls, HandleLaunching(k) PROVE Inv'
<1> DEFINE e == <<"handle", k>>
<1>1. /\ UNCHANGED <<connected, asked, clients, uid_state, refs, failed, replies,
                     authority, name, num_clients>>
      /\ Take(e)
  BY DEF HandleLaunching, busVars, clientVars
<1>2. Orderly(todo') /\ e \in Q /\ Q' = Q \ {e}
  BY <1>1, Taken DEF Inv
<1>3. /\ CallOK(k) /\ pc[k] = "passed" /\ Caller[k] \in Clients
      /\ up \in {"running", "finished", "aborted", "crashed"}
  BY <1>2, CallsFinite DEF Inv, CallOK, Typed
<1>4. /\ up' \in {"running", "finished", "aborted", "crashed"}
      /\ \/ pc' = [pc EXCEPT ![k] = "handling"] /\ num_jobs' = num_jobs
         \/ /\ pc' = [pc EXCEPT ![k] = "running"] /\ num_jobs' = num_jobs + 1
            /\ Caller[k] \in clients
  <2>1. up' \in {up, "aborted", "crashed"}
    BY DEF HandleLaunching, Stale
  <2> QED
    BY <1>3, <2>1 DEF HandleLaunching
<1>5. /\ pc' \in [Calls -> Stages] /\ pc'[k] \in {"handling", "running"}
      /\ \A j \in Calls \ {k} : pc'[j] = pc[j]
  BY <1>4 DEF Inv, Typed, Stages
<1>6. Typed'
  BY <1>1, <1>4, <1>5 DEF Inv, Typed
<1>7. ASSUME NEW j \in Calls PROVE CallOK(j)'
  <2>1. CallOK(j)
    BY DEF Inv
  <2>2. /\ <<"dispatch", j>> \in Q' <=> <<"dispatch", j>> \in Q
        /\ <<"handle", j>> \in Q' <=> (<<"handle", j>> \in Q /\ j # k)
    BY <1>2
  <2>3. CASE j = k
    BY <1>1, <1>3, <1>5, <2>1, <2>2, <2>3 DEF CallOK
  <2>4. CASE j # k
    <3>1. pc'[j] = pc[j]
      BY <1>5, <2>4
    <3> QED
      BY <1>1, <2>1, <2>2, <2>4, <3>1 DEF CallOK
  <2> QED
    BY <2>3, <2>4
<1>8. ASSUME NEW d \in Clients PROVE ClientOK(d)'
  <2>1. ClientOK(d)
    BY DEF Inv
  <2>2. /\ <<"appeared", d>> \in Q' <=> <<"appeared", d>> \in Q
        /\ <<"disappeared", d>> \in Q' <=> <<"disappeared", d>> \in Q
    BY <1>2
  <2>3. \A j \in Calls : pc[j] \in {"none", "queued"} => pc'[j] = pc[j]
    BY <1>3, <1>5
  <2> QED
    BY <1>1, <2>1, <2>2, <2>3 DEF ClientOK
<1>9. ClientsCounted'
  BY <1>1, <1>2, SameClients DEF Inv
<1>10. JobsCounted'
  <2>1. num_jobs = Cardinality(Running) /\ k \notin Running /\ IsFiniteSet(Running)
    BY <1>3, Finite, CallsFinite DEF Inv, JobsCounted, Running
  <2>2. CASE pc'[k] = "handling"
    <3>1. \A j \in Calls : pc'[j] = "running" <=> pc[j] = "running"
      BY <1>3, <1>5, <2>2
    <3>2. num_jobs' = num_jobs
      BY <1>4, <2>2 DEF Inv, Typed
    <3> QED
      BY <3>1, <3>2, SameJobs DEF Inv
  <2>3. CASE pc'[k] = "running"
    <3>1. Running' = Running \union {k}
      BY <1>3, <1>5, <2>3 DEF Running
    <3>2. Cardinality(Running \union {k}) = Cardinality(Running) + 1
      BY <2>1, FS_AddElement
    <3>3. num_jobs' = num_jobs + 1
      BY <1>4, <2>3 DEF Inv, Typed
    <3> QED
      BY <2>1, <3>1, <3>2, <3>3 DEF JobsCounted
  <2> QED
    BY <1>5, <2>2, <2>3
<1>11. RefsExact'
  <2>1. ASSUME NEW j \in Calls
        PROVE  (pc'[j] \in {"waiting", "woken", "checking"} \/ failed'[j] = "uid")
               <=> (pc[j] \in {"waiting", "woken", "checking"} \/ failed[j] = "uid")
    BY <1>1, <1>3, <1>5
  <2> QED
    BY <1>1, <2>1, SameRefs DEF Inv
<1> QED
  BY <1>2, <1>6, <1>7, <1>8, <1>9, <1>10, <1>11 DEF Inv

LEMMA HandlePlainInv ==
    ASSUME Inv, NEW k \in Calls, HandlePlain(k) PROVE Inv'
<1> DEFINE e == <<"handle", k>>
<1>1. /\ UNCHANGED <<connected, asked, clients, uid_state, refs, failed,
                     authority, name, num_clients, num_jobs>>
      /\ pc' = [pc EXCEPT ![k] = "done"] /\ replies' = [replies EXCEPT ![k] = @ + 1]
      /\ Take(e) /\ up' \in {up, "crashed"}
  BY DEF HandlePlain, busVars, clientVars, daemonVars, Stale
<1>2. Orderly(todo') /\ e \in Q /\ Q' = Q \ {e}
  BY <1>1, Taken DEF Inv
<1>3. /\ CallOK(k) /\ pc[k] = "passed"
      /\ up \in {"running", "finished", "aborted", "crashed"}
  BY <1>2 DEF Inv, CallOK, Typed
<1>4. /\ pc' \in [Calls -> Stages] /\ replies' \in [Calls -> Nat]
      /\ pc'[k] = "done" /\ replies'[k] = replies[k] + 1
      /\ \A j \in Calls \ {k} : pc'[j] = pc[j] /\ replies'[j] = replies[j]
  BY <1>1 DEF Inv, Typed, Stages
<1>5. Typed'
  BY <1>1, <1>3, <1>4 DEF Inv, Typed
<1>6. ASSUME NEW j \in Calls PROVE CallOK(j)'
  <2>1. CallOK(j)
    BY DEF Inv
  <2>2. /\ <<"dispatch", j>> \in Q' <=> <<"dispatch", j>> \in Q
        /\ <<"handle", j>> \in Q' <=> (<<"handle", j>> \in Q /\ j # k)
    BY <1>2
  <2>3. CASE j = k
    BY <1>1, <1>3, <1>4, <2>1, <2>2, <2>3 DEF CallOK
  <2>4. CASE j # k
    <3>1. pc'[j] = pc[j] /\ replies'[j] = replies[j]
      BY <1>4, <2>4
    <3> QED
      BY <1>1, <2>1, <2>2, <2>4, <3>1 DEF CallOK
  <2> QED
    BY <2>3, <2>4
<1>7. ASSUME NEW d \in Clients PROVE ClientOK(d)'
  <2>1. ClientOK(d)
    BY DEF Inv
  <2>2. /\ <<"appeared", d>> \in Q' <=> <<"appeared", d>> \in Q
        /\ <<"disappeared", d>> \in Q' <=> <<"disappeared", d>> \in Q
    BY <1>2
  <2>3. \A j \in Calls : pc[j] \in {"none", "queued"} => pc'[j] = pc[j]
    BY <1>3, <1>4
  <2> QED
    BY <1>1, <2>1, <2>2, <2>3 DEF ClientOK
<1>8. ClientsCounted'
  BY <1>1, <1>2, SameClients DEF Inv
<1>9. JobsCounted' /\ RefsExact'
  <2>1. ASSUME NEW j \in Calls
        PROVE  /\ (pc'[j] \in {"waiting", "woken", "checking"} \/ failed'[j] = "uid")
                  <=> (pc[j] \in {"waiting", "woken", "checking"} \/ failed[j] = "uid")
               /\ (pc'[j] = "running") <=> (pc[j] = "running")
    BY <1>1, <1>3, <1>4
  <2> QED
    BY <1>1, <2>1, SameRefs, SameJobs DEF Inv
<1> QED
  BY <1>2, <1>5, <1>6, <1>7, <1>8, <1>9 DEF Inv

LEMMA JobCompletedInv ==
    ASSUME Inv, NEW k \in Calls, JobCompleted(k) PROVE Inv'
<1>1. /\ UNCHANGED <<connected, asked, clients, uid_state, refs, failed, authority,
                     todo, name, num_clients>>
      /\ pc[k] = "running" /\ pc' = [pc EXCEPT ![k] = "done"]
      /\ replies' = [replies EXCEPT ![k] = @ + 1] /\ num_jobs' = num_jobs - 1
      /\ up' \in {"finished", "running"} /\ Q' = Q
  BY DEF JobCompleted, busVars, clientVars, MaybeFinished, Q
<1>2. /\ pc' \in [Calls -> Stages] /\ replies' \in [Calls -> Nat]
      /\ pc'[k] = "done" /\ replies'[k] = replies[k] + 1
      /\ \A j \in Calls \ {k} : pc'[j] = pc[j] /\ replies'[j] = replies[j]
  BY <1>1 DEF Inv, Typed, Stages
<1>3. Typed' /\ Orderly(todo')
  BY <1>1, <1>2 DEF Inv, Typed
<1>4. ASSUME NEW j \in Calls PROVE CallOK(j)'
  <2>1. CallOK(j)
    BY DEF Inv
  <2>2. CASE j = k
    BY <1>1, <1>2, <2>1, <2>2 DEF CallOK
  <2>3. CASE j # k
    <3>1. pc'[j] = pc[j] /\ replies'[j] = replies[j]
      BY <1>2, <2>3
    <3> QED
      BY <1>1, <2>1, <3>1 DEF CallOK
  <2> QED
    BY <2>2, <2>3
<1>5. ASSUME NEW d \in Clients PROVE ClientOK(d)'
  <2>1. ClientOK(d)
    BY DEF Inv
  <2>2. \A j \in Calls : pc[j] \in {"none", "queued"} => pc'[j] = pc[j]
    BY <1>1, <1>2
  <2> QED
    BY <1>1, <2>1, <2>2 DEF ClientOK
<1>6. ClientsCounted'
  BY <1>1, SameClients DEF Inv
<1>7. JobsCounted'
  <2>1. num_jobs = Cardinality(Running) /\ k \in Running /\ IsFiniteSet(Running)
    BY <1>1, Finite, CallsFinite DEF Inv, JobsCounted, Running
  <2>2. Running' = Running \ {k}
    BY <1>2 DEF Running
  <2>3. Cardinality(Running \ {k}) = Cardinality(Running) - 1
    BY <2>1, FS_RemoveElement
  <2> QED
    BY <1>1, <2>1, <2>2, <2>3 DEF JobsCounted
<1>8. RefsExact'
  <2>1. ASSUME NEW j \in Calls
        PROVE  (pc'[j] \in {"waiting", "woken", "checking"} \/ failed'[j] = "uid")
               <=> (pc[j] \in {"waiting", "woken", "checking"} \/ failed[j] = "uid")
    BY <1>1, <1>2
  <2> QED
    BY <1>1, <2>1, SameRefs DEF Inv
<1> QED
  BY <1>3, <1>4, <1>5, <1>6, <1>7, <1>8 DEF Inv
-----------------------------------------------------------------------------
LEMMA NameAcquiredInv == ASSUME Inv, NameAcquired PROVE Inv'
<1>1. /\ UNCHANGED <<busVars, clientVars, callVars, authority, todo, num_clients,
                     num_jobs>>
      /\ name' = "owned" /\ up' = up
  BY DEF NameAcquired
<1>2. up \in {"running", "finished", "aborted", "crashed"}
  BY DEF Inv, Typed
<1> QED
  BY <1>1, <1>2, NameInv

LEMMA NameLostInv == ASSUME Inv, NameLost PROVE Inv'
<1>1. /\ UNCHANGED <<busVars, clientVars, callVars, authority, todo, num_clients,
                     num_jobs>>
      /\ name' = "lost" /\ up' \in {"finished", "running"}
  BY DEF NameLost, MaybeFinished
<1> QED
  BY <1>1, NameInv

LEMMA StutterInv == ASSUME Inv, UNCHANGED vars PROVE Inv'
<1>1. /\ UNCHANGED <<busVars, clientVars, callVars, authority, todo, num_clients,
                     num_jobs>>
      /\ name' = name /\ up' = up
  BY DEF vars, busVars, clientVars, callVars
<1>2. /\ name \in {"requested", "owned", "lost", "released"}
      /\ up \in {"running", "finished", "aborted", "crashed"}
  BY DEF Inv, Typed
<1> QED
  BY <1>1, <1>2, NameInv

LEMMA NextInv == ASSUME Inv, [Next]_vars PROVE Inv'
<1>1. ASSUME NEW k \in Calls, Filter(k) PROVE Inv'
  BY <1>1, FilterKnownInv, FilterNewInv
<1>2. ASSUME NEW k \in Calls, Thread(k) PROVE Inv'
  BY <1>2, LookupInv, LookupUnknownInv DEF Thread
<1>3. ASSUME NEW k \in Calls, CheckAuthorization(k) PROVE Inv'
  BY <1>3, CheckAuthorizationInv
<1>4. ASSUME NEW k \in Calls, JobCompleted(k) PROVE Inv'
  BY <1>4, JobCompletedInv
<1>5. ASSUME NEW c \in Clients, Disconnect(c) PROVE Inv'
  BY <1>5, DisconnectInv
<1>6. ASSUME Worker PROVE Inv'
  BY <1>6, GotUnixUserInv, ClientVanishedInv DEF Worker
<1>7. ASSUME up = "running", Turn PROVE Inv'
  BY <1>7, ClientAppearedInv, ClientDisappearedInv, DispatchInv, HandleLaunchingInv,
     HandlePlainInv DEF Turn
<1>8. ASSUME NameAcquired \/ NameLost PROVE Inv'
  BY <1>8, NameAcquiredInv, NameLostInv
<1>9. ASSUME UNCHANGED vars PROVE Inv'
  BY <1>9, StutterInv
<1> QED
  BY <1>1, <1>2, <1>3, <1>4, <1>5, <1>6, <1>7, <1>8, <1>9 DEF Next

(* The inductive invariant: the queue holds each source once, a client's   *)
(* news before its calls and before the news that it left; every call, and *)
(* every client, is where the queue, the table and the counts say it is.   *)
THEOREM Invariance == Spec => []Inv
<1>1. Init => Inv
  BY InitInv
<1>2. Inv /\ [Next]_vars => Inv'
  BY NextInv
<1> QED
  BY <1>1, <1>2, PTL DEF Spec
-----------------------------------------------------------------------------
LEMMA QueuedQ == \A w, x : Queued(w, x) <=> <<w, x>> \in Q
  BY DEF Queued, Q, Elems

LEMMA Counts ==
    ASSUME Inv
    PROVE  /\ num_clients \in Nat /\ num_jobs \in Nat
           /\ num_clients = 0 => Known = {}
           /\ num_jobs = 0 => Running = {}
<1>1. /\ IsFiniteSet(Known) /\ Cardinality(Known) \in Nat
      /\ IsFiniteSet(Running) /\ Cardinality(Running) \in Nat
  BY Finite, CallsFinite
<1>2. num_clients = Cardinality(Known) /\ num_jobs = Cardinality(Running)
  BY DEF Inv, ClientsCounted, JobsCounted
<1> QED
  BY <1>1, <1>2, FS_EmptySet

(* Every variable keeps to its type, and no count is ever negative. *)
THEOREM TypeCorrect == Spec => []TypeOK
<1>1. Inv => TypeOK
  <2> SUFFICES ASSUME Inv PROVE TypeOK
    OBVIOUS
  <2>1. num_clients \in Nat /\ num_jobs \in Nat
    BY Counts
  <2>2. refs \in [Clients -> Nat]
    <3>1. ASSUME NEW c \in Clients PROVE refs[c] \in Nat
      <4>1. refs[c] = Cardinality(Holders(c)) + IF c \in clients THEN 1 ELSE 0
        BY DEF Inv, RefsExact
      <4>2. Cardinality(Holders(c)) \in Nat
        BY Finite, CallsFinite
      <4> QED
        BY <4>1, <4>2
    <3>2. refs \in [Clients -> Int]
      BY DEF Inv, Typed
    <3> QED
      BY <3>1, <3>2
  <2>3. todo \in Seq(Sources)
    BY DEF Inv, Orderly
  <2> QED
    BY <2>1, <2>2, <2>3 DEF Inv, Typed, TypeOK
<1> QED
  BY <1>1, Invariance, PTL

(* num_clients is the number of clients the daemon has been told of, for   *)
(* any number of clients, calls and interleavings of the two threads.      *)
THEOREM ClientCountCorrect == Spec => []ClientCountExact
<1>1. Inv => ClientCountExact
  <2> SUFFICES ASSUME Inv PROVE ClientCountExact
    OBVIOUS
  <2>1. Counted = Known
    BY QueuedQ DEF Counted, Known
  <2> QED
    BY <2>1 DEF Inv, ClientsCounted, ClientCountExact
<1> QED
  BY <1>1, Invariance, PTL

(* A caller's record has the references of the table and of its holders,   *)
(* and only a call that waited in vain keeps one for ever.                 *)
THEOREM RefsCorrect == Spec => []RefsExact
<1>1. Inv => RefsExact
  BY DEF Inv
<1> QED
  BY <1>1, Invariance, PTL

(* Unless its caller could not be looked up, a call is answered once, when *)
(* it is done, and a job runs for a user that is known.                    *)
THEOREM SecondReplies == Spec => []SecondReplyExplained
<1>1. Inv => SecondReplyExplained
  BY DEF Inv, CallOK, SecondReplyExplained
<1> QED
  BY <1>1, Invariance, PTL

(* The main loop never waits for the uid of a caller that is in the table. *)
THEOREM LoopNeverWaitsAlways == Spec => []LoopNeverWaits
<1>1. Inv => LoopNeverWaits
  <2> SUFFICES ASSUME Inv, NEW k \in Calls, pc[k] = "passed", Caller[k] \in clients
               PROVE  uid_state[Caller[k]] # "loading"
    BY DEF LoopNeverWaits
  <2>1. CallOK(k) /\ failed[k] \in {"no", "caller", "uid"}
    BY DEF Inv, Typed
  <2> QED
    BY <2>1 DEF CallOK
<1> QED
  BY <1>1, Invariance, PTL
-----------------------------------------------------------------------------
(* How a step may end the daemon, and why it may go on without its name. *)
Aborting == \E k \in Calls : pc[k] = "handling" /\ Caller[k] \notin connected
Crashing == ~authority \/ \E k \in Calls : failed[k] # "no"
Idle == num_clients = 0 /\ num_jobs = 0
NatCounts == num_clients \in Nat /\ num_jobs \in Nat

StepEnds == /\ up' = "aborted" => Aborting'
            /\ up' = "crashed" => Crashing'
            /\ up' = "finished" => Idle'
            /\ up' = "running" /\ name' \in {"released", "lost"} /\ ~Persist => ~Idle'

LEMMA GoesOn ==
    ASSUME NoIdleDaemon, up = "running", up' = "running", name' = name,
           num_clients' = num_clients, num_jobs' = num_jobs
    PROVE  StepEnds
  BY DEF StepEnds, NoIdleDaemon, Idle

LEMMA HandlerEnds ==
    ASSUME Inv, NoIdleDaemon, up = "running", NEW k \in Calls,
           HandleLaunching(k) \/ HandlePlain(k)
    PROVE  StepEnds
<1>1. CallOK(k) /\ pc[k] = "passed" /\ Caller[k] \in Clients
  <2>1. <<"handle", k>> \in Q
    BY Taken DEF HandleLaunching, HandlePlain, Inv
  <2> QED
    BY <2>1, CallsFinite DEF Inv, CallOK
<1>2. Caller[k] \notin clients => Caller[k] \notin connected
  BY <1>1 DEF Inv, ClientOK, CallOK
<1>3. Stale(k) \subseteq {"crashed"} /\ (Stale(k) # {} => failed[k] # "no")
  BY <1>1 DEF Stale, CallOK
<1>4. num_clients \in Nat /\ num_jobs \in Nat
  BY Counts
<1>5. failed' = failed /\ connected' = connected /\ name' = name
      /\ num_clients' = num_clients
  BY DEF HandleLaunching, HandlePlain, busVars, daemonVars
<1>6. CASE HandlePlain(k)
  <2>1. num_jobs' = num_jobs /\ (up' = "running" \/ (up' = "crashed" /\ failed'[k] # "no"))
    BY <1>3, <1>5, <1>6 DEF HandlePlain, daemonVars
  <2> QED
    BY <1>5, <2>1, GoesOn DEF StepEnds, Crashing
<1>7. CASE HandleLaunching(k)
  <2>1. CASE /\ Caller[k] \notin clients /\ pc' = [pc EXCEPT ![k] = "handling"]
             /\ up' \in {"aborted"} \union Stale(k)
    <3>1. pc'[k] = "handling" /\ Caller[k] \notin connected'
      BY <1>2, <1>5, <2>1 DEF Inv, Typed
    <3>2. up' = "aborted" \/ (up' = "crashed" /\ failed'[k] # "no")
      BY <1>3, <1>5, <2>1
    <3> QED
      BY <3>1, <3>2 DEF StepEnds, Aborting, Crashing
  <2>2. CASE num_jobs' = num_jobs + 1 /\ up' \in {up} \union Stale(k)
    <3>1. up' = "running" \/ (up' = "crashed" /\ failed'[k] # "no")
      BY <1>3, <1>5, <2>2
    <3>2. ~Idle'
      BY <1>4, <2>2 DEF Idle
    <3> QED
      BY <3>1, <3>2 DEF StepEnds, Crashing
  <2> QED
    BY <1>7, <2>1, <2>2 DEF HandleLaunching
<1> QED
  BY <1>6, <1>7

LEMMA NextEnds ==
    ASSUME Inv, NoIdleDaemon, Next
    PROVE  StepEnds
<1>1. up = "running" /\ num_clients \in Nat /\ num_jobs \in Nat
  BY Counts DEF Next
<1>2. ASSUME NEW k \in Calls, Filter(k) \/ Thread(k) PROVE StepEnds
  BY <1>1, <1>2, GoesOn DEF Filter, Thread, Lookup, LookupUnknown, daemonVars
<1>3. ASSUME NEW k \in Calls, CheckAuthorization(k) PROVE StepEnds
  <2>1. name' = name /\ num_clients' = num_clients /\ num_jobs' = num_jobs
    BY <1>3 DEF CheckAuthorization, daemonVars
  <2>2. authority' = authority /\ (up' = "running" \/ (up' = "crashed" /\ ~authority))
    BY <1>1, <1>3 DEF CheckAuthorization
  <2> QED
    BY <1>1, <2>1, <2>2, GoesOn DEF StepEnds, Crashing
<1>4. ASSUME NEW k \in Calls, JobCompleted(k) PROVE StepEnds
  BY <1>4 DEF JobCompleted, MaybeFinished, StepEnds, Idle
<1>5. ASSUME NEW c \in Clients, Disconnect(c) PROVE StepEnds
  BY <1>1, <1>5, GoesOn DEF Disconnect, daemonVars
<1>6. ASSUME NEW c \in Clients, GotUnixUser(c) PROVE StepEnds
  <2>1. up' = up
    BY <1>6, AnswerFindsClient
  <2> QED
    BY <1>1, <1>6, <2>1, GoesOn DEF GotUnixUser, daemonVars
<1>7. ASSUME NEW c \in Clients, ClientVanished(c) PROVE StepEnds
  BY <1>1, <1>7, GoesOn DEF ClientVanished, daemonVars
<1>8. ASSUME NEW c \in Clients, ClientAppeared(c) PROVE StepEnds
  <2>1. up' = "running" /\ num_clients' = num_clients + 1
    BY <1>1, <1>8 DEF ClientAppeared
  <2> QED
    BY <1>1, <2>1 DEF StepEnds, Idle
<1>9. ASSUME NEW c \in Clients, ClientDisappeared(c) PROVE StepEnds
  <2>1. num_clients > 0 /\ num_clients # 0
    BY <1>9, DisappearedWasKnown
  <2>2. MaybeFinished(name', num_clients', num_jobs) /\ num_jobs' = num_jobs
    BY <1>9, <2>1 DEF ClientDisappeared
  <2> QED
    BY <2>2 DEF MaybeFinished, StepEnds, Idle
<1>10. ASSUME NEW k \in Calls, Dispatch(k) PROVE StepEnds
  BY <1>1, <1>10, GoesOn DEF Dispatch, daemonVars
<1>11. ASSUME NEW k \in Calls, HandleLaunching(k) \/ HandlePlain(k) PROVE StepEnds
  BY <1>1, <1>11, HandlerEnds
<1>12. ASSUME NameAcquired PROVE StepEnds
  BY <1>1, <1>12 DEF NameAcquired, StepEnds
<1>13. ASSUME NameLost PROVE StepEnds
  BY <1>13 DEF NameLost, MaybeFinished, StepEnds, Idle
<1> QED
  BY <1>2, <1>3, <1>4, <1>5, <1>6, <1>7, <1>8, <1>9, <1>10, <1>11, <1>12, <1>13
     DEF Next, Worker, Turn

LEMMA SumPositive ==
    \A m, n \in Nat : ~(m = 0 /\ n = 0) => m + n > 0
  OBVIOUS

(* A daemon nobody needs is not up: without its name it serves a client or *)
(* a job.                                                                  *)
THEOREM NoIdle == Spec => []NoIdleDaemon
<1>1. Init => NoIdleDaemon
  BY DEF Init, NoIdleDaemon
<1>2. Inv => NatCounts
  BY Counts DEF NatCounts
<1>3. Inv' => NatCounts'
  BY <1>2, PTL
<1>4. Inv /\ Inv' /\ NoIdleDaemon /\ [Next]_vars => NoIdleDaemon'
  <2> SUFFICES ASSUME Inv, Inv', NoIdleDaemon, [Next]_vars PROVE NoIdleDaemon'
    OBVIOUS
  <2>1. CASE Next
    <3>1. StepEnds
      BY <2>1, NextEnds
    <3>2. num_clients' \in Nat /\ num_jobs' \in Nat
      BY <1>3 DEF NatCounts
    <3>3. ASSUME ~Idle' PROVE num_clients' + num_jobs' > 0
      <4>1. ~(num_clients' = 0 /\ num_jobs' = 0)
        BY <3>3 DEF Idle
      <4> QED
        BY <3>2, <4>1, SumPositive
    <3> QED
      BY <3>1, <3>3 DEF StepEnds, NoIdleDaemon
  <2>2. CASE UNCHANGED vars
    BY <2>2 DEF vars, NoIdleDaemon
  <2> QED
    BY <2>1, <2>2
<1> QED
  BY <1>1, <1>4, Invariance, PTL DEF Spec

(* The daemon aborts only for a caller that has left, never in the         *)
(* assertion on num_clients, and reads foreign memory only without an      *)
(* authority or after the answer that the caller is not known.             *)
THEOREM DeathsCorrect == Spec => []DeathExplained
<1>1. Init => DeathExplained
  BY DEF Init, DeathExplained
<1>2. Inv /\ NoIdleDaemon /\ DeathExplained /\ [Next]_vars => DeathExplained'
  <2> SUFFICES ASSUME Inv, NoIdleDaemon, DeathExplained, [Next]_vars
               PROVE  DeathExplained'
    OBVIOUS
  <2>1. CASE Next
    BY <2>1, NextEnds DEF StepEnds, DeathExplained, Aborting, Crashing
  <2>2. CASE UNCHANGED vars
    BY <2>2 DEF vars, DeathExplained
  <2> QED
    BY <2>1, <2>2
<1> QED
  BY <1>1, <1>2, Invariance, NoIdle, PTL DEF Spec

(* When the last client and the last job go, nobody is left to be served. *)
LEMMA IdleFinished == ASSUME Inv, Idle PROVE FinishedWhenUnneeded
<1>1. Known = {} /\ Running = {}
  BY Counts DEF Idle
<1> SUFFICES ASSUME NEW k \in Calls, pc[k] \notin {"none", "done"}
             PROVE  \/ pc[k] # "running" /\ Caller[k] \notin connected
                    \/ pc[k] = "queued" /\ Queued("appeared", Caller[k])
  BY DEF FinishedWhenUnneeded
<1> DEFINE c == Caller[k]
<1>2. pc[k] # "running" /\ c \in Clients /\ uid_state[c] # "none" /\ ClientOK(c)
  BY <1>1, CallsFinite DEF Running, Inv, CallOK
<1>3. CASE c \in clients
  <2>1. <<"appeared", c>> \in Q
    BY <1>1, <1>2, <1>3 DEF Known
  <2>2. pc[k] = "queued"
    BY <1>2, <2>1 DEF ClientOK
  <2> QED
    BY <2>1, <2>2, QueuedQ
<1>4. CASE c \notin clients
  BY <1>2, <1>4 DEF ClientOK
<1> QED
  BY <1>3, <1>4

(* A daemon that ends on its own accord leaves no job and no call of a     *)
(* client it has been told of and that is still there.                     *)
THEOREM Finished == Spec => []FinishedWhenUnneeded
<1>1. Init => FinishedWhenUnneeded
  BY DEF Init, FinishedWhenUnneeded
<1>2. Inv /\ Inv' /\ NoIdleDaemon /\ FinishedWhenUnneeded /\ [Next]_vars
         => FinishedWhenUnneeded'
  <2> SUFFICES ASSUME Inv, Inv', NoIdleDaemon, FinishedWhenUnneeded, [Next]_vars
               PROVE  FinishedWhenUnneeded'
    OBVIOUS
  <2>1. CASE Next
    <3>1. up' = "finished" => Idle'
      BY <2>1, NextEnds DEF StepEnds
    <3>2. Idle' => FinishedWhenUnneeded'
      BY IdleFinished, PTL
    <3>3. up' # "finished" => FinishedWhenUnneeded'
      BY DEF FinishedWhenUnneeded
    <3> QED
      BY <3>1, <3>2, <3>3
  <2>2. CASE UNCHANGED vars
    BY <2>2 DEF vars, FinishedWhenUnneeded, Queued
  <2> QED
    BY <2>1, <2>2
<1> QED
  BY <1>1, <1>2, Invariance, NoIdle, PTL DEF Spec
-----------------------------------------------------------------------------
(* Liveness is left to fairness, but what fairness acts on is proved here. *)

(* A uid that a record still waits for has been asked for, and is being    *)
(* asked for as long as the table has the record; threads wait for no      *)
(* other.                                                                  *)
Waits ==
    /\ \A c \in Clients : uid_state[c] = "loading" => c \in asked \/ c \notin clients
    /\ \A k \in Calls : pc[k] = "waiting" => uid_state[Caller[k]] = "loading"

LEMMA WaitsStay ==
    ASSUME Inv, Waits, uid_state' = uid_state, asked' = asked,
           clients' \subseteq clients,
           \A k \in Calls : pc'[k] = "waiting" =>
              pc[k] = "waiting" \/ uid_state[Caller[k]] = "loading"
    PROVE  Waits'
  BY DEF Waits

LEMMA WaitsInv == Inv /\ Waits /\ [Next]_vars => Waits'
<1> SUFFICES ASSUME Inv, Waits, [Next]_vars PROVE Waits'
  OBVIOUS
<1> USE CallsFinite
<1>0. Typed
  BY DEF Inv
<1>1. ASSUME NEW k \in Calls, Filter(k) PROVE Waits'
  <2> DEFINE c == Caller[k]
  <2>1. \A j \in Calls : pc'[j] = "waiting" => pc[j] = "waiting"
    BY <1>0, <1>1 DEF Filter, Typed
  <2>2. CASE c \in clients
    <3>1. UNCHANGED <<asked, clients, uid_state>>
      BY <1>1, <2>2 DEF Filter, clientVars
    <3> QED
      BY <2>1, <3>1, WaitsStay
  <2>3. CASE c \notin clients
    <3>1. /\ clients' = clients \union {c} /\ asked' = asked \union {c}
          /\ uid_state' = [uid_state EXCEPT ![c] = "loading"]
      BY <1>1, <2>3 DEF Filter, clientVars
    <3> QED
      BY <1>0, <2>1, <3>1 DEF Waits, Typed
  <2> QED
    BY <2>2, <2>3
<1>2. ASSUME NEW k \in Calls, Lookup(k) PROVE Waits'
  <2>1. UNCHANGED <<asked, clients, uid_state>>
    BY <1>2 DEF Lookup, busVars
  <2>2. \A j \in Calls : pc'[j] = "waiting" =>
           pc[j] = "waiting" \/ uid_state[Caller[j]] = "loading"
    BY <1>0, <1>2 DEF Lookup, FailLookup, Typed
  <2> QED
    BY <2>1, <2>2, WaitsStay
<1>3. ASSUME NEW c \in Clients, GotUnixUser(c) PROVE Waits'
  <2>1. \A j \in Calls : pc'[j] # "waiting"
    BY <1>3 DEF GotUnixUser, Broadcast
  <2>2. /\ asked' = asked \ {c} /\ clients' = clients
        /\ \A d \in Clients \ {c} : uid_state'[d] = uid_state[d]
        /\ c \in clients => uid_state'[c] # "loading"
    BY <1>0, <1>3 DEF GotUnixUser, Answers, Typed
  <2> QED
    BY <2>1, <2>2 DEF Waits
<1>4. ASSUME NEW c \in Clients, ClientVanished(c) PROVE Waits'
  BY <1>4, WaitsStay DEF ClientVanished, busVars, callVars
<1>5. ASSUME NEW k \in Calls,
             LookupUnknown(k) \/ CheckAuthorization(k) \/ JobCompleted(k) \/ Dispatch(k)
             \/ HandleLaunching(k) \/ HandlePlain(k)
      PROVE  Waits'
  <2>1. UNCHANGED <<asked, clients, uid_state>>
    BY <1>5 DEF LookupUnknown, CheckAuthorization, JobCompleted, Dispatch, HandleLaunching,
       HandlePlain, busVars, clientVars
  <2>2. \A j \in Calls : pc'[j] = "waiting" => pc[j] = "waiting"
    BY <1>0, <1>5 DEF LookupUnknown, CheckAuthorization, JobCompleted, Dispatch,
       HandleLaunching, HandlePlain, FailLookup, WithoutPolkit, Authorize, Refuse, Typed
  <2> QED
    BY <2>1, <2>2, WaitsStay
<1>6. ASSUME UNCHANGED <<asked, clients, uid_state, pc>> PROVE Waits'
  BY <1>6, WaitsStay
<1>7. ASSUME NEW c \in Clients, Disconnect(c) \/ ClientAppeared(c) \/ ClientDisappeared(c)
      PROVE  Waits'
  BY <1>6, <1>7 DEF Disconnect, ClientAppeared, ClientDisappeared, busVars, clientVars, callVars
<1>8. ASSUME NameAcquired \/ NameLost \/ UNCHANGED vars PROVE Waits'
  BY <1>6, <1>8 DEF NameAcquired, NameLost, busVars, clientVars, callVars, vars
<1> QED
  BY <1>1, <1>2, <1>3, <1>4, <1>5, <1>7, <1>8 DEF Next, Thread, Worker, Turn

(* A thread that waits for a uid is woken up when the answer comes, and    *)
(* the answer is to come, unless the table has lost the record.            *)
NoLostWakeup ==
    \A k \in Calls : pc[k] = "waiting" => Caller[k] \in asked \/ Forgotten(Caller[k])

(* The safety part of WaitEnds: no wakeup is lost between a thread that    *)
(* looks at uid_state and the answer that sets it.                         *)
THEOREM WakeupsKept == Spec => []NoLostWakeup
<1>1. Init => Waits
  BY CallsFinite DEF Init, Waits
<1>2. Waits => NoLostWakeup
  BY CallsFinite DEF Waits, NoLostWakeup, Forgotten
<1> QED
  BY <1>1, <1>2, WaitsInv, Invariance, PTL DEF Spec

(* Once a client has been counted out to zero, the name has been given up: *)
(* until then, a client with a record has not been announced yet.          *)
NameKept ==
    num_clients = 0 /\ name # "released" =>
        \A c \in Clients : uid_state[c] # "none" => <<"appeared", c>> \in Q

LEMMA QueueGrows ==
    ASSUME NEW t \in Seq(Sources), NEW e \in Sources
    PROVE  /\ Append(t, e) \in Seq(Sources)
           /\ Elems(t) \subseteq Elems(Append(t, e))
           /\ e \in Elems(Append(t, e))
<1> DEFINE u == Append(t, e)
<1>1. /\ Len(t) \in Nat /\ DOMAIN t = 1 .. Len(t)
      /\ u \in Seq(Sources) /\ DOMAIN u = 1 .. (Len(t) + 1)
      /\ \A i \in DOMAIN t : u[i] = t[i]
      /\ u[Len(t) + 1] = e
  OBVIOUS
<1> HIDE DEF u
<1>2. DOMAIN t \subseteq DOMAIN u /\ Len(t) + 1 \in DOMAIN u
  BY <1>1
<1>3. Elems(t) \subseteq Elems(u) /\ e \in Elems(u)
  BY <1>1, <1>2 DEF Elems
<1> QED
  BY <1>1, <1>3 DEF u

(* A step that leaves the records, the count and the name alone, and takes *)
(* no news of a client from the queue.                                     *)
LEMMA NameStays ==
    ASSUME NameKept, num_clients' = num_clients,
           name' = name \/ name # "released",
           \A c \in Clients : uid_state'[c] # "none" =>
              uid_state[c] # "none" \/ <<"appeared", c>> \in Q',
           \A c \in Clients : <<"appeared", c>> \in Q => <<"appeared", c>> \in Q'
    PROVE  NameKept'
  BY DEF NameKept

LEMMA NameKeptInv == Inv /\ NameKept /\ [Next]_vars => NameKept'
<1> SUFFICES ASSUME Inv, NameKept, [Next]_vars PROVE NameKept'
  OBVIOUS
<1>0. Typed /\ todo \in Seq(Sources) /\ num_clients \in Nat
  BY Counts DEF Inv, Orderly
<1>1. ASSUME NEW k \in Calls, Filter(k) PROVE NameKept'
  <2> DEFINE c == Caller[k]
  <2>0. /\ c \in Clients /\ <<"dispatch", k>> \in Sources /\ <<"appeared", c>> \in Sources
        /\ num_clients' = num_clients /\ name' = name
    BY <1>1, CallsFinite DEF Filter, daemonVars, Sources
  <2>1. CASE c \in clients
    <3>1. uid_state' = uid_state /\ todo' = Append(todo, <<"dispatch", k>>)
      BY <1>1, <2>1 DEF Filter, clientVars
    <3>2. Q \subseteq Q'
      BY <1>0, <2>0, <3>1, QueueGrows DEF Q
    <3> QED
      BY <2>0, <3>1, <3>2, NameStays
  <2>2. CASE c \notin clients
    <3> DEFINE t == Append(todo, <<"appeared", c>>)
    <3>1. /\ uid_state' = [uid_state EXCEPT ![c] = "loading"]
          /\ todo' = Append(t, <<"dispatch", k>>)
      BY <1>1, <2>2 DEF Filter, clientVars
    <3>2. t \in Seq(Sources) /\ Q \subseteq Elems(t) /\ <<"appeared", c>> \in Elems(t)
      BY <1>0, <2>0, QueueGrows DEF Q
    <3> HIDE DEF t
    <3>3. Q \subseteq Q' /\ <<"appeared", c>> \in Q'
      BY <2>0, <3>1, <3>2, QueueGrows DEF Q
    <3>4. \A d \in Clients : d # c => uid_state'[d] = uid_state[d]
      BY <1>0, <3>1 DEF Typed
    <3> QED
      BY <2>0, <3>3, <3>4, NameStays
  <2> QED
    BY <2>1, <2>2
<1>2. ASSUME NEW k \in Calls, Thread(k) \/ CheckAuthorization(k) PROVE NameKept'
  <2>1. UNCHANGED <<uid_state, num_clients, name>>
    BY <1>2 DEF Thread, Lookup, LookupUnknown, CheckAuthorization, clientVars, daemonVars
  <2>2. todo' = todo \/ todo' = Append(todo, <<"handle", k>>)
    BY <1>2 DEF Thread, Lookup, LookupUnknown, FailLookup, CheckAuthorization, WithoutPolkit,
       Authorize, Refuse
  <2>3. Q \subseteq Q'
    BY <1>0, <2>2, QueueGrows DEF Q, Sources
  <2> QED
    BY <2>1, <2>3, NameStays
<1>3. ASSUME NEW c \in Clients, GotUnixUser(c) PROVE NameKept'
  <2>1. UNCHANGED <<todo, num_clients, name>>
    BY <1>3 DEF GotUnixUser, daemonVars
  <2>2. uid_state[c] # "none" /\ \A d \in Clients : d # c => uid_state'[d] = uid_state[d]
    BY <1>0, <1>3 DEF GotUnixUser, Inv, ClientOK, Typed
  <2> QED
    BY <2>1, <2>2, NameStays DEF Q
<1>4. ASSUME NEW c \in Clients, ClientVanished(c) PROVE NameKept'
  <2>1. /\ UNCHANGED <<uid_state, num_clients, name>>
        /\ todo' = Append(todo, <<"disappeared", c>>)
    BY <1>4 DEF ClientVanished, daemonVars
  <2>2. Q \subseteq Q'
    BY <1>0, <2>1, QueueGrows DEF Q, Sources
  <2> QED
    BY <2>1, <2>2, NameStays
<1>5. ASSUME NEW c \in Clients, ClientAppeared(c) PROVE NameKept'
  <2>1. num_clients' # 0
    BY <1>0, <1>5 DEF ClientAppeared
  <2> QED
    BY <2>1 DEF NameKept
<1>6. ASSUME NEW c \in Clients, ClientDisappeared(c) PROVE NameKept'
  <2>1. num_clients > 0
    BY <1>6, DisappearedWasKnown
  <2>2. /\ num_clients' = num_clients - 1
        /\ name' = IF num_clients = 1 THEN "released" ELSE name
    BY <1>0, <1>6, <2>1 DEF ClientDisappeared
  <2>3. num_clients' = 0 => name' = "released"
    BY <1>0, <2>2
  <2> QED
    BY <2>3 DEF NameKept
<1>7. ASSUME NEW k \in Calls, Dispatch(k) \/ HandleLaunching(k) \/ HandlePlain(k)
      PROVE  NameKept'
  <2>1. UNCHANGED <<uid_state, num_clients, name>>
    BY <1>7 DEF Dispatch, HandleLaunching, HandlePlain, clientVars, daemonVars
  <2>2. Q' = Q \ {<<"dispatch", k>>} \/ Q' = Q \ {<<"handle", k>>}
    BY <1>7, Taken DEF Dispatch, HandleLaunching, HandlePlain, Inv
  <2> QED
    BY <2>1, <2>2, NameStays
<1>8. ASSUME UNCHANGED <<uid_state, num_clients, todo>>, name' = name \/ name # "released"
      PROVE  NameKept'
  BY <1>8, NameStays DEF Q
<1>9. ASSUME NEW k \in Calls, JobCompleted(k) PROVE NameKept'
  BY <1>8, <1>9 DEF JobCompleted, clientVars
<1>10. ASSUME NEW c \in Clients, Disconnect(c) PROVE NameKept'
  BY <1>8, <1>10 DEF Disconnect, clientVars, daemonVars
<1>11. ASSUME NameAcquired \/ NameLost \/ UNCHANGED vars PROVE NameKept'
  BY <1>8, <1>11 DEF NameAcquired, NameLost, clientVars, vars
<1> QED
  BY <1>1, <1>2, <1>3, <1>4, <1>5, <1>6, <1>7, <1>9, <1>10, <1>11 DEF Next, Worker, Turn

(* A daemon that was called and that every client has left is not at rest: *)
(* the worker has a client to strike off its table, the main loop has a    *)
(* source to run, or a job is to complete.                                 *)
AbandonedBusy ==
    up = "running" /\ ~Persist /\ connected = {} /\ (\E k \in Calls : pc[k] # "none") =>
        \/ \E c \in clients : c \notin connected
        \/ todo # <<>>
        \/ \E k \in Calls : pc[k] = "running"

(* The safety part of AbandonedDaemonEnds: a daemon without clients never  *)
(* hangs around with nothing left to do; polkit, or a thread that waits    *)
(* for ever, does not keep it.                                             *)
THEOREM AbandonedNeverRests == Spec => []AbandonedBusy
<1>1. Init => NameKept
  BY DEF Init, NameKept
<1>2. Inv /\ NameKept /\ NoIdleDaemon => AbandonedBusy
  <2> SUFFICES ASSUME Inv, NameKept, NoIdleDaemon, up = "running", ~Persist,
                      NEW k \in Calls, pc[k] # "none",
                      connected = {}, clients = {}, todo = <<>>, Running = {}
               PROVE  FALSE
    BY DEF AbandonedBusy, Running, Inv, Typed
  <2>1. Q = {}
    BY DEF Q, Elems
  <2>2. Cardinality({}) = 0 /\ Known = {}
    BY <2>1, FS_EmptySet DEF Known
  <2>3. num_clients = 0 /\ num_jobs = 0
    BY <2>2 DEF Inv, ClientsCounted, JobsCounted
  <2>4. name \notin {"released", "lost"}
    BY <2>3 DEF NoIdleDaemon
  <2>5. uid_state[Caller[k]] # "none" /\ Caller[k] \in Clients
    BY CallsFinite DEF Inv, CallOK
  <2> QED
    BY <2>1, <2>3, <2>4, <2>5 DEF NameKept
<1> QED
  BY <1>1, <1>2, NameKeptInv, Invariance, NoIdle, PTL DEF Spec
=============================================================================
