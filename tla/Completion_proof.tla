------------------------- MODULE Completion_proof -------------------------
(***************************************************************************)
(* Proofs about Completion, for any number of calls and any names: when a  *)
(* call can be answered, and how often.                                    *)
(*                                                                         *)
(* Replies(c) is the part of the invariant about one call: it is connected *)
(* exactly as long as it is not answered, until its job is over.  What a   *)
(* call for a fresh name waits for, Awaits(c), takes all calls to keep: no *)
(* other call may remove that name, because only names that are exported   *)
(* are removed, and the name is not exported while the call waits for it.  *)
(***************************************************************************)
EXTENDS Completion, TLAPS

Replies(c) ==
    /\ job[c] = "none" => replies[c] = 0 /\ c \notin waiting \union fresh
    /\ job[c] \in Unfinished => replies[c] <= 1
    /\ job[c] \in Unfinished /\ kind[c] # "delete" /\ c \notin waiting => replies[c] = 1
    /\ c \in waiting => replies[c] = 0 /\ kind[c] # "delete" /\ want[c] \in Names

Awaits(c) ==
    /\ want[c] \notin tree
    /\ job[c] # "running" => want[c] \in lvm
    /\ \A b \in Calls : job[b] \in Unfinished => drop[b] # want[c]

Inv ==
    /\ TypeOK
    /\ \A c \in Calls : Replies(c)
    /\ \A c \in waiting \intersect fresh : Awaits(c)
-----------------------------------------------------------------------------
(* The initial state. *)
LEMMA InitInv == Init => Inv
  BY DEF Init, Inv, TypeOK, Replies, Awaits, Unfinished

(* A call is made: what the other calls wait for is not what it removes,   *)
(* and if its own name is fresh no job removes that.                       *)
LEMMA StartInv ==
  ASSUME Inv, NEW c \in Calls, NEW k \in Kinds, NEW n \in Names \union {"none"},
         NEW m \in tree \union {"none"}, StartCall(c, k, n, m),
         IF k = "delete" THEN waiting' = waiting
                         ELSE waiting' = waiting \union {c} /\ n \in Names /\ m # n
  PROVE  Inv'
<1> USE CallsAssumption, NoneAssumption DEF Inv, StartCall
<1>1. m \in Names \union {"none"}
  BY DEF TypeOK
<1>2. TypeOK'
  BY <1>1 DEF TypeOK, Unfinished, Kinds
<1>3. ASSUME NEW b \in Calls, b # c
      PROVE  /\ job'[b] = job[b] /\ kind'[b] = kind[b] /\ want'[b] = want[b]
             /\ drop'[b] = drop[b] /\ replies'[b] = replies[b]
             /\ b \in waiting' <=> b \in waiting
             /\ b \in fresh' <=> b \in fresh
  BY <1>3 DEF TypeOK
<1>4. /\ job'[c] = "running" /\ kind'[c] = k /\ want'[c] = n /\ drop'[c] = m
      /\ replies'[c] = replies[c] /\ job[c] = "none"
  BY DEF TypeOK
<1>5. ASSUME NEW b \in Calls PROVE Replies(b)'
  <2>1. CASE b = c
    BY <1>4, <2>1 DEF Replies, Unfinished
  <2>2. CASE b # c
    BY <1>3, <2>2 DEF Replies
  <2> QED
    BY <2>1, <2>2
<1>6. ASSUME NEW b \in waiting' \intersect fresh' PROVE Awaits(b)'
  <2>0. b \in Calls
    BY <1>2 DEF TypeOK
  <2>1. CASE b = c
    <3>1. k # "delete"
      BY <1>4, <2>1, <1>5, <2>0 DEF Replies
    <3>2. Free(n)
      BY <1>4, <2>1, <3>1 DEF Replies
    <3> QED
      BY <3>1, <3>2, <1>3, <1>4, <2>1 DEF Awaits, Free
  <2>2. CASE b # c
    <3>1. Awaits(b) /\ want[b] \in Names
      BY <1>3, <2>0, <2>2 DEF Replies
    <3>2. m # want[b]
      BY <3>1 DEF Awaits
    <3> QED
      BY <3>1, <3>2, <1>3, <1>4, <2>0, <2>2 DEF Awaits
  <2> QED
    BY <2>1, <2>2
<1> QED
  BY <1>2, <1>5, <1>6

(* The command of a call takes effect. *)
LEMMA JobActsInv == ASSUME Inv, NEW c \in Calls, JobActs(c) PROVE Inv'
<1> USE NoneAssumption DEF Inv, JobActs, callVars
<1>1. TypeOK'
  <2>1. want[c] \in Names \union {"none"} /\ lvm' \subseteq Names
    BY DEF TypeOK
  <2> QED
    BY <2>1 DEF TypeOK, Unfinished
<1>2. ASSUME NEW b \in Calls PROVE Replies(b)'
  <2>1. Replies(b)
    OBVIOUS
  <2>2. job'[b] \in Unfinished <=> job[b] \in Unfinished
    BY DEF TypeOK, Unfinished
  <2>3. job'[b] = "none" <=> job[b] = "none"
    BY DEF TypeOK
  <2> QED
    BY <2>1, <2>2, <2>3 DEF Replies
<1>3. ASSUME NEW b \in waiting' \intersect fresh' PROVE Awaits(b)'
  <2>1. Awaits(b) /\ b \in Calls /\ want[b] \in Names
    BY DEF TypeOK, Replies
  <2>2. drop[c] # want[b]
    BY <2>1 DEF Awaits, Unfinished
  <2>3. \A a \in Calls : job'[a] \in Unfinished <=> job[a] \in Unfinished
    BY DEF TypeOK, Unfinished
  <2>4. job'[b] # "running" => want'[b] \in lvm'
    <3>1. CASE b = c
      BY <2>1, <3>1
    <3>2. CASE b # c
      <4>1. job'[b] = job[b]
        BY <3>2, <2>1 DEF TypeOK
      <4> QED
        BY <4>1, <2>1, <2>2 DEF Awaits
    <3> QED
      BY <3>1, <3>2
  <2> QED
    BY <2>1, <2>3, <2>4 DEF Awaits
<1> QED
  BY <1>1, <1>2, <1>3

(* A job ends: what the ends have in common. *)
LEMMA JobOverInv ==
  ASSUME Inv, NEW c \in Calls, job[c] \in Unfinished, JobOver(c), up' \in BOOLEAN,
         waiting' \subseteq waiting, \A b \in Calls : b # c /\ b \in waiting => b \in waiting',
         replies' \in [Calls -> 0..2], \A b \in Calls : b # c => replies'[b] = replies[b],
         c \in waiting' => job[c] = "acted" /\ replies'[c] = replies[c]
  PROVE  Inv'
<1> USE DEF Inv, JobOver, callVars
<1>1. TypeOK'
  <2>1. job' \in [Calls -> Unfinished \union {"none", "over"}]
    BY DEF TypeOK
  <2> QED
    BY <2>1 DEF TypeOK
<1>2. /\ job'[c] = "over"
      /\ \A b \in Calls : b # c => job'[b] = job[b]
  BY DEF TypeOK
<1>3. ASSUME NEW b \in Calls PROVE Replies(b)'
  <2>1. Replies(b)
    OBVIOUS
  <2>2. CASE b = c
    BY <1>2, <2>1, <2>2 DEF Replies, Unfinished
  <2>3. CASE b # c
    BY <1>2, <2>1, <2>3 DEF Replies
  <2> QED
    BY <2>2, <2>3
<1>4. ASSUME NEW b \in waiting' \intersect fresh' PROVE Awaits(b)'
  <2>1. Awaits(b) /\ b \in Calls
    BY DEF TypeOK
  <2>2. \A a \in Calls : job'[a] \in Unfinished => job[a] \in Unfinished
    BY <1>2 DEF Unfinished
  <2>3. job'[b] # "running" => job[b] # "running"
    BY <1>2, <2>1
  <2> QED
    BY <2>1, <2>2, <2>3 DEF Awaits
<1> QED
  BY <1>1, <1>3, <1>4

LEMMA JobEndsInv ==
  ASSUME Inv, NEW c \in Calls,
         DeleteOver(c) \/ JobSucceeded(c) \/ JobFailed(c) \/ JobFailedAfterReply(c)
  PROVE  Inv'
<1>1. job[c] \in Unfinished /\ JobOver(c)
  BY DEF DeleteOver, JobSucceeded, JobFailed, JobFailedAfterReply, Unfinished
<1>2. replies \in [Calls -> 0..2] /\ replies[c] \in 0..1 /\ up \in BOOLEAN
  BY <1>1 DEF Inv, TypeOK, Replies
<1>3. replies' \in [Calls -> 0..2] /\ \A b \in Calls : b # c => replies'[b] = replies[b]
  BY <1>2 DEF DeleteOver, JobSucceeded, JobFailed, JobFailedAfterReply, Settles
<1>4. up' \in BOOLEAN
  <2>1. up' = up \/ up' = FALSE
    BY Zenon DEF DeleteOver, JobSucceeded, JobFailed, JobFailedAfterReply
  <2> QED
    BY Zenon, <1>2, <2>1
<1>5. /\ waiting' \subseteq waiting
      /\ \A b \in Calls : b # c /\ b \in waiting => b \in waiting'
      /\ c \in waiting' => job[c] = "acted" /\ replies'[c] = replies[c]
  BY DEF DeleteOver, JobSucceeded, JobFailed, JobFailedAfterReply, Settles, Inv, Replies
<1> QED
  BY <1>1, <1>3, <1>4, <1>5, JobOverInv
-----------------------------------------------------------------------------
(* An object is published: nobody waits for its name any more. *)
LEMMA PublishInv == ASSUME Inv, NEW n \in Names, Publish(n) PROVE Inv'
<1> USE DEF Inv, Publish, callVars
<1>1. ASSUME NEW c \in Calls
      PROVE  /\ replies'[c] = replies[c] + (IF c \in waiting /\ want[c] = n THEN 1 ELSE 0)
             /\ c \in waiting' <=> c \in waiting /\ want[c] # n
  OBVIOUS
<1>2. ASSUME NEW c \in Calls PROVE replies'[c] \in 0..2 /\ Replies(c)'
  <2>1. Replies(c) /\ replies[c] \in 0..2
    BY DEF TypeOK
  <2> QED
    BY <1>1, <2>1 DEF Replies, Unfinished
<1>3. replies' \in [Calls -> 0..2]
  BY <1>2
<1>4. TypeOK'
  BY <1>3 DEF TypeOK
<1>5. ASSUME NEW c \in waiting' \intersect fresh' PROVE Awaits(c)'
  BY DEF TypeOK, Awaits
<1> QED
  BY <1>2, <1>4, <1>5

(* Every step preserves the invariant. *)
LEMMA NextInv == Inv /\ [Next]_vars => Inv'
<1> SUFFICES ASSUME Inv, [Next]_vars PROVE Inv'
  OBVIOUS
<1>1. ASSUME NEW c \in Calls, CallCreate(c) \/ CallActivate(c) PROVE Inv'
  <2> PICK n \in Names, k \in {"create", "activate"} :
         StartCall(c, k, n, "none") /\ waiting' = waiting \union {c}
    BY <1>1 DEF CallCreate, CallActivate
  <2>1. k \in Kinds /\ k # "delete" /\ "none" # n
    BY NoneAssumption DEF Kinds
  <2> QED
    BY <2>1, StartInv
<1>2. ASSUME NEW c \in Calls, CallRename(c) PROVE Inv'
  <2> PICK n \in Names, m \in tree :
         n # m /\ StartCall(c, "rename", n, m) /\ waiting' = waiting \union {c}
    BY <1>2 DEF CallRename
  <2> QED
    BY StartInv DEF Kinds
<1>3. ASSUME NEW c \in Calls, CallDelete(c) PROVE Inv'
  <2> PICK m \in tree : StartCall(c, "delete", "none", m) /\ waiting' = waiting
    BY <1>3 DEF CallDelete
  <2> QED
    BY StartInv DEF Kinds
<1>4. ASSUME NEW n \in Names, Unpublish(n) PROVE Inv'
  BY <1>4 DEF Inv, Unpublish, TypeOK, Replies, Awaits, callVars
<1>5. CASE UNCHANGED vars
  BY <1>5 DEF vars, Inv, TypeOK, Replies, Awaits
<1> QED
  BY <1>1, <1>2, <1>3, <1>4, <1>5, JobActsInv, JobEndsInv, PublishInv DEF Next, JobSteps

LEMMA InvHolds == Spec => []Inv
  BY InitInv, NextInv, PTL DEF Spec

(* Every variable stays in its range: no call is answered more than twice. *)
THEOREM TypeCorrect == Spec => []TypeOK
<1>1. Inv => TypeOK
  BY DEF Inv
<1> QED
  BY <1>1, InvHolds, PTL

(* A closure that is still connected was not used to reply. *)
THEOREM ConnectionsCorrect == Spec => []ConnectedNotReplied
<1>1. Inv => ConnectedNotReplied
  BY DEF Inv, TypeOK, Replies, ConnectedNotReplied
<1> QED
  BY <1>1, InvHolds, PTL

(* What a call for a fresh name still waits for when its job is over is    *)
(* there, and about to be published.                                       *)
THEOREM WaitsCorrect == Spec => []WaitedForComes
<1>1. Inv => WaitedForComes
  BY DEF Inv, TypeOK, Replies, Awaits, Unfinished, WaitedForComes
<1> QED
  BY <1>1, InvHolds, PTL

(* A call is answered a second time, or the daemon brought down, only when *)
(* a job ends after its call was answered.                                 *)
THEOREM SecondUseCorrect == Spec => SecondUseExplained
<1> DEFINE Explained ==
      /\ \A c \in Calls : replies[c] > 0 /\ replies'[c] # replies[c] => EndsAnswered(c)
      /\ up /\ ~up' => \E c \in Calls : EndsAnswered(c)
<1>1. ASSUME Inv, [Next]_vars PROVE [Explained]_vars
  <2> USE DEF EndsAnswered
  <2>0. TypeOK /\ \A c \in Calls : Replies(c)
    BY <1>1 DEF Inv
  <2>1. ASSUME NEW c \in Calls, job[c] \in Unfinished, JobOver(c), up' = up,
               \A b \in Calls : b # c => replies'[b] = replies[b]
        PROVE  Explained
    <3>1. job'[c] = "over"
      BY <2>0, <2>1 DEF JobOver, TypeOK
    <3> QED
      BY <2>1, <3>1
  <2>2. ASSUME NEW c \in Calls, DeleteOver(c) \/ JobSucceeded(c) \/ JobFailed(c)
        PROVE  Explained
    <3>1. job[c] \in Unfinished /\ JobOver(c) /\ up' = up
      BY <2>2 DEF DeleteOver, JobSucceeded, JobFailed, Unfinished
    <3>2. \A b \in Calls : b # c => replies'[b] = replies[b]
      BY <2>0, <2>2 DEF DeleteOver, JobSucceeded, JobFailed, Settles, TypeOK
    <3> QED
      BY <2>1, <3>1, <3>2
  <2>3. ASSUME NEW c \in Calls, JobFailedAfterReply(c) PROVE Explained
    <3>1. EndsAnswered(c)
      BY <2>0, <2>3 DEF JobFailedAfterReply, JobOver, TypeOK, Replies
    <3>2. \A b \in Calls : b # c => replies'[b] = replies[b]
      BY <2>0, <2>3 DEF JobFailedAfterReply, TypeOK
    <3> QED
      BY <3>1, <3>2
  <2>4. ASSUME NEW n \in Names, Publish(n) PROVE Explained
    BY <2>0, <2>4 DEF Publish, TypeOK, Replies
  <2>5. CASE UNCHANGED <<replies, up>>
    BY <2>5
  <2> QED
    BY <1>1, <2>2, <2>3, <2>4, <2>5 DEF Next, JobSteps, CallCreate, CallActivate, CallRename,
       CallDelete, StartCall, JobActs, Unpublish, vars
<1> QED
  BY <1>1, InvHolds, PTL DEF Spec, SecondUseExplained
-----------------------------------------------------------------------------
(* A call for a fresh name is not forgotten: until it is answered, its job *)
(* is under way, or what it asked for is there and about to be published.  *)
FreshUnderWay ==
    \A c \in fresh : replies[c] = 0 => job[c] \in Unfinished \/ want[c] \in lvm \ tree

(* Its closure stays connected as long as it is not answered. *)
FreshConnected == \A c \in fresh : replies[c] = 0 => c \in waiting

LEMMA FreshConnectedInv == Inv /\ FreshConnected /\ [Next]_vars => FreshConnected'
<1> SUFFICES ASSUME Inv, FreshConnected, [Next]_vars PROVE FreshConnected'
  OBVIOUS
<1> USE DEF FreshConnected
<1>0. TypeOK /\ \A c \in Calls : Replies(c)
  BY DEF Inv
<1>1. ASSUME NEW c \in Calls, CallCreate(c) \/ CallActivate(c) \/ CallRename(c)
      PROVE  FreshConnected'
  BY <1>1 DEF CallCreate, CallActivate, CallRename, StartCall
<1>2. ASSUME NEW c \in Calls, CallDelete(c) PROVE FreshConnected'
  BY <1>2 DEF CallDelete, StartCall
<1>3. ASSUME NEW c \in Calls, DeleteOver(c) \/ JobFailed(c) PROVE FreshConnected'
  <2>1. /\ replies'[c] = replies[c] + 1 /\ fresh' = fresh
        /\ \A b \in Calls \ {c} : replies'[b] = replies[b]
        /\ \A b \in waiting : b = c \/ b \in waiting'
    BY <1>0, <1>3 DEF DeleteOver, JobFailed, JobOver, Settles, callVars, TypeOK
  <2>2. replies[c] \in 0..2 /\ fresh \subseteq Calls
    BY <1>0 DEF TypeOK
  <2> QED
    BY <2>1, <2>2
<1>4. ASSUME NEW c \in Calls, JobFailedAfterReply(c) PROVE FreshConnected'
  <2>1. replies[c] = 1 /\ fresh \subseteq Calls /\ replies \in [Calls -> 0..2]
    BY <1>0, <1>4 DEF JobFailedAfterReply, Replies, TypeOK
  <2>2. fresh' = fresh /\ waiting' = waiting
    BY <1>4 DEF JobFailedAfterReply, JobOver, callVars
  <2>3. replies' = [replies EXCEPT ![c] = @ + 1] \/ replies' = replies
    BY <1>4, Zenon DEF JobFailedAfterReply
  <2>4. \A b \in Calls : replies'[b] = 0 => replies[b] = 0
    BY <2>1, <2>3
  <2> QED
    BY <2>1, <2>2, <2>4
<1>5. ASSUME NEW n \in Names, Publish(n) PROVE FreshConnected'
  <2> SUFFICES ASSUME NEW c \in fresh, replies'[c] = 0 PROVE c \in waiting'
    BY <1>5 DEF Publish, callVars
  <2>1. /\ c \in Calls /\ replies[c] \in 0..2
        /\ replies'[c] = replies[c] + (IF c \in waiting /\ want[c] = n THEN 1 ELSE 0)
    BY <1>0, <1>5 DEF Publish, TypeOK
  <2>2. replies[c] = 0 /\ ~(c \in waiting /\ want[c] = n)
    BY <2>1
  <2> QED
    BY <1>5, <2>2 DEF Publish
<1>6. CASE UNCHANGED <<fresh, replies, waiting>>
  BY <1>6
<1> QED
  BY <1>1, <1>2, <1>3, <1>4, <1>5, <1>6
  DEF Next, JobSteps, JobActs, JobSucceeded, JobOver, Unpublish, callVars, vars

(* The safety part of FreshCallAnswered: something that leads to the       *)
(* answer of a call for a fresh name is always under way.                  *)
THEOREM FreshNotForgotten == Spec => []FreshUnderWay
<1>1. Init => FreshConnected
  BY DEF Init, FreshConnected
<1>2. Inv /\ FreshConnected => FreshUnderWay
  BY DEF Inv, TypeOK, Replies, Awaits, Unfinished, FreshConnected, FreshUnderWay
<1> QED
  BY <1>1, <1>2, FreshConnectedInv, InvHolds, PTL DEF Spec
=============================================================================
