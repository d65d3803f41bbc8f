---------------------------- MODULE Invocation ----------------------------
(***************************************************************************)
(* How a method call gets from the bus to its handler (invocation.c), and  *)
(* what keeps the daemon alive meanwhile (the bus name, num_clients and    *)
(* num_jobs of daemon.c).                                                  *)
(*                                                                         *)
(* Three kinds of threads take part.  The GDBusWorker thread sees every    *)
(* message first: its filter registers an unknown caller, watches its name *)
(* and asks the bus for its uid; the watch and the answer are dispatched   *)
(* in the same thread.  The main loop runs idle sources in the order they  *)
(* were attached.  The authorization of a call runs in a thread of its     *)
(* own, which may wait for the uid of the caller on wait_cond; the handler *)
(* of an authorized call runs on the main loop again and asks for the uid  *)
(* once more before it starts a job.                                       *)
(*                                                                         *)
(* External, modelled from its use: the bus, which delivers messages in    *)
(* order (a call of a client before the news of its disconnection, and an  *)
(* answer with its uid as well); GDBus, which queues the dispatch of a     *)
(* call after its filter ran; polkit.  The code that picks a polkit action *)
(* and the text of its dialog are left out.                                *)
(***************************************************************************)
EXTENDS Naturals, FiniteSets, Sequences

CONSTANTS
    Clients,        \* unique names on the bus; they are never used again
    Calls,          \* method calls
    Caller,         \* who makes a call
    Launching,      \* calls whose handler starts a job; Poll does not
    Root,           \* clients of uid 0
    Persist         \* UlDaemon.persist; main.c leaves it FALSE

ASSUME CallerAssumption == Caller \in [Calls -> Clients]
ASSUME LaunchingAssumption == Launching \subseteq Calls
ASSUME PersistAssumption == Persist \in BOOLEAN
ASSUME FiniteAssumption == IsFiniteSet(Clients) /\ IsFiniteSet(Calls)

VARIABLES
    connected,      \* clients connected to the bus
    pc,             \* how far a call has got
    asked,          \* clients whose uid the bus was asked for, in vain so far
    clients,        \* inv.clients: the names in the table
    uid_state,      \* InvocationClient.uid_state; "none": no such record
    refs,           \* InvocationClient.refs
    failed,         \* why a call's caller could not be looked up, if so
    replies,        \* how many replies a call was given
    authority,      \* inv.authority is not NULL
    todo,           \* idle sources of the main loop, oldest first
    name,           \* the bus name: requested, owned, lost or released
    num_clients,    \* UlDaemon.num_clients
    num_jobs,       \* UlDaemon.num_jobs
    up              \* running, finished, aborted (on purpose) or crashed

busVars    == <<connected, asked>>
clientVars == <<clients, uid_state, refs>>
callVars   == <<pc, failed, replies>>
daemonVars == <<name, num_clients, num_jobs>>
vars == <<connected, pc, asked, clients, uid_state, refs, failed, replies,
          authority, todo, name, num_clients, num_jobs, up>>

Sources == ({"appeared", "disappeared"} \X Clients)
           \union ({"dispatch", "handle"} \X Calls)

Init ==
    /\ connected = Clients
    /\ pc        = [k \in Calls |-> "none"]
    /\ replies   = [k \in Calls |-> 0]
    /\ uid_state = [c \in Clients |-> "none"]
    /\ refs      = [c \in Clients |-> 0]
    /\ failed    = [k \in Calls |-> "no"]
    /\ clients = {} /\ asked = {}
    /\ authority \in BOOLEAN
    /\ todo = <<>>
    /\ name = "requested"
    /\ num_clients = 0 /\ num_jobs = 0
    /\ up = "running"
-----------------------------------------------------------------------------
(* Clients and the bus.                                                    *)

Disconnect(c) ==
    /\ c \in connected
    /\ connected' = connected \ {c}
    /\ UNCHANGED <<asked, clientVars, callVars, authority, todo, daemonVars,
                   up>>

-----------------------------------------------------------------------------
(* The GDBusWorker thread.                                                 *)

(* Mutant of Filter: a new client is not announced to the daemon. *)
FilterSilently(k) ==
    LET c == Caller[k] IN
    /\ pc[k] = "none"
    /\ c \in connected
    /\ pc' = [pc EXCEPT ![k] = "queued"]
    /\ todo' = Append(todo, <<"dispatch", k>>)
    /\ clients' = clients \union {c}
    /\ IF c \in clients
       THEN UNCHANGED <<uid_state, refs, asked>>
       ELSE /\ uid_state' = [uid_state EXCEPT ![c] = "loading"]
            /\ refs' = [refs EXCEPT ![c] = 1]
            /\ asked' = asked \union {c}
    /\ UNCHANGED <<connected, failed, replies, authority, daemonVars, up>>

(* Mutant of Filter: every call announces its caller. *)
FilterEachCall(k) ==
    LET c == Caller[k]
        new == c \notin clients IN
    /\ pc[k] = "none"
    /\ c \in connected
    /\ pc' = [pc EXCEPT ![k] = "queued"]
    /\ todo' = todo \o <<<<"appeared", c>>, <<"dispatch", k>>>>
    /\ clients' = clients \union {c}
    /\ uid_state' = IF new THEN [uid_state EXCEPT ![c] = "loading"]
                    ELSE uid_state
    /\ refs' = IF new THEN [refs EXCEPT ![c] = 1] ELSE refs
    /\ asked' = IF new THEN asked \union {c} ELSE asked
    /\ UNCHANGED <<connected, failed, replies, authority, daemonVars, up>>

(* on_connection_filter, invocation_client_create; GDBus then hands the    *)
(* call to the main loop, which starts its authorization in a thread.  The *)
(* filter does not look at whether the caller is still there: a client     *)
(* that left before it ran is as good as one that leaves right after.      *)
Filter(k) ==
    LET c == Caller[k] IN
    /\ pc[k] = "none"
    /\ c \in connected
    /\ pc' = [pc EXCEPT ![k] = "queued"]
    /\ \/ /\ c \in clients
          /\ todo' = Append(todo, <<"dispatch", k>>)
          /\ UNCHANGED <<asked, clientVars>>
       \/ /\ c \notin clients
          /\ clients' = clients \union {c}
          /\ uid_state' = [uid_state EXCEPT ![c] = "loading"]
          /\ refs' = [refs EXCEPT ![c] = 1]
          /\ asked' = asked \union {c}
          /\ todo' = Append(Append(todo, <<"appeared", c>>), <<"dispatch", k>>)
    /\ UNCHANGED <<connected, failed, replies, authority, daemonVars, up>>

(* g_cond_broadcast: every waiting thread gets to look again. *)
Broadcast == [k \in Calls |-> IF pc[k] = "waiting" THEN "woken" ELSE pc[k]]

(* What the bus says of a client's uid.  The call has the default timeout, *)
(* so a failure may come at any time; an answer with the uid is on the way *)
(* before the news that the client left, and is dispatched before it.      *)
Answers(c) == {"failed"} \union IF c \in connected THEN {"valid"} ELSE {}

(* Mutant of GotUnixUser: an answer that failed wakes nobody up. *)
GotUnixUserQuietly(c) ==
    /\ c \in asked
    /\ asked' = asked \ {c}
    /\ \E a \in Answers(c) :
          /\ uid_state' = IF c \in clients THEN [uid_state EXCEPT ![c] = a]
                          ELSE uid_state
          /\ pc' = IF a = "valid" THEN Broadcast ELSE pc
    /\ UNCHANGED <<connected, clients, refs, failed, replies, authority,
                   todo, daemonVars, up>>

(* on_get_connection_unix_user.  An answer with a uid reads the client     *)
(* whether the table still has it or not.                                  *)
GotUnixUser(c) ==
    /\ c \in asked
    /\ asked' = asked \ {c}
    /\ \E a \in Answers(c) :
          \/ /\ c \in clients
             /\ uid_state' = [uid_state EXCEPT ![c] = a]
             /\ UNCHANGED up
          \/ /\ c \notin clients
             /\ up' = IF a = "valid" THEN "crashed" ELSE up
             /\ UNCHANGED uid_state
    /\ pc' = Broadcast
    /\ UNCHANGED <<connected, clients, refs, failed, replies, authority,
                   todo, daemonVars>>

(* Mutant of ClientVanished: the table's reference is not dropped. *)
ClientVanishedKept(c) ==
    /\ c \in clients
    /\ c \notin connected
    /\ clients' = clients \ {c}
    /\ todo' = Append(todo, <<"disappeared", c>>)
    /\ UNCHANGED <<busVars, uid_state, refs, callVars, authority, daemonVars,
                   up>>

(* on_client_vanished, on NameOwnerChanged. *)
ClientVanished(c) ==
    /\ c \in clients
    /\ c \notin connected
    /\ clients' = clients \ {c}
    /\ refs' = [refs EXCEPT ![c] = @ - 1]
    /\ todo' = Append(todo, <<"disappeared", c>>)
    /\ UNCHANGED <<busVars, uid_state, callVars, authority, daemonVars, up>>
-----------------------------------------------------------------------------
(* The thread that authorizes a call.                                      *)

(* on_authorize_method when invocation_client_lookup reports an error: it  *)
(* replies with the error and returns TRUE, which lets the handler run.    *)
FailLookup(k, why) ==
    /\ pc' = [pc EXCEPT ![k] = "passed"]
    /\ failed' = [failed EXCEPT ![k] = why]
    /\ replies' = [replies EXCEPT ![k] = @ + 1]
    /\ todo' = Append(todo, <<"handle", k>>)

(* Mutant of Lookup: goes on while the uid is still being asked for. *)
LookupAtOnce(k) ==
    /\ pc[k] = "looking"
    /\ Caller[k] \in clients
    /\ refs' = [refs EXCEPT ![Caller[k]] = @ + 1]
    /\ pc' = [pc EXCEPT ![k] = "checking"]
    /\ UNCHANGED <<busVars, clients, uid_state, failed, replies, authority,
                   todo, daemonVars, up>>

(* invocation_client_lookup takes a reference, and waits while the uid is  *)
(* being asked for; a thread that wakes up looks at uid_state again.       *)
Lookup(k) ==
    LET c == Caller[k] IN
    /\ \/ /\ pc[k] = "looking"
          /\ c \in clients
          /\ refs' = [refs EXCEPT ![c] = @ + 1]
       \/ pc[k] = "woken" /\ UNCHANGED refs
    /\ \/ /\ uid_state[c] = "loading"
          /\ pc' = [pc EXCEPT ![k] = "waiting"]
          /\ UNCHANGED <<failed, replies, todo>>
       \/ /\ uid_state[c] = "valid"
          /\ pc' = [pc EXCEPT ![k] = "checking"]
          /\ UNCHANGED <<failed, replies, todo>>
       \/ /\ uid_state[c] = "failed"
          /\ FailLookup(k, "uid")
    /\ UNCHANGED <<busVars, clients, uid_state, authority, daemonVars, up>>

LookupUnknown(k) ==
    /\ pc[k] = "looking"
    /\ Caller[k] \notin clients
    /\ FailLookup(k, "caller")
    /\ UNCHANGED <<busVars, clientVars, authority, daemonVars, up>>

(* The end of on_authorize_method: refused calls have been answered. *)
Authorize(k) ==
    /\ pc' = [pc EXCEPT ![k] = "passed"]
    /\ todo' = Append(todo, <<"handle", k>>)
    /\ UNCHANGED replies

(* Mutant of Refuse: the handler of a refused call runs as well. *)
RefuseAndHandle(k) ==
    /\ pc' = [pc EXCEPT ![k] = "passed"]
    /\ replies' = [replies EXCEPT ![k] = @ + 1]
    /\ todo' = Append(todo, <<"handle", k>>)

Refuse(k) ==
    /\ pc' = [pc EXCEPT ![k] = "done"]
    /\ replies' = [replies EXCEPT ![k] = @ + 1]
    /\ UNCHANGED todo

(* Mutant of WithoutPolkit: returns TRUE for a caller it has turned down. *)
WithoutPolkitHandled(k) ==
    IF Caller[k] \in Root THEN Authorize(k) ELSE RefuseAndHandle(k)

(* authorize_without_polkit *)
WithoutPolkit(k) == IF Caller[k] \in Root THEN Authorize(k) ELSE Refuse(k)

(* on_authorize_method with a uid.  Without an authority the result it     *)
(* clears at the end was never initialized: it may be taken for an object. *)
CheckAuthorization(k) ==
    /\ pc[k] = "checking"
    /\ \/ /\ ~authority
          /\ WithoutPolkit(k)
          /\ up' \in {"running", "crashed"}
       \/ /\ authority           \* polkit says so, or cannot be reached
          /\ Authorize(k) \/ Refuse(k)
          /\ UNCHANGED up
    /\ refs' = [refs EXCEPT ![Caller[k]] = @ - 1]
    /\ UNCHANGED <<busVars, clients, uid_state, failed, authority,
                   daemonVars>>
-----------------------------------------------------------------------------
(* The main loop: idle sources in order, and callbacks of other sources.   *)

Take(s) == todo # <<>> /\ Head(todo) = s /\ todo' = Tail(todo)

(* Mutant of MaybeFinished: does not look at the clients. *)
MaybeFinishedEarly(n, nc, nj) ==
    up' = IF ~Persist /\ n # "owned" /\ nj = 0 THEN "finished" ELSE "running"

(* maybe_finished, with the values its caller has just set. *)
MaybeFinished(n, nc, nj) ==
    up' = IF ~Persist /\ n # "owned" /\ nc = 0 /\ nj = 0
          THEN "finished" ELSE "running"

(* on_client_appeared *)
ClientAppeared(c) ==
    /\ Take(<<"appeared", c>>)
    /\ num_clients' = num_clients + 1
    /\ UNCHANGED <<busVars, clientVars, callVars, authority, name, num_jobs,
                   up>>

(* Mutant of ClientDisappeared: the daemon keeps its name. *)
ClientDisappearedNamed(c) ==
    /\ Take(<<"disappeared", c>>)
    /\ num_clients' = num_clients - 1
    /\ MaybeFinished(name, num_clients', num_jobs)
    /\ UNCHANGED <<busVars, clientVars, callVars, authority, name, num_jobs>>

(* on_client_disappeared, with its assertion.  The last client takes the   *)
(* bus name along, even while jobs run.                                    *)
ClientDisappeared(c) ==
    /\ Take(<<"disappeared", c>>)
    /\ \/ /\ num_clients = 0
          /\ up' = "aborted"
          /\ UNCHANGED <<name, num_clients>>
       \/ /\ num_clients > 0
          /\ num_clients' = num_clients - 1
          /\ name' = IF num_clients = 1 THEN "released" ELSE name
          /\ MaybeFinished(name', num_clients', num_jobs)
    /\ UNCHANGED <<busVars, clientVars, callVars, authority, num_jobs>>

(* on_name_acquired, on_name_lost: until the name is given up the daemon   *)
(* is queued for it, and may be replaced.                                  *)
NameAcquired ==
    /\ name \in {"requested", "lost"}
    /\ name' = "owned"
    /\ UNCHANGED <<busVars, clientVars, callVars, authority, todo,
                   num_clients, num_jobs, up>>

NameLost ==
    /\ name \in {"requested", "owned"}
    /\ name' = "lost"
    /\ MaybeFinished(name', num_clients, num_jobs)
    /\ UNCHANGED <<busVars, clientVars, callVars, authority, todo,
                   num_clients, num_jobs>>

(* GDBus starts the thread that authorizes the call. *)
Dispatch(k) ==
    /\ Take(<<"dispatch", k>>)
    /\ pc' = [pc EXCEPT ![k] = "looking"]
    /\ UNCHANGED <<busVars, clientVars, failed, replies, authority,
                   daemonVars, up>>

(* The method handlers.  A call that was answered already has been given   *)
(* away with its answer, and whatever the handler reads of it may be gone. *)
Stale(k) == IF replies[k] = 0 THEN {} ELSE {"crashed"}

(* ul_invocation_get_caller_uid looks the caller up again; without one it  *)
(* aborts, and a failed answer passes for the uid of the caller.           *)
HandleLaunching(k) ==
    LET c == Caller[k] IN
    /\ k \in Launching
    /\ Take(<<"handle", k>>)
    /\ \/ /\ c \notin clients
          /\ pc' = [pc EXCEPT ![k] = "handling"]
          /\ up' \in {"aborted"} \union Stale(k)
          /\ UNCHANGED num_jobs
       \/ /\ c \in clients
          /\ uid_state[c] # "loading"
          /\ pc' = [pc EXCEPT ![k] = "running"]
          /\ num_jobs' = num_jobs + 1
          /\ up' \in {up} \union Stale(k)
    /\ UNCHANGED <<busVars, clientVars, failed, replies, authority, name,
                   num_clients>>

HandlePlain(k) ==
    /\ k \notin Launching
    /\ Take(<<"handle", k>>)
    /\ pc' = [pc EXCEPT ![k] = "done"]
    /\ replies' = [replies EXCEPT ![k] = @ + 1]
    /\ up' \in {up} \union Stale(k)
    /\ UNCHANGED <<busVars, clientVars, failed, authority, daemonVars>>

(* Mutant of JobCompleted: counts the job out twice. *)
JobCompletedTwice(k) ==
    /\ pc[k] = "running"
    /\ pc' = [pc EXCEPT ![k] = "done"]
    /\ replies' = [replies EXCEPT ![k] = @ + 1]
    /\ num_jobs' = num_jobs - 2
    /\ MaybeFinished(name, num_clients, num_jobs')
    /\ UNCHANGED <<busVars, clientVars, failed, authority, todo, name,
                   num_clients>>

(* Mutant of JobCompleted: does not ask whether the daemon has finished. *)
JobCompletedOnly(k) ==
    /\ pc[k] = "running"
    /\ pc' = [pc EXCEPT ![k] = "done"]
    /\ replies' = [replies EXCEPT ![k] = @ + 1]
    /\ num_jobs' = num_jobs - 1
    /\ UNCHANGED <<busVars, clientVars, failed, authority, todo, name,
                   num_clients, up>>

(* The job of a call completes: its handler replies, on_job_completed      *)
(* counts it out. *)
JobCompleted(k) ==
    /\ pc[k] = "running"
    /\ pc' = [pc EXCEPT ![k] = "done"]
    /\ replies' = [replies EXCEPT ![k] = @ + 1]
    /\ num_jobs' = num_jobs - 1
    /\ MaybeFinished(name, num_clients, num_jobs')
    /\ UNCHANGED <<busVars, clientVars, failed, authority, todo, name,
                   num_clients>>
-----------------------------------------------------------------------------
Worker == \E c \in Clients : GotUnixUser(c) \/ ClientVanished(c)

(* One turn of the main loop. *)
Turn == \/ \E c \in Clients : ClientAppeared(c) \/ ClientDisappeared(c)
        \/ \E k \in Calls : Dispatch(k) \/ HandleLaunching(k) \/ HandlePlain(k)

Thread(k) == Lookup(k) \/ LookupUnknown(k)

Next ==
    /\ up = "running"
    /\ \/ \E k \in Calls : \/ Filter(k) \/ Thread(k)
                           \/ CheckAuthorization(k) \/ JobCompleted(k)
       \/ \E c \in Clients : Disconnect(c)
       \/ Worker \/ Turn \/ NameAcquired \/ NameLost

(* Threads and loops go on, a call to the bus has a timeout, and jobs      *)
(* complete.  Nothing is assumed of clients, of polkit, which may be       *)
(* asking a user, or of the bus name.                                      *)
Fairness ==
    /\ WF_vars(up = "running" /\ Worker)
    /\ WF_vars(up = "running" /\ Turn)
    /\ WF_vars(up = "running" /\ \E k \in Calls : Thread(k))
    /\ WF_vars(up = "running" /\ \E k \in Calls : JobCompleted(k))

Spec == Init /\ [][Next]_vars /\ Fairness
-----------------------------------------------------------------------------
Stages == {"none", "queued", "looking", "waiting", "woken",
           "checking", "passed", "handling", "running", "done"}

TypeOK ==
    /\ connected \subseteq Clients /\ clients \subseteq Clients
    /\ pc \in [Calls -> Stages]
    /\ asked \subseteq Clients
    /\ uid_state \in [Clients -> {"none", "loading", "valid", "failed"}]
    /\ refs \in [Clients -> Nat]
    /\ failed \in [Calls -> {"no", "caller", "uid"}]
    /\ replies \in [Calls -> Nat]
    /\ authority \in BOOLEAN
    /\ todo \in Seq(Sources)
    /\ name \in {"requested", "owned", "lost", "released"}
    /\ num_clients \in Nat /\ num_jobs \in Nat
    /\ up \in {"running", "finished", "aborted", "crashed"}

Queued(what, who) == \E i \in DOMAIN todo : todo[i] = <<what, who>>

(* The clients the daemon knows of: those whose appearance it has been     *)
(* told, and whose disappearance it has not.                               *)
Counted == {c \in Clients : /\ c \in clients \/ Queued("disappeared", c)
                            /\ ~Queued("appeared", c)}

(* num_clients is the number of clients the daemon was told of, although   *)
(* two threads keep the books: news of a client is never applied twice,    *)
(* lost, or applied in the wrong order.                                    *)
ClientCountExact == num_clients = Cardinality(Counted)

(* A caller's record is kept by the table, by the threads that work on its *)
(* calls, and for good by every call that waited for a uid in vain: only   *)
(* those never give their reference back.                                  *)
Holders(c) == {k \in Calls : /\ Caller[k] = c
                             /\ \/ pc[k] \in {"waiting", "woken", "checking"}
                                \/ failed[k] = "uid"}

RefsExact ==
    \A c \in Clients :
        refs[c] = Cardinality(Holders(c)) + IF c \in clients THEN 1 ELSE 0

(* The daemon aborts only in get_caller_uid, for a caller that has left    *)
(* since it made the call; never in the assertion on num_clients.  It      *)
(* reads memory it does not own only where there is no authority, or where *)
(* a call is handled after the answer that its caller is not known.  That  *)
(* the answer with a uid finds its client is not told by it: Answers takes *)
(* the order of the answer and the news of the departure from the bus.     *)
DeathExplained ==
    /\ up = "aborted" =>
          \E k \in Calls : pc[k] = "handling" /\ Caller[k] \notin connected
    /\ up = "crashed" => ~authority \/ \E k \in Calls : failed[k] # "no"

(* A call is answered once, and a job is started for a user that is known, *)
(* unless looking up the caller failed.                                    *)
SecondReplyExplained ==
    \A k \in Calls : failed[k] = "no" =>
        /\ replies[k] = IF pc[k] = "done" THEN 1 ELSE 0
        /\ pc[k] = "running" => uid_state[Caller[k]] = "valid"

(* A handler that asks for the uid of a caller the daemon knows gets it at *)
(* once: the main loop never waits for the bus.                            *)
LoopNeverWaits ==
    \A k \in Calls : pc[k] = "passed" /\ Caller[k] \in clients =>
        uid_state[Caller[k]] # "loading"

(* The daemon leaves only when nobody is served: no job runs, and a call   *)
(* under way is of a caller who left, or whose appearance is still queued. *)
FinishedWhenUnneeded ==
    up = "finished" =>
        \A k \in Calls :
            \/ pc[k] \in {"none", "done"}
            \/ pc[k] # "running" /\ Caller[k] \notin connected
            \/ pc[k] = "queued" /\ Queued("appeared", Caller[k])

(* A daemon that gave up or lost its name stays for a client or a job.     *)
NoIdleDaemon ==
    up = "running" /\ name \in {"released", "lost"} /\ ~Persist =>
        num_clients + num_jobs > 0

(* No thread waits for a uid for ever: it is woken up, whether the uid is  *)
(* found out or not, unless the news that the caller left came before the  *)
(* answer: nobody looks for a record that the table has lost.              *)
Forgotten(c) == c \notin clients /\ uid_state[c] = "loading"

WaitEnds ==
    []<>(\A k \in Calls :
            pc[k] = "waiting" => Forgotten(Caller[k]) \/ up # "running")

(* Once every client has left, a daemon that was called ends.              *)
AbandonedDaemonEnds ==
    []<>(~Persist /\ connected = {} /\ (\E k \in Calls : pc[k] # "none")
            => up # "running")

(* invocation.c:604: "This must have been checked before this call,        *)
(* invocation should not have been authorized if this had failed."         *)
CallerWasChecked == up # "aborted"
=============================================================================
