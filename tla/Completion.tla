---------------------------- MODULE Completion ----------------------------
(***************************************************************************)
(* How a D-Bus call that runs an LVM command gets its reply.               *)
(*                                                                         *)
(* VolumeGroupCreate, Rename, the Create... methods, CreateSnapshot and    *)
(* Activate start a job and wait for two things at once: for the job, to   *)
(* report that it failed, and for an object of the expected name to be     *)
(* published, to return its path.  Both handlers share a CompleteClosure,  *)
(* which belongs to the second one: it is freed when that is disconnected, *)
(* and the first one still has the pointer.  Delete and Deactivate reply   *)
(* when the job is over.                                                   *)
(*                                                                         *)
(* Names stand for what the call waits for (volume groups, logical         *)
(* volumes, blocks of active volumes).  lvm is what LVM has, tree what is  *)
(* exported; VgSync says how one follows the other, here a name is         *)
(* published or unpublished some time after LVM has it or has it no more.  *)
(***************************************************************************)
EXTENDS Naturals, FiniteSets

CONSTANTS
    MaxCalls,       \* how many method calls are made
    Names           \* names of objects

ASSUME CallsAssumption == MaxCalls \in Nat
ASSUME NoneAssumption == "none" \notin Names

Calls == 1..MaxCalls        \* in the order in which they arrive

Kinds == {"create", "rename", "activate", "delete"}
Unfinished == {"running", "acted"}     \* before and after it took effect

VARIABLES
    lvm,            \* names LVM has
    tree,           \* names of exported objects
    kind, want, drop,   \* of each call: what it is, the name it makes
                    \* appear and the name it makes disappear, or "none"
    job,            \* the job of each call
    waiting,        \* calls whose CompleteClosure is connected
    replies,        \* number of replies sent
    fresh,          \* calls that asked for a name nothing else was about
    up              \* FALSE once the process has died of a bad access

callVars == <<kind, want, drop, fresh>>
vars == <<lvm, tree, kind, want, drop, job, waiting, replies, fresh, up>>

Init ==
    /\ lvm \in SUBSET Names
    /\ tree = lvm
    /\ kind = [c \in Calls |-> "none"]
    /\ want = [c \in Calls |-> "none"]
    /\ drop = [c \in Calls |-> "none"]
    /\ job = [c \in Calls |-> "none"]
    /\ waiting = {}
    /\ replies = [c \in Calls |-> 0]
    /\ fresh = {}
    /\ up = TRUE
-----------------------------------------------------------------------------
(* No object, no volume and no other call has anything to do with n. *)
Free(n) ==
    /\ n \notin lvm \union tree
    /\ \A c \in waiting : want[c] # n
    /\ \A c \in Calls : job[c] \in Unfinished => want[c] # n /\ drop[c] # n

(* The handler of a method: launch the job, connect the handlers.  The     *)
(* object it is called on is exported; any name may be asked for.          *)
StartCall(c, k, n, m) ==
    /\ up
    /\ job[c] = "none"
    /\ \A b \in Calls : b < c => job[b] # "none"
    /\ kind' = [kind EXCEPT ![c] = k]
    /\ want' = [want EXCEPT ![c] = n]
    /\ drop' = [drop EXCEPT ![c] = m]
    /\ job' = [job EXCEPT ![c] = "running"]
    /\ fresh' = IF k # "delete" /\ Free(n) THEN fresh \union {c} ELSE fresh
    /\ UNCHANGED <<lvm, tree, replies, up>>

(* handle_volume_group_create, handle_create_plain_volume and the like *)
CallCreate(c) == \E n \in Names :
    /\ StartCall(c, "create", n, "none")
    /\ waiting' = waiting \union {c}

(* handle_activate: n is the block of the volume, active or not. *)
CallActivate(c) == \E n \in Names :
    /\ StartCall(c, "activate", n, "none")
    /\ waiting' = waiting \union {c}

(* handle_rename: of a group, of a volume *)
CallRename(c) == \E n \in Names, m \in tree :
    /\ n # m
    /\ StartCall(c, "rename", n, m)
    /\ waiting' = waiting \union {c}

(* handle_delete, handle_deactivate *)
CallDelete(c) == \E m \in tree :
    /\ StartCall(c, "delete", "none", m)
    /\ UNCHANGED waiting
-----------------------------------------------------------------------------
(* The LVM command takes effect, if it can. *)
Possible(c) ==
    /\ kind[c] \in {"create", "rename"} => want[c] \notin lvm
    /\ kind[c] \in {"rename", "delete"} => drop[c] \in lvm

JobActs(c) ==
    /\ job[c] = "running"
    /\ Possible(c)
    /\ lvm' = (lvm \ {drop[c]}) \union ({want[c]} \ {"none"})
    /\ job' = [job EXCEPT ![c] = "acted"]
    /\ UNCHANGED <<tree, callVars, waiting, replies, up>>

(* Mutant of Settles: the failure is reported and the wait goes on. *)
SettlesKeepingClosure(c) ==
    /\ replies' = [replies EXCEPT ![c] = @ + 1]
    /\ UNCHANGED waiting

(* Reply to c and disconnect its publication handler, which frees the      *)
(* closure.                                                                *)
Settles(c) ==
    /\ replies' = [replies EXCEPT ![c] = @ + 1]
    /\ waiting' = waiting \ {c}

(* The job's completed signal is dispatched. *)
JobOver(c) ==
    /\ up
    /\ job' = [job EXCEPT ![c] = "over"]
    /\ UNCHANGED <<lvm, tree, callVars>>

(* on_delete_complete, on_deactivate_complete: reply in any case. *)
DeleteOver(c) ==
    /\ kind[c] = "delete"
    /\ job[c] \in Unfinished
    /\ JobOver(c)
    /\ replies' = [replies EXCEPT ![c] = @ + 1]
    /\ UNCHANGED <<waiting, up>>

(* Mutant of JobSucceeded: success ends the wait for the object. *)
JobSucceededDropsWait(c) ==
    /\ kind[c] # "delete"
    /\ job[c] = "acted"
    /\ JobOver(c)
    /\ waiting' = waiting \ {c}
    /\ UNCHANGED <<replies, up>>

(* Mutant of JobSucceeded: any end of the command is taken for success. *)
JobSucceededAnyway(c) ==
    /\ kind[c] # "delete"
    /\ job[c] \in Unfinished
    /\ JobOver(c)
    /\ UNCHANGED <<waiting, replies, up>>

(* on_create_complete and its like: a success is left to the publication.  *)
JobSucceeded(c) ==
    /\ kind[c] # "delete"
    /\ job[c] = "acted"
    /\ JobOver(c)
    /\ UNCHANGED <<waiting, replies, up>>

(* The command failed, was cancelled or killed, before or after it took    *)
(* effect; the failure is reported.                                        *)
JobFailed(c) ==
    /\ kind[c] # "delete"
    /\ job[c] \in Unfinished
    /\ c \in waiting
    /\ JobOver(c)
    /\ Settles(c)
    /\ UNCHANGED up

(* The same after the object was published: the closure is freed memory.   *)
(* It may still be intact, and the invocation is answered again, it may be *)
(* recognised as no invocation any more, or the process dies.              *)
JobFailedAfterReply(c) ==
    /\ kind[c] # "delete"
    /\ job[c] \in Unfinished
    /\ c \notin waiting
    /\ JobOver(c)
    /\ \/ replies' = [replies EXCEPT ![c] = @ + 1] /\ UNCHANGED up
       \/ UNCHANGED <<replies, up>>
       \/ up' = FALSE /\ UNCHANGED replies
    /\ UNCHANGED waiting

(* Mutant of Publish: the closures stay connected. *)
PublishKeepingClosures(n) ==
    LET woken == {c \in waiting : want[c] = n}
    IN  /\ up
        /\ n \in lvm \ tree
        /\ tree' = tree \union {n}
        /\ replies' = [c \in Calls |-> replies[c] + IF c \in woken THEN 1 ELSE 0]
        /\ UNCHANGED <<lvm, callVars, job, waiting, up>>

(* An object is published: every call that waits for it gets its reply.    *)
Publish(n) ==
    LET woken == {c \in waiting : want[c] = n}
    IN  /\ up
        /\ n \in lvm \ tree
        /\ tree' = tree \union {n}
        /\ waiting' = waiting \ woken
        /\ replies' = [c \in Calls |-> replies[c] + IF c \in woken THEN 1 ELSE 0]
        /\ UNCHANGED <<lvm, callVars, job, up>>

Unpublish(n) ==
    /\ up
    /\ n \in tree \ lvm
    /\ tree' = tree \ {n}
    /\ UNCHANGED <<lvm, callVars, job, waiting, replies, up>>

JobSteps(c) ==
    \/ JobActs(c)
    \/ DeleteOver(c) \/ JobSucceeded(c) \/ JobFailed(c) \/ JobFailedAfterReply(c)

Next ==
    \/ \E c \in Calls :
        \/ CallCreate(c) \/ CallActivate(c) \/ CallRename(c) \/ CallDelete(c)
        \/ JobSteps(c)
    \/ \E n \in Names : Publish(n) \/ Unpublish(n)

(* Commands end, the main loop dispatches, and the tree follows LVM. *)
Fairness ==
    /\ \A c \in Calls : WF_vars(JobSteps(c))
    /\ \A n \in Names : WF_vars(Publish(n)) /\ WF_vars(Unpublish(n))

Spec == Init /\ [][Next]_vars /\ Fairness
-----------------------------------------------------------------------------
(* Every variable stays in its range; no call is answered more than twice. *)
TypeOK ==
    /\ lvm \subseteq Names /\ tree \subseteq Names
    /\ kind \in [Calls -> Kinds \union {"none"}]
    /\ want \in [Calls -> Names \union {"none"}]
    /\ drop \in [Calls -> Names \union {"none"}]
    /\ job \in [Calls -> Unfinished \union {"none", "over"}]
    /\ waiting \subseteq Calls /\ fresh \subseteq Calls
    /\ replies \in [Calls -> 0..2]
    /\ up \in BOOLEAN

(* A closure that is still connected has not been used to reply: a later   *)
(* publication of the same name cannot answer the call again.              *)
ConnectedNotReplied == \A c \in waiting : replies[c] = 0 /\ kind[c] # "delete"

(* A call that asked for a fresh name and is still waiting when its job is *)
(* over waits for something LVM has and the tree will show.                *)
WaitedForComes ==
    \A c \in waiting \intersect fresh :
        job[c] \in Unfinished \/ want[c] \in lvm \ tree

(* The job of a call that was answered ends. *)
EndsAnswered(c) == replies[c] > 0 /\ job[c] \in Unfinished /\ job'[c] = "over"

(* The one step that answers a call a second time, or brings the daemon    *)
(* down: a job ends after the call that started it was answered.           *)
SecondUseExplained ==
    [][/\ \A c \in Calls : replies[c] > 0 /\ replies'[c] # replies[c] => EndsAnswered(c)
       /\ up /\ ~up' => \E c \in Calls : EndsAnswered(c)]_vars

(* A call that asked for a fresh name is answered. *)
FreshCallAnswered ==
    \A c \in Calls : (c \in fresh) ~> (replies[c] > 0 \/ ~up)

(* "Wait for the object to appear" (manager.c): the call has one reply to  *)
(* give, and gives it once.                                                *)
OneReply == \A c \in Calls : replies[c] <= 1

(* "@result: The object path of the new volume group object"               *)
(* (com.redhat.lvm2.xml): a call returns, whatever name it asks for.       *)
EveryCallAnswered ==
    \A c \in Calls : (job[c] # "none") ~> (replies[c] > 0 \/ ~up)
=============================================================================
