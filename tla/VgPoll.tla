------------------------------ MODULE VgPoll ------------------------------
(***************************************************************************)
(* Polling of a volume group (volumegroup.c): Poll() asks for its          *)
(* properties to be read again, at most once in five seconds.              *)
(*                                                                         *)
(* A poll starts a timer and a helper process, after interrupting the      *)
(* helper of the poll before if that is still at work.  Requests that come *)
(* while the timer runs are remembered and served together when it         *)
(* expires.  The result of a helper is told to be that of the current poll *)
(* by its process id.  An update of the group after a uevent (VgSync)      *)
(* reads and sets the same properties, through a helper of its own.        *)
(*                                                                         *)
(* Idle sources, the timer and helpers each hold a reference to the group, *)
(* which may be disposed, because it is gone from LVM, while they do.  So  *)
(* do the object on the bus, the calls that wait for a volume to appear,   *)
(* and the logical volumes of the group, which never give theirs back.     *)
(* What GLib holds for the time of a dispatch of its own is left out.      *)
(*                                                                         *)
(* The kernel may use a process id again once its process is reaped, which *)
(* GLib may do before it dispatches the child watch.  Properties are       *)
(* abstracted to the version of LVM's metadata they show, those of logical *)
(* volumes with them; which volumes a result names is left open.           *)
(***************************************************************************)
EXTENDS Naturals, FiniteSets

CONSTANTS
    Pids,           \* process ids
    MaxVersion,     \* bound: changes made to the group in LVM
    MaxPolls,       \* bound: calls of Poll
    MaxUpdates,     \* bound: updates of the group
    MaxWaits,       \* bound: calls that wait for a volume at one time
    LVs             \* names of visible logical volumes

ASSUME PidsAssumption == 0 \notin Pids
ASSUME BoundsAssumption ==
    /\ MaxVersion \in Nat /\ MaxPolls \in Nat
    /\ MaxUpdates \in Nat /\ MaxWaits \in Nat
ASSUME VolumesAssumption == IsFiniteSet(LVs)

VARIABLES
    version,        \* of the group in LVM
    known,          \* the version the group's properties show, or 0
    by,             \* who set them last: a poll, an update or nobody
    polls, updates, \* how many there were
    target,         \* the version of the last Poll call
    idles,          \* undispatched idle sources of Poll calls
    timer,          \* poll_timeout_id is set
    poll_requested, \* somebody asked while the timer ran
    poll_pid,       \* the helper of the current poll, or 0
    started,        \* helpers started so far; they are numbered in order
    latest,         \* the number of the last poll's helper
    helper,         \* number -> what for, its pid, state and version read
    refs,           \* references to the group
    disposed,
    need_publish,
    exported,       \* the group is an object on the bus
    logical_volumes,\* the names in its table
    made,           \* volume objects ever made for the group
    waits           \* calls whose closure names the group

object == <<need_publish, exported, logical_volumes, made, waits>>

vars == <<version, known, by, polls, updates, target, idles, timer,
          poll_requested, poll_pid, started, latest, helper, refs, disposed,
          object>>

Helpers == 1 .. (MaxPolls + MaxUpdates)
NoHelper == [use |-> "none", pid |-> 0, state |-> "none", asOf |-> 0]

(* The group was just made (ul_volume_group_new), or is on the bus with    *)
(* the volumes of an earlier update. *)
Init ==
    /\ version = 1 /\ by = "nobody"
    /\ polls = 0 /\ updates = 0 /\ target = 0
    /\ idles = 0
    /\ timer = FALSE /\ poll_requested = FALSE
    /\ poll_pid = 0 /\ started = 0 /\ latest = 0
    /\ helper = [h \in Helpers |-> NoHelper]
    /\ disposed = FALSE /\ waits = 0
    /\ \/ /\ need_publish = TRUE /\ exported = FALSE
          /\ known = 0
          /\ logical_volumes = {} /\ made = 0
          /\ refs = 1
       \/ /\ need_publish = FALSE /\ exported = TRUE
          /\ known = 1
          /\ logical_volumes \in SUBSET LVs
          /\ made = Cardinality(logical_volumes)
          /\ refs = 2 + made
-----------------------------------------------------------------------------
(* LVM and the helper processes.                                           *)

Change ==
    /\ version < MaxVersion
    /\ version' = version + 1
    /\ UNCHANGED <<known, by, polls, updates, target, idles, timer,
                   poll_requested, poll_pid, started, latest, helper, refs,
                   disposed, object>>

(* A helper reads the group, prints it and exits, or fails; an interrupted *)
(* one fails (see Interrupt). *)
HelperGoes(h) ==
    /\ helper[h].state = "running"
    /\ \/ helper' = [helper EXCEPT ![h].state = "exited", ![h].asOf = version]
       \/ helper' = [helper EXCEPT ![h].state = "failed"]
    /\ UNCHANGED <<version, known, by, polls, updates, target, idles, timer,
                   poll_requested, poll_pid, started, latest, refs, disposed,
                   object>>

Live == {h \in Helpers : helper[h].state = "running"}

(* GLib has reaped a helper: its pid is free, its watch is not dispatched. *)
Ended  == {h \in Helpers : helper[h].state \in {"exited", "failed"}}
Reaped == {h \in Helpers : helper[h].state \in {"reaped", "reaped-failed"}}

Reap(h) ==
    /\ h \in Ended
    /\ helper' = [helper EXCEPT ![h].state =
                     IF @ = "exited" THEN "reaped" ELSE "reaped-failed"]
    /\ UNCHANGED <<version, known, by, polls, updates, target, idles, timer,
                   poll_requested, poll_pid, started, latest, refs, disposed,
                   object>>
-----------------------------------------------------------------------------
(* References held to the group besides the manager's. *)
Undispatched == {h \in Helpers : helper[h].state \notin {"none", "done", "lost"}}

(* kill (poll_pid, SIGINT): reaches whatever process has the pid now. *)
Interrupt(p) ==
    [h \in Helpers |->
        IF p # 0 /\ h \in Live /\ helper[h].pid = p
        THEN [helper[h] EXCEPT !.state = "failed"] ELSE helper[h]]

FreePids(hs) == Pids \ {hs[h].pid : h \in {h \in Helpers :
                           hs[h].state \in {"running", "exited", "failed"}}}

(* ul_daemon_spawn_for_variant: a helper with a pid and a watch that holds *)
(* a reference, or a failure that is reported at once. *)
Spawn(hs, use, p) ==
    /\ started' = started + 1
    /\ helper' = [hs EXCEPT ![started + 1] =
                     [use |-> use, pid |-> p, state |-> "running", asOf |-> 0]]

SpawnFails(hs, use) ==
    /\ started' = started + 1
    /\ helper' = [hs EXCEPT ![started + 1] =
                     [use |-> use, pid |-> 0, state |-> "lost", asOf |-> 0]]

(* Mutant of PollNow: the process id of a poll is not noted. *)
PollNowUnnoted(released) ==
    /\ timer' = TRUE
    /\ latest' = started + 1
    /\ \E p \in FreePids(Interrupt(poll_pid)) : Spawn(Interrupt(poll_pid), "poll", p)
    /\ poll_pid' = IF poll_pid = 0 THEN helper'[started + 1].pid ELSE poll_pid
    /\ refs' = refs + 2 - released

(* poll_now: the timer and the helper take a reference each; "released" is *)
(* what the idle source or timer that called it gives back.  When the      *)
(* helper cannot be started the callback drops its reference at once, and  *)
(* finds no poll to speak of or one that is not its own.                   *)
PollNow(released) ==
    LET hs == Interrupt(poll_pid) IN
    /\ timer' = TRUE
    /\ latest' = started + 1
    /\ \/ \E p \in FreePids(hs) :
             /\ Spawn(hs, "poll", p)
             /\ poll_pid' = p
             /\ refs' = refs + 2 - released
       \/ /\ SpawnFails(hs, "poll")
          /\ poll_pid' = 0
          /\ refs' = refs + 1 - released

(* Mutant of Poll: the idle source takes no reference. *)
PollUnheld ==
    /\ exported
    /\ polls < MaxPolls
    /\ polls' = polls + 1
    /\ target' = version
    /\ idles' = idles + 1
    /\ UNCHANGED <<version, known, by, updates, timer, poll_requested,
                   poll_pid, started, latest, helper, refs, disposed, object>>

(* handle_poll, ul_volume_group_poll: a call reaches an object on the bus. *)
Poll ==
    /\ exported
    /\ polls < MaxPolls
    /\ polls' = polls + 1
    /\ target' = version
    /\ idles' = idles + 1
    /\ refs' = refs + 1
    /\ UNCHANGED <<version, known, by, updates, timer, poll_requested,
                   poll_pid, started, latest, helper, disposed, object>>

(* Mutant of PollInMain: a request while the timer runs is forgotten. *)
PollInMainForgetful ==
    /\ idles > 0
    /\ idles' = idles - 1
    /\ \/ /\ timer
          /\ refs' = refs - 1
          /\ UNCHANGED <<timer, poll_pid, started, latest, helper>>
       \/ ~timer /\ PollNow(1)
    /\ UNCHANGED <<version, known, by, polls, updates, target,
                   poll_requested, disposed, object>>

PollInMain ==
    /\ idles > 0
    /\ idles' = idles - 1
    /\ \/ /\ timer
          /\ poll_requested' = TRUE
          /\ refs' = refs - 1
          /\ UNCHANGED <<timer, poll_pid, started, latest, helper>>
       \/ /\ ~timer
          /\ PollNow(1)
          /\ UNCHANGED poll_requested
    /\ UNCHANGED <<version, known, by, polls, updates, target, disposed, object>>

PollTimeout ==
    /\ timer
    /\ \/ /\ poll_requested
          /\ poll_requested' = FALSE
          /\ PollNow(1)
       \/ /\ ~poll_requested
          /\ timer' = FALSE
          /\ refs' = refs - 1
          /\ UNCHANGED <<poll_requested, poll_pid, started, latest, helper>>
    /\ UNCHANGED <<version, known, by, polls, updates, target, idles, disposed,
                   object>>

(* The child watch of a helper is dispatched: it is reaped by then. *)
Dispatched(h) ==
    /\ h \in Reaped
    /\ helper' = [helper EXCEPT ![h].state =
                     IF @ = "reaped" THEN "done" ELSE "lost"]

(* Mutant of PollResult: an outdated result keeps its reference. *)
PollResultLeaking(h) ==
    /\ helper[h].use = "poll"
    /\ Dispatched(h)
    /\ poll_pid' = IF helper[h].pid = poll_pid THEN 0 ELSE poll_pid
    /\ refs' = IF helper[h].pid = poll_pid THEN refs - 1 ELSE refs
    /\ known' = IF helper[h].pid = poll_pid /\ helper[h].state = "reaped"
                THEN helper[h].asOf ELSE known
    /\ by' = IF known' = known THEN by ELSE "poll"
    /\ UNCHANGED <<version, polls, updates, target, idles, timer,
                   poll_requested, started, latest, disposed, object>>

(* poll_with_variant, called by variant_reader_watch_child: volumes the    *)
(* table does not have are left to the next update. *)
PollResult(h) ==
    /\ helper[h].use = "poll"
    /\ Dispatched(h)
    /\ refs' = refs - 1
    /\ \/ /\ helper[h].pid # poll_pid
          /\ UNCHANGED <<poll_pid, known, by>>
       \/ /\ helper[h].pid = poll_pid
          /\ poll_pid' = 0
          /\ \/ /\ helper[h].state = "reaped-failed"
                /\ UNCHANGED <<known, by>>
             \/ /\ helper[h].state = "reaped"
                /\ known' = helper[h].asOf
                /\ by' = "poll"
    /\ UNCHANGED <<version, polls, updates, target, idles, timer,
                   poll_requested, started, latest, disposed, object>>

(* The first result of an update, or its failure, puts the group on the    *)
(* bus; the object there holds a reference. *)
Count(b) == IF b THEN 1 ELSE 0

Publish ==
    /\ need_publish' = FALSE
    /\ exported' = (exported \/ need_publish)

(* ul_volume_group_update: every list that names the group starts one.     *)
(* When the helper cannot be started, the callback is called at once. *)
StartUpdate ==
    /\ ~disposed
    /\ updates < MaxUpdates
    /\ updates' = updates + 1
    /\ \/ /\ \E p \in FreePids(helper) : Spawn(helper, "update", p)
          /\ refs' = refs + 1
          /\ UNCHANGED <<need_publish, exported>>
       \/ /\ SpawnFails(helper, "update")
          /\ Publish
          /\ refs' = refs + Count(need_publish)
    /\ UNCHANGED <<version, known, by, polls, target, idles, timer,
                   poll_requested, poll_pid, latest, disposed,
                   logical_volumes, made, waits>>

(* The volumes of a result that the table does not have.  An object is     *)
(* made of each (ul_logical_volume_new) and takes a reference to the group *)
(* (ul_logical_volume_set_volume_group), which an update of the volume     *)
(* gives back and takes anew, and its disposal does not give back.         *)
NewVolumes(lvs) == lvs \ logical_volumes

(* update_with_variant: it makes objects of the volumes that are new, each *)
(* with a reference to the group; they appear on the bus, which may be     *)
(* what a call waits for, whose closure then goes with its reference.  The *)
(* volumes that are gone are disposed and taken from the table, and keep   *)
(* the group all the same.  Those that a late result makes for a disposed  *)
(* group keep it too, but never appear: it has no path to put them under.  *)
UpdateResult(h) ==
    /\ helper[h].use = "update"
    /\ Dispatched(h)
    /\ Publish
    /\ \/ /\ helper[h].state = "reaped-failed"
          /\ refs' = refs + Count(need_publish) - 1
          /\ UNCHANGED <<known, by, logical_volumes, made, waits>>
       \/ /\ helper[h].state = "reaped"
          /\ known' = helper[h].asOf
          /\ by' = "update"
          /\ \E lvs \in SUBSET LVs, answered \in 0 .. waits :
                LET new == Cardinality(NewVolumes(lvs)) IN
                /\ answered > 0 => exported' /\ new > 0
                /\ logical_volumes' = lvs
                /\ made' = made + new
                /\ waits' = waits - answered
                /\ refs' = refs + Count(need_publish) + new - answered - 1
    /\ UNCHANGED <<version, polls, updates, target, idles, timer,
                   poll_requested, poll_pid, started, latest, disposed>>

(* handle_create_plain_volume and the like, and those of a volume: Rename, *)
(* CreateSnapshot.  They reach objects on the bus, where volumes are only  *)
(* while their group is.  The closure of the call names the group. *)
CallWaits ==
    /\ exported
    /\ waits < MaxWaits
    /\ waits' = waits + 1
    /\ refs' = refs + 1
    /\ UNCHANGED <<version, known, by, polls, updates, target, idles, timer,
                   poll_requested, poll_pid, started, latest, helper, disposed,
                   need_publish, exported, logical_volumes, made>>

(* on_create_complete, complete_closure_free: the job of the call failed.  *)
CallFails ==
    /\ waits > 0
    /\ waits' = waits - 1
    /\ refs' = refs - 1
    /\ UNCHANGED <<version, known, by, polls, updates, target, idles, timer,
                   poll_requested, poll_pid, started, latest, helper, disposed,
                   need_publish, exported, logical_volumes, made>>

(* ul_volume_group_dispose, called by a list without the group, which is   *)
(* never the list that made it; the manager lets go of it.  The volumes    *)
(* are disposed and taken from the table. *)
Dispose ==
    /\ ~disposed
    /\ need_publish => updates > 0
    /\ disposed' = TRUE
    /\ need_publish' = FALSE
    /\ exported' = FALSE
    /\ logical_volumes' = {}
    /\ refs' = refs - 1 - Count(exported)
    /\ UNCHANGED <<version, known, by, polls, updates, target, idles, timer,
                   poll_requested, poll_pid, started, latest, helper, made, waits>>

Next ==
    \/ Change \/ Poll \/ PollInMain \/ PollTimeout \/ StartUpdate \/ Dispose
    \/ CallWaits \/ CallFails
    \/ \E h \in Helpers : HelperGoes(h) \/ Reap(h) \/ PollResult(h) \/ UpdateResult(h)

(* LVM's commands end, GLib reaps and dispatches, the timer expires.       *)
Fairness ==
    /\ WF_vars(\E h \in Helpers : HelperGoes(h))
    /\ WF_vars(\E h \in Helpers : Reap(h))
    /\ WF_vars(\E h \in Helpers : PollResult(h) \/ UpdateResult(h))
    /\ WF_vars(PollInMain)
    /\ WF_vars(PollTimeout)

Spec == Init /\ [][Next]_vars /\ Fairness
-----------------------------------------------------------------------------
HelperStates == {"none", "running", "exited", "failed", "reaped",
                 "reaped-failed", "done", "lost"}

TypeOK ==
    /\ version \in Nat /\ known \in Nat /\ target \in Nat
    /\ by \in {"poll", "update", "nobody"}
    /\ polls \in Nat /\ updates \in Nat /\ idles \in Nat
    /\ timer \in BOOLEAN /\ poll_requested \in BOOLEAN
    /\ poll_pid \in Pids \union {0}
    /\ started \in {0} \union Helpers /\ latest \in {0} \union Helpers
    /\ helper \in [Helpers -> [use : {"none", "poll", "update"},
                               pid : Pids \union {0},
                               state : HelperStates, asOf : Nat]]
    /\ refs \in Nat
    /\ disposed \in BOOLEAN
    /\ need_publish \in BOOLEAN /\ exported \in BOOLEAN
    /\ logical_volumes \in SUBSET LVs
    /\ made \in Nat /\ waits \in Nat

(* The group is referenced exactly once by the manager, by the object on   *)
(* the bus, by every source and helper that will call back into it, by     *)
(* every closure that names it, and by every volume that was ever made for *)
(* it: no callback finds the group freed, and a group that never had a     *)
(* volume is freed when the last of them is done.  One that had is never   *)
(* freed (logicalvolume.c:855 has no counterpart), disposed or not. *)
Holders == Count(exported) + made + waits

RefsExact ==
    refs = Count(~disposed) + idles + Count(timer) + Cardinality(Undispatched)
           + Holders

(* A result that a poll applies is that of the poll started last, unless   *)
(* the kernel gave a later poll the process id it had.                     *)
AppliesLatest ==
    [][\A h \in Helpers :
          PollResult(h) /\ <<known, by>>' # <<known, by>> =>
              helper[h].pid = helper[latest].pid]_vars

(* What a caller of Poll had seen of LVM is shown in the end, unless the   *)
(* last poll failed, its result was taken for that of another because of a *)
(* used process id, or the late result of an update came after it.         *)
Settles ==
    <>[](\/ known >= target
         \/ by = "update"
         \/ /\ latest # 0
            /\ \/ helper[latest].state = "lost"
               \/ \E h \in Helpers \ {latest} :
                     /\ helper[h].use = "poll"
                     /\ helper[h].pid = helper[latest].pid)
=============================================================================
