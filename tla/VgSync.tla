------------------------------ MODULE VgSync ------------------------------
(***************************************************************************)
(* How the daemon keeps its tree of D-Bus objects in step with LVM:        *)
(* UlManager (manager.c), UlVolumeGroup (volumegroup.c), the logical       *)
(* volumes of a group (logicalvolume.c) and the overlays of block devices  *)
(* (block.c, physicalvolume.c).                                            *)
(*                                                                         *)
(* A uevent that looks like LVM starts a timer.  When it fires, a helper   *)
(* process lists the volume groups; when that result is dispatched, groups *)
(* that are gone are disposed, new ones are created, and one helper per    *)
(* group is started to show it.  The result of a "show" publishes the      *)
(* group, adds and removes its logical volumes, and sets the interfaces of *)
(* the block overlays.  The helpers run on their own: each reads LVM at a  *)
(* moment of its own, and nothing orders the dispatch of their results.    *)
(*                                                                         *)
(* LVM itself and udisksd are the environment: LVM changes under any of    *)
(* its commands, at most MaxChanges times, and udisksd reports a block     *)
(* device some time after it exists.                                       *)
(*                                                                         *)
(* A group object is named by the volume group and an incarnation number,  *)
(* since a group that is removed and created again gets a new object while *)
(* a helper may still hold the old one.  Properties of groups and volumes  *)
(* other than their existence, and polling, are not in this module.        *)
(***************************************************************************)
EXTENDS Naturals, FiniteSets

CONSTANTS
    VGs,            \* names of volume groups
    LVs,            \* names of logical volumes, the same in each group
    PvDevs,         \* block devices that can be physical volumes
    Incarnations,   \* objects one volume group can have at the same time
    MaxChanges,     \* how often LVM changes
    MaxFailures     \* how many helpers fail although LVM would answer

ASSUME BoundsAssumption ==
    /\ Incarnations \in Nat \ {0}
    /\ MaxChanges \in Nat
    /\ MaxFailures \in Nat

ASSUME NamesAssumption ==
    /\ {"all", "none", "null"} \intersect VGs = {}
    /\ PvDevs \intersect (VGs \X LVs) = {}

LvDevs  == VGs \X LVs           \* the device of an active logical volume
Devices == PvDevs \union LvDevs
Inc     == 1..Incarnations
Round   == 0..MaxChanges

VARIABLES
    \* the environment
    lvm,            \* what LVM knows: the devices and volumes of each group
    labelled,       \* devices that carry the label of a physical volume
    uevents,        \* uevents of each device not delivered yet
    changes,        \* changes of LVM so far
    failures,       \* failed helpers so far
    \* the daemon
    timer,          \* lvm_delayed_update_id > 0
    helpers,        \* helper processes whose result was not dispatched
    table,          \* name_to_volume_group; 0: no entry
    group,          \* the group objects
    overlay,        \* the exported UlBlock of each device, if any
    \* for the properties only
    round,          \* number of the last "list" started
    applied,        \* latest round of which a result was dispatched
    excuse          \* reasons why the tree may not show what LVM knows

lvmVars   == <<lvm, labelled, changes>>
treeVars  == <<table, group, overlay>>
vars == <<lvm, labelled, uevents, changes, failures, timer, helpers, table,
          group, overlay, round, applied, excuse>>
-----------------------------------------------------------------------------
NoVG   == [pvs |-> {}, lvs |-> {}]
Exists(v) == lvm[v].pvs # {}
UsedPvs == UNION {lvm[v].pvs : v \in VGs}

(* Whether the kernel has device d, so that udisksd may report it. *)
DeviceExists(d) == d \in LvDevs => d[2] \in lvm[d[1]].lvs

(* A group object: "new" until it is published, "disposed" when its volume *)
(* group is gone and only helpers hold it, "free" when it is no object.    *)
GroupStates == {"free", "new", "exported", "disposed"}
NoGroup == [state |-> "free", lvs |-> {}]

(* An overlay: the object path in PhysicalVolumeBlock.VolumeGroup and the  *)
(* one in LogicalVolumeBlock.LogicalVolume, if it has these interfaces.    *)
(* "null" is the path of an object that is not exported.                   *)
NoOverlay == [exported |-> FALSE, pv |-> "none", lv |-> "none"]
PlainOverlay == [exported |-> TRUE, pv |-> "none", lv |-> "none"]

(* A helper process, and what it has read: the names of the groups for     *)
(* "list", the contents of one group for "show".                           *)
ListHelper(r) ==
    [kind |-> "list", round |-> r, vg |-> "all", inc |-> 0,
     state |-> "running", groups |-> {}, info |-> NoVG]
ShowHelper(v, n, r) ==
    [kind |-> "show", round |-> r, vg |-> v, inc |-> n,
     state |-> "running", groups |-> {}, info |-> NoVG]

Init ==
    /\ lvm \in [VGs -> [pvs : SUBSET PvDevs, lvs : SUBSET LVs]]
    /\ \A v \in VGs : lvm[v].pvs = {} => lvm[v] = NoVG
    /\ \A v, w \in VGs : v # w => lvm[v].pvs \intersect lvm[w].pvs = {}
    /\ labelled = UsedPvs
    /\ uevents = [d \in Devices |-> 0]
    /\ changes = 0 /\ failures = 0
    \* ul_manager_init publishes an overlay for each block udisksd has;
    \* ul_manager_constructed finds no timer, and starts no update
    /\ overlay = [d \in Devices |->
                    IF DeviceExists(d) THEN PlainOverlay ELSE NoOverlay]
    /\ timer = FALSE
    /\ helpers = {}
    /\ table = [v \in VGs |-> 0]
    /\ group = [v \in VGs |-> [n \in Inc |-> NoGroup]]
    /\ round = 0 /\ applied = 0
    /\ excuse = {"unlisted"}
-----------------------------------------------------------------------------
(* The environment: LVM commands, of the daemon's own jobs or of anybody   *)
(* else.  A command touches devices and makes udev send an event for them; *)
(* one event stands for those of all the devices.                          *)
Change(v, info, touched) ==
    /\ changes < MaxChanges
    /\ changes' = changes + 1
    /\ lvm' = [lvm EXCEPT ![v] = info]
    /\ labelled' = labelled \union info.pvs
    /\ \E d \in touched : uevents' = [uevents EXCEPT ![d] = @ + 1]
    /\ UNCHANGED <<failures, timer, helpers, treeVars, round, applied, excuse>>

VgCreate == \E v \in VGs, ps \in SUBSET (PvDevs \ UsedPvs) :
    /\ ~Exists(v)
    /\ ps # {}
    /\ Change(v, [pvs |-> ps, lvs |-> {}], ps)

VgRemove == \E v \in VGs :
    /\ Exists(v)
    /\ Change(v, NoVG, lvm[v].pvs \union ({v} \X lvm[v].lvs))

VgExtend == \E v \in VGs, d \in PvDevs \ UsedPvs :
    /\ Exists(v)
    /\ Change(v, [lvm[v] EXCEPT !.pvs = @ \union {d}], lvm[v].pvs \union {d})

VgReduce == \E v \in VGs : \E d \in lvm[v].pvs :
    /\ lvm[v].pvs # {d}
    /\ Change(v, [lvm[v] EXCEPT !.pvs = @ \ {d}], lvm[v].pvs)

LvCreate == \E v \in VGs : \E l \in LVs \ lvm[v].lvs :
    /\ Exists(v)
    /\ Change(v, [lvm[v] EXCEPT !.lvs = @ \union {l}], lvm[v].pvs \union {<<v, l>>})

LvRemove == \E v \in VGs : \E l \in lvm[v].lvs :
    Change(v, [lvm[v] EXCEPT !.lvs = @ \ {l}], lvm[v].pvs \union {<<v, l>>})

(* A device that left its group loses its label too. *)
Wipe(d) ==
    /\ changes < MaxChanges
    /\ d \in labelled \ UsedPvs
    /\ changes' = changes + 1
    /\ labelled' = labelled \ {d}
    /\ uevents' = [uevents EXCEPT ![d] = @ + 1]
    /\ UNCHANGED <<lvm, failures, timer, helpers, treeVars, round, applied, excuse>>

Environment ==
    \/ VgCreate \/ VgRemove \/ VgExtend \/ VgReduce \/ LvCreate \/ LvRemove
    \/ \E d \in PvDevs : Wipe(d)
-----------------------------------------------------------------------------
(* is_logical_volume, has_physical_volume_label and                        *)
(* is_recorded_as_physical_volume.                                         *)
LooksLikeLvm(d) ==
    \/ d \in LvDevs
    \/ d \in labelled
    \/ overlay[d].exported /\ overlay[d].pv # "none"

(* Mutant of OnUevent: an update under way is taken to cover the event. *)
OnUeventWhenIdle(d) ==
    /\ uevents[d] > 0
    /\ uevents' = [uevents EXCEPT ![d] = @ - 1]
    /\ timer' = (timer \/ (LooksLikeLvm(d) /\ helpers = {}))
    /\ excuse' = IF LooksLikeLvm(d) THEN excuse ELSE excuse \union {"unlisted"}
    /\ UNCHANGED <<lvmVars, failures, helpers, treeVars, round, applied>>

(* on_uevent, handle_block_uevent_for_lvm, trigger_delayed_lvm_update: the *)
(* events that arrive while the timer runs share its update.               *)
OnUevent(d) ==
    /\ uevents[d] > 0
    /\ uevents' = [uevents EXCEPT ![d] = @ - 1]
    /\ timer' = (timer \/ LooksLikeLvm(d))
    /\ excuse' = IF LooksLikeLvm(d) THEN excuse ELSE excuse \union {"unlisted"}
    /\ UNCHANGED <<lvmVars, failures, helpers, treeVars, round, applied>>

(* Mutant of DelayedLvmUpdate: the timer repeats. *)
DelayedLvmUpdateRepeats ==
    /\ timer
    /\ round' = round + 1
    /\ helpers' = helpers \union {ListHelper(round + 1)}
    /\ excuse' = {}
    /\ UNCHANGED <<lvmVars, uevents, failures, timer, treeVars, applied>>

(* delayed_lvm_update, lvm_update. *)
DelayedLvmUpdate ==
    /\ timer
    /\ timer' = FALSE
    /\ round' = round + 1
    /\ helpers' = helpers \union {ListHelper(round + 1)}
    /\ excuse' = {}
    /\ UNCHANGED <<lvmVars, uevents, failures, treeVars, applied>>

(* A helper process reads what it was asked for and exits. *)
HelperExits(h, exited) ==
    /\ h.state = "running"
    /\ helpers' = (helpers \ {h}) \union {exited}
    /\ UNCHANGED <<lvmVars, uevents, timer, treeVars, round, applied>>

ListReads(h) ==
    /\ h.kind = "list"
    /\ HelperExits(h, [h EXCEPT !.state = "done", !.groups = {v \in VGs : Exists(v)}])
    /\ UNCHANGED <<failures, excuse>>

ShowReads(h) ==
    /\ h.kind = "show"
    /\ HelperExits(h, IF Exists(h.vg)
                        THEN [h EXCEPT !.state = "done", !.info = lvm[h.vg]]
                        ELSE [h EXCEPT !.state = "failed"])
    /\ UNCHANGED <<failures, excuse>>

HelperReads(h) == ListReads(h) \/ ShowReads(h)

(* Now and then a helper fails for reasons of its own.  One that cannot be *)
(* spawned at all fails the same way, only sooner.                         *)
HelperFails(h) ==
    /\ failures < MaxFailures
    /\ failures' = failures + 1
    /\ HelperExits(h, [h EXCEPT !.state = "failed"])
    /\ excuse' = IF h.round = round THEN excuse \union {"failed"} ELSE excuse

(* Results are dispatched in any order; one of an earlier round that comes *)
(* after one of a later round may undo it.                                 *)
NoteApplied(h) ==
    /\ applied' = IF h.round > applied THEN h.round ELSE applied
    /\ excuse' = IF h.round < applied THEN excuse \union {"overtaken"} ELSE excuse
-----------------------------------------------------------------------------
(* Mutant of Dispose: a group that was never published may still be. *)
DisposePublishedOnly(g) ==
    IF g.state = "new" THEN g ELSE [state |-> "disposed", lvs |-> {}]

(* ul_volume_group_dispose: its volumes are disposed with it, and nothing  *)
(* publishes it any more.                                                  *)
Dispose(g) == [state |-> "disposed", lvs |-> {}]

(* A disposed object that no helper refers to does nothing any more, freed *)
(* or not (VgPoll says which): its number is used for another object.      *)
Held(v, n, hs) == \E h \in hs : h.kind = "show" /\ h.vg = v /\ h.inc = n
Collect(g, v, n, hs) ==
    IF g.state = "disposed" /\ ~Held(v, n, hs) THEN NoGroup ELSE g

(* The groups that appear and disappear with a list.  FreshInc(v) is the   *)
(* number of a new object of volume group v.                               *)
Added(listed)   == {v \in listed : table[v] = 0}
Removed(listed) == {v \in VGs \ listed : table[v] # 0}
FreshInc(v)     == CHOOSE n \in Inc : group[v][n].state = "free"

TableAfter(listed) ==
    [v \in VGs |-> CASE v \in Added(listed)   -> FreshInc(v)
                    [] v \in Removed(listed) -> 0
                    [] OTHER                 -> table[v]]

GroupAfter(listed, v, n) ==
    CASE v \in Added(listed) /\ n = FreshInc(v) -> [state |-> "new", lvs |-> {}]
      [] v \in Removed(listed) /\ n = table[v]  -> Dispose(group[v][n])
      [] OTHER                                  -> group[v][n]

(* lvm_update_from_variant: an update of every group in the list follows. *)
ApplyList(h) ==
    LET hs == (helpers \ {h}) \union
                {ShowHelper(v, TableAfter(h.groups)[v], h.round) : v \in h.groups}
    IN  /\ table' = TableAfter(h.groups)
        /\ group' = [v \in VGs |-> [n \in Inc |->
                        Collect(GroupAfter(h.groups, v, n), v, n, hs)]]
        /\ helpers' = hs
        /\ UNCHANGED overlay

DispatchList(h) ==
    /\ h.kind = "list"
    /\ h.state = "done"
    /\ \A v \in h.groups : table[v] = 0 => \E n \in Inc : group[v][n].state = "free"
    /\ ApplyList(h)
    /\ NoteApplied(h)
    /\ UNCHANGED <<lvmVars, uevents, failures, timer, round>>

(* An error leaves everything as it is; the update is not tried again. *)
DispatchListError(h) ==
    /\ h.kind = "list"
    /\ h.state = "failed"
    /\ helpers' = helpers \ {h}
    /\ UNCHANGED <<lvmVars, uevents, failures, timer, treeVars, round, applied, excuse>>

(* The object is published when its first result arrives, whatever that    *)
(* says, unless it was disposed before.                                    *)
Publish(g) == IF g.state = "new" THEN [g EXCEPT !.state = "exported"] ELSE g

(* The object path of a group, and of a volume of it. *)
PathOf(v, g) == IF g.state = "exported" THEN v ELSE "null"

(* ul_block_update_pv with no group.  PhysicalVolumeBlock is as a rule the *)
(* only interface of the overlay, and ul_daemon_unpublish unexports an     *)
(* object whose last interface goes.                                       *)
ClearPv(o) == IF o.lv = "none" THEN NoOverlay ELSE [o EXCEPT !.pv = "none"]

(* Mutant of UpdatePv: any group takes its absence for the truth. *)
UpdatePvAnyGroup(d, o, info, path) ==
    IF d \in info.pvs THEN [o EXCEPT !.pv = path]
    ELSE IF o.pv # "none" THEN ClearPv(o) ELSE o

(* update_block: what the result info of volume group v, whose object has  *)
(* this path now, does to the overlay o of device d.                       *)
UpdateLv(d, o, v, info, path) ==
    IF d \in {v} \X info.lvs THEN [o EXCEPT !.lv = path] ELSE o
UpdatePv(d, o, info, path) ==
    IF d \in info.pvs THEN [o EXCEPT !.pv = path]
    ELSE IF o.pv = path THEN ClearPv(o) ELSE o

UpdateBlock(d, v, info, path) ==
    IF overlay[d].exported
      THEN UpdatePv(d, UpdateLv(d, overlay[d], v, info, path), info, path)
      ELSE overlay[d]

(* Mutant of LvsAfter: volumes that are gone stay. *)
LvsAfterKeeping(g, info) == g.lvs \union info.lvs

(* The volumes of the result are created or updated, the others disposed. *)
LvsAfter(g, info) == info.lvs

(* update_with_variant on the result of a "show". *)
ApplyShow(h) ==
    LET hs   == helpers \ {h}
        g    == Publish(group[h.vg][h.inc])
        info == h.info
        path == PathOf(h.vg, g)
    IN  /\ group' = [group EXCEPT ![h.vg][h.inc] =
                       Collect([g EXCEPT !.lvs = LvsAfter(g, info)], h.vg, h.inc, hs)]
        /\ overlay' = [d \in Devices |-> UpdateBlock(d, h.vg, info, path)]
        /\ helpers' = hs
        /\ UNCHANGED table

DispatchShow(h) ==
    /\ h.kind = "show"
    /\ h.state = "done"
    /\ ApplyShow(h)
    /\ NoteApplied(h)
    /\ UNCHANGED <<lvmVars, uevents, failures, timer, round>>

(* An error still publishes a group that was not published, and no more. *)
DispatchShowError(h) ==
    /\ h.kind = "show"
    /\ h.state = "failed"
    /\ helpers' = helpers \ {h}
    /\ group' = [group EXCEPT ![h.vg][h.inc] =
                   Collect(Publish(@), h.vg, h.inc, helpers')]
    /\ NoteApplied(h)
    /\ UNCHANGED <<lvmVars, uevents, failures, timer, table, overlay, round>>

Dispatch == \E h \in helpers :
    DispatchList(h) \/ DispatchListError(h) \/ DispatchShow(h) \/ DispatchShowError(h)
-----------------------------------------------------------------------------
(* on_udisks_interface_added and on_udisks_interface_removed: nothing but  *)
(* a later update sets the interfaces of a new overlay.                    *)
BlockAdded(d) ==
    /\ DeviceExists(d)
    /\ d \in LvDevs
    /\ ~overlay[d].exported
    /\ overlay' = [overlay EXCEPT ![d] = PlainOverlay]
    /\ UNCHANGED <<lvmVars, uevents, failures, timer, helpers, table, group, round, applied, excuse>>

BlockRemoved(d) ==
    /\ ~DeviceExists(d)
    /\ overlay[d].exported
    /\ overlay' = [overlay EXCEPT ![d] = NoOverlay]
    /\ UNCHANGED <<lvmVars, uevents, failures, timer, helpers, table, group, round, applied, excuse>>

Next ==
    \/ Environment
    \/ \E d \in Devices : OnUevent(d) \/ BlockAdded(d) \/ BlockRemoved(d)
    \/ DelayedLvmUpdate
    \/ \E h \in helpers : HelperReads(h) \/ HelperFails(h)
    \/ Dispatch

(* The main loop gets to every uevent, timer and exited child; helpers and *)
(* udisksd make progress.                                                  *)
Fairness ==
    /\ \A d \in Devices : WF_vars(OnUevent(d)) /\ WF_vars(BlockAdded(d))
    /\ WF_vars(DelayedLvmUpdate)
    /\ WF_vars(\E h \in helpers : HelperReads(h))
    /\ WF_vars(Dispatch)

Spec == Init /\ [][Next]_vars /\ Fairness
-----------------------------------------------------------------------------
(* Every variable stays in its range: in particular no more lists are      *)
(* started than LVM changes, and no device has more events pending.        *)
TypeOK ==
    /\ lvm \in [VGs -> [pvs : SUBSET PvDevs, lvs : SUBSET LVs]]
    /\ labelled \subseteq PvDevs
    /\ uevents \in [Devices -> Round]
    /\ changes \in Round /\ failures \in 0..MaxFailures
    /\ timer \in BOOLEAN
    /\ helpers \subseteq [kind : {"list", "show"}, round : Round,
                          vg : VGs \union {"all"}, inc : 0..Incarnations,
                          state : {"running", "done", "failed"}, groups : SUBSET VGs,
                          info : [pvs : SUBSET PvDevs, lvs : SUBSET LVs]]
    /\ table \in [VGs -> 0..Incarnations]
    /\ group \in [VGs -> [Inc -> [state : GroupStates, lvs : SUBSET LVs]]]
    /\ overlay \in [Devices -> [exported : BOOLEAN, pv : VGs \union {"none", "null"},
                                lv : VGs \union {"none", "null"}]]
    /\ round \in Round /\ applied \in Round
    /\ excuse \subseteq {"unlisted", "failed", "overtaken"}

(* At any time a volume group has at most one object that is or will be    *)
(* published, the one the table knows: a late result for a removed group   *)
(* does not bring it back, and one for the old object of a group that was  *)
(* created again does not publish a second one at its path.                *)
OneObjectPerGroup ==
    \A v \in VGs, n \in Inc :
        (group[v][n].state \in {"new", "exported"}) <=> (table[v] = n)

(* Nothing is under way in the daemon. *)
Quiet ==
    /\ \A d \in Devices : uevents[d] = 0
    /\ ~timer
    /\ helpers = {}

(* The tree shows what LVM knows: the groups, their volumes, and for each  *)
(* overlay of a physical volume its group.  (What the overlays of other    *)
(* devices show is the subject of the properties below.)                   *)
TreeCurrent ==
    /\ \A v \in VGs :
        IF Exists(v)
          THEN /\ table[v] # 0
               /\ group[v][table[v]] = [state |-> "exported", lvs |-> lvm[v].lvs]
          ELSE table[v] = 0
    /\ \A v \in VGs : \A d \in lvm[v].pvs : overlay[d].exported => overlay[d].pv = v
    /\ \A v \in VGs : \A d \in {v} \X lvm[v].lvs : overlay[d].lv \in {"none", v}

(* Once everything is handled the tree is current, unless one of three     *)
(* things kept it from being so: no update was started since the change    *)
(* (none is at startup, and a uevent may not look like LVM), a helper of   *)
(* the last update failed, or a late result of an earlier update undid it. *)
QuietMeansCurrent == Quiet /\ excuse = {} => TreeCurrent

(* The tree becomes and stays current, with the same exceptions: no result *)
(* is waited for forever, and no change is left without an update.         *)
Converges == <>[](Quiet /\ (TreeCurrent \/ excuse # {}))

(* A physical volume that is shown in one group stays there until a result *)
(* of that group no longer has it, or another group claims it: a group     *)
(* does not take away what belongs to another.                             *)
OwnerReleases ==
    [][\A d \in PvDevs, v \in VGs :
         overlay[d].pv = v /\ overlay'[d].pv = "none"
           => \E h \in helpers \ helpers' : h.vg = v /\ d \notin h.info.pvs]_vars

(* "This interface shows up for blocks that are actually physical volumes  *)
(* in a volume group" (com.redhat.lvm2.xml).                               *)
ShownPvIsPv ==
    Quiet /\ excuse = {} =>
        \A d \in PvDevs : overlay[d].pv # "none" => \E v \in VGs : d \in lvm[v].pvs

(* The same sentence, read the other way. *)
PvIsShown ==
    Quiet /\ excuse = {} =>
        \A v \in VGs : \A d \in lvm[v].pvs : overlay[d].pv = v
=============================================================================
