---------------------------- MODULE DeviceJobs ----------------------------
(***************************************************************************)
(* UlThreadedJob (threadedjob.c) and the jobs of the daemon that change    *)
(* devices: VolumeGroupCreate (manager.c), Delete, RemoveDevice and        *)
(* AddDevice of a group (volumegroup.c), with the wiping of a device       *)
(* (util.c) and the check that it is unused (block.c).                     *)
(*                                                                         *)
(* The function of a threaded job runs in a thread, next to the main loop  *)
(* and to the threads of other jobs, and its completion on the main loop.  *)
(* It reads data that its caller owns: freed with the job, except that     *)
(* VolumeGroupCreate's lives in the closure that waits for the new group,  *)
(* which goes when a group of that name is published (see Completion).     *)
(*                                                                         *)
(* A device is opened with O_EXCL to see whether it is unused and, again,  *)
(* to erase it: it can be opened by others in between.  External: LVM's    *)
(* commands, by what they change on the devices, and the users of devices, *)
(* among which an active logical volume.  The job of AddDevice is a        *)
(* spawned one: its cancellation is in SpawnedJob and not repeated here.   *)
(***************************************************************************)
EXTENDS Naturals, FiniteSets, Sequences

CONSTANTS
    Jobs,           \* the values job_id takes: one per job ever launched
    Devices,        \* block devices
    Names,          \* names of volume groups
    Lists           \* lists of devices a call may be about

ASSUME ListsAssumption == Lists \subseteq Seq(Devices)
ASSUME JobsAssumption == {"free", "user"} \cap Jobs = {}
ASSUME NamesAssumption == {"data", "wiped", "orphan", "none"} \cap Names = {}

VARIABLES
    launched,       \* jobs whose id has been handed out
    exported,       \* jobs whose object is on the bus
    num_jobs,       \* UlDaemon.num_jobs
    up,             \* FALSE once the process has died of a bad access
    kind,           \* the method a job was launched by
    group,          \* data->vgname, the group a job is about
    devices,        \* data->devices
    stage,          \* where the function of the job has got to
    pos,            \* its loop counter, from 1
    result,         \* job_result and job_error
    cancelled,      \* jobs whose GCancellable is cancelled
    freed,          \* jobs whose data was freed before they completed
    removed,        \* jobs whose vgremove succeeded
    erased,         \* the devices a job has erased
    disk,           \* what is on a device: data, nothing, a physical volume
                    \* in no group, or the name of the group it is in
    held,           \* who has a device open exclusively
    shown           \* the group of a device according to the object tree

tableVars  == <<launched, exported, num_jobs, up>>
callVars   == <<kind, group, devices>>
threadVars == <<stage, pos, result, removed, erased>>
deviceVars == <<disk, held>>
vars == <<launched, exported, num_jobs, up, kind, group, devices, stage, pos,
          result, cancelled, freed, removed, erased, disk, held, shown>>

None == "none"
DevicesOf(j) == {devices[j][i] : i \in DOMAIN devices[j]}
Exists(n) == \E d \in Devices : disk[d] = n

Init ==
    /\ launched = {} /\ exported = {} /\ num_jobs = 0 /\ up = TRUE
    /\ kind    = [j \in Jobs |-> None]
    /\ group   = [j \in Jobs |-> None]
    /\ devices = [j \in Jobs |-> <<>>]
    /\ stage   = [j \in Jobs |-> None]
    /\ pos     = [j \in Jobs |-> 1]
    /\ result  = [j \in Jobs |-> None]
    /\ erased  = [j \in Jobs |-> {}]
    /\ cancelled = {} /\ freed = {} /\ removed = {}
    /\ disk \in [Devices -> {"data"} \union Names]
    /\ held  = [d \in Devices |-> "free"]
    /\ shown = [d \in Devices |-> IF disk[d] \in Names THEN disk[d] ELSE None]
-----------------------------------------------------------------------------
(* Method handlers, on the main loop.                                      *)

(* Mutant of Launch: the daemon does not count the job. *)
LaunchUncounted(j, k, n, l, s) ==
    /\ j \notin launched
    /\ launched' = launched \union {j}
    /\ exported' = exported \union {j}
    /\ kind' = [kind EXCEPT ![j] = k]
    /\ group' = [group EXCEPT ![j] = n]
    /\ devices' = [devices EXCEPT ![j] = l]
    /\ stage' = [stage EXCEPT ![j] = s]
    /\ UNCHANGED <<num_jobs, up, pos, result, cancelled, freed, removed, shown>>

(* ul_daemon_launch_threaded_job, and for AddDevice its spawned sibling:   *)
(* the job is exported and counted, and its thread gets to run.            *)
Launch(j, k, n, l, s) ==
    /\ j \notin launched
    /\ launched' = launched \union {j}
    /\ exported' = exported \union {j}
    /\ num_jobs' = num_jobs + 1
    /\ kind' = [kind EXCEPT ![j] = k]
    /\ group' = [group EXCEPT ![j] = n]
    /\ devices' = [devices EXCEPT ![j] = l]
    /\ stage' = [stage EXCEPT ![j] = s]
    /\ UNCHANGED <<up, pos, result, cancelled, freed, removed, shown>>

(* ul_block_is_unused: can be opened with O_EXCL right now. *)
IsUnused(d) == held[d] = "free"

(* handle_volume_group_create *)
VolumeGroupCreate(j, n, l) ==
    /\ \A i \in DOMAIN l : IsUnused(l[i])
    /\ Launch(j, "create", n, l, "pushed")
    /\ UNCHANGED <<erased, deviceVars>>

(* handle_delete; a group has an object while the tree shows a device of   *)
(* it, and the devices to wipe are those the tree shows. *)
ShownOf(n) == {d \in Devices : shown[d] = n}

Delete(j, n, l) ==
    /\ ShownOf(n) # {}
    /\ {l[i] : i \in DOMAIN l} \in {{}, ShownOf(n)}
    /\ Launch(j, "delete", n, l, "pushed")
    /\ UNCHANGED <<erased, deviceVars>>

(* handle_remove_device, called on any group for any device: it sets       *)
(* data->vgname twice, the second time to the device, and data->pvname     *)
(* never. *)
RemoveDevice(j, d) ==
    /\ \E n \in Names : ShownOf(n) # {}
    /\ Launch(j, "remove", d, <<>>, "pushed")
    /\ UNCHANGED <<erased, deviceVars>>

(* ul_util_wipe_block first writes zeroes to the first sector: the end of  *)
(* a partition table or of most data, not of a physical volume, whose      *)
(* label is in another sector. *)
Zeroed(c) == IF c = "data" THEN "wiped" ELSE c

(* handle_add_device wipes the device on the main loop; the wiping may     *)
(* fail half-way, and then there is no job. *)
AddDevice(j, n, d) ==
    /\ ShownOf(n) # {}
    /\ IsUnused(d)
    /\ Launch(j, "add", n, <<d>>, "command")
    /\ disk' = [disk EXCEPT ![d] = "wiped"]
    /\ erased' = [erased EXCEPT ![j] = {d}]
    /\ UNCHANGED held

AddDeviceFails(d) ==
    /\ \E n \in Names : ShownOf(n) # {}
    /\ IsUnused(d)
    /\ disk[d] = "data"
    /\ disk' = [disk EXCEPT ![d] = Zeroed(@)]
    /\ UNCHANGED <<tableVars, callVars, threadVars, cancelled, freed, held,
                   shown>>

(* Mutant of Cancel: the data of the job goes with it. *)
CancelFrees(j) ==
    /\ j \in exported \ cancelled
    /\ kind[j] # "add"
    /\ cancelled' = cancelled \union {j}
    /\ freed' = freed \union {j}
    /\ UNCHANGED <<tableVars, callVars, threadVars, deviceVars, shown>>

(* handle_cancel of the base class (job.c). *)
Cancel(j) ==
    /\ j \in exported \ cancelled
    /\ kind[j] # "add"
    /\ cancelled' = cancelled \union {j}
    /\ UNCHANGED <<tableVars, callVars, threadVars, freed, deviceVars, shown>>
-----------------------------------------------------------------------------
(* The thread of a job: run_io_scheduler_job and the function it runs.     *)

End(j, r) ==
    /\ stage' = [stage EXCEPT ![j] = "done"]
    /\ result' = [result EXCEPT ![j] = r]

Goto(j, s) ==
    /\ stage' = [stage EXCEPT ![j] = s]
    /\ UNCHANGED result

(* A cancellation is noticed before the function is called, and only then. *)
FindCancelled(j) ==
    /\ stage[j] = "pushed"
    /\ j \in cancelled
    /\ End(j, "cancelled")
    /\ UNCHANGED <<tableVars, callVars, pos, removed, erased, cancelled,
                   freed, deviceVars, shown>>

Start(j) ==
    /\ stage[j] = "pushed"
    /\ j \notin cancelled
    /\ Goto(j, IF kind[j] = "create" THEN "next" ELSE "command")
    /\ UNCHANGED <<tableVars, callVars, pos, removed, erased, cancelled,
                   freed, deviceVars, shown>>

(* The loop over the devices is over: vgcreate comes next, or nothing. *)
AllWiped(j) ==
    /\ stage[j] = "next"
    /\ pos[j] > Len(devices[j])
    /\ \/ kind[j] = "create" /\ Goto(j, "command")
       \/ kind[j] = "delete" /\ End(j, "ok")
    /\ UNCHANGED <<tableVars, callVars, pos, removed, erased, cancelled,
                   freed, deviceVars, shown>>

(* ul_util_wipe_block, in three steps: it opens the device exclusively,    *)
(* writes to it and closes it again, and runs wipefs, which opens it too.  *)
OpenDevice(j) ==
    LET d == devices[j][pos[j]] IN
    /\ stage[j] = "next"
    /\ pos[j] <= Len(devices[j])
    /\ \/ /\ held[d] = "free"
          /\ held' = [held EXCEPT ![d] = j]
          /\ Goto(j, "open")
       \/ /\ held[d] # "free"
          /\ End(j, "failed")
          /\ UNCHANGED held
    /\ UNCHANGED <<tableVars, callVars, pos, removed, erased, cancelled,
                   freed, disk, shown>>

Zero(j) ==
    LET d == devices[j][pos[j]] IN
    /\ stage[j] = "open"
    /\ held' = [held EXCEPT ![d] = "free"]
    /\ \/ /\ disk' = [disk EXCEPT ![d] = Zeroed(@)]
          /\ erased' = IF disk[d] = "data"
                       THEN [erased EXCEPT ![j] = @ \union {d}] ELSE erased
          /\ Goto(j, "wipefs") \/ End(j, "failed")  \* BLKRRPART fails
       \/ /\ End(j, "failed")                       \* the write fails
          /\ UNCHANGED <<disk, erased>>
    /\ UNCHANGED <<tableVars, callVars, pos, removed, cancelled, freed, shown>>

(* Mutant of WipeFs: a failure ends the loop but not the job's success. *)
WipeFsForgiving(j) ==
    LET d == devices[j][pos[j]] IN
    /\ stage[j] = "wipefs"
    /\ disk' = [disk EXCEPT ![d] = "wiped"]
    /\ erased' = [erased EXCEPT ![j] = @ \union {d}]
    /\ pos' = [pos EXCEPT ![j] = @ + 1]
    /\ Goto(j, "next") \/ End(j, "ok")
    /\ UNCHANGED <<tableVars, callVars, removed, cancelled, freed, held, shown>>

(* Mutant of WipeFs: the loop skips every other device. *)
WipeFsSkipping(j) ==
    LET d == devices[j][pos[j]] IN
    /\ stage[j] = "wipefs"
    /\ disk' = [disk EXCEPT ![d] = "wiped"]
    /\ erased' = [erased EXCEPT ![j] = @ \union {d}]
    /\ pos' = [pos EXCEPT ![j] = @ + 2]
    /\ Goto(j, "next")
    /\ UNCHANGED <<tableVars, callVars, removed, cancelled, freed, held, shown>>

WipeFs(j) ==
    LET d == devices[j][pos[j]] IN
    /\ stage[j] = "wipefs"
    /\ \/ /\ held[d] = "free"
          /\ disk' = [disk EXCEPT ![d] = "wiped"]
          /\ erased' = [erased EXCEPT ![j] = @ \union {d}]
          /\ pos' = [pos EXCEPT ![j] = @ + 1]
          /\ Goto(j, "next")
       \/ /\ End(j, "failed")
          /\ UNCHANGED <<disk, erased, pos>>
    /\ UNCHANGED <<tableVars, callVars, removed, cancelled, freed, held, shown>>

(* A device LVM can make a physical volume of a new group. *)
Takes(d) == disk[d] \in {"wiped", "orphan"} /\ held[d] = "free"

(* The LVM command of a job; any of them may also fail and change nothing. *)
CommandFails(j) ==
    /\ stage[j] = "command"
    /\ End(j, "failed")
    /\ UNCHANGED <<tableVars, callVars, pos, removed, erased, cancelled,
                   freed, deviceVars, shown>>

VgCreate(j) ==
    /\ kind[j] = "create" /\ stage[j] = "command"
    /\ ~Exists(group[j])
    /\ DevicesOf(j) # {} /\ \A d \in DevicesOf(j) : Takes(d)
    /\ disk' = [d \in Devices |->
                   IF d \in DevicesOf(j) THEN group[j] ELSE disk[d]]
    /\ End(j, "ok")
    /\ UNCHANGED <<tableVars, callVars, pos, removed, erased, cancelled,
                   freed, held, shown>>

(* vgremove -f leaves its physical volumes behind; the job then goes on to *)
(* wipe them if it was asked to.  A group in use cannot be removed. *)
VgRemove(j) ==
    /\ kind[j] = "delete" /\ stage[j] = "command"
    /\ Exists(group[j])
    /\ \A d \in Devices : disk[d] = group[j] => held[d] = "free"
    /\ disk' = [d \in Devices |->
                   IF disk[d] = group[j] THEN "orphan" ELSE disk[d]]
    /\ removed' = removed \union {j}
    /\ Goto(j, "next")
    /\ UNCHANGED <<tableVars, callVars, pos, erased, cancelled, freed, held,
                   shown>>

VgExtend(j) ==
    /\ kind[j] = "add" /\ stage[j] = "command"
    /\ Exists(group[j])
    /\ \A d \in DevicesOf(j) : Takes(d)
    /\ disk' = [d \in Devices |->
                   IF d \in DevicesOf(j) THEN group[j] ELSE disk[d]]
    /\ End(j, "ok")
    /\ UNCHANGED <<tableVars, callVars, pos, removed, erased, cancelled,
                   freed, held, shown>>

(* vgreduce is given the device for its group and no device; it finds no   *)
(* such group, so RemoveDevice has no action here but CommandFails.        *)

Command(j) == CommandFails(j) \/ VgCreate(j) \/ VgRemove(j) \/ VgExtend(j)

(* The data of VolumeGroupCreate may be freed while its thread still reads *)
(* it, before its command runs, and its failure is answered from the same  *)
(* closure.  Freed memory may still hold what it held; or the daemon dies. *)
ReadFreed(j) ==
    /\ j \in freed
    /\ \/ stage[j] = "pushed" /\ j \notin cancelled
       \/ stage[j] \in {"next", "command"}
       \/ stage[j] = "done" /\ result[j] # "ok"
    /\ up' = FALSE
    /\ UNCHANGED <<launched, exported, num_jobs, callVars, threadVars,
                   cancelled, freed, deviceVars, shown>>

Step(j) == \/ FindCancelled(j) \/ Start(j) \/ AllWiped(j) \/ OpenDevice(j)
           \/ Zero(j) \/ WipeFs(j) \/ Command(j)
-----------------------------------------------------------------------------
(* Mutant of Complete: a job that was cancelled stays on the bus. *)
CompleteUncancelled(j) ==
    /\ stage[j] = "done"
    /\ stage' = [stage EXCEPT ![j] = "over"]
    /\ exported' = IF j \in cancelled THEN exported ELSE exported \ {j}
    /\ num_jobs' = num_jobs - 1
    /\ UNCHANGED <<launched, up, callVars, pos, result, removed, erased,
                   cancelled, freed, deviceVars, shown>>

(* Mutant of Complete: the job is counted out twice. *)
CompleteTwice(j) ==
    /\ stage[j] = "done"
    /\ stage' = [stage EXCEPT ![j] = "over"]
    /\ exported' = exported \ {j}
    /\ num_jobs' = num_jobs - 2
    /\ UNCHANGED <<launched, up, callVars, pos, result, removed, erased,
                   cancelled, freed, deviceVars, shown>>

(* job_complete on the main loop: the default handler emits Completed, the *)
(* handler of the method answers, on_job_completed counts the job out.     *)
Complete(j) ==
    /\ stage[j] = "done"
    /\ stage' = [stage EXCEPT ![j] = "over"]
    /\ exported' = exported \ {j}
    /\ num_jobs' = num_jobs - 1
    /\ UNCHANGED <<launched, up, callVars, pos, result, removed, erased,
                   cancelled, freed, deviceVars, shown>>

(* The tree catches up with LVM (VgSync).  A group that is published ends  *)
(* the wait of the calls that create one of its name, and their closures.  *)
Actual == [d \in Devices |-> IF disk[d] \in Names THEN disk[d] ELSE None]
Published == {n \in Names : Exists(n) /\ ShownOf(n) = {}}

Update ==
    /\ shown # Actual
    /\ shown' = Actual
    /\ freed' = freed \union {j \in exported : /\ kind[j] = "create"
                                              /\ group[j] \in Published}
    /\ UNCHANGED <<tableVars, callVars, threadVars, cancelled, deviceVars>>

(* Others open a device exclusively: they mount it, or activate a volume   *)
(* that is on it. *)
UserOpens(d) ==
    /\ held[d] = "free"
    /\ held' = [held EXCEPT ![d] = "user"]
    /\ UNCHANGED <<tableVars, callVars, threadVars, cancelled, freed, disk,
                   shown>>

UserCloses(d) ==
    /\ held[d] = "user"
    /\ held' = [held EXCEPT ![d] = "free"]
    /\ UNCHANGED <<tableVars, callVars, threadVars, cancelled, freed, disk,
                   shown>>

Next ==
    /\ up
    /\ \/ \E j \in Jobs, n \in Names, l \in Lists :
             VolumeGroupCreate(j, n, l) \/ Delete(j, n, l) \/ Delete(j, n, <<>>)
       \/ \E j \in Jobs, d \in Devices : RemoveDevice(j, d)
       \/ \E j \in Jobs, n \in Names, d \in Devices : AddDevice(j, n, d)
       \/ \E j \in Jobs : Cancel(j) \/ Step(j) \/ ReadFreed(j) \/ Complete(j)
       \/ \E d \in Devices : \/ AddDeviceFails(d)
                             \/ UserOpens(d) \/ UserCloses(d)
       \/ Update

(* Threads run, LVM's commands end and the main loop dispatches what a     *)
(* thread sends it.                                                        *)
Fairness == \A j \in Jobs : WF_vars(up /\ Step(j)) /\ WF_vars(up /\ Complete(j))

Spec == Init /\ [][Next]_vars /\ Fairness
-----------------------------------------------------------------------------
Kinds  == {None, "create", "delete", "remove", "add"}
Stages == {None, "pushed", "next", "open", "wipefs", "command", "done", "over"}

TypeOK ==
    /\ launched \subseteq Jobs /\ exported \subseteq Jobs
    /\ num_jobs \in Nat /\ up \in BOOLEAN
    /\ kind \in [Jobs -> Kinds]
    /\ group \in [Jobs -> {None} \union Names \union Devices]
    /\ devices \in [Jobs -> Seq(Devices)]
    /\ stage \in [Jobs -> Stages]
    /\ pos \in [Jobs -> Nat]
    /\ \A j \in Jobs : stage[j] \in {"open", "wipefs"} => pos[j] \in DOMAIN devices[j]
    /\ result \in [Jobs -> {None, "ok", "failed", "cancelled"}]
    /\ cancelled \subseteq Jobs /\ freed \subseteq Jobs /\ removed \subseteq Jobs
    /\ erased \in [Jobs -> SUBSET Devices]
    /\ disk \in [Devices -> {"data", "wiped", "orphan"} \union Names]
    /\ held \in [Devices -> {"free", "user"} \union Jobs]
    /\ shown \in [Devices -> {None} \union Names]

(* What a job reports is what it did: success means that every device it   *)
(* was given was erased and, for Delete, the group removed; cancellation   *)
(* means that nothing was touched; RemoveDevice never reports success.     *)
ResultTold ==
    \A j \in Jobs :
        /\ result[j] = "ok" => /\ erased[j] = DevicesOf(j)
                               /\ kind[j] # "remove"
                               /\ kind[j] = "delete" => j \in removed
        /\ result[j] = "cancelled" => erased[j] = {} /\ j \notin removed

(* A job erases its devices in order, none before its turn and none after  *)
(* one it failed to erase, and Delete none before the group was removed.   *)
(* A new group loses a device only to another job: one that was given the  *)
(* device, even if it was found unused before the group was made, or one   *)
(* that removed the group.                                                 *)
Prefix(j, n) == {devices[j][i] : i \in {i \in DOMAIN devices[j] : i <= n}}

WipesExplained ==
    \A j \in Jobs :
        /\ kind[j] # "add" => /\ Prefix(j, pos[j] - 1) \subseteq erased[j]
                              /\ erased[j] \subseteq Prefix(j, pos[j])
        /\ kind[j] = "delete" /\ erased[j] # {} => j \in removed
        /\ kind[j] = "create" /\ result[j] = "ok" =>
              \A d \in DevicesOf(j) :
                  \/ disk[d] = group[j]
                  \/ \E i \in Jobs \ {j} :
                        \/ d \in DevicesOf(i)
                        \/ group[i] = group[j] /\ i \in removed

(* The daemon reads freed memory only when a group was published under the *)
(* name that a call to create one was still working on. *)
DeathExplained ==
    up = FALSE => \E j \in freed : kind[j] = "create" /\ result[j] # "ok"

(* A job is over, whatever becomes of its devices and of a cancellation,   *)
(* and its object goes. *)
JobsComplete == \A j \in Jobs : j \in exported ~> j \notin exported \/ ~up

(* Threaded jobs keep the promise of the daemon about its jobs. *)
Table == INSTANCE JobTable WITH
             Jobs <- Jobs, launched <- launched, exported <- exported,
             num_jobs <- num_jobs, up <- up

JobTablePromise == Table!Spec
=============================================================================
