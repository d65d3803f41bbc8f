# A verification development for udisks-lvm

udisks-lvm is a D-Bus daemon beside udisks: it shows LVM volume groups and
logical volumes as objects on the system bus, adds interfaces to the blocks
udisks shows, and runs LVM commands for its clients. It is a GLib program: one
main loop dispatches callbacks one at a time, and what makes it hard is
everything that runs beside that loop. Child processes exit when they like,
LVM is changed by others, udisksd reports devices at its own pace, D-Bus calls
arrive in between, and a few threads do blocking work.

This directory holds TLA+ modules translated from `src/src/*.c`, the
configurations that model-check them, and proofs about them.

## Inventory of the system

| component | state | operations | hard because |
|---|---|---|---|
| spawned jobs (`spawnedjob.c`, Cancel in `job.c`) | child process, child watch, pending idle sources, cancellable, buffers | construct, cancel, child watch, completion, release, reap | two sources may report the end of one job, in either order; one of them holds no reference |
| threaded jobs (`threadedjob.c`) | result of the thread | run, complete in idle | the thread reads data the main loop may free, and changes devices others use |
| job table (`daemon.c`) | `num_jobs`, exported jobs | launch, `on_job_completed` | the count decides when the process may end |
| object tree (`daemon.c`) | exported objects and their interfaces | publish, unpublish | removing a last interface removes the object; paths may collide |
| helper processes (`daemon.c`, `helper.c`) | output, callback | spawn, read, dispatch the result | each reads LVM at its own moment; results come in any order; helpers fail |
| manager (`manager.c`) | timer, `name_to_volume_group`, block overlays | uevent, delayed update, apply a list, blocks added and removed, VolumeGroupCreate | a list is applied while shows of earlier lists are under way |
| volume groups (`volumegroup.c`) | `need_publish`, logical volumes, poll timer and pid | update, dispose, poll, methods | a late result for a disposed object; a group recreated under its name |
| logical volumes (`logicalvolume.c`) | properties, publication | update, dispose, methods | the reply of a call waits for a publication |
| blocks (`block.c`, `physicalvolume.c`) | up to two interfaces | update for a group or a volume | named by groups that may be gone |
| method calls (handlers in the files above) | `CompleteClosure`, invocation | start a job, reply from its end or from a publication | two handlers share one closure that one of them frees |
| invocation (`invocation.c`) | known clients, their uids and references | filter, answer with a uid, vanish, look up, authorize, get the caller's uid | the bus's worker thread, one thread per authorization and the main loop share the table of clients |
| lifetime (`daemon.c`, `main.c`) | name, clients, jobs | appear, disappear, name acquired and lost, `maybe_finished` | must not leave while jobs run; the counts are kept through idle sources of two threads |
| names and paths (`util.c`) | none | encode, decode, escape | distinct names must stay distinct |

Properties that make each of them correct: a job completes once, is counted
exactly, leaves no child behind and is not used after it is gone; the tree
shows what LVM knows once everything is handled, each group has one object,
and an interface shows the group a device is in; a call is answered once;
a client that vanishes blocks nobody; the daemon ends only when it is idle.

## Modules

| module | models | state and actions |
|---|---|---|
| `JobTable` | what the daemon promises of its jobs | launched and exported jobs, `num_jobs`; `Launch`, `Complete`, `Fail` |
| `SpawnedJob` | `UlSpawnedJob`, Cancel, the job table as these jobs use it | per job: references, child, watch, pending idle source, cancellation, released, outcome. `LaunchSpawned`, `LaunchSpawnFailed`, `LaunchCancelled`, `Cancel`, `ChildExit`, and the main loop's `DispatchChildWatch`, `DispatchError`, `DispatchErrorAfterRelease`, `Reap` |
| `VgSync` | manager, volume groups, volumes, overlays, helpers | environment: `VgCreate`, `VgRemove`, `VgExtend`, `VgReduce`, `LvCreate`, `LvRemove`, `Wipe`; daemon: `OnUevent`, `DelayedLvmUpdate`, `DispatchList`, `DispatchListError`, `DispatchShow`, `DispatchShowError`, `BlockAdded`, `BlockRemoved`; helpers: `ListReads`, `ShowReads`, `HelperFails` |
| `Completion` | how a method call that runs a job is answered | per call: what it makes appear and disappear, its job, its closure, replies. `CallCreate`, `CallActivate`, `CallRename`, `CallDelete`, `JobActs`, `DeleteOver`, `JobSucceeded`, `JobFailed`, `JobFailedAfterReply`, `Publish`, `Unpublish` |
| `DeviceJobs` | `UlThreadedJob`; the jobs of VolumeGroupCreate, Delete, RemoveDevice, AddDevice; `ul_util_wipe_block`, `ul_block_is_unused` | per job: method, group, devices, stage of its thread, loop counter, result, what it erased; per device: what is on it, who has it open, what the tree says. `VolumeGroupCreate`, `Delete`, `RemoveDevice`, `AddDevice`, `AddDeviceFails`, `Cancel`, the thread's `FindCancelled`, `Start`, `OpenDevice`, `Zero`, `WipeFs`, `AllWiped`, `Command`, `ReadFreed`, and the main loop's `Complete`; environment: `Update`, `UserOpens`, `UserCloses` |
| `Invocation` | the message filter, the table of clients, authorization, `ul_invocation_get_caller_uid`, the bus name, `num_clients`, `num_jobs`, `maybe_finished` | per client: record, uid state, references; per call: stage, replies; the idle sources of the main loop as a queue. `Filter`, `Disconnect`, the worker's `GotUnixUser`, `ClientVanished`; the main loop's `ClientAppeared`, `ClientDisappeared`, `Dispatch`, `HandleLaunching`, `HandlePlain`, `NameAcquired`, `NameLost`; the threads' `Lookup`, `LookupUnknown`, `CheckAuthorization`; `JobCompleted` |
| `VgPoll` | `Poll`, the poll timer, the poll's helper and pid, beside the updates of the group; who holds references to it | the version shown, sources, helpers with their pids, `need_publish`, the object on the bus, the table of volumes and the volumes ever made, calls that wait. `Poll`, `PollInMain`, `PollTimeout`, `PollResult`, `StartUpdate`, `UpdateResult`, `CallWaits`, `CallFails`, `Dispose`; environment: `Change`, `HelperGoes`, `Reap` |
| `MCDeviceJobs`, `MCInvocation` | | the lists of devices, and who makes which call, for TLC |
| `SpawnedJob_proof`, `VgSync_proof`, `VgSyncCurrent_proof`, `Completion_proof`, `DeviceJobs_proof`, `Invocation_proof`, `VgPoll_proof` | | theorems and their proofs |

`JobTable` is the abstract specification of both kinds of jobs. `SpawnedJob`
carries its variables unchanged; `DeviceJobs` names what each stands for
(`Table == INSTANCE JobTable WITH ...`). In both, `JobTablePromise` is
`JobTable`'s specification. `Completion` takes from the others only what
concerns a call: its job acts, fails or succeeds, and a name is published or
unpublished some time after LVM has it or has it no more. `DeviceJobs` takes
from `Completion` that a published name frees the closure of the call that
waits for it, and from `VgSync` that the tree catches up with LVM.
`Invocation` ends where a handler starts a job, and takes from `JobTable` that
the job counts until it completes. `VgPoll` is one group of `VgSync`, whose
updates it repeats as far as they read and set the same properties, publish the
group, and make and remove its volumes; of `Completion` it has the calls whose
closure names the group, as far as they hold it.

How the code is translated:

* One action is one callback of the main loop, with everything it does. In
  `SpawnedJob`, emitting `spawned-job-completed` runs the default handler, the
  `completed` signal and `on_job_completed` in the same step. In `VgSync`, a
  list disposes, creates and starts the shows in one step; a show publishes,
  updates volumes and then blocks.
* A GLib source is a state that enables an action; two sources of the same
  priority are two enabled actions. The idle source of a job's error has the
  default priority, as the child watch has, so either goes first.
* A thread's function is one action per step at which somebody else can come
  between: opening a device, each way of erasing it, the command. What two
  threads do under the lock of the client table is one action of each.
* The idle sources of `Invocation` are one queue: they have one priority, and
  GLib dispatches those of one priority in the order they were attached.
* Use after free and reads through NULL are modelled by what may come of them.
  `DispatchErrorAfterRelease` reads NULL buffers and ends the process.
  `JobFailedAfterReply` uses a freed closure: a second reply, no effect, or the
  end of the process. So do `ReadFreed` of `DeviceJobs`, where the thread of
  VolumeGroupCreate reads a closure that is gone, and the handlers of
  `Invocation` for a call that was answered already.
* A volume group object is a name and an incarnation number, so that the late
  result of a disposed object is told from one for its successor. The number of
  a disposed object that no helper refers to is used again: nothing can come of
  it any more. Whether it is freed is told by `VgPoll`.
* Some variables exist for the properties only: `round`, `applied` and
  `excuse` in `VgSync`, `fresh` in `Completion`, `erased` and `removed` in
  `DeviceJobs`, `by`, `target` and `latest` in `VgPoll`. They appear in no guard.

Definitions whose name starts with that of a mapped definition and whose
comment says "Mutant of" are bugs one could introduce; each property of each
run is shown to fail with one of them.

## Runs

| run | instance | shows |
|---|---|---|
| `spawned_job` | 3 jobs | counts, references, watches and children stay consistent; every ended or cancelled job completes; `JobTablePromise` |
| `spawned_twice` | 1 job, violation | the signal is emitted twice when a cancellation is dispatched after the child watch |
| `vg_sync` | 2 groups, 2 physical volumes, 1 volume name, 2 changes, 1 failure | the tree becomes current, or one of three excuses holds; a group only releases its own physical volumes |
| `pv_dangling` | 1 group, violation | blocks keep pointing to a removed group |
| `pv_lost` | 1 group, 2 devices, 3 changes, violation | a block that an older result took the interface from does not get it back from the update after |
| `completion` | 3 calls, 2 names | who is answered when; a call for a fresh name is answered |
| `completion_twice` | 1 call, violation | a job that fails after the publication answers again |
| `unanswered` | 2 calls, 2 names, violation | a call that waits for a publication that does not come |
| `device_jobs` | 2 jobs, 2 devices, 1 group name, calls about one device or both | a job reports what it did; devices are erased in order, and taken from a new group only by a job that was given them or removed the group; every job ends; `JobTablePromise` |
| `invocation` | 2 clients, one of them root, 3 calls, one of which starts a job | clients, references and jobs are counted exactly; one reply unless the caller could not be looked up; no wait is for ever but one; the daemon ends when, and only when, nobody needs it |
| `caller_gone` | the same, violation | a client that leaves between the authorization of its call and the handler makes the daemon abort |
| `polling` | 2 process ids, 2 polls, 1 update, 1 change, 1 volume, 1 call that waits | references exact, those of volumes included; a poll applies only the result of the last one; what a caller of Poll saw is shown in the end, with its excuses |

The violation runs state what a comment or the interface description says;
`PROJECT.json` quotes the line with each finding.

Bounds, and why they are enough:

* Jobs do not touch each other except through `num_jobs`; three of them let
  one complete while another is over and a third is being launched. The proofs
  cover any number.
* `MaxChanges` bounds the changes of LVM. Two changes are enough for a change
  during an update, for a device that moves between groups, and for two
  updates whose results overtake each other. In `pv_lost` a third change starts
  one more update after that, which should put the tree right and does not; the
  first change is what makes the daemon look at all. What holds of the tree for any number of changes is proved.
* `Incarnations` bounds the objects of one group at one time; an object exists
  beyond its disposal only while a helper holds it, and the guard of
  `DispatchList` never stops a run within these bounds, because there are never
  more objects of a group than lists dispatched.
* `MaxFailures` is one: a failed helper is not tried again, so a second one
  changes nothing that a first did not.
* `MaxCalls` is three: one call that waits, one that takes its name away or
  gives it to somebody else, one that creates it again.

* `device_jobs`: two jobs are one that works and one that interferes, about the
  same device, the same group or both; two devices make a failure in the middle
  of a list. One name is enough for two jobs about one group.
* `invocation`: the client with two calls is registered by the first of them
  while the second finds it; the other client is root, who is let through
  without asking polkit. One call starts a job, so that the daemon may have
  work left when every client is gone. A name is never used again on the bus.
* `polling`: `MaxPolls` and `MaxUpdates` bound the requests and with them the
  helpers. Two polls and an update are three helpers, which with two process
  ids is enough for an id that is used again, and for a result that is
  overtaken by each other kind. `MaxVersion` is two: one change, before or
  after any helper reads, is what makes two results differ. An update before
  those of the run is the second form of `Init`, a group on the bus with its
  volumes, so that a volume may be there, appear, vanish or be made for a group
  that is gone. `MaxWaits` is one call at a time; it may wait, be answered and
  be followed by another. The proofs have no bounds but these constants.

Deadlock is not checked: each of these systems may come to rest.

## Fairness

* `SpawnedJob`: weak fairness of `Dispatch(j)`. The main loop dispatches every
  source that stays ready. Nothing makes a child exit.
* `VgSync`: weak fairness of uevents, the timer, dispatching, a helper's read,
  and udisksd's report of a block. Nothing makes LVM change. That a helper
  exits is an assumption about liblvm; a helper that hangs would keep the tree
  from becoming current.
* `Completion`: weak fairness of the steps of each job and of publication.
  Commands end, and the tree follows LVM. The second is what `Converges`
  establishes for `VgSync`, with its excuses; `FreshCallAnswered` holds under
  the assumption that none of them applies.
* `DeviceJobs`: weak fairness of each job's thread and of its completion.
  Threads run, commands end, the main loop dispatches. Nothing makes the users
  of a device close it, or the tree catch up.
* `Invocation`: weak fairness of the worker thread (`GotUnixUser` answers or
  fails: a call to the bus has a timeout), of the main loop, of the
  authorization threads taken together, and of jobs. Nothing is assumed of
  clients, of polkit, which may be asking a user, or of the bus name.
* `VgPoll`: weak fairness of helpers taken together, of GLib's reaping and
  dispatching, of the idle source and the timer. Nothing makes anybody poll or
  LVM change.

## What is proved

All for every value of the constants, from the named assumptions of the modules
(`BoundsAssumption`, `NamesAssumption`; `CallsAssumption`, `NoneAssumption`;
`ListsAssumption`, `JobsAssumption`; `CallerAssumption`, `LaunchingAssumption`,
`PersistAssumption`, `FiniteAssumption`; `PidsAssumption`, `VolumesAssumption`). Each module proves
that an inductive invariant, `Inv`, holds and derives its theorems from it.

* `SpawnedJob_proof`. None of the safety properties is inductive. The invariant
  is the history of one job, `Life(j)`: not launched, it left no trace
  (`Unborn`); exported, it has emitted nothing and waits for its child watch,
  an idle source, or both, both only when it was cancelled (`Running`); over,
  it was released and only an idle source may still hold it (`Over`). Together
  with the exactness of the count it gives `TypeOK`, `JobCountExact`,
  `RefsAccountedFor`, `WatchedJobExists` and `NoZombie`,
  `KilledOnlyIfCancelled`, `CrashOnlyByLateCancel`, and that every step is a
  step of `JobTable` or a stutter.
* `VgSync_proof`. `OneObjectPerGroup` is inductive given the ranges of the
  variables and that a show is for an object of a group (`ShowsAnObject`); one
  lemma says that collecting and publishing neither make nor end a live object,
  one that a list leaves one live object for each group in it. `OwnerReleases`
  follows from the same invariant: the only step that takes the interface away
  is the dispatch of a show whose path is the one shown.
* `VgSyncCurrent_proof`. `QuietMeansCurrent` is about a daemon that has handled
  everything; the invariant says what leads there. A daemon is `Settled` when no
  uevent or timer is left to start an update and nothing excuses the tree. It
  gets settled only by starting a list, and stays so only while LVM does not
  change; so all that the helpers of the last round report is what LVM knows.
  While the list is under way (`Listing`) nothing has to hold of the tree. Once
  it is dispatched (`Showing`), each group LVM has is shown as it is or a helper
  of this round is about it, an object LVM does not have is disposed of, and
  the blocks on the bus show theirs; the result of an earlier round that is
  dispatched after that is one of the excuses. With no helper left, that is
  `QuietMeansCurrent`. The upper bounds of `TypeOK` follow from counting: each
  list takes up a uevent (`Budget`), and LVM sends no more than it made changes.
* `Completion_proof`. A call is connected as long as it is not answered and its
  job is not over (`Replies`). What a call for a fresh name waits for is not in
  the tree; only names in the tree are removed; so nobody removes it
  (`Awaits`). This gives `TypeOK`, `ConnectedNotReplied`, `WaitedForComes` and
  `SecondUseExplained`.

* `DeviceJobs_proof`. The invariant is the history of each job, `JobOK`: what
  it has erased against its list and its loop counter, what it has removed, and
  what its result says of both. Two jobs meet only on the devices. That a new
  group keeps its devices (`Kept`) is a second invariant, on top of `Inv`: only
  a thread that was given a device, or vgremove of its group, may change it. This gives `TypeOK`,
  `ResultTold`, `WipesExplained` and `DeathExplained`, and with the exactness of
  `num_jobs` (`Counted`), that every step is a step of
  `JobTable` or a stutter (`JobTablePromise`).
* `Invocation_proof`. The counts are kept by idle sources that are still to
  run, so the invariant is about the queue (`Orderly`): each source is in it
  once, and a client's appearance stands before its calls and before its
  disappearance. `CallOK` says of each stage of a call what it holds and
  whether its caller is known, `ClientOK` when a client has a record and what
  was asked for it. With the three counts (clients, jobs, references) this
  gives `TypeOK`, `ClientCountExact`, `RefsExact`, `SecondReplyExplained`,
  `LoopNeverWaits`, `DeathExplained`, `NoIdleDaemon` and
  `FinishedWhenUnneeded`. The lemmas on sequences say what taking the head and
  appending do to the order.
* `VgPoll_proof`. Helpers are numbered in order, and as many of them are started
  as idle sources and the timer asked for (`Bounded`, `StartsRequested`,
  `HelpersInOrder`); `poll_pid` is that of the last poll or none. What else holds
  the group (`Holders`) is the object on the bus, which is put there once
  (`ShownOnce`), each call that waits and each volume ever made. This gives
  `TypeOK`, `RefsExact` and the action property `AppliesLatest`.

Only model-checked: the liveness properties (`CancelledJobCompletes`,
`EndedJobCompletes`, `Converges`, `FreshCallAnswered`, `JobsComplete`,
`WaitEnds`, `AbandonedDaemonEnds`, `Settles`), which need fairness and ENABLED,
out of the prover's reach. Each of them could fail in two ways: the code forgets
something, or nobody runs what it remembers. The second is what fairness
excludes and TLC checks. The first is a safety property, and proved:

| liveness property | what is proved of it |
|---|---|
| `CancelledJobCompletes`, `EndedJobCompletes` | `NoEndLost`: a job on the bus that was cancelled, or whose child has exited or never was, has a source ready that completes it. An idle source that a cancellation queued is not taken by anything else (`CancelQueued`) |
| `Converges` | `TreeCorrect`: at rest, the tree is current or excused |
| `FreshCallAnswered` | `FreshNotForgotten`: a call for a fresh name that was not answered has its job under way, or what it made is about to be published; its closure is still connected (`FreshConnected`) |
| `JobsComplete` | `ThreadsBounded`: each step of a thread lowers a rank (`Rank`: three steps for each device that is left, and those around the loop), and nothing else raises it. `DevicesGivenBack`: a device is held by a job only while its loop zeroes it, so that a thread that fails keeps nobody else from it |
| `WaitEnds` | `WakeupsKept`: the answer that a waiting thread needs is to come, or the table has lost the record |
| `AbandonedDaemonEnds` | `AbandonedNeverRests`: once every client has left, and until the process ends, a client is to be struck off, a source to be dispatched, or a job runs; a daemon that has counted its clients out has given up its name, unless the news of another is in the queue (`NameKept`) |
| `Settles` | `NoRequestLost`: a request that found the timer running is kept as long as the timer; with no request and no helper left, the group shows what the last caller saw, with the excuses of `Settles` |

## What the models say of the code

Besides the findings of the violation runs, these are places where a property
has an exception, or an operation an outcome, that a reader may not expect:

* `RemoveDevice` never succeeds: the handler assigns `data->vgname` twice
  (`volumegroup.c:1060`), the second time the device, and leaves `data->pvname`
  NULL, so vgreduce gets the device for a group and no device.
* Whether a device is unused is decided when a call is handled
  (`manager.c:546`), so two calls may be given one device, and the second may
  take it from a group the first has made. `WipesExplained` names that case.
* `manager.c:476` says of the data of VolumeGroupCreate that it is only accessed
  by its thread; the closure it lives in is freed when the group is published,
  which may be before the thread has read it for the last time.
* A thread that waits for the uid of a caller looks for a record. If the news
  that the caller left comes before the answer, the record is out of the table,
  nobody signals, and the thread waits for ever (`Forgotten` in `WaitEnds`).
* A caller that cannot be looked up is sent an error, and the hook then lets the
  handler run, which may answer a second time (`SecondReplyExplained`).
* A poll interrupts the one before by its process id, which GLib may have
  reaped already; a helper that takes more than five seconds is interrupted by
  every next poll, so that a group polled all the time may never be current.
* The late result of an update overrides that of a later poll (`Settles`).
* A volume takes a reference to its group (`logicalvolume.c:853-855`), which its
  disposal (`logicalvolume.c:86-98`) does not give back, and the reference it
  was created with stays when it goes into the table
  (`volumegroup.c:477-480`; "Free with g_object_unref()" says
  `logicalvolume.c:226`). So a group that ever had a volume is never freed,
  disposed or not: `RefsExact` counts the volumes ever made (`made`), and
  nothing lowers that count. A late result for a disposed group makes its
  volumes anew; they hold the group too, and are never on the bus, because a
  group without a path gives them none (`util.c:82`).
* The tree may be behind without anything wrong by `QuietMeansCurrent`, which
  excepts it (`excuse`) from a change whose uevent did not look like LVM, from a
  failed helper of the last update, and from a late result of an earlier one,
  until the next update is started. The initial state is one of these
  exceptions: no update runs at startup (`manager.c:369-379`).
* A device that Delete was told to wipe is wiped, also when LVM has given it to
  another group since the tree was asked (`volumegroup.c:775-783`):
  `WipesExplained` excepts a job that was given the device. The interface
  description (`com.redhat.lvm2.xml:171-172`) does not say which moment counts.
* The block of a volume or a device that udisksd reports after the update that
  would have given it its interface stays bare until the next uevent
  (`QuietMeansCurrent`).
* Thin pools and thin volumes are created with the remainder of their size by
  512 (`volumegroup.c:1266`, `volumegroup.c:1327`), where plain volumes, resizes
  and snapshots take that remainder off: for a size in whole sectors it is 0.
* The progress of pvmove jobs (`volumegroup.c:276`) is never set:
  `ul_daemon_get_jobs` (`daemon.c:679`) tests the objects of the object manager
  for being jobs, and none of them is.

## What is not modelled

* `VgSync`: all uevents of one LVM command are one uevent of one of the devices
  it touched. Physical volumes stay plugged in; logical volumes are active.
  A block that goes and comes back before udisksd reports it is not told apart.
  A renamed group or volume is a removed and a created one. The properties of
  groups and volumes, the progress of pvmove jobs, and which of two volumes in
  a list comes first (thin pools and origins) are left out. A helper that
  cannot be spawned is a helper that fails.
* `SpawnedJob`: the bytes in the pipes, and the child's user id.
* `Completion`: LVM is changed by the calls only, and a name is one of a flat
  set. The steps inside a job's thread, and the failures of a handler before
  it starts a job, are left out.
* `DeviceJobs`: the cancellation of a spawned job (in `SpawnedJob`); what
  LVM does when a device it was given has gone.
* `Invocation`: which polkit action is asked for, and its dialog;
  `object_get_polkit_details`, which nothing uses. A client's name is not used
  again, as the bus promises. That an answer with the uid of a client is
  dispatched before the news that the client left is taken as given (`Answers`):
  `on_get_connection_unix_user` (`invocation.c:158`) would read a record that is
  gone otherwise, and no property tells.
* `VgPoll`: several groups, which share nothing but process ids; the references
  GLib and GDBus take to a group while they dispatch something to it, those of a
  call that is still being authorized among them; which volumes LVM has.
* The object manager server with colliding paths; the object list of a job and
  the estimate of its end; the arguments of LVM's commands, with the rounding of
  sizes; the encoding of names and paths, a pure function on strings.
* Start of the process, options, logging; formatting of results and messages.

## Plan

Done: `JobTable`, `SpawnedJob`, `VgSync` and `Completion`, then `Invocation`
with the lifetime of the daemon, `VgPoll`, and `DeviceJobs` as a second
implementation of `JobTable`, each with its proofs; of each liveness property,
the safety property it rests on. Left, in this order:

1. Ranks like that of `DeviceJobs` for the helpers of `VgSync` and `VgPoll`: how
   many dispatches are left once nothing changes any more.
2. The arguments of the commands (sizes rounded to 512 bytes, the data of
   RemoveDevice), and the encoding of names and paths, against reference
   definitions over bounded inputs.
3. The properties of volumes (which of two volumes in a list comes first, thin
   pools, origins) as data of `VgSync`'s results.
4. Objects under colliding paths in the object manager.
