---------------------------- MODULE SpawnedJob ----------------------------
(***************************************************************************)
(* UlSpawnedJob (spawnedjob.c), the Cancel() of its base class (job.c) and *)
(* the part of the daemon that launches and retires such jobs (daemon.c).  *)
(*                                                                         *)
(* A job runs one command line in a child process.  Two GLib sources can   *)
(* report that it is over: the child watch, once the child has exited, and *)
(* an idle source that carries an error, once the job was cancelled or the *)
(* child could not be spawned.  Either emits spawned-job-completed, whose  *)
(* default handler emits Job.Completed, whose last handler, the daemon's   *)
(* on_job_completed, unexports the job and drops the daemon's references.  *)
(* The idle source holds a reference to the job, the child watch does not. *)
(*                                                                         *)
(* All of this happens on the main loop, one callback at a time; children  *)
(* run on their own.  Both sources have the default priority, so either    *)
(* may be dispatched first when both are ready.                            *)
(*                                                                         *)
(* Left out: what is written to and read from the pipes of the child, the  *)
(* text of messages, the switch of user id in the child.                   *)
(***************************************************************************)
EXTENDS Naturals, FiniteSets

CONSTANT Jobs       \* the values job_id takes: one per job ever launched

VARIABLES
    launched,       \* jobs constructed so far
    exported,       \* jobs whose object is on the bus
    num_jobs,       \* UlDaemon.num_jobs
    up,             \* FALSE once the process has died of a bad access
    refs,           \* reference count of the job object; 0: no such object
    child,          \* the child process, as the kernel sees it
    watch,          \* the child watch on it: the job's own, or the one
                    \* release_resources leaves behind
    signalled,      \* jobs whose child was sent SIGTERM
    cancelled,      \* jobs whose GCancellable is cancelled
    pending,        \* the error carried by an undispatched idle source
    released,       \* jobs that went through release_resources
    emissions,      \* how often spawned-job-completed was emitted
    outcome         \* what Job.Completed reported

jobVars == <<launched, exported, num_jobs, up>>
vars == <<launched, exported, num_jobs, up, refs, child, watch, signalled,
          cancelled, pending, released, emissions, outcome>>

Errors   == {"cancelled", "spawn-failed"}
Exited   == {"succeeded", "failed"}     \* exit status zero, anything else
Unreaped == {"running"} \union Exited

Init ==
    /\ launched = {} /\ exported = {} /\ num_jobs = 0 /\ up = TRUE
    /\ refs      = [j \in Jobs |-> 0]
    /\ child     = [j \in Jobs |-> "none"]
    /\ watch     = [j \in Jobs |-> "none"]
    /\ pending   = [j \in Jobs |-> "none"]
    /\ emissions = [j \in Jobs |-> 0]
    /\ outcome   = [j \in Jobs |-> "none"]
    /\ signalled = {} /\ cancelled = {} /\ released = {}
-----------------------------------------------------------------------------
(* A new job is exported and counted; the launcher and the exported object *)
(* hold one reference each.                                                *)
Export(j, extra) ==
    /\ up
    /\ j \notin launched
    /\ launched' = launched \union {j}
    /\ exported' = exported \union {j}
    /\ num_jobs' = num_jobs + 1
    /\ refs' = [refs EXCEPT ![j] = 2 + extra]
    /\ UNCHANGED <<up, signalled, released, emissions, outcome>>

LaunchSpawned(j) ==
    /\ Export(j, 0)
    /\ child' = [child EXCEPT ![j] = "running"]
    /\ watch' = [watch EXCEPT ![j] = "job"]
    /\ UNCHANGED <<cancelled, pending>>

(* The command line cannot be executed; the error is left to an idle. *)
LaunchSpawnFailed(j) ==
    /\ Export(j, 1)
    /\ pending' = [pending EXCEPT ![j] = "spawn-failed"]
    /\ UNCHANGED <<cancelled, child, watch>>

(* The caller's cancellable was cancelled before the job was constructed. *)
LaunchCancelled(j) ==
    /\ Export(j, 1)
    /\ cancelled' = cancelled \union {j}
    /\ pending' = [pending EXCEPT ![j] = "cancelled"]
    /\ UNCHANGED <<child, watch>>

(* Mutant of Cancel: that the job is cancelled already is not noticed. *)
CancelAgain(j) ==
    /\ up
    /\ j \in exported
    /\ cancelled' = cancelled \union {j}
    /\ pending' = [pending EXCEPT ![j] = "cancelled"]
    /\ refs' = [refs EXCEPT ![j] = @ + 1]
    /\ UNCHANGED <<jobVars, child, watch, signalled, released, emissions,
                   outcome>>

(* Mutant of Cancel: the cancellation is left to the child to notice. *)
CancelWithoutIdle(j) ==
    /\ up
    /\ j \in exported
    /\ j \notin cancelled
    /\ cancelled' = cancelled \union {j}
    /\ UNCHANGED <<jobVars, refs, child, watch, signalled, pending, released,
                   emissions, outcome>>

(* handle_cancel on an exported job, and on_cancelled called from it.  The *)
(* call itself is dispatched from the main loop behind an idle source that *)
(* is already there, so it never finds one pending.  The branch that       *)
(* answers "already cancelled" changes nothing.                            *)
Cancel(j) ==
    /\ up
    /\ j \in exported
    /\ j \notin cancelled
    /\ pending[j] = "none"
    /\ cancelled' = cancelled \union {j}
    /\ pending' = [pending EXCEPT ![j] = "cancelled"]
    /\ refs' = [refs EXCEPT ![j] = @ + 1]
    /\ UNCHANGED <<jobVars, child, watch, signalled, released, emissions,
                   outcome>>

(* The child terminates, by itself or because it was signalled; a child    *)
(* may well handle SIGTERM and still exit with status zero.                *)
ChildExit(j) ==
    /\ child[j] = "running"
    /\ \E status \in Exited : child' = [child EXCEPT ![j] = status]
    /\ UNCHANGED <<jobVars, refs, watch, signalled, cancelled, pending,
                   released, emissions, outcome>>
-----------------------------------------------------------------------------
(* Mutant of EmitCompleted: a failed job stays in the daemon's count. *)
EmitCompletedCountsSuccess(j, result) ==
    /\ emissions' = [emissions EXCEPT ![j] = @ + 1]
    /\ outcome' = [outcome EXCEPT ![j] = result]
    /\ exported' = exported \ {j}
    /\ num_jobs' = IF result = "succeeded" THEN num_jobs - 1 ELSE num_jobs
    /\ UNCHANGED <<launched, up, cancelled>>

(* Mutant of EmitCompleted: the job is counted out and stays on the bus. *)
EmitCompletedKeepsExported(j, result) ==
    /\ emissions' = [emissions EXCEPT ![j] = @ + 1]
    /\ outcome' = [outcome EXCEPT ![j] = result]
    /\ num_jobs' = num_jobs - 1
    /\ UNCHANGED <<launched, exported, up, cancelled>>

(* The emission of spawned-job-completed on a job that was not released:   *)
(* the default handler emits Job.Completed with the result, and            *)
(* on_job_completed, connected after it, retires the job.                  *)
EmitCompleted(j, result) ==
    /\ emissions' = [emissions EXCEPT ![j] = @ + 1]
    /\ outcome' = [outcome EXCEPT ![j] = result]
    /\ exported' = exported \ {j}
    /\ num_jobs' = num_jobs - 1
    /\ UNCHANGED <<launched, up, cancelled>>

(* Mutant of DispatchChildWatch: the process id is still set when the     *)
(* resources are released.                                                *)
DispatchChildWatchKills(j) ==
    /\ up
    /\ watch[j] = "job"
    /\ child[j] \in Exited
    /\ EmitCompleted(j, child[j])
    /\ child' = [child EXCEPT ![j] = "reaped"]
    /\ watch' = [watch EXCEPT ![j] = "none"]
    /\ refs' = [refs EXCEPT ![j] = @ - 2]
    /\ released' = released \union {j}
    /\ signalled' = signalled \union {j}
    /\ UNCHANGED pending

(* child_watch_cb: emit with the exit status, then release the resources.  *)
(* g_child_watch reaps the child before it calls us.                       *)
DispatchChildWatch(j) ==
    /\ up
    /\ watch[j] = "job"
    /\ child[j] \in Exited
    /\ EmitCompleted(j, child[j])
    /\ child' = [child EXCEPT ![j] = "reaped"]
    /\ watch' = [watch EXCEPT ![j] = "none"]
    /\ refs' = [refs EXCEPT ![j] = @ - 2]
    /\ released' = released \union {j}
    /\ UNCHANGED <<signalled, pending>>

(* Mutant of Release: the child watch of the job is forgotten. *)
ReleaseKeepingWatch(j) ==
    /\ released' = released \union {j}
    /\ UNCHANGED <<signalled, watch>>

(* Mutant of Release: the child is signalled and nobody waits for it. *)
ReleaseWithoutReaper(j) ==
    /\ released' = released \union {j}
    /\ watch' = [watch EXCEPT ![j] = "none"]
    /\ signalled' = IF watch[j] = "job" THEN signalled \union {j} ELSE signalled

(* release_resources on a job whose own child watch is still in place:     *)
(* destroy that, terminate the child and leave another watch to reap it.   *)
Release(j) ==
    /\ released' = released \union {j}
    /\ IF watch[j] = "job"
         THEN /\ signalled' = signalled \union {j}
              /\ watch' = [watch EXCEPT ![j] = "release"]
         ELSE UNCHANGED <<signalled, watch>>

(* Mutant of DispatchError: the idle source runs again. *)
DispatchErrorAndContinue(j) ==
    /\ up
    /\ pending[j] # "none"
    /\ j \notin released
    /\ EmitCompleted(j, pending[j])
    /\ refs' = [refs EXCEPT ![j] = @ - 3]
    /\ IF refs[j] = 3 THEN Release(j) ELSE UNCHANGED <<released, signalled, watch>>
    /\ UNCHANGED <<child, pending>>

(* Mutant of DispatchError: the reference of the idle source is leaked. *)
DispatchErrorKeepsRef(j) ==
    /\ up
    /\ pending[j] # "none"
    /\ j \notin released
    /\ EmitCompleted(j, pending[j])
    /\ pending' = [pending EXCEPT ![j] = "none"]
    /\ refs' = [refs EXCEPT ![j] = @ - 2]
    /\ UNCHANGED <<child, released, signalled, watch>>

(* emit_completed_with_error_in_idle_cb: emit with the error, then drop    *)
(* the idle's reference, which is the last one: the job is finalized.      *)
DispatchError(j) ==
    /\ up
    /\ pending[j] # "none"
    /\ j \notin released
    /\ EmitCompleted(j, pending[j])
    /\ pending' = [pending EXCEPT ![j] = "none"]
    /\ refs' = [refs EXCEPT ![j] = @ - 3]
    /\ IF refs[j] = 3 THEN Release(j) ELSE UNCHANGED <<released, signalled, watch>>
    /\ UNCHANGED child

(* The same callback on a job the child watch has completed and released:  *)
(* it emits the signal a second time, and the default handler reads the    *)
(* output buffers, which are NULL by now.                                  *)
DispatchErrorAfterRelease(j) ==
    /\ up
    /\ pending[j] # "none"
    /\ j \in released
    /\ emissions' = [emissions EXCEPT ![j] = @ + 1]
    /\ up' = FALSE
    /\ UNCHANGED <<launched, exported, num_jobs, refs, child, watch, signalled,
                   cancelled, pending, released, outcome>>

(* child_watch_from_release_cb: the child of a finalized job is reaped. *)
Reap(j) ==
    /\ up
    /\ watch[j] = "release"
    /\ child[j] \in Exited
    /\ child' = [child EXCEPT ![j] = "reaped"]
    /\ watch' = [watch EXCEPT ![j] = "none"]
    /\ UNCHANGED <<jobVars, refs, signalled, cancelled, pending, released,
                   emissions, outcome>>

Dispatch(j) ==
    \/ DispatchChildWatch(j)
    \/ DispatchError(j)
    \/ DispatchErrorAfterRelease(j)
    \/ Reap(j)

Next == \E j \in Jobs :
    \/ LaunchSpawned(j)
    \/ LaunchSpawnFailed(j)
    \/ LaunchCancelled(j)
    \/ Cancel(j)
    \/ ChildExit(j)
    \/ Dispatch(j)

(* The main loop dispatches every source that stays ready.  Nothing makes  *)
(* a child terminate.                                                      *)
Fairness == \A j \in Jobs : WF_vars(Dispatch(j))

Spec == Init /\ [][Next]_vars /\ Fairness
-----------------------------------------------------------------------------
(* Every variable stays in its range; a job completes at most once and at  *)
(* most twice reports that it did.                                         *)
TypeOK ==
    /\ launched \subseteq Jobs /\ exported \subseteq Jobs
    /\ num_jobs \in Nat
    /\ up \in BOOLEAN
    /\ refs \in [Jobs -> 0..3]
    /\ child \in [Jobs -> {"none", "reaped"} \union Unreaped]
    /\ watch \in [Jobs -> {"none", "job", "release"}]
    /\ pending \in [Jobs -> {"none"} \union Errors]
    /\ emissions \in [Jobs -> 0..2]
    /\ outcome \in [Jobs -> {"none"} \union Errors \union Exited]
    /\ signalled \subseteq Jobs
    /\ cancelled \subseteq Jobs
    /\ released \subseteq Jobs

(* num_jobs, which keeps the daemon from exiting (maybe_finished), counts  *)
(* exactly the jobs on the bus, in whichever way each of them ended.       *)
JobCountExact == num_jobs = Cardinality(exported)

(* The reference count of a job is what its owners hold: two while it is   *)
(* exported (the launcher's and the exported object's), one per idle       *)
(* source.  So no job is leaked once its last callback has run.            *)
RefsAccountedFor ==
    \A j \in Jobs : refs[j] = (IF j \in exported THEN 2 ELSE 0)
                            + (IF pending[j] # "none" THEN 1 ELSE 0)

(* The child watch carries a pointer to the job and no reference: while it *)
(* is attached the job exists and is still exported, whichever of the two  *)
(* sources is dispatched first.                                            *)
WatchedJobExists ==
    \A j \in Jobs : watch[j] = "job" => j \in exported /\ refs[j] >= 2

(* A child that was not reaped yet has a watch on it, the job's or the one *)
(* left behind by release_resources: no job leaves a zombie.               *)
NoZombie == \A j \in Jobs : (child[j] \in Unreaped) <=> (watch[j] # "none")

(* Only a job whose cancellation was reported as its result has its        *)
(* command terminated: no command is killed half-way behind the back of a  *)
(* job that says anything else.                                            *)
KilledOnlyIfCancelled ==
    \A j \in signalled : j \in cancelled /\ outcome[j] = "cancelled"

(* The one way these jobs bring the daemon down: a job is cancelled after  *)
(* its child exited, or just before, and the child watch is dispatched     *)
(* ahead of the idle source that carries the cancellation.                 *)
CrashOnlyByLateCancel ==
    ~up => \E j \in cancelled : emissions[j] = 2 /\ outcome[j] \in Exited

(* "Emitted when the spawned job is complete" (spawnedjob.c, the doc       *)
(* comment of the signal): it is not emitted again after that.             *)
EmittedOnce == \A j \in Jobs : emissions[j] <= 1

(* A job that has been cancelled completes although its child may never    *)
(* exit.                                                                   *)
CancelledJobCompletes ==
    \A j \in Jobs : (j \in cancelled) ~> (j \notin exported \/ ~up)

(* A job whose child exits, or could not be spawned, completes, and no     *)
(* child that has exited waits forever to be reaped.                       *)
EndedJobCompletes ==
    \A j \in Jobs :
        /\ (pending[j] # "none" \/ child[j] \in Exited) ~> (j \notin exported \/ ~up)
        /\ (child[j] \in Exited) ~> (child[j] = "reaped" \/ ~up)

(* What the daemon promises of its jobs. *)
Table == INSTANCE JobTable

(* Spawned jobs implement that promise. *)
JobTablePromise == Table!Spec
=============================================================================
