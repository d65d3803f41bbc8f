------------------------- MODULE SpawnedJob_proof -------------------------
(***************************************************************************)
(* Proofs about SpawnedJob, for every set of jobs: the counts are exact,   *)
(* no child is left unwatched, no child watch outlives its job, a command  *)
(* is killed only for a job that reports it, and spawned jobs implement    *)
(* JobTable.                                                               *)
(*                                                                         *)
(* The safety properties are not inductive.  What carries them is the      *)
(* history of one job, Life(j): what may still be attached to it in each   *)
(* stage of its life (unborn, exported, over).                             *)
(***************************************************************************)
EXTENDS SpawnedJob, FiniteSetTheorems, TLAPS

(* A job nobody launched has left no trace. *)
Unborn(j) ==
    /\ child[j] = "none" /\ watch[j] = "none" /\ pending[j] = "none"
    /\ emissions[j] = 0 /\ outcome[j] = "none" /\ refs[j] = 0
    /\ j \notin exported /\ j \notin cancelled
    /\ j \notin released /\ j \notin signalled

(* An exported job has not emitted anything, and waits for its child watch *)
(* or for an idle source; only a cancellation makes it wait for both.      *)
Running(j) ==
    /\ j \notin released /\ j \notin signalled
    /\ emissions[j] = 0 /\ outcome[j] = "none"
    /\ refs[j] = IF pending[j] # "none" THEN 3 ELSE 2
    /\ watch[j] \in {"none", "job"}
    /\ watch[j] = "none" => pending[j] # "none"
    /\ watch[j] = "job" => pending[j] # "spawn-failed"
    /\ pending[j] = "cancelled" => j \in cancelled

(* A job that is over was released; an idle source may still hold it, and  *)
(* then its child watch was dispatched first.                              *)
Over(j) ==
    /\ j \in released
    /\ watch[j] # "job"
    /\ refs[j] = IF pending[j] # "none" THEN 1 ELSE 0
    /\ emissions[j] \in {1, 2}
    /\ outcome[j] # "none"
    /\ up => emissions[j] = 1
    /\ pending[j] # "none" => j \in cancelled /\ outcome[j] \in Exited
    /\ j \in signalled => j \in cancelled /\ outcome[j] = "cancelled"

Life(j) ==
    /\ j \notin launched => Unborn(j)
    /\ j \in exported => j \in launched /\ Running(j)
    /\ j \in launched /\ j \notin exported => Over(j)
    /\ (child[j] \in Unreaped) <=> (watch[j] # "none")

CountInv == IsFiniteSet(exported) /\ num_jobs = Cardinality(exported)

Inv ==
    /\ TypeOK
    /\ CountInv
    /\ \A j \in Jobs : Life(j)
    /\ CrashOnlyByLateCancel
-----------------------------------------------------------------------------
(* The initial state. *)
LEMMA InitInv == Init => Inv
  BY FS_EmptySet
  DEF Init, Inv, TypeOK, CountInv, Life, Unborn, Running, Over, Unreaped, Exited,
      Errors, CrashOnlyByLateCancel

(* A job that is launched is counted. *)
LEMMA CountedIn ==
    ASSUME Inv, NEW k \in Jobs, k \notin launched,
           exported' = exported \union {k}, num_jobs' = num_jobs + 1
    PROVE  CountInv'
<1>1. k \notin exported
  BY DEF Inv, TypeOK, Life
<1>2. IsFiniteSet(exported')
  BY FS_AddElement DEF Inv, CountInv
<1>3. Cardinality(exported') = Cardinality(exported) + 1
  BY <1>1, FS_AddElement DEF Inv, CountInv
<1> QED
  BY <1>2, <1>3 DEF Inv, CountInv

(* A job that completes is counted out. *)
LEMMA CountedOut ==
    ASSUME Inv, NEW k \in exported,
           exported' = exported \ {k}, num_jobs' = num_jobs - 1
    PROVE  CountInv' /\ num_jobs' \in Nat
<1>1. /\ IsFiniteSet(exported')
      /\ Cardinality(exported') = Cardinality(exported) - 1
  BY FS_RemoveElement DEF Inv, CountInv
<1>2. Cardinality(exported') \in Nat
  BY <1>1, FS_CardinalityType
<1> QED
  BY <1>1, <1>2 DEF Inv, CountInv

(* A dispatched child watch finds an exported job: the emission that       *)
(* on_job_completed asserts about is the first one.                        *)
LEMMA WatchFindsRunningJob ==
    ASSUME Inv, NEW k \in Jobs, watch[k] = "job"
    PROVE  k \in exported /\ k \in launched /\ Running(k) /\ child[k] \in Unreaped
  BY DEF Inv, Life, Unborn, Over

(* So does an idle source, unless the job has been released. *)
LEMMA IdleFindsRunningJob ==
    ASSUME Inv, NEW k \in Jobs, pending[k] # "none", k \notin released
    PROVE  k \in exported /\ k \in launched /\ Running(k)
  BY DEF Inv, Life, Unborn, Over

LEMMA LaunchSpawnedInv ==
    ASSUME Inv, NEW k \in Jobs, LaunchSpawned(k)
    PROVE  Inv'
<1> USE DEF Inv
<1>1. CountInv'
  BY CountedIn DEF LaunchSpawned, Export
<1>2. TypeOK'
  BY DEF TypeOK, LaunchSpawned, Export, Life, Unborn, Running, Over, Unreaped, Exited, Errors
<1>3. Life(k)'
  BY DEF TypeOK, LaunchSpawned, Export, Life, Unborn, Running, Over, Unreaped, Exited, Errors
<1>4. ASSUME NEW j \in Jobs, j # k PROVE Life(j)'
  BY <1>4 DEF TypeOK, LaunchSpawned, Export, Life, Unborn, Running, Over, Unreaped, Exited, Errors
<1>5. CrashOnlyByLateCancel'
  BY DEF TypeOK, LaunchSpawned, Export, CrashOnlyByLateCancel, Life, Unborn, Over, Exited
<1> QED
  BY <1>1, <1>2, <1>3, <1>4, <1>5

LEMMA LaunchSpawnFailedInv ==
    ASSUME Inv, NEW k \in Jobs, LaunchSpawnFailed(k)
    PROVE  Inv'
<1> USE DEF Inv
<1>1. CountInv'
  BY CountedIn DEF LaunchSpawnFailed, Export
<1>2. TypeOK'
  BY DEF TypeOK, LaunchSpawnFailed, Export, Life, Unborn, Running, Over, Unreaped, Exited, Errors
<1>3. Life(k)'
  BY DEF TypeOK, LaunchSpawnFailed, Export, Life, Unborn, Running, Over, Unreaped, Exited, Errors
<1>4. ASSUME NEW j \in Jobs, j # k PROVE Life(j)'
  BY <1>4 DEF TypeOK, LaunchSpawnFailed, Export, Life, Unborn, Running, Over, Unreaped, Exited, Errors
<1>5. CrashOnlyByLateCancel'
  BY DEF TypeOK, LaunchSpawnFailed, Export, CrashOnlyByLateCancel, Life, Unborn, Over, Exited
<1> QED
  BY <1>1, <1>2, <1>3, <1>4, <1>5

LEMMA LaunchCancelledInv ==
    ASSUME Inv, NEW k \in Jobs, LaunchCancelled(k)
    PROVE  Inv'
<1> USE DEF Inv
<1>1. CountInv'
  BY CountedIn DEF LaunchCancelled, Export
<1>2. TypeOK'
  BY DEF TypeOK, LaunchCancelled, Export, Life, Unborn, Running, Over, Unreaped, Exited, Errors
<1>3. Life(k)'
  BY DEF TypeOK, LaunchCancelled, Export, Life, Unborn, Running, Over, Unreaped, Exited, Errors
<1>4. ASSUME NEW j \in Jobs, j # k PROVE Life(j)'
  BY <1>4 DEF TypeOK, LaunchCancelled, Export, Life, Unborn, Running, Over, Unreaped, Exited, Errors
<1>5. CrashOnlyByLateCancel'
  BY DEF TypeOK, LaunchCancelled, Export, CrashOnlyByLateCancel, Life, Unborn, Over, Exited
<1> QED
  BY <1>1, <1>2, <1>3, <1>4, <1>5

LEMMA CancelInv ==
    ASSUME Inv, NEW k \in Jobs, Cancel(k)
    PROVE  Inv'
<1> USE DEF Inv
<1>1. CountInv'
  BY DEF CountInv, Cancel, jobVars
<1>2. TypeOK'
  BY DEF TypeOK, Cancel, jobVars, Life, Unborn, Running, Over, Unreaped, Exited, Errors
<1>3. Life(k)'
  BY DEF TypeOK, Cancel, jobVars, Life, Unborn, Running, Over, Unreaped, Exited, Errors
<1>4. ASSUME NEW j \in Jobs, j # k PROVE Life(j)'
  BY <1>4 DEF TypeOK, Cancel, jobVars, Life, Unborn, Running, Over, Unreaped, Exited, Errors
<1>5. CrashOnlyByLateCancel'
  BY DEF TypeOK, Cancel, jobVars, CrashOnlyByLateCancel, Life, Unborn, Over, Exited
<1> QED
  BY <1>1, <1>2, <1>3, <1>4, <1>5

LEMMA ChildExitInv ==
    ASSUME Inv, NEW k \in Jobs, ChildExit(k)
    PROVE  Inv'
<1> USE DEF Inv
<1>1. CountInv'
  BY DEF CountInv, ChildExit, jobVars
<1>2. TypeOK'
  BY DEF TypeOK, ChildExit, jobVars, Life, Unborn, Running, Over, Unreaped, Exited, Errors
<1>3. Life(k)'
  BY DEF TypeOK, ChildExit, jobVars, Life, Unborn, Running, Over, Unreaped, Exited, Errors
<1>4. ASSUME NEW j \in Jobs, j # k PROVE Life(j)'
  BY <1>4 DEF TypeOK, ChildExit, jobVars, Life, Unborn, Running, Over, Unreaped, Exited, Errors
<1>5. CrashOnlyByLateCancel'
  BY DEF TypeOK, ChildExit, jobVars, CrashOnlyByLateCancel, Life, Unborn, Over, Exited
<1> QED
  BY <1>1, <1>2, <1>3, <1>4, <1>5

LEMMA DispatchChildWatchInv ==
    ASSUME Inv, NEW k \in Jobs, DispatchChildWatch(k)
    PROVE  Inv'
<1> USE DEF Inv
<1>0. k \in exported /\ k \in launched /\ Running(k) /\ child[k] \in Unreaped
  BY WatchFindsRunningJob DEF DispatchChildWatch
<1>1. CountInv' /\ num_jobs' \in Nat
  BY <1>0, CountedOut DEF DispatchChildWatch, EmitCompleted
<1>2. TypeOK'
  BY <1>0, <1>1 DEF TypeOK, DispatchChildWatch, EmitCompleted, Life, Unborn, Running, Over, Unreaped, Exited, Errors
<1>3. Life(k)'
  BY <1>0 DEF TypeOK, DispatchChildWatch, EmitCompleted, Life, Unborn, Running, Over, Unreaped, Exited, Errors
<1>4. ASSUME NEW j \in Jobs, j # k PROVE Life(j)'
  BY <1>0 DEF TypeOK, DispatchChildWatch, EmitCompleted, Life, Unborn, Running, Over, Unreaped, Exited, Errors
<1>5. CrashOnlyByLateCancel'
  BY <1>0 DEF TypeOK, DispatchChildWatch, EmitCompleted, CrashOnlyByLateCancel, Life, Unborn, Over, Exited
<1> QED
  BY <1>1, <1>2, <1>3, <1>4, <1>5

LEMMA DispatchErrorInv ==
    ASSUME Inv, NEW k \in Jobs, DispatchError(k)
    PROVE  Inv'
<1> USE DEF Inv
<1>0. k \in exported /\ k \in launched /\ Running(k)
  BY IdleFindsRunningJob DEF DispatchError
<1>1. CountInv' /\ num_jobs' \in Nat
  BY <1>0, CountedOut DEF DispatchError, EmitCompleted, Release
<1>2. TypeOK'
  BY <1>0, <1>1 DEF TypeOK, DispatchError, EmitCompleted, Release, Life, Unborn, Running, Over, Unreaped, Exited, Errors
<1>3. Life(k)'
  BY <1>0 DEF TypeOK, DispatchError, EmitCompleted, Release, Life, Unborn, Running, Over, Unreaped, Exited, Errors
<1>4. ASSUME NEW j \in Jobs, j # k PROVE Life(j)'
  BY <1>0 DEF TypeOK, DispatchError, EmitCompleted, Release, Life, Unborn, Running, Over, Unreaped, Exited, Errors
<1>5. CrashOnlyByLateCancel'
  BY <1>0 DEF TypeOK, DispatchError, EmitCompleted, Release, CrashOnlyByLateCancel, Life, Unborn, Over, Exited
<1> QED
  BY <1>1, <1>2, <1>3, <1>4, <1>5

LEMMA DispatchErrorAfterReleaseInv ==
    ASSUME Inv, NEW k \in Jobs, DispatchErrorAfterRelease(k)
    PROVE  Inv'
<1> USE DEF Inv
<1>0. /\ k \in launched /\ k \notin exported /\ k \in cancelled
      /\ up /\ emissions[k] = 1 /\ outcome[k] \in Exited
  BY DEF Life, Unborn, Running, Over, DispatchErrorAfterRelease
<1>1. CountInv'
  BY DEF CountInv, DispatchErrorAfterRelease
<1>2. TypeOK'
  <2>1. emissions' \in [Jobs -> 0..2]
    BY <1>0 DEF TypeOK, DispatchErrorAfterRelease
  <2>2. up' \in BOOLEAN
    BY DEF DispatchErrorAfterRelease
  <2> QED
    BY <2>1, <2>2 DEF TypeOK, DispatchErrorAfterRelease, Unreaped, Exited, Errors
<1>3. Life(k)'
  BY <1>0 DEF TypeOK, DispatchErrorAfterRelease, Life, Over
<1>4. ASSUME NEW j \in Jobs, j # k PROVE Life(j)'
  BY <1>4 DEF TypeOK, DispatchErrorAfterRelease, Life, Unborn, Running, Over
<1>5. CrashOnlyByLateCancel'
  BY <1>0 DEF TypeOK, DispatchErrorAfterRelease, CrashOnlyByLateCancel
<1> QED
  BY <1>1, <1>2, <1>3, <1>4, <1>5

LEMMA ReapInv ==
    ASSUME Inv, NEW k \in Jobs, Reap(k)
    PROVE  Inv'
<1> USE DEF Inv
<1>1. CountInv'
  BY DEF CountInv, Reap, jobVars
<1>2. TypeOK'
  BY DEF TypeOK, Reap, jobVars, Life, Unborn, Running, Over, Unreaped, Exited, Errors
<1>3. Life(k)'
  BY DEF TypeOK, Reap, jobVars, Life, Unborn, Running, Over, Unreaped, Exited, Errors
<1>4. ASSUME NEW j \in Jobs, j # k PROVE Life(j)'
  BY <1>4 DEF TypeOK, Reap, jobVars, Life, Unborn, Running, Over, Unreaped, Exited, Errors
<1>5. CrashOnlyByLateCancel'
  BY DEF TypeOK, Reap, jobVars, CrashOnlyByLateCancel, Life, Unborn, Over, Exited
<1> QED
  BY <1>1, <1>2, <1>3, <1>4, <1>5

(* Every step preserves the invariant. *)
LEMMA NextInv == Inv /\ [Next]_vars => Inv'
<1> SUFFICES ASSUME Inv, [Next]_vars PROVE Inv'
  OBVIOUS
<1>1. CASE UNCHANGED vars
  BY <1>1 DEF vars, Inv, TypeOK, CountInv, Life, Unborn, Running, Over, CrashOnlyByLateCancel
<1>2. CASE Next
  <2> PICK k \in Jobs :
        \/ LaunchSpawned(k) \/ LaunchSpawnFailed(k) \/ LaunchCancelled(k)
        \/ Cancel(k) \/ ChildExit(k)
        \/ DispatchChildWatch(k) \/ DispatchError(k)
        \/ DispatchErrorAfterRelease(k) \/ Reap(k)
    BY <1>2 DEF Next, Dispatch
  <2> QED
    BY LaunchSpawnedInv, LaunchSpawnFailedInv, LaunchCancelledInv, CancelInv,
       ChildExitInv, DispatchChildWatchInv, DispatchErrorInv,
       DispatchErrorAfterReleaseInv, ReapInv
<1> QED
  BY <1>1, <1>2

LEMMA InvHolds == Spec => []Inv
  BY InitInv, NextInv, PTL DEF Spec
-----------------------------------------------------------------------------
(* The variables of every run of spawned jobs stay in their ranges: in     *)
(* particular a completion is emitted at most twice, whatever is cancelled *)
(* when.                                                                   *)
THEOREM TypeCorrect == Spec => []TypeOK
<1>1. Inv => TypeOK
  BY DEF Inv
<1> QED
  BY <1>1, InvHolds, PTL

(* num_jobs is the number of exported jobs: the daemon neither exits under *)
(* a running job nor stays for one that is over.                           *)
THEOREM CountCorrect == Spec => []JobCountExact
<1>1. Inv => JobCountExact
  BY DEF Inv, CountInv, JobCountExact
<1> QED
  BY <1>1, InvHolds, PTL

(* References: what owns a job is what its count says, so a job that is    *)
(* over and has no callback left is freed.                                 *)
THEOREM RefsCorrect == Spec => []RefsAccountedFor
<1>1. Inv => RefsAccountedFor
  BY DEF Inv, TypeOK, Life, Unborn, Running, Over, RefsAccountedFor
<1> QED
  BY <1>1, InvHolds, PTL

(* No child watch outlives its job: a callback never finds a job freed.    *)
THEOREM WatchesCorrect == Spec => []WatchedJobExists
<1>1. Inv => WatchedJobExists
  BY DEF Inv, TypeOK, Life, Unborn, Running, Over, WatchedJobExists
<1> QED
  BY <1>1, InvHolds, PTL

(* A child that runs or has exited is watched until it is reaped, also     *)
(* when its job was cancelled and released before it exited.               *)
THEOREM ZombiesReaped == Spec => []NoZombie
<1>1. Inv => NoZombie
  BY DEF Inv, Life, NoZombie
<1> QED
  BY <1>1, InvHolds, PTL

(* A command is terminated only for a job that reports "cancelled". *)
THEOREM KillsReported == Spec => []KilledOnlyIfCancelled
<1>1. Inv => KilledOnlyIfCancelled
  BY DEF Inv, TypeOK, Life, Unborn, Running, Over, KilledOnlyIfCancelled
<1> QED
  BY <1>1, InvHolds, PTL

(* A cancellation overtaken by the child watch is the only thing in the    *)
(* job code that brings the daemon down.                                   *)
THEOREM CrashesExplained == Spec => []CrashOnlyByLateCancel
<1>1. Inv => CrashOnlyByLateCancel
  BY DEF Inv
<1> QED
  BY <1>1, InvHolds, PTL
-----------------------------------------------------------------------------
(* Liveness is left to fairness, but what fairness acts on is proved here. *)

(* The end of a job is ready to be dispatched. *)
Completable(j) ==
    \/ watch[j] = "job" /\ child[j] \in Exited
    \/ pending[j] # "none" /\ j \notin released

(* No end of a job is lost: as long as a job that was cancelled, or whose  *)
(* child has exited or never was, is on the bus, a source that completes   *)
(* it is ready.                                                            *)
EndsReported ==
    \A j \in exported : j \in cancelled \/ child[j] # "running" => Completable(j)

(* An exported job is cancelled together with the idle source that says so. *)
CancelQueued == \A j \in exported \cap cancelled : pending[j] = "cancelled"

LEMMA CancelQueuedInv == Inv /\ CancelQueued /\ [Next]_vars => CancelQueued'
<1> SUFFICES ASSUME Inv, CancelQueued, [Next]_vars PROVE CancelQueued'
  OBVIOUS
<1> USE DEF CancelQueued
<1>0. TypeOK /\ \A j \in Jobs : j \notin launched => j \notin cancelled
  BY DEF Inv, Life, Unborn
<1>1. ASSUME NEW k \in Jobs, LaunchSpawned(k) \/ LaunchSpawnFailed(k) PROVE CancelQueued'
  BY <1>0, <1>1 DEF LaunchSpawned, LaunchSpawnFailed, Export, TypeOK
<1>2. ASSUME NEW k \in Jobs, LaunchCancelled(k) PROVE CancelQueued'
  BY <1>0, <1>2 DEF LaunchCancelled, Export, TypeOK
<1>3. ASSUME NEW k \in Jobs, Cancel(k) PROVE CancelQueued'
  BY <1>0, <1>3 DEF Cancel, jobVars, TypeOK
<1>4. ASSUME NEW k \in Jobs, DispatchChildWatch(k) \/ DispatchError(k) PROVE CancelQueued'
  BY <1>0, <1>4 DEF DispatchChildWatch, DispatchError, EmitCompleted, TypeOK
<1>5. ASSUME NEW k \in Jobs, ChildExit(k) \/ DispatchErrorAfterRelease(k) \/ Reap(k)
      PROVE  CancelQueued'
  BY <1>5 DEF ChildExit, DispatchErrorAfterRelease, Reap, jobVars
<1>6. CASE UNCHANGED vars
  BY <1>6 DEF vars
<1> QED
  BY <1>1, <1>2, <1>3, <1>4, <1>5, <1>6 DEF Next, Dispatch

(* The safety part of CancelledJobCompletes and EndedJobCompletes: no end  *)
(* of a job is lost, however cancellations and children race.              *)
THEOREM NoEndLost == Spec => []EndsReported
<1>1. Init => CancelQueued
  BY DEF Init, CancelQueued
<1>2. Inv /\ CancelQueued => EndsReported
  <2> SUFFICES ASSUME Inv, CancelQueued, NEW j \in exported,
                      j \in cancelled \/ child[j] # "running"
               PROVE  Completable(j)
    BY DEF EndsReported
  <2>1. j \in Jobs /\ Running(j) /\ (child[j] \in Unreaped <=> watch[j] # "none")
    BY DEF Inv, TypeOK, Life
  <2>2. CASE j \in cancelled
    BY <2>1, <2>2 DEF CancelQueued, Running, Completable
  <2>3. CASE child[j] # "running"
    BY <2>1, <2>3 DEF Running, Completable, Unreaped
  <2> QED
    BY <2>2, <2>3
<1> QED
  BY <1>1, <1>2, CancelQueuedInv, InvHolds, PTL DEF Spec
-----------------------------------------------------------------------------
(* A step of a spawned job is a step of the job table, or leaves it alone. *)
LEMMA TableStep == Inv /\ [Next]_vars => [Table!Next]_(Table!vars)
<1> SUFFICES ASSUME Inv, [Next]_vars PROVE [Table!Next]_(Table!vars)
  OBVIOUS
<1>1. CASE UNCHANGED vars
  BY <1>1 DEF vars, Table!vars
<1>2. ASSUME NEW k \in Jobs, LaunchSpawned(k) \/ LaunchSpawnFailed(k) \/ LaunchCancelled(k)
      PROVE  Table!Next
  <2>1. Table!Launch(k)
    BY <1>2 DEF LaunchSpawned, LaunchSpawnFailed, LaunchCancelled, Export, Table!Launch
  <2> QED
    BY <2>1 DEF Table!Next
<1>3. ASSUME NEW k \in Jobs, DispatchChildWatch(k)
      PROVE  Table!Next
  <2>1. k \in exported
    BY <1>3, WatchFindsRunningJob DEF DispatchChildWatch
  <2>2. Table!Complete(k)
    BY <1>3, <2>1 DEF DispatchChildWatch, EmitCompleted, Table!Complete
  <2> QED
    BY <2>2 DEF Table!Next
<1>4. ASSUME NEW k \in Jobs, DispatchError(k)
      PROVE  Table!Next
  <2>1. k \in exported
    BY <1>4, IdleFindsRunningJob DEF DispatchError
  <2>2. Table!Complete(k)
    BY <1>4, <2>1 DEF DispatchError, EmitCompleted, Table!Complete
  <2> QED
    BY <2>2 DEF Table!Next
<1>5. ASSUME NEW k \in Jobs, DispatchErrorAfterRelease(k)
      PROVE  Table!Next
  BY <1>5 DEF DispatchErrorAfterRelease, Table!Fail, Table!Next
<1>6. ASSUME NEW k \in Jobs, Cancel(k) \/ ChildExit(k) \/ Reap(k)
      PROVE  UNCHANGED Table!vars
  BY <1>6 DEF Cancel, ChildExit, Reap, jobVars, Table!vars
<1> QED
  BY <1>1, <1>2, <1>3, <1>4, <1>5, <1>6 DEF Next, Dispatch

(* Spawned jobs implement the job table: a job is exported once, under a   *)
(* fresh id, and leaves the table and the count once, whether its command  *)
(* ended, could not be started or was cancelled.                           *)
THEOREM ImplementsJobTable == Spec => JobTablePromise
<1>1. Init => Table!Init
  BY DEF Init, Table!Init
<1> QED
  BY <1>1, TableStep, InvHolds, PTL DEF Spec, JobTablePromise, Table!Spec
=============================================================================
