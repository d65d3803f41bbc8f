----------------------------- MODULE JobTable -----------------------------
(***************************************************************************)
(* What the daemon promises about the jobs it launches, whatever kind they *)
(* are (daemon.c): a job object is exported under a fresh path, counted in *)
(* num_jobs while it is exported, and taken away again exactly once, when  *)
(* it completes.  num_jobs is what keeps the process alive                 *)
(* (maybe_finished), so the count has to be exact.                         *)
(*                                                                         *)
(* SpawnedJob and DeviceJobs are shown to implement this module.           *)
(***************************************************************************)
EXTENDS Naturals, FiniteSets

CONSTANT Jobs       \* the values job_id takes: one per job ever launched

VARIABLES
    launched,       \* jobs whose id has been handed out
    exported,       \* jobs whose object is on the bus
    num_jobs,       \* UlDaemon.num_jobs
    up              \* the process has not been brought down by a failure

vars == <<launched, exported, num_jobs, up>>

Init ==
    /\ launched = {}
    /\ exported = {}
    /\ num_jobs = 0
    /\ up = TRUE

(* ul_daemon_launch_spawned_jobv, ul_daemon_launch_threaded_job. *)
Launch(j) ==
    /\ up
    /\ j \notin launched
    /\ launched' = launched \union {j}
    /\ exported' = exported \union {j}
    /\ num_jobs' = num_jobs + 1
    /\ UNCHANGED up

(* on_job_completed: unexport, and count the job out. *)
Complete(j) ==
    /\ up
    /\ j \in exported
    /\ exported' = exported \ {j}
    /\ num_jobs' = num_jobs - 1
    /\ UNCHANGED <<launched, up>>

(* The process dies: a failed assertion or an invalid memory access. *)
Fail ==
    /\ up
    /\ up' = FALSE
    /\ UNCHANGED <<launched, exported, num_jobs>>

Next == (\E j \in Jobs : Launch(j) \/ Complete(j)) \/ Fail

Spec == Init /\ [][Next]_vars
=============================================================================
