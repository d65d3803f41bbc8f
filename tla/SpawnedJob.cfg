SPECIFICATION Spec
CONSTANT Jobs = {j1, j2, j3}
INVARIANTS
    TypeOK
    JobCountExact
    RefsAccountedFor
    WatchedJobExists
    NoZombie
    KilledOnlyIfCancelled
    CrashOnlyByLateCancel
PROPERTIES
    CancelledJobCompletes
    EndedJobCompletes
    JobTablePromise
\* Every job may have run, or the daemon may be down.
CHECK_DEADLOCK FALSE
