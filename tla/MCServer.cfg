\* Two calls of GET /ready and two operations. Liveness: no symmetry.
\* The server stops when it is told to, so a state without a successor is no error.
CONSTANTS
    Asks = {a1, a2}
    HttpJobs = {j1}
    RadioJobs = {j2}
    Configs <- MCConfigs
    Mock <- MCMock
    Complete <- MCComplete
    Guarded <- MCGuarded
    None = None
SPECIFICATION ServerFairSpec
CHECK_DEADLOCK FALSE
INVARIANTS SharedProbeRuns
PROPERTIES ReadyIsTrue ReopenedForOrphansOnly EveryAskEnds ShutdownEnds
