CONSTANTS
    Jobs = {j1, j2}
    Models = {m1}
    Workers = {w1, w2}
    Priorities = {0}
    Seconds = {0}
    MaxAttempts = 2
    MaxCrashes = 1
    MaxRestarts = 0
    RestartAfterLoss = FALSE
    Supervisor = sup
    Reclaimers = {sup}
    Nil = Nil

SPECIFICATION Spec
SYMMETRY Symmetry

INVARIANT PoolTypeOK
INVARIANT ExclusiveExecution
INVARIANT AttemptsCountClaims
INVARIANT NoLeakedWorker
INVARIANT DrainAllowsOneMoreJob
PROPERTY ReclaimsOnlyAbandoned
PROPERTY ImplementsDispatch
PROPERTY ReclaimsOnlyClaimed
PROPERTY ImplementsQueue

CHECK_DEADLOCK FALSE
