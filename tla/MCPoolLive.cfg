CONSTANTS
    Jobs = {j1, j2}
    Models = {m1}
    Workers = {w1}
    Priorities = {0}
    Seconds = {0}
    MaxAttempts = 2
    MaxCrashes = 1
    MaxRestarts = 1
    RestartAfterLoss = FALSE
    Supervisor = sup
    Reclaimers = {sup}
    Nil = Nil

SPECIFICATION FairSpec

INVARIANT AttemptsCountClaims
PROPERTY ReclaimsOnlyAbandoned
PROPERTY JobsSettle
PROPERTY DrainReleasesSeats

CHECK_DEADLOCK FALSE
