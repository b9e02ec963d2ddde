CONSTANTS
    Jobs = {j1}
    Models = {m1}
    Workers = {w1}
    Priorities = {0}
    Seconds = {0}
    MaxAttempts = 2
    MaxCrashes = 0
    MaxRestarts = 1
    RestartAfterLoss = TRUE
    Supervisor = sup
    Reclaimers = {sup}
    Nil = Nil

SPECIFICATION Spec

PROPERTY ReclaimsOnlyAbandoned

CHECK_DEADLOCK FALSE
