CONSTANTS
    Jobs = {j1, j2}
    Models = {m1}
    Workers = {w1}
    Priorities = {0}
    Seconds = {0}
    MaxAttempts = 2
    MaxCrashes = 0
    MaxRestarts = 0
    RestartAfterLoss = FALSE
    Supervisor = sup
    Reclaimers = {sup}
    Nil = Nil

SPECIFICATION Spec

PROPERTY ReclaimsOnlyRunning

CHECK_DEADLOCK FALSE
