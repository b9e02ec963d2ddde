CONSTANTS
    Jobs = {j1, j2}
    Models = {m1, m2}
    Workers = {w1}
    Priorities = {0, 1}
    Seconds = {1, 2}
    MaxAttempts = 2
    Reclaimers = {c1, c2}
    Nil = Nil

SPECIFICATION QueueSpec
SYMMETRY Symmetry

INVARIANT QueueTypeOK
INVARIANT ClaimsBounded
PROPERTY StartedInOrder

CHECK_DEADLOCK FALSE
