CONSTANTS
    Requests = {r1, r2, r3, r4}
    Models = {m1}
    Users = {}
    Admins = {}
    BatchSize = 2
    Nil = Nil
    Torn = Torn

SPECIFICATION VersionsSpec

SYMMETRY RequestSymmetry

INVARIANT VersionsTypeOK
INVARIANT LoadsOneUpload
INVARIANT JobsRunAsChecked

\* Every request ends, and no more than Requests are sent.
CHECK_DEADLOCK FALSE
