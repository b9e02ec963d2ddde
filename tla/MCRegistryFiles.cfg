CONSTANTS
    Requests = {r1, r2, r3, r4}
    Models = {m1}
    Users = {u1, u2}
    Admins = {u2}
    BatchSize = 2
    Nil = Nil
    Torn = Torn

SPECIFICATION RegistrySpec

SYMMETRY RequestSymmetry

PROPERTY FilesOfJobsStay

\* Every request ends, and no more than Requests are sent.
CHECK_DEADLOCK FALSE
