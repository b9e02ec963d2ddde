CONSTANTS
    m1 = m1
    m2 = m2
    g = g
    x = x
    Models = {m1, m2}
    Params = {g, x}
    Names = {g, x, other}
    Texts <- MCTexts
    Lists = {up, over, plain, both, empty}
    up = up
    over = over
    plain = plain
    both = both
    empty = empty
    Magnitude <- MCMagnitude
    Unit <- MCUnit
    Elements <- MCElements
    Values <- MCTexts
    Sweeps = {up, over, plain, both, empty}
    Units = {"um", "m", "1", ""}
    Bare = Bare
    Junk = Junk
    Dimensionless = {"1", ""}
    Scale <- MCScale
    FileValue = v0
    GeometryOf <- MCGeometryOf
    SweepOf <- MCSweepOf
    ManifestOf <- MCManifestOf
    DefaultUnit <- MCDefaultUnit
    StudyOf <- MCStudyOf
    StudiesOf <- MCStudiesOf
    SweptFiles = {m2}
    Own = Own
    Last = Last
    Old = Old
    Nil = Nil

SPECIFICATION MphSpec

INVARIANT SessionTypeOK
INVARIANT SolvesWhatWasAsked
INVARIANT SkipsSafelyWithoutFailures
INVARIANT MphTypeOK
INVARIANT EvaluatesOwnSolve
INVARIANT SolvesWithinManifest
