CONSTANTS
    m1 = m1
    m2 = m2
    g = g
    x = x
    Models = {m1, m2}
    Params = {g, x}
    Values = {v1, v2}
    FileValue = v0
    Sweeps = {s1}
    GeometryOf <- MCGeometryOf
    SweepOf <- MCSweepOf
    Nil = Nil

SPECIFICATION SessionSpec

INVARIANT SkipsOnlyUnchangedGeometry
