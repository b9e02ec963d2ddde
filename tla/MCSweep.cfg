CONSTANTS
    Jobs = {j1}
    Outputs <- MCOutputs
    MaxPoints = 2
    MaxModes = 2
    Neffs = {0, 1}
    MaxAttempts = 2
    MayBeComplex = {"neff"}
    ParamsOf <- MCParamsOf
    Nil = Nil

SPECIFICATION ResultsSpec

INVARIANT ResultsTypeOK
INVARIANT RowsCountExecutions
INVARIANT DatasetCellsMatch
PROPERTY RowsFitTheirPoints
