SPECIFICATION Spec
CONSTANTS
    MaxZ = 2
    Params <- MCParams
    Commands = {"70"}
INVARIANT ReportsZ
