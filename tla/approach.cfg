SPECIFICATION FairSpec
CONSTANTS
    MaxZ = 2
    Params <- MCParams
    Commands = {"76", "70"}
INVARIANTS StopBound Released UpdateIsWhole
PROPERTY Returns
