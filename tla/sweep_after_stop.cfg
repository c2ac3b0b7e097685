SPECIFICATION FairSpec
CONSTANTS
    Modulus = 4
    Sweeps <- MCSweeps
    Commands = {"70"}
INVARIANT SweepIsFull
