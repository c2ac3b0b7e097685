SPECIFICATION FairSpec
CONSTANTS
    Modulus = 4
    Sweeps <- MCSweeps
    Commands = {"26", "70"}
INVARIANTS ReportIsPrefix ShortOnlyIfStopped OneStrayPoint
PROPERTY SweepEnds
