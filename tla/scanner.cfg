SPECIFICATION FairSpec
CONSTANTS
    Modulus = 5
    Configs <- MCConfigs
    Targets <- MCTargets
INVARIANTS TypeOK SampleGrid FullScan StopBound
PROPERTIES NoJump ImplementsRaster
