SPECIFICATION Spec
CONSTANTS
    Commands = {"command50"}
    MaxLines = 2
INVARIANTS ScanUsesItsConfig
