SPECIFICATION Spec
CONSTANTS
    Commands = {"MOVE_TO", "CONFIG_UPDATE", "MICRO_SCAN", "CONVERGENCE", "LID_UNTIL_STOP", "LID", "SET_IO_VALUE", "AD7606_IS_SCANNING", "AD9833_SENDER", "AD7606_ENABLE_DISABLE", "stopAll", "unknown"}
    MaxLines = 3
INVARIANTS ArgsOwn SenderSetup NoLostCommand StopHolds ScanUsesItsConfig
