SPECIFICATION BusySpec
CONSTANTS
    Commands = {"MOVE_TO", "AD7606_IS_SCANNING", "AD7606_STOP_SCAN", "AD7606_READ"}
    MaxLines = 1
PROPERTY Served
