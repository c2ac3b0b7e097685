SPECIFICATION Spec
CONSTANTS
    AD5664Port = 4
    AD5664Format <- MCAD5664Format
    AnyPorts <- MCPorts
    AnyFormats <- MCFormats
    U16 = 4
    Numbers <- MCNumbers
    Fill = 2
    Length = 4
    MaxChars = 5
    MaxLines = 3
    Freqs <- MCFreqs
    Words <- MCWords
INVARIANTS TransferReachesDevice DriverLines VectorIsLastLine FramesCarryValue
CHECK_DEADLOCK FALSE
