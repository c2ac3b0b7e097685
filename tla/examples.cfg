SPECIFICATION Spec
CONSTANTS
    Macs = {m1, m2}
    DHCPS_MAX_IP = 2
    Grain = 2
    Wrap = 6
    LeaseTicks = 3
    MsgLengths <- MCMsgLengths
    LabelBytes = {0, 1, 2, 40, 62, 63, 64}
    BUF_SIZE = 3
    TEST_ITERATIONS = 3
    Conns = {c1, c2}
    PageLen = 2
    HeadLen = 1
    RedirectLen = 2
    SndBuf = 3
    MaxDns = 2
    Temps = {1, 2}
    HeartbeatDiv = 2
    MaxConn = 2
    MaxPackets = 3
    MaxResets = 1
    Lengths = {0, 9, 64}
    MaxTyped = 3
    wLengths = {0, 8, 9, 18, 31, 32, 33, 34, 64, 255}
    SSD1306_WIDTH = 28
    SSD1306_HEIGHT = 16
    IMG_WIDTH = 6
    Texts <- MCTexts
    NUM_DIGITS = 4
    LedStrings <- MCLedStrings
    MAX_CHARS = 16
    Messages <- MCMessages
    LcdResets = 2
    NUM_MODULES = 3
    MaxDigits = 2
    TypedMax = 3
    MaxSamples = 2
    RawTemps = {440000, 519888, 600000}
    RawPressures = {385000, 415148, 500000}
    RawHumidities = {22000, 30000, 38000}
    nvm <- MCdig
    Leftover = {0, 75, 255}
    MemSize = 8
    MsgStep = 4
    MsgLen = 4
    Split = 1
    PageSize = 5
    no_of_fields = 3
    max_len = 4
    Sentences <- MCSentences
    NUM_PIXELS = 1
    FRAC_BITS = 4
    RoundLength = 8
    MaxRounds = 2
    Randoms <- MCRandoms
    DATA_TO_CHECK_LEN = 3
    FifoDepth = 2
    PWM_REPEAT_COUNT = 2
    N_PWM_LEVELS = 3
    MaxWords = 8
    CAPTURE_DEPTH = 3
    SHIFT_REG_WIDTH = 5
    CAPTURE_PIN_COUNT = 2
    CAPTURE_N_SAMPLES = 3
    TxDepth = 2
    SCREEN_WIDTH = 3
    SCREEN_HEIGHT = 2
    LOG_IMAGE_SIZE = 2
    Rotations <- MCRotations
    MaxFrames = 2
    WIDTH = 2
    ROWSEL_N_PINS = 1
    TEST_NUM = 10
    FifoWords = 2
    FIFO_LENGTH = 8
    SleepPeriods = 5
    Polls = 3
    Blocking = 3
    TimeBits = 4
    DelayUs = 11
    FifoSize = 4
    AddrCount = 128
    MaxCalls = 2
    MaxLen = 3
    SPI_BUF_SIZE = 5
    FLASH_PAGE_SIZE = 3
    Present <- MCPresent
    MPL_FIFO_SIZE = 3
    PerPass = 1
    MaxOverflows = 3
    MaxSeconds = 70
    UartChars = 4
    Pool = 3
    SAMPLES_PER_BUFFER = 4
    MaxBuffers = 6
    FreePio <- MCFreePio
    Flips = {7}
    Remotes <- MCRemotes
    DhtReadings <- MCReadings
    MorseText <- HelloWorld
    BUF_SIZE8 = 8
    CdcBuf = 1
    Typed = 2
    BlinkMs = 2
    ClockWrap = 5
    MaxLag = 4
    N_SAMPLES = 6
    AdcFifo = 4
    CountMod = 8
    Pages = 6
    SectorPages = 2
    RxDepth = 2
    ConsoleDepth = 4
    TextLen = 5
    MaxBeacons = 5
    MaxWalk = 20
INVARIANTS AccessPointServes EchoSound WaitsEnd UsbAnswers DisplaysAreTrue SensorsAreRight TransfersAreWhole HandlersAndCores 
CHECK_DEADLOCK FALSE
