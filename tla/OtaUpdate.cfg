CONSTANTS
    CY_FLASH_SIZEOF_ROW = 4
    EraseSize = 8
    FlashSize = 16
    CY_XIP_PORT0_NS_SBUS_BASE = 16
    CY_XIP_PORT0_S_SBUS_BASE = 32
    FlashFails = TRUE
    Windows <- XipWindows
    Slot = 8
    ImageSize = 7
    Pieces <- MCPieces
    Tries = 2
    MaxConnects = 1
    MaxMessages = 1
    MaxDemo = 2
    Intervals <- MCIntervals
    MaxBoots = 2
SPECIFICATION Spec
INVARIANTS
    DoneMeansWritten
    OtherImagesKept
    AnsweredBeforeTelemetry
PROPERTIES
    WritesOnlyWhatIsAsked
    DownloadEnds
CHECK_DEADLOCK FALSE
