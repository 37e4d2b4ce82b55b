CONSTANTS
    MaxBoots = 1
    BuiltIn = FALSE
    LongInput = FALSE
    OldRecords <- NoneLeft
    Failing <- SaveFailsOnly
    CryptoFails = FALSE
SPECIFICATION DeviceSpec
PROPERTIES
    WaitEnds
CHECK_DEADLOCK FALSE
