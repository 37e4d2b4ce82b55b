CONSTANTS
    MaxBoots = 1
    BuiltIn = FALSE
    LongInput = FALSE
    OldRecords <- NoneLeft
    Failing <- NoneFail
    CryptoFails = FALSE
SPECIFICATION DeviceSpec
INVARIANTS
    IdentityFollowsCredentials
CHECK_DEADLOCK FALSE
