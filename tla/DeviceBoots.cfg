CONSTANTS
    MaxBoots = 3
    BuiltIn = FALSE
    LongInput = TRUE
    OldRecords <- EarlierFirmware
    Failing <- SaveOrResetFail
    CryptoFails = TRUE
SPECIFICATION DeviceSpec
INVARIANTS
    TypeOK
    StoredIsOneSession
    CredentialsOfOneSource
    ClearedIsGone
    StoredRecordIsUsed
    SameCertificate
    SdkCertificateIsStored
PROPERTIES
    WaitEndsOrSaveFailed
    NewCredentialsTried
CHECK_DEADLOCK FALSE
