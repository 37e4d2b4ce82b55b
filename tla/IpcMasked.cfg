CONSTANTS
    LabelIds <- MCLabelIds
    MaxVerdicts = 3
    Paced = TRUE
    configMAX_SYSCALL_INTERRUPT_PRIORITY = 63
    NvicPrioBits = 3
SPECIFICATION FairSpec
INVARIANTS
    LatestDetectionKept
    PayloadCoherent
    CacheCoherent
PROPERTIES
    ImplementsLatch
    AppStarts
    SavedIsTaken
    DetectionTakenOnce
CHECK_DEADLOCK FALSE
