CONSTANTS
    LabelIds <- MCLabelIds
    MaxVerdicts = 3
    Paced = FALSE
    configMAX_SYSCALL_INTERRUPT_PRIORITY = 64
    NvicPrioBits = 3
SPECIFICATION Spec
INVARIANTS
    TornByAtMostOne
    SavedIsDetection
    AcceptedIsReceived
CHECK_DEADLOCK FALSE
