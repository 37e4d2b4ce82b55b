CONSTANTS
    LabelIds <- MCLabelIds
    MaxVerdicts = 3
    Paced = TRUE
    configMAX_SYSCALL_INTERRUPT_PRIORITY = 64
    NvicPrioBits = 3
SPECIFICATION Spec
INVARIANTS
    LatestDetectionKept
CHECK_DEADLOCK FALSE
