CONSTANTS
    Tasks <- MCTasks
    ACTIVE_SUBSCRIPTION_UB = 2
    BufferSize = 4
    FillLevels <- OneLevel
    Deliveries <- WholeLevel
    SensorFails = FALSE
    Paced = FALSE
    UintModulus = 64
    MaxBytes = 12
SPECIFICATION Spec
INVARIANT OldDataPersists
CHECK_DEADLOCK FALSE
