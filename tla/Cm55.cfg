CONSTANTS
    FRAME_SIZE = 6
    RX_FIFO_TRIG_LEVEL = 2
    MaxFrames = 5
    NUM_RX_ANTENNAS = 3
    SamplesPerAntenna = 2
    FifoFrames = 2
    MaxRadarFrames = 4
    IMU_SAMPLES_RATE = 3
    MaxTicks = 15
    AccBits = 3
    Models <- AllModels
    Rows = 3
SPECIFICATION Spec
INVARIANTS
    OneFrameSeen
    EveryPeriodRead
    LargestAxis
PROPERTIES
    HeardInOrder
    EveryFrameProcessed
CHECK_DEADLOCK FALSE
