CONSTANTS
    Tasks <- MCTasks
    ACTIVE_SUBSCRIPTION_UB = 2
    BufferSize = 4
    FillLevels <- OneLevel
    Deliveries <- WholeLevel
    SensorFails = FALSE
    Paced = TRUE
    UintModulus = 64
    MaxBytes = 12
    f_cfg <- SlimFrame
    min_range_bin = 1
    FilterFloor = 1000000
    Scenes <- MCScenes
    Algorithms = {"slim", "super_slim"}
    MaxScenes = 2
    hand_cfg <- HandFrame
    band_min = 2
    band_max = 4
    band_offset = 2
    range_min = 1
    guard_range = 2
    guard_doppler = 1
    position_min = 2
    AlphaNum = 1
    AlphaDen = 3
    threshold = 3
    DetectionModes = {"closest", "fastest"}
    RdiImages <- MCRdiImages
    MaxHandFrames = 2
SPECIFICATION LibrariesSpec
INVARIANTS
    CountedSubscribers
    NothingSkipped
    OneStretch
    FeaturesOfNearestHand
    RegionsInImage
    ClustersAreRuns
    HandOfTheRegion
CHECK_DEADLOCK FALSE
