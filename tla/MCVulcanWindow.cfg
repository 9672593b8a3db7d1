SPECIFICATION VulcanSpec
CONSTANTS
    Values <- SignedValues
    Alphas = {0, 200, 950, 1000}
    WindowSizes = {0, 1, 3, 4, 5}
    VULCAN_FP_SCALE = 1000
    VULCAN_MAX_WINDOW = 4
    CountModulus = 16
    MaxSamples = 6
INVARIANT WindowAverage
CHECK_DEADLOCK FALSE
