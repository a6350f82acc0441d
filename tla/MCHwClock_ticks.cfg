SPECIFICATION ClockSpec
CONSTANTS
    PIT_FREQ = 12
    NSEC_PER_TICK = 4
    SECOND = 48
    BYTE = 4
    Frequencies = {1, 2, 3}
    Times <- SomeTimes
    MaxSeconds = 4
    MaxLost = 12
INVARIANT ClockKeepsPace
CHECK_DEADLOCK FALSE
