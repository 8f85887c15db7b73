SPECIFICATION Spec
CONSTANTS
    TimerPeriod = 2
    PulseTimeout = 4
    AgeCap = 13
    RingCap = 2
    MaxBoots = 3
    MaxDrained = 3
    PulseInterval = 2
    Work = {1, 2}
PROPERTY FiresIndependently
CHECK_DEADLOCK FALSE
