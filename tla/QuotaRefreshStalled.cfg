\* RefreshEnds fails: a body that never ends holds the guards for ever.
SPECIFICATION TimerSpec
CONSTANTS
    x = x
    c = c
    Files <- AllFiles
    Xai <- XaiFiles
    Slots <- ThreeSlots
PROPERTY
    RefreshEnds
CHECK_DEADLOCK FALSE
