\* Two credentials and three slots: one more than the guard allows at once.
SPECIFICATION TimerSpec
CONSTANTS
    x = x
    c = c
    Files <- AllFiles
    Xai <- XaiFiles
    Slots <- ThreeSlots
INVARIANTS
    OneFetchPerFile
    SpinnersHaveFetches
PROPERTIES
    UnattendedIsHarmless
    RefreshWaitsForBodies
CHECK_DEADLOCK FALSE
