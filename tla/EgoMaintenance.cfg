\* Two overlapping loads, a midnight, a good and a bad key, two clicks in
\* the maintenance panel.
SPECIFICATION MSpec
CONSTANTS
    good = good
    bad = bad
    Sections <- TwoSections
    Ranges <- TwoRanges
    Today = "today"
    Keys <- TwoKeys
    Accepted <- OneKey
    MaxDay = 1
    MaxLoads = 2
    Buttons <- TwoButtons
    Stored <- Off
    MaxClicks = 2
INVARIANTS
    ButtonTellsPending
    NewestOrFlagged
    OneSnapshot
    SelectedRangeShown
    SwitchTellsTruth
    ErasedIsGone
CHECK_DEADLOCK FALSE
