\* Summaries, timelines and rankings while events are inserted, pruned and reset.
SPECIFICATION ChartSpec
CONSTANTS
    rated = rated
    unrated = unrated
    Requests = {q}
    Groups <- TwoGroups
    Priced <- OnePriced
    Tokens <- Weights
    Anonymous <- OneAnonymous
    Limit = 1
    Hour = 2
    MaxSpan = 3
    Span = 1
    DefaultAge = 2
    MaxTime = 3
    MaxRows = 3
    Unit = 4
    Bars = 2
    HourZones <- ServerZones
    DayZones <- DayZonesOfBoth
    Horizon = 13
    MaxEvents = 3
INVARIANTS
    SummaryAddsUp
    TimelineAccounts
    RankingsAddUp
    ChartFollowsEvents
CHECK_DEADLOCK FALSE
