\* Two overlapping calls in each of two processes, over a database with
\* another rate for every model.
SPECIFICATION FairSpec
CONSTANTS
    pinned = pinned
    capital = capital
    obsolete = obsolete
    padded = padded
    upper = upper
    alias = alias
    None = None
    Names <- SomeNames
    Lower <- LowerCase
    Aliases <- OneAlias
    Models <- SomeModels
    Embedded <- Pins
    Rates <- OldRate
    Calls = {c1, c2}
    MaxRuns = 2
INVARIANTS
    OneWorker
    PricedAsNamed
    ChoiceHolds
    OneAnswer
    ShutdownStops
PROPERTY
    CallsAnswered
\* The host may stop calling.
CHECK_DEADLOCK FALSE
