SPECIFICATION Spec
CONSTANTS
    Providers <- AllProviders
    CompatNamed <- Compat
    ClaudeNamed <- Claude
    GeminiNamed <- Gemini
    Sources <- NativeSources
    Usages <- SmallUsages
    Rates <- PriceLists
    MinTPSTokens = 2
    Milli = 2
    MaxRequests = 2
INVARIANTS
    TokensAreTrue
    CostIsTrue
    SpeedIsTrue
CHECK_DEADLOCK FALSE
