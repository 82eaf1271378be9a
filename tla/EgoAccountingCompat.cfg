SPECIFICATION Spec
CONSTANTS
    Providers <- AllProviders
    CompatNamed <- Compat
    ClaudeNamed <- Claude
    GeminiNamed <- Gemini
    Sources <- CompatSources
    Usages <- SmallUsages
    Rates <- PriceLists
    MinTPSTokens = 2
    Milli = 2
    MaxRequests = 1
INVARIANT
    CostIsTrue
CHECK_DEADLOCK FALSE
