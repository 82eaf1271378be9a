\* Registrations that overlap or fail, requests and new routes meanwhile.
SPECIFICATION RSpec
CONSTANTS
    Calls = {c1, c2}
    Paths = {"menu", "other"}
    MenuPath = "menu"
    Registrations <- TwoRegistrations
    Configs <- TwoConfigs
    MaxHandlers = 3
    Assets <- TwoAssets
    Segments <- PathParts
    MaxParts = 4
INVARIANTS
    HostKeepsUp
    AnswerIsOwn
    DashboardServed
PROPERTY
    CallsReturn
\* The host may stop calling.
CHECK_DEADLOCK FALSE
