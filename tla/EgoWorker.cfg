\* A channel of one and a batch of two make the channel overflow and the
\* batch fill; three events allow a batch, a full channel and a drop besides.
SPECIFICATION FairSpec
CONSTANTS
    e1 = e1
    e2 = e2
    e3 = e3
    Events <- AllEvents
    Stamp <- AgeOf
    Malformed = {}
    Cutoffs = {2}
    QueueCap = 1
    BatchSize = 2
    Stoppers = {s1, s2}
    Setters = {c1}
INVARIANTS
    TypeOK
    Accounted
    StopSettles
    CloseIsLast
PROPERTIES
    ImplementsDelivery
    EventuallySettled
    StopReturns
\* Nobody has to call anything: the system may rest.
CHECK_DEADLOCK FALSE
