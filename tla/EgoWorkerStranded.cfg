\* The promise of ShutdownWorker, which the worker does not keep.  One of
\* the events is malformed and refused.
SPECIFICATION Spec
CONSTANTS
    e1 = e1
    e2 = e2
    e3 = e3
    Events <- AllEvents
    Stamp <- AgeOf
    Malformed = {e3}
    Cutoffs = {}
    QueueCap = 2
    BatchSize = 2
    Stoppers = {s1}
    Setters = {}
INVARIANT
    ShutdownFlushesQueue
CHECK_DEADLOCK FALSE
