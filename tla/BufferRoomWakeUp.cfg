\* The situation of the test ReaderFallbackWhenDiscarding: a worker waits for
\* a batch that never fills, and the tier discards.
CONSTANTS
    p1 = p1
    p2 = p2
    w1 = w1
    r1 = r1
    d1 = d1
    Producers <- NoThreads
    Workers <- OneWorker
    Readers <- NoThreads
    Discarders <- OneDiscarder
    Capacity = 2
    MaxCalls = 1
SPECIFICATION FairSpec
PROPERTIES
    DiscardReleasesWorkers
CHECK_DEADLOCK FALSE
