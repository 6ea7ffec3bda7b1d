\* Two producers race for the last place, a worker takes full batches, a
\* search thread looks at any moment, and the tier discards.
CONSTANTS
    p1 = p1
    p2 = p2
    w1 = w1
    r1 = r1
    d1 = d1
    Producers <- TwoProducers
    Workers <- OneWorker
    Readers <- OneReader
    Discarders <- OneDiscarder
    Capacity = 2
    MaxCalls = 2
SPECIFICATION FairSpec
INVARIANTS
    IndInv
    ViewIsStable
PROPERTIES
    KeepsPromise
    DiscardReturns
    LookupReturns
    FeedBlocksOnlyWhenFull
    FullBatchWakesWorker
CHECK_DEADLOCK FALSE
