\* Three batches of two: the fewest in which a late wipe can meet a later batch.
CONSTANTS
    Providers = {p1, p2}
    Consumers = {c1, c2}
    Readers = {r1}
    capacity_ = 2
    Feeds = {5, 6}
    MaxRefusals = 1
SPECIFICATION FairSpec
INVARIANTS
    LossHasCause
PROPERTIES
    PushesReturn
    SettleReturnsOrHasCause
CHECK_DEADLOCK FALSE
