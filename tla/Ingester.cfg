\* Two clients feed and flush; what the worker takes at once may fill a donut
\* and begin the next; donuts are promoted until the room is full; the store
\* is destroyed at any moment.  Calls run out: the system may come to rest.
CONSTANTS
    c1 = c1
    c2 = c2
    h1 = h1
    Worker = worker
    Stopper = stopper
    Clients <- TwoClients
    Hashes <- OneHash
    NoHash = none
    DonutCapacity = 2
    FirstPi = 3
    Fanout = 1
    MaxBlock = 2
    MaxCalls = 2
SPECIFICATION FairIngesterSpec
INVARIANTS
    IndInv
    ReverseFindsFed
    TierInv
PROPERTIES
    FlushReachesTier
    KeepsBufferContract
    CallsReturn
    ShutdownCompletes
CHECK_DEADLOCK FALSE
