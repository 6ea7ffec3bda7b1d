\* Donuts of three items and a room for one of them: six items fill the room
\* and the hatchling, on which the worker blocks.  Three starts, and crashes
\* at any moment.
CONSTANTS
    h1 = h1
    h2 = h2
    Hashes <- TwoHashes
    NoHash = none
    DonutCapacity = 3
    Fanout = 1
    MaxBatch = 2
    MaxItems = 6
    MaxStarts = 3
SPECIFICATION Spec
SYMMETRY HashSymmetry
INVARIANTS
    MemoryHoldsLog
    ReverseFindsFirst
    FilesHoldLog
    OnlyLastFolderIsUnfilled
    FailureHasCause
PROPERTIES
    RestartKeepsLog
CHECK_DEADLOCK FALSE
