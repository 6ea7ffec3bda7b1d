\* One hash is fed to a donut again.
CONSTANTS
    h1 = h1
    h2 = h2
    Hashes <- OneHash
    NoHash = none
    DonutCapacity = 3
    Fanout = 1
    MaxBatch = 2
    MaxItems = 3
    MaxStarts = 2
SPECIFICATION Spec
INVARIANTS
    SuffixIndicesAreSequential
CHECK_DEADLOCK FALSE
