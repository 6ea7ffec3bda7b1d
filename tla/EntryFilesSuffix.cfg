\* The prefix is one of the two bytes of a hash.
CONSTANTS
    ByteBits = 2
    WordBytes = 3
    HashBytesCount = 2
    NoHash = none
    Capacity = 4
    PrefixCounts = {2}
    Presented <- TwoHashes
    LocalPis = {3}
    MaxEntries = 1
SPECIFICATION Spec
INVARIANTS
    SuffixCompletesHash
CHECK_DEADLOCK FALSE
