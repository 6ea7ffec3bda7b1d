\* A file of each class, for prefixes of none to three bits of a hash of
\* four, written by writers that crash and read in every order of calls.
\* Four entries need two bytes of two bits: all ones must not be an index.
CONSTANTS
    ByteBits = 2
    WordBytes = 3
    HashBytesCount = 2
    NoHash = none
    Capacity = 4
    PrefixCounts = {0, 1, 2, 3}
    Presented <- TwoHashes
    LocalPis = {3}
    MaxEntries = 2
SPECIFICATION Spec
INVARIANTS
    EntriesReadBack
    HashSurvivesSplit
PROPERTIES
    SeekRecovers
CHECK_DEADLOCK FALSE
