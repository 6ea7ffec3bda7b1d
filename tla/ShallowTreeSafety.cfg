\* Every array of up to three hashes of three bytes, duplicates included, with
\* every tail from none to more than the hash has.
CONSTANTS
    HashBytesCount = 3
    Bytes = {0, 7, 255}
    TailBits = {0, 4, 16, 24, 25}
    ReassuranceBytes = {1, 2}
    NoMatch = no_match
    MaxInput = 3
SPECIFICATION Spec
INVARIANTS
    LookupFindsPresented
    AnswersAreReassured
    TreeIsShallow
CHECK_DEADLOCK FALSE
