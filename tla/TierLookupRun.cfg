\* Donuts of two items, a room of two donuts: the room is filled, discarded
\* and begun again while one client asks.
CONSTANTS
    Hashes = {h1}
    NoHash = none
    DonutCapacity = 2
    Fanout = 2
    MaxBlock = 3
    MaxFed = 7
SPECIFICATION Spec
INVARIANTS
    LookupsAnswerFromLog
    NextOffsetIsRight
CHECK_DEADLOCK FALSE
