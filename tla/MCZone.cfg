\* The structures of the 32 bit build; requests of one byte, of a short string, and
\* of a string longer than MINFRAGMENT.
CONSTANTS
    ZoneSize = 268
    ZoneHeader = 28
    HeaderSize = 20
    MINFRAGMENT = 64
    Requests = {1, 40, 100}
SPECIFICATION FairSpec
INVARIANTS
    ZoneInv
    RefusedOnlyWhenNothingFits
PROPERTIES
    ImplementsHeap
    SearchEnds
CHECK_DEADLOCK FALSE
