\* Three blocks fill the hunk, or two and an allocation of either stack.
CONSTANTS
    HunkSize = 6
    HunkSizes = {1, 2}
    Users = {u1, u2, u3}
    CacheSizes = {2, 3}
SPECIFICATION FairSpec
INVARIANTS
    CacheInv
    ListsAgree
    Intact
    ExitsOnlyWhenTooLarge
PROPERTIES
    EvictsLeastRecentlyUsed
    CallsEnd
CHECK_DEADLOCK FALSE
