\* Three levels: two changes, the second of which may meet what the first left.
CONSTANT MaxLevel = 3
SPECIFICATION FairSpec
INVARIANTS
    SignOnInv
    SignedOnInOrder
    NoErrorInFirstLevel
PROPERTIES
    BaselineBeforeUpdate
    NoStageLost
    ComesIn
