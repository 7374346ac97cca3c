\* One reliable message of two fragments, a datagram each way; every packet may be lost.
CONSTANTS
    Ends <- MCEnds
    Fragments <- MCFragments
    Messages <- LiveMessages
    MaxMessages <- LiveMaxMessages
    MaxDatagrams <- LiveMaxDatagrams
    LossyEnds <- MCEnds
SPECIFICATION FairSpec
PROPERTIES
    MessageGetsThrough
CHECK_DEADLOCK FALSE
