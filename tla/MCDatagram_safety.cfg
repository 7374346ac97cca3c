\* Two server messages of up to two fragments, one client message, two
\* datagrams, any loss, duplication and reordering.
CONSTANTS
    Ends <- MCEnds
    Fragments <- MCFragments
    Messages <- MCMessages
    MaxMessages <- MCMaxMessages
    MaxDatagrams <- MCMaxDatagrams
    LossyEnds = {}
SPECIFICATION Spec
INVARIANTS
    ProtocolInv
    DeliveredInOrder
    ReleasedOnlyWhenDelivered
    DatagramsNewer
PROPERTIES
    ImplementsStream
CHECK_DEADLOCK FALSE
