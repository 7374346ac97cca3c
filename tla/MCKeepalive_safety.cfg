\* One server message in two fragments, three messages of the client, some of
\* them keepalives.
CONSTANTS
    Ends <- MCEnds
    Fragments <- MCFragments
    Messages <- MCMessages
    MaxMessages <- MCMaxMessages
    MaxDatagrams <- MCMaxDatagrams
    LossyEnds = {}
    Client = "client"
    Nop <- MCNop
SPECIFICATION KSpec
INVARIANTS
    KeepaliveInv
    NothingOutOfOrder
    ReleasedOnlyWhenDelivered
CHECK_DEADLOCK FALSE
