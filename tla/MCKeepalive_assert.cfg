\* The same instance against the debug assertion of Datagram_SendMessage.
CONSTANTS
    Ends <- MCEnds
    Fragments <- MCFragments
    Messages <- MCMessages
    MaxMessages <- MCMaxMessages
    MaxDatagrams <- MCMaxDatagrams
    LossyEnds = {}
    Client = "client"
    Nop <- MCNop
SPECIFICATION KSpec
PROPERTIES
    SendsOnlyWhenItCan
CHECK_DEADLOCK FALSE
