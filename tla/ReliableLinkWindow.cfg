SPECIFICATION Spec
CONSTANTS
    Client = Client
    Server = Server
    PidHalf = 16
    SendSize = 2
    RecSize = 2
    AckSize = 1
    SendAckMax = 1
    ClientRecords = 4
    ServerRecords = 0
    Records <- MCRecords
    KnowsRemote = {Client}
    XmitHold = {Server}
    NetToClient = 1
    NetToServer = 1
    MaxNet <- MCMaxNet
INVARIANTS
    NothingForgotten
    ReceiveBufferNotClogged
    WriteAssertions
PROPERTY ImplementsChannel
