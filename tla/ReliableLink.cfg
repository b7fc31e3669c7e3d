SPECIFICATION Spec
CONSTANTS
    Client = Client
    Server = Server
    PidHalf = 16
    SendSize = 2
    RecSize = 3
    AckSize = 2
    SendAckMax = 1
    ClientRecords = 2
    ServerRecords = 1
    Records <- MCRecords
    KnowsRemote = {Client, Server}
    XmitHold = {}
    NetToClient = 1
    NetToServer = 1
    MaxNet <- MCMaxNet
INVARIANTS
    TypeOK
    NothingForgotten
    AcksAreTrue
    IdsUnique
    StartAgreement
PROPERTY ImplementsChannel
