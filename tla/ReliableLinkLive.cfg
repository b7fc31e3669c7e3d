SPECIFICATION FairSpec
CONSTANTS
    Client = Client
    Server = Server
    PidHalf = 16
    SendSize = 1
    RecSize = 1
    AckSize = 1
    SendAckMax = 1
    ClientRecords = 1
    ServerRecords = 0
    Records <- MCRecords
    KnowsRemote = {Client, Server}
    XmitHold = {Server}
    NetToClient = 2
    NetToServer = 1
    MaxNet <- MCMaxNet
PROPERTY EventuallyDelivered
