SPECIFICATION Spec
CONSTANTS
    Client = Client
    Server = Server
    None = None
    MaxSid = 2
    MaxKey = 2
CHECK_DEADLOCK FALSE
INVARIANTS
    TypeOK
    OneSessionPerId
    TunnelKeptUp
PROPERTY FailureKeepsKey
