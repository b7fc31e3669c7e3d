SPECIFICATION Spec
CONSTANTS
    PoolSize = 2
    DuplicateCN = FALSE
    NoName = NoName
    NULL = NULL
    Inst = {i1, i2}
    Real = {r1, r2}
    a = a
    b = b
    CN = {a, b}
    net16 = net16
    net24 = net24
    Nets = {net16, net24}
    loc = loc
    h1 = h1
    h2 = h2
    st = st
    Hosts = {loc, h1, h2, st}
    Local = loc
    Bits <- MCBits
    Covers <- MCCovers
    PoolAddr <- MCPoolAddr
    StaticAddr <- MCStaticAddr
    FixedFile <- MCFixedFile
    IRoutes <- MCIRoutes
    MaxClients = 2
    MaxRoutes = 2
    MbufSize = 1
SYMMETRY MCSymmetry
CHECK_DEADLOCK FALSE
INVARIANTS
    TypeOK
    RefcountExact
    NoDangling
    PendingHasOutput
    LeasesExact
    FixedForOne
    CacheCoherent
    LengthsInUse
    AddressRoutes
    QueueAssertion
PROPERTY SameAddress
