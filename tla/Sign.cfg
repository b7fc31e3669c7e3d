SPECIFICATION Spec
CONSTANTS
    Paths <- MCPaths
    Contents <- MCContents
    Keys = {k1, k2, short}
    ShortKeys = {short}
    TextSize = 2
    BlockSize = 2
INVARIANTS
    TypeOK
    VerdictIsRight
