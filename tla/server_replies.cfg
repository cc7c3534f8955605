SPECIFICATION Spec
CONSTANTS
    poker = poker
    e1 = e1
    p1 = p1
    n1 = n1
    c1 = c1
    c2 = c2
    Server <- OneProcess
    Email <- OneAddress
    Nickname <- OneName
    Password <- OnePassword
    Conn <- TwoConnections
    db_pass_salt = "salt"
    NoConn = NoConn
    NoRequest = NoRequest
    MaxInserts = 3
    MaxSends = 3
    SockBuf = 1
    Malformed = Malformed
    UnknownType = UnknownType
    BadHeader = BadHeader
    CutOff = CutOff
SYMMETRY ConnSymmetry
INVARIANTS
    TypeOK
    WriteChain
    HandlerOfReader
    PeersAreServed
    ChainsGoOn
PROPERTIES
    RepliesInOrder
