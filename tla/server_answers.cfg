SPECIFICATION FairSpec
CONSTANTS
    poker = poker
    e1 = e1
    p1 = p1
    n1 = n1
    c1 = c1
    c2 = c2
    Server <- OneProcess
    Email <- OneAddress
    Nickname <- OneName
    Password <- OnePassword
    Conn <- TwoConnections
    db_pass_salt = "salt"
    NoConn = NoConn
    NoRequest = NoRequest
    MaxInserts = 2
    MaxSends = 2
    SockBuf = 1
    Malformed = Malformed
    UnknownType = UnknownType
    BadHeader = BadHeader
    CutOff = CutOff
PROPERTIES
    Answered
    Reclaimed
