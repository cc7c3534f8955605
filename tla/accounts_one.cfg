SPECIFICATION AccFairSpec
CONSTANTS
    s1 = s1
    s2 = s2
    e1 = e1
    e2 = e2
    p1 = p1
    p2 = p2
    n1 = n1
    c1 = c1
    c2 = c2
    Server <- OneProcess
    Email <- TwoAddresses
    Nickname <- OneName
    Password <- TwoPasswords
    Conn <- TwoConnections
    db_pass_salt = "salt"
    NoConn = NoConn
    NoRequest = NoRequest
    MaxInserts = 3
INVARIANT
    AnswersHold
PROPERTIES
    OnlyOwnerRemoves
    NoOneEvicted
    ImplementsService
