SPECIFICATION AccSpec
CONSTANTS
    s1 = s1
    s2 = s2
    e1 = e1
    e2 = e2
    p1 = p1
    p2 = p2
    n1 = n1
    c1 = c1
    c2 = c2
    Server <- TwoProcesses
    Email <- TwoAddresses
    Nickname <- OneName
    Password <- OnePassword
    Conn <- OneConnection
    db_pass_salt = "salt"
    NoConn = NoConn
    NoRequest = NoRequest
    MaxInserts = 2
SYMMETRY AccSymmetry
INVARIANTS
    AccTypeOK
    OneRowPerEmailPerServer
    OneRowPerIdPerServer
    RegistersAfresh
