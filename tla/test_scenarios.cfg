SPECIFICATION Spec
CONSTANTS
    poker = poker
    tester = tester
    other = other
    test_email = test_email
    other_email = other_email
    test_pass = test_pass
    other_pass = other_pass
    test_nick = test_nick
    Server <- OneProcess
    Conn <- TwoConnections
    Email <- TwoAddresses
    Nickname <- OneName
    Password <- TwoPasswords
    db_pass_salt = "salt"
    NoConn = NoConn
    NoRequest = NoRequest
    MaxInserts = 4
    MaxTests = 2
INVARIANTS
    TestsPass
    LeavesNothing
