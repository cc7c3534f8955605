--------------------------- MODULE TestScenarios ---------------------------
(***************************************************************************)
(* The two end-to-end tests, register_test and login_test, as test_runner  *)
(* runs them: one after the other, each against a server that is ended     *)
(* after it, on the table the earlier ones left.  Other clients may use    *)
(* the server meanwhile, with addresses of their own.                      *)
(***************************************************************************)
EXTENDS Accounts, Sequences

CONSTANTS
    poker,        \* the server under test
    tester,       \* the connection of the test's client
    test_email, test_nick, test_pass,
    MaxTests      \* bound: how many tests are run

ASSUME TestAssumption ==
    /\ Server = {poker} /\ tester \in Conn
    /\ test_email \in Email /\ test_nick \in Nickname /\ test_pass \in Password
    /\ MaxTests \in Nat

\* A step of a test: the request it sends and the only code it accepts.
try_register ==
    [req |-> [type |-> "register_request", nickname |-> test_nick,
              email |-> test_email, pass_hash |-> test_pass],
     accepts |-> "OK"]

try_re_register == [try_register EXCEPT !.accepts = "NAME_TAKEN"]

try_login ==
    [req |-> [type |-> "login_request", email |-> test_email, pass_hash |-> test_pass],
     accepts |-> "OK"]

try_un_register ==
    [req |-> [type |-> "unregister_request", email |-> test_email, pass_hash |-> test_pass],
     accepts |-> "OK"]

\* Mutant: the test does not unregister.
register_test_leaves_row == <<try_register, try_re_register>>

register_test == <<try_register, try_re_register, try_un_register>>
login_test == <<try_register, try_login, try_un_register>>

VARIABLES
    tests,        \* how many tests have been started
    steps,        \* the steps the running test has still to pass
    waiting,      \* is its client in read_wait
    failed,       \* has a test got a code it does not accept
    cut           \* has the server ended under a test

testVars == <<tests, steps, waiting, failed, cut>>
vars == <<accVars, testVars>>

Init ==
    /\ AccInit
    /\ tests = 0 /\ steps = <<>> /\ waiting = FALSE /\ failed = FALSE /\ cut = FALSE

\* test_runner has started the server and starts the client, which skips the connect response.
start_test(test) ==
    /\ up[poker] /\ steps = <<>> /\ tests < MaxTests
    /\ tests' = tests + 1
    /\ steps' = test
    /\ UNCHANGED <<accVars, waiting, failed, cut>>

send ==
    /\ steps # <<>> /\ ~waiting
    /\ handle(poker, tester, Head(steps).req)
    /\ waiting' = TRUE
    /\ UNCHANGED <<tests, steps, failed, cut>>

\* The reply: the next step, or the test throws and is over.
check ==
    /\ sender[poker] = tester
    /\ reply(poker)
    /\ waiting' = FALSE
    /\ \/ code[poker] = Head(steps).accepts /\ steps' = Tail(steps) /\ UNCHANGED failed
       \/ code[poker] # Head(steps).accepts /\ steps' = <<>> /\ failed' = TRUE
    /\ UNCHANGED <<tests, cut>>

\* The runner terminates the server when the test is over; if the server ends before, the
\* client waits until somebody ends it, too.
server_ends ==
    /\ terminate(poker)
    /\ steps' = <<>> /\ waiting' = FALSE
    /\ cut' = (cut \/ steps # <<>>)
    /\ UNCHANGED <<tests, failed>>

OtherRequest == {r \in Request : r.email # test_email}

others ==
    \/ \E c \in Conn \ {tester}, r \in OtherRequest : handle(poker, c, r)
    \/ sender[poker] # tester /\ reply(poker)

server_goes_on == (Statement(poker) \/ main(poker) \/ others) /\ UNCHANGED testVars

Next ==
    \/ \E test \in {register_test, login_test} : start_test(test)
    \/ send \/ check
    \/ server_ends \/ server_goes_on

Spec == Init /\ [][Next]_vars
-----------------------------------------------------------------------------
\* What the tests assert: each step gets its code, whatever other clients do between the
\* steps and in whatever order the tests run, unless an earlier run was cut off and left its
\* row behind.
TestsPass == failed => cut

\* Tests that are run to their end can be run again: they leave no row of their address.
LeavesNothing == steps = <<>> /\ ~cut => RowsOf(test_email) = {}
=============================================================================
