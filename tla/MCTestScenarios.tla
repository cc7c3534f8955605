-------------------------- MODULE MCTestScenarios --------------------------
(***************************************************************************)
(* The tests' address and password and another of each; the tests' client  *)
(* and another.                                                            *)
(***************************************************************************)
EXTENDS TestScenarios

CONSTANTS other_email, other_pass, other

OneProcess == {poker}
TwoAddresses == {test_email, other_email}
TwoPasswords == {test_pass, other_pass}
OneName == {test_nick}
TwoConnections == {tester, other}
=============================================================================
