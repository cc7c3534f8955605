----------------------------- MODULE MCAccounts -----------------------------
(***************************************************************************)
(* Accounts on small sets.  The processes, addresses, passwords and        *)
(* connections are interchangeable: no action names one of them.           *)
(***************************************************************************)
EXTENDS Accounts, TLC

CONSTANTS s1, s2, e1, e2, p1, p2, n1, c1, c2

OneProcess == {s1}
TwoProcesses == {s1, s2}
OneAddress == {e1}
TwoAddresses == {e1, e2}
OnePassword == {p1}
TwoPasswords == {p1, p2}
OneName == {n1}
OneConnection == {c1}
TwoConnections == {c1, c2}

AccSymmetry ==
    Permutations(Server) \cup Permutations(Email) \cup Permutations(Password)
        \cup Permutations(Conn)
=============================================================================
