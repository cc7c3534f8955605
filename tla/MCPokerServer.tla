--------------------------- MODULE MCPokerServer ---------------------------
(***************************************************************************)
(* PokerServer on small sets.  Connections are interchangeable.            *)
(***************************************************************************)
EXTENDS PokerServer, TLC

CONSTANTS e1, p1, n1, c1, c2

OneProcess == {poker}
OneAddress == {e1}
OnePassword == {p1}
OneName == {n1}
OneConnection == {c1}
TwoConnections == {c1, c2}

ConnSymmetry == Permutations(Conn)
=============================================================================
