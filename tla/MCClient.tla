------------------------------ MODULE MCClient ------------------------------
(***************************************************************************)
(* Client needs no set of its own: three lines, one of each kind, are      *)
(* enough for a write to be posted while another completes and a third     *)
(* waits behind both.                                                      *)
(***************************************************************************)
EXTENDS Client

FourLines == 4
=============================================================================
