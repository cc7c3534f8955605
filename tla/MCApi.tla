-------------------------------- MODULE MCApi --------------------------------
(***************************************************************************)
(* Two words, one of which is the name of a type.                          *)
(***************************************************************************)
EXTENDS Api

TwoWords == {"a", "login_request"}
=============================================================================
