--------------------------- MODULE MCMessageHeader ---------------------------
(***************************************************************************)
(* An alphabet with all kinds of characters; 2, 0 and 4 are the digits of  *)
(* max_body_length.                                                        *)
(***************************************************************************)
EXTENDS MessageHeader

KindsOfCharacters == {" ", "HT", "-", "+", "x", "0", "2", "4", "5"}
=============================================================================
