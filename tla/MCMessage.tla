------------------------------ MODULE MCMessage ------------------------------
(***************************************************************************)
(* Texts that look like the headers between them.                          *)
(***************************************************************************)
EXTENDS MessageStream

SmallTexts == {<<>>, <<"7">>, <<" ", " ", " ", "2">>, <<"9", "9", "9", "9", "x">>}
=============================================================================
