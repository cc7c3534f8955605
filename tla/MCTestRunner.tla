----------------------------- MODULE MCTestRunner -----------------------------
(***************************************************************************)
(* Three tests, so that one comes between two others.                      *)
(***************************************************************************)
EXTENDS TestRunner

ThreeTests == 3
=============================================================================
