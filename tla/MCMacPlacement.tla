-------------------------- MODULE MCMacPlacement --------------------------
(***************************************************************************)
(* MacPlacement for TLC: the received paths "a", "A" and "a (2)", in a     *)
(* folder that does not tell the first two apart.                          *)
(***************************************************************************)
EXTENDS MacPlacement

SameNames == <<<<"a", "a (2)", "a (3)", "a (4)">>,
               <<"a", "a (2)", "a (3)", "a (4)">>,
               <<"a (2)", "a (2) (2)", "a (2) (3)">>>>
=============================================================================
