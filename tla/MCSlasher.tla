------------------------------ MODULE MCSlasher ------------------------------
(***************************************************************************)
(* Two slashers, one of which can run two tasks at a time.                 *)
(***************************************************************************)
EXTENDS Slasher, TLC

CONSTANTS s1, s2

Limits == s1 :> 2 @@ s2 :> 1
=============================================================================
