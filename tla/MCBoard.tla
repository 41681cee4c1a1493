------------------------------ MODULE MCBoard ------------------------------
(***************************************************************************)
(* An instance of Board for TLC: the built-in interface, one for PM2.5     *)
(* only and two that take anything else.                                   *)
(***************************************************************************)
EXTENDS Board, TLC

FixedTypes == 1 :> "pm"
============================================================================
