------------------------------ MODULE MCClock ------------------------------
(***************************************************************************)
(* An instance of Clock for TLC: two times, so that the one set before and *)
(* the one set now can be told apart, and mixed.                           *)
(***************************************************************************)
EXTENDS Clock
=============================================================================
