------------------------------ MODULE MCPanel ------------------------------
(***************************************************************************)
(* Instances of Panel for TLC.  Two sensors to verify, the zero point and  *)
(* one other stand for eleven sensors and eight points: a point that is    *)
(* not zero is treated like any other.                                     *)
(***************************************************************************)
EXTENDS Panel
============================================================================
