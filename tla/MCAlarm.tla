------------------------------ MODULE MCAlarm ------------------------------
(***************************************************************************)
(* Instances of Alarm for TLC.  The code counts to 12 in a char; a counter *)
(* of four or five values with the limit at two passes, meets and wraps    *)
(* around its limit in the same ways.                                      *)
(***************************************************************************)
EXTENDS Alarm
============================================================================
