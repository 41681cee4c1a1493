------------------------------- MODULE MCGprs -------------------------------
(***************************************************************************)
(* An instance of GprsLink for TLC: two processes, so that one can meet    *)
(* the other at the modem, and its own late answers in the second of two   *)
(* attempts.                                                               *)
(***************************************************************************)
EXTENDS GprsLink

NoHeader == <<>>
============================================================================
