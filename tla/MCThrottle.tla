----------------------------- MODULE MCThrottle -----------------------------
(***************************************************************************)
(* Instances of Throttle for TLC.                                          *)
(***************************************************************************)
EXTENDS Throttle
=============================================================================
