------------------------------- MODULE MCSdk -------------------------------
(***************************************************************************)
(* Instances of Sdk for TLC.                                               *)
(***************************************************************************)
EXTENDS Sdk
=============================================================================
