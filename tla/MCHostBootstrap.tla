-------------------------- MODULE MCHostBootstrap ---------------------------
(***************************************************************************)
(* Instances of HostBootstrap for TLC.                                     *)
(***************************************************************************)
EXTENDS HostBootstrap
=============================================================================
