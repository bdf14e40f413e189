---------------------------- MODULE MCThumbnails ----------------------------
(***************************************************************************)
(* Instances of Thumbnails for TLC.                                        *)
(***************************************************************************)
EXTENDS Thumbnails
=============================================================================
