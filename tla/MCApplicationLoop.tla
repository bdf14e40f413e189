------------------------- MODULE MCApplicationLoop -------------------------
(***************************************************************************)
(* Instances of ApplicationLoop for TLC.                                   *)
(***************************************************************************)
EXTENDS ApplicationLoop

CONSTANTS c1, c2

\* One channel through three versions.
OneChannel == [c \in {c1} |-> 3]

\* The second channel is configured once.
TwoChannels == [c \in {c1, c2} |-> IF c = c1 THEN 2 ELSE 1]
=============================================================================
