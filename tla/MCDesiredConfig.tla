-------------------------- MODULE MCDesiredConfig --------------------------
(***************************************************************************)
(* Instances of DesiredConfig for TLC.                                     *)
(* Operators send few different things.                                    *)
(***************************************************************************)
EXTENDS DesiredConfig

CONSTANTS c1, c2, f1, f2, v1, v2

MCContent(a, b) == [f \in {f1, f2} |-> IF f = f1 THEN a ELSE b]

MCPatch == {MCContent(Absent, v1)}

\* The first leaves nothing out but a channel, the second has a field less.
MCDocument ==
    {[settings |-> Absent,
      channel |-> [c \in {c1, c2} |-> IF c = c1 THEN MCContent(v1, v2) ELSE NoContent]],
     [settings |-> v1, channel |-> [c \in {c1, c2} |-> MCContent(v1, Absent)]]}
=============================================================================
