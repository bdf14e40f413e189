------------------------- MODULE MCCredentialStore -------------------------
(***************************************************************************)
(* An instance of CredentialStore for TLC: the three files that a rotation *)
(* can touch, one pairing and one or two rotations.                        *)
(***************************************************************************)
EXTENDS CredentialStore, FiniteSets, TLC

CONSTANTS Old, New

MCFile == {CaCert, DeviceCert, ConnSettings}
MCNameRank == CaCert :> 1 @@ ConnSettings :> 2 @@ DeviceCert :> 3
MCWriteRank == CaCert :> 1 @@ DeviceCert :> 2 @@ ConnSettings :> 3
MCRotateRank == DeviceCert :> 1 @@ CaCert :> 2 @@ ConnSettings :> 3
MCWipeRank == DeviceCert :> 1 @@ ConnSettings :> 2 @@ CaCert :> 3

MCContent == {Old, New}

MCBundles == {[f \in MCFile |-> Old]}

\* A rotation that renews everything, and one back that carries no CA certificate.
Forth == [cert |-> New, ca |-> New, conn |-> New]
Back == [cert |-> Old, ca |-> Absent, conn |-> Old]

MCOnePayload == {Forth}
MCTwoPayloads == {Forth, Back}

\* Room for a whole update between two fsyncs (the directory before, the
\* directory created, and the three .new files), begun with at most one
\* operation not yet fsynced; one file at a time that cannot be deleted; no
\* update of credentials one of which is torn already.
MCBound ==
    /\ Cardinality(past) <= IF pc = "idle" /\ disk.dir THEN 2 ELSE 5
    /\ Cardinality(left \cup stray) <= 1
    /\ pc = "stage" => \A f \in File : disk.final[f] # Torn
=============================================================================
