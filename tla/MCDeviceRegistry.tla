-------------------------- MODULE MCDeviceRegistry --------------------------
(***************************************************************************)
(* Instances of DeviceRegistry for TLC.                                    *)
(***************************************************************************)
EXTENDS DeviceRegistry, TLC

MCSymmetry == Permutations(Account) \cup Permutations(Worker)

\* One disturbance at a time: an overlap or a failure that the properties except, an
\* older connection that the broker has not closed, or a restart.
MCOneDisturbance == \A d \in Device : Cardinality(mishap[d]) + Cardinality(stale) + restarts <= 1
=============================================================================
