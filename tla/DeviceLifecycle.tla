-------------------------- MODULE DeviceLifecycle --------------------------
(***************************************************************************)
(* What the host promises about a device: it is paired, claimed by one     *)
(* account, and deprovisioned for good; its credentials are disclosed only *)
(* after the claim. The one exception is a device that is claimed by two   *)
(* calls at a time, or by one while its code is cleaned up: until those    *)
(* calls are over it may change hands, come back, or be gone.              *)
(***************************************************************************)
CONSTANTS Device, Account, NoAccount

VARIABLES
    stage,      \* where each device is in its life
    owner,      \* the account that claimed it
    disclosed,  \* the devices whose credentials were handed out
    contested   \* the devices that were claimed while another call was deciding on them

vars == <<stage, owner, disclosed, contested>>

Init ==
    /\ stage = [d \in Device |-> "none"]
    /\ owner = [d \in Device |-> NoAccount]
    /\ disclosed = {}
    /\ contested = {}

Pair(d) ==
    /\ stage[d] = "none"
    /\ stage' = [stage EXCEPT ![d] = "PAIRING"]
    /\ UNCHANGED <<owner, disclosed, contested>>

\* Only a device that waits to be claimed can be contested.
Contest(d) ==
    /\ stage[d] = "PAIRING"
    /\ contested' = contested \cup {d}
    /\ UNCHANGED <<stage, owner, disclosed>>

Undecided(d) ==
    \/ stage[d] = "PAIRING"
    \/ d \in contested /\ stage[d] \in {"ACTIVE", "DEPROVISIONED"}

Claim(d, a) ==
    /\ Undecided(d)
    /\ stage' = [stage EXCEPT ![d] = "ACTIVE"]
    /\ owner' = [owner EXCEPT ![d] = a]
    /\ UNCHANGED <<disclosed, contested>>

\* The pairing code was not claimed in time.
Forget(d) ==
    /\ Undecided(d)
    /\ stage' = [stage EXCEPT ![d] = "deleted"]
    /\ UNCHANGED <<owner, disclosed, contested>>

Disclose(d) ==
    /\ stage[d] \in {"ACTIVE", "DEPROVISIONED"}
    /\ disclosed' = disclosed \cup {d}
    /\ UNCHANGED <<stage, owner, contested>>

Deprovision(d) ==
    /\ stage[d] = "ACTIVE"
    /\ stage' = [stage EXCEPT ![d] = "DEPROVISIONED"]
    /\ UNCHANGED <<owner, disclosed, contested>>

Next ==
    \E d \in Device :
        \/ Pair(d)
        \/ Contest(d)
        \/ \E a \in Account : Claim(d, a)
        \/ Forget(d)
        \/ Disclose(d)
        \/ Deprovision(d)

Spec == Init /\ [][Next]_vars
=============================================================================
