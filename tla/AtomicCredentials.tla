------------------------- MODULE AtomicCredentials -------------------------
(***************************************************************************)
(* What the credential store of the client promises its callers            *)
(* (client/internal/credentials/store.go, the comments at 32-40, 319-321   *)
(* and 371-374): the credentials of a host change as a whole, whatever     *)
(* crashes. The one exception are files that an earlier update left behind *)
(* and that could not be deleted: a rotation may take them with it.        *)
(***************************************************************************)
EXTENDS CredentialData

CONSTANT MayLeave   \* TRUE: deleting a file can fail

VARIABLES
    cred,   \* the credentials the next operation of the store will work on
    goal,   \* the credentials the update asked for last would leave
    stray,  \* the files left behind that the update asked for last takes with it
    undo    \* the credentials a power loss may bring back, cred among them

vars == <<cred, goal, stray, undo>>

Init ==
    /\ cred = NoCreds
    /\ goal = NoCreds
    /\ stray = {}
    /\ undo = {NoCreds}

\* A caller asks for the credentials of a pairing, which has every file.
AskPairing ==
    /\ goal' \in Bundles
    /\ stray' = {}
    /\ UNCHANGED <<cred, undo>>

\* A caller asks for a rotation of the present credentials, which renews the
\* connection settings or keeps them.
AskRotation ==
    /\ \E p \in Payloads, renewConn \in BOOLEAN : goal' = Rotation(cred, p, renewConn)
    /\ stray' \in SUBSET File
    /\ stray' # {} => MayLeave
    /\ UNCHANGED <<cred, undo>>

\* The credentials become the ones asked for, all of them at once.
Install ==
    /\ cred' \in Creds
    /\ \A f \in File \ stray : cred'[f] = goal[f]
    /\ undo' = undo \cup {cred'}
    /\ UNCHANGED <<goal, stray>>

\* From now on a power loss brings nothing older back.
Settle ==
    /\ undo' = {cred}
    /\ UNCHANGED <<cred, goal, stray>>

\* Deprovisioning deletes the files one by one: it does not promise atomicity.
Wipe(f) ==
    /\ cred' = [cred EXCEPT ![f] = Absent]
    /\ undo' = undo \cup {cred'}
    /\ UNCHANGED <<goal, stray>>

PowerLoss ==
    /\ cred' \in undo
    /\ undo' = {cred'}
    /\ UNCHANGED <<goal, stray>>

Next ==
    \/ AskPairing
    \/ AskRotation
    \/ Install
    \/ Settle
    \/ \E f \in File : Wipe(f)
    \/ PowerLoss

Spec == Init /\ [][Next]_vars
=============================================================================
