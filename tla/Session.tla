------------------------------ MODULE Session ------------------------------
(***************************************************************************)
(* What the client daemon promises of its session with a host: one host at *)
(* a time; it connects with credentials only, obtains them by pairing, and *)
(* deletes those of the host it is told to and of no other. Once a message *)
(* has ended the session during a call, the call goes on for the host it   *)
(* began with, which the session has no more; a message that outlived its  *)
(* session may delete everything, and a callback that did may say          *)
(* CONNECTED until the next reset or connection.                           *)
(***************************************************************************)
CONSTANTS Host, NoHost

VARIABLES
    state,     \* the state that is reported to the application
    host,      \* the host of the session
    paired,    \* the hosts whose credentials are on disk
    mishap     \* what the promises except

vars == <<state, host, paired, mishap>>

Late == "late" \in mishap

Crossed == "crossed" \in mishap

Init ==
    /\ state = "DISCONNECTED"
    /\ host = NoHost
    /\ paired \in SUBSET Host
    /\ mishap = {}

\* The session has no host any more, and goes on until its connection is closed.
Leave ==
    /\ host' = NoHost
    /\ mishap' \in {mishap, mishap \cup {"crossed"}}
    /\ UNCHANGED <<state, paired>>

Reset ==
    /\ state' = "DISCONNECTED"
    /\ host' \in Host \cup {NoHost}
    /\ mishap' = mishap \ {"late"}
    /\ UNCHANGED paired

Pair ==
    /\ state = "DISCONNECTED" \/ Late
    /\ host \in Host \ paired \/ Crossed
    /\ state' = "PAIRING"
    /\ mishap' = mishap \ {"late"}
    /\ UNCHANGED <<host, paired>>

Claimed ==
    /\ state = "PAIRING" \/ Late \/ Crossed
    /\ \E h \in Host : (h = host \/ Crossed) /\ paired' = paired \cup {h}
    /\ UNCHANGED <<state, host, mishap>>

Connect ==
    /\ state \in {"DISCONNECTED", "PAIRING"} \/ Late
    /\ host \in paired \/ Crossed
    /\ state' = "CONNECTING"
    /\ mishap' = mishap \ {"late"}
    /\ UNCHANGED <<host, paired>>

Connected ==
    /\ state \in {"CONNECTING", "RECONNECTING"} \/ Late
    /\ state' = "CONNECTED"
    /\ mishap' = mishap \ {"late"}
    /\ UNCHANGED <<host, paired>>

LateCallback ==
    /\ \/ state' = "CONNECTED"
       \/ state = "CONNECTED" /\ state' = "RECONNECTING"
    /\ mishap' = mishap \cup {"late"}
    /\ UNCHANGED <<host, paired>>

Lost ==
    /\ state = "CONNECTED"
    /\ state' = "RECONNECTING"
    /\ UNCHANGED <<host, paired, mishap>>

Delete ==
    /\ \/ \E h \in paired : host \in {h, NoHost} /\ paired' = paired \ {h}
       \/ host = NoHost /\ "outlived" \in mishap /\ paired' = {}
    /\ UNCHANGED <<state, host, mishap>>

Outlive(what) ==
    /\ mishap' = mishap \cup {what}
    /\ UNCHANGED <<state, host, paired>>

Next ==
    \/ Leave \/ Reset \/ Pair \/ Claimed \/ Connect \/ Connected \/ Lost \/ Delete
    \/ LateCallback \/ Outlive("outlived") \/ Outlive("slow") \/ Outlive("crossed")

Spec == Init /\ [][Next]_vars
=============================================================================
