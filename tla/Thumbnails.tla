----------------------------- MODULE Thumbnails -----------------------------
(***************************************************************************)
(* The thumbnails of one device, from the viewers of the host to the       *)
(* uploads of the daemon. A viewer who finds no subscription for a channel *)
(* makes one: the host notes when it expires and publishes the request, on *)
(* one retained topic for all channels of the device. The daemon starts an *)
(* uploader, a goroutine, for the channel of each request it handles and   *)
(* stops the one before. An uploader uploads, waits and uploads again      *)
(* until the request expires; it learns that it was stopped while it       *)
(* waits.                                                                  *)
(*                                                                         *)
(* Times are counted down: a subscription, a request and an uploader have  *)
(* a number of ticks left. A tick is the period of the uploads, 5 s, after *)
(* which the daemon gives up an upload.                                    *)
(***************************************************************************)
EXTENDS Naturals, Sequences, FiniteSets, SequencesExt

CONSTANTS
    Channel,
    Uploader,      \* bound: uploaders at a time
    None,
    Lifetime,      \* ticks of a subscription
    MaxViewers,    \* bound: viewers that make a request for one channel at a time
    MaxInbox,      \* bound: messages whose handlers have not run
    MaxFaults      \* bound: lost connections, restarts, failed uploads, late handlers

ASSUME BoundAssumption == Lifetime \in Nat \ {0} /\ MaxViewers \in Nat /\ MaxInbox \in Nat /\ MaxFaults \in Nat

VARIABLES
    subscription,  \* the ticks that the host believes a channel is subscribed for
    asking,        \* the viewers that have found no subscription and not yet made one
    retained,      \* the retained request
    link,          \* TRUE: the device is connected and has subscribed to the topic
    inbox,         \* requests whose handlers have not run, in the order of delivery
    uploader,      \* the goroutines
    manager,       \* the uploader that the daemon's manager has for each channel
    fresh,         \* the channels of which an image was uploaded since the last tick
    faults,
    forsaken       \* history: channels whose request was lost or replaced on its way,
                   \* stopped with the session, or handled before an older one

hostVars == <<subscription, asking, retained>>
daemonVars == <<uploader, manager>>

vars == <<hostVars, link, inbox, daemonVars, fresh, faults, forsaken>>

-----------------------------------------------------------------------------
Ticks == 0 .. Lifetime

Request == [channel : Channel, left : Ticks]

ASSUME NoneAssumption == None \notin Channel \cup Uploader \cup Request

Goroutine == [pc : {"none", "check", "upload", "wait"}, channel : Channel \cup {None},
              left : Ticks, stopped : BOOLEAN, overrun : Nat]

NoUploader == [pc |-> "none", channel |-> None, left |-> 0, stopped |-> FALSE, overrun |-> 0]

\* An uploader that has a request, for the channel, with some time left.
NewUploader(r) == [NoUploader EXCEPT !.pc = "check", !.channel = r.channel, !.left = r.left]

Free == {u \in Uploader : uploader[u].pc = "none"}

\* stop: the channel stopCh is closed.
Stop(u) == IF u.pc = "none" THEN u ELSE [u EXCEPT !.stopped = TRUE]

Init ==
    /\ subscription = [c \in Channel |-> 0]
    /\ asking = [c \in Channel |-> 0]
    /\ retained = None
    /\ link = FALSE
    /\ inbox = <<>>
    /\ uploader = [u \in Uploader |-> NoUploader]
    /\ manager = [c \in Channel |-> None]
    /\ fresh = {}
    /\ faults = 0
    /\ forsaken = {}

-----------------------------------------------------------------------------
\* GetThumbnail, for a viewer who finds no subscription that is active. One who finds an
\* active one is given the stored image, and nothing changes.
GetThumbnail(c) ==
    /\ subscription[c] = 0
    /\ asking[c] < MaxViewers
    /\ asking' = [asking EXCEPT ![c] = @ + 1]
    /\ UNCHANGED <<subscription, retained, link, inbox, daemonVars, fresh, faults, forsaken>>

\* Mutant: the request is not retained.
RequestUnretained(c) ==
    LET request == [channel |-> c, left |-> Lifetime]
    IN  /\ asking[c] > 0
        /\ asking' = [asking EXCEPT ![c] = @ - 1]
        /\ subscription' = [subscription EXCEPT ![c] = Lifetime]
        /\ IF link THEN Len(inbox) < MaxInbox /\ inbox' = Append(inbox, request) ELSE UNCHANGED inbox
        /\ forsaken' = forsaken \ {c}
        /\ UNCHANGED <<retained, link, daemonVars, fresh, faults>>

\* RequestThumbnail: the subscription is noted and the request published. The retained
\* request, of whichever channel, is replaced.
RequestThumbnail(c) ==
    LET request == [channel |-> c, left |-> Lifetime]
    IN  /\ asking[c] > 0
        /\ asking' = [asking EXCEPT ![c] = @ - 1]
        /\ subscription' = [subscription EXCEPT ![c] = Lifetime]
        /\ retained' = request
        /\ IF link THEN Len(inbox) < MaxInbox /\ inbox' = Append(inbox, request) ELSE UNCHANGED inbox
        /\ forsaken' = (forsaken \ {c}) \cup
              IF ~link /\ retained # None THEN {retained.channel} \ {c} ELSE {}
        /\ UNCHANGED <<link, daemonVars, fresh, faults>>

\* The host restarts: subscriptions and retained messages are in its memory only.
HostRestart ==
    /\ faults < MaxFaults /\ faults' = faults + 1
    /\ subscription' = [c \in Channel |-> 0]
    /\ asking' = [c \in Channel |-> 0]
    /\ retained' = None
    /\ link' = FALSE
    /\ UNCHANGED <<inbox, daemonVars, fresh, forsaken>>

-----------------------------------------------------------------------------
\* The broker delivers the retained request to a device that subscribes.
Connect ==
    /\ ~link
    /\ link' = TRUE
    /\ IF retained # None THEN Len(inbox) < MaxInbox /\ inbox' = Append(inbox, retained) ELSE UNCHANGED inbox
    /\ UNCHANGED <<hostVars, daemonVars, fresh, faults, forsaken>>

\* Messages on their way are lost, those whose handlers have started are not.
Cut == link' = FALSE /\ \E n \in 0 .. Len(inbox) : inbox' = SubSeq(inbox, 1, n)

Carried == IF retained = None THEN {} ELSE {retained.channel}

\* The connection is lost; the uploaders go on.
Lose ==
    /\ faults < MaxFaults /\ faults' = faults + 1
    /\ link
    /\ Cut
    /\ forsaken' = forsaken \cup ({inbox[i].channel : i \in DOMAIN inbox} \ Carried)
    /\ UNCHANGED <<hostVars, daemonVars, fresh>>

\* reset: the session ends and StopAll stops the uploaders. A handler that has started
\* may run later, and starts one for a session that is no more.
Reset ==
    /\ faults < MaxFaults /\ faults' = faults + 1
    /\ Cut
    /\ uploader' = [u \in Uploader |-> IF \E c \in Channel : manager[c] = u THEN Stop(uploader[u]) ELSE uploader[u]]
    /\ manager' = [c \in Channel |-> None]
    /\ forsaken' = forsaken \cup (Channel \ Carried)
    /\ UNCHANGED <<hostVars, fresh>>

\* Mutant: the uploader before is replaced and not stopped.
UpdateOnly(i) ==
    /\ i \in DOMAIN inbox
    /\ Free # {}
    /\ LET c == inbox[i].channel
           new == CHOOSE u \in Free : TRUE
       IN  /\ uploader' = [uploader EXCEPT ![new] = NewUploader(inbox[i])]
           /\ manager' = [manager EXCEPT ![c] = new]
           /\ forsaken' = IF \E j \in 1 .. (i - 1) : inbox[j].channel = c THEN forsaken \cup {c} ELSE forsaken
    /\ inbox' = RemoveAt(inbox, i)
    /\ UNCHANGED <<hostVars, link, fresh, faults>>

\* UpdateThumbnail, under the mutex of the manager, by the handler of message i.
UpdateThumbnail(i) ==
    /\ i \in DOMAIN inbox
    /\ Free # {}
    /\ LET c == inbox[i].channel
           new == CHOOSE u \in Free : TRUE
       IN  /\ uploader' = [u \in Uploader |-> IF u = new THEN NewUploader(inbox[i])
                                              ELSE IF u = manager[c] THEN Stop(uploader[u])
                                              ELSE uploader[u]]
           /\ manager' = [manager EXCEPT ![c] = new]
           /\ forsaken' = IF \E j \in 1 .. (i - 1) : inbox[j].channel = c THEN forsaken \cup {c} ELSE forsaken
    /\ inbox' = RemoveAt(inbox, i)
    /\ UNCHANGED <<hostVars, link, fresh, faults>>

-----------------------------------------------------------------------------
\* Mutant: the manager goes on naming the uploader.
EndOnly(u) == uploader' = [uploader EXCEPT ![u] = NoUploader] /\ UNCHANGED manager

\* run, by uploader u. The manager keeps an uploader that has ended; stopping it is
\* without effect, so it is forgotten here.
End(u) ==
    /\ uploader' = [uploader EXCEPT ![u] = NoUploader]
    /\ manager' = [c \in Channel |-> IF manager[c] = u THEN None ELSE manager[c]]

\* Mutant: the comparison with the time of expiry is the wrong way round.
CheckReversed(u) ==
    /\ uploader[u].pc = "check"
    /\ IF uploader[u].left > 0
       THEN End(u)
       ELSE /\ uploader' = [uploader EXCEPT ![u].pc = "upload", ![u].overrun = IF uploader[u].stopped THEN @ + 1 ELSE @]
            /\ UNCHANGED manager
    /\ UNCHANGED <<hostVars, link, inbox, fresh, faults, forsaken>>

\* The request may have expired. Whether the uploader was stopped is not looked at.
Check(u) ==
    /\ uploader[u].pc = "check"
    /\ IF uploader[u].left = 0
       THEN End(u)
       ELSE /\ uploader' = [uploader EXCEPT ![u].pc = "upload", ![u].overrun = IF uploader[u].stopped THEN @ + 1 ELSE @]
            /\ UNCHANGED manager
    /\ UNCHANGED <<hostVars, link, inbox, fresh, faults, forsaken>>

\* UploadFile, and StoreThumbnail on the host. It fails if the application has not
\* reported a path, or if there is no file, or with the call.
Upload(u) ==
    /\ uploader[u].pc = "upload"
    /\ \/ fresh' = fresh \cup {uploader[u].channel} /\ UNCHANGED faults
       \/ faults < MaxFaults /\ faults' = faults + 1 /\ UNCHANGED fresh
    /\ uploader' = [uploader EXCEPT ![u].pc = "wait"]
    /\ UNCHANGED <<hostVars, link, inbox, manager, forsaken>>

\* Mutant: with a period of no length stopCh is never looked at.
WaitNoTime(u) ==
    /\ uploader[u].pc = "wait"
    /\ uploader[u].stopped
    /\ uploader' = [uploader EXCEPT ![u].pc = "check"]
    /\ UNCHANGED <<hostVars, link, inbox, manager, fresh, faults, forsaken>>

\* stopCh is looked at, every 100 ms.
Wait(u) ==
    /\ uploader[u].pc = "wait"
    /\ uploader[u].stopped
    /\ End(u)
    /\ UNCHANGED <<hostVars, link, inbox, fresh, faults, forsaken>>

-----------------------------------------------------------------------------
Less(n) == IF n = 0 THEN 0 ELSE n - 1

LessLeft(r) == [r EXCEPT !.left = Less(@)]

\* The period of an uploader that was not stopped while it waited is over.
Continue(u) == IF u.pc = "wait" THEN [LessLeft(u) EXCEPT !.pc = "check"] ELSE u

\* Time passes. An upload does not last for a tick, a handler may be that late.
Tick ==
    /\ \A u \in Uploader : uploader[u].pc = "none" \/ (uploader[u].pc = "wait" /\ ~uploader[u].stopped)
    /\ inbox # <<>> => faults < MaxFaults
    /\ faults' = IF inbox # <<>> THEN faults + 1 ELSE faults
    /\ subscription' = [c \in Channel |-> Less(subscription[c])]
    /\ retained' = IF retained = None THEN None ELSE LessLeft(retained)
    /\ inbox' = [i \in DOMAIN inbox |-> LessLeft(inbox[i])]
    /\ uploader' = [u \in Uploader |-> Continue(uploader[u])]
    /\ fresh' = {}
    /\ UNCHANGED <<asking, link, manager, forsaken>>

RunUploader(u) == Check(u) \/ Upload(u) \/ Wait(u)

Next ==
    \/ \E c \in Channel : GetThumbnail(c) \/ RequestThumbnail(c)
    \/ HostRestart
    \/ Connect
    \/ Lose
    \/ Reset
    \/ \E i \in 1 .. MaxInbox : UpdateThumbnail(i)
    \/ \E u \in Uploader : RunUploader(u)
    \/ Tick

Spec == Init /\ [][Next]_vars

\* Time passes; viewers ask again and again; the device connects again; the goroutines
\* of the host and the daemon are scheduled.
FairSpec ==
    /\ Spec
    /\ WF_vars(Tick)
    /\ \A c \in Channel : WF_vars(GetThumbnail(c) \/ RequestThumbnail(c))
    /\ WF_vars(Connect)
    /\ WF_vars(UpdateThumbnail(1))
    /\ \A u \in Uploader : WF_vars(RunUploader(u))

-----------------------------------------------------------------------------
\* The types of the variables. The manager knows no uploader that has ended.
TypeOK ==
    /\ subscription \in [Channel -> Ticks]
    /\ asking \in [Channel -> 0 .. MaxViewers]
    /\ retained \in Request \cup {None}
    /\ link \in BOOLEAN
    /\ inbox \in Seq(Request) /\ Len(inbox) <= MaxInbox
    /\ uploader \in [Uploader -> Goroutine]
    /\ \A u \in Uploader : uploader[u].pc = "none" <=> uploader[u].channel = None
    /\ manager \in [Channel -> Uploader \cup {None}]
    /\ \A c \in Channel : manager[c] # None => uploader[manager[c]].channel = c
    /\ fresh \subseteq Channel
    /\ faults \in 0 .. MaxFaults
    /\ forsaken \subseteq Channel

\* Every uploader that has not been told to stop is the one the manager has for its
\* channel: no channel is uploaded by two for longer than an upload, and none is out of
\* reach of StopAll.
OneUploader ==
    \A u \in Uploader :
        uploader[u].pc # "none" /\ ~uploader[u].stopped => manager[uploader[u].channel] = u

\* An uploader that is told to stop begins at most one upload more: it may have been past
\* the end of its waiting, and looks again only the next time it waits.
StopsSoon == \A u \in Uploader : uploader[u].overrun <= 1

\* While the host believes in a subscription, and so makes no other, the request is
\* there: it is being served for that long, waits for its handler, or is retained for a
\* device that is not connected. A request for one channel thus ends no other, whatever
\* the order of requests, connections and handlers, except in the ways listed at
\* forsaken: the retained request of a device that is not connected is replaced by one
\* for another channel, a message is lost with the connection, the session ends, or the
\* handler of an older request of the channel runs last.
RequestsStand ==
    \A c \in Channel \ forsaken :
        subscription[c] > 0 =>
            \/ manager[c] # None /\ uploader[manager[c]].left >= subscription[c]
            \/ \E i \in DOMAIN inbox : inbox[i].channel = c /\ inbox[i].left >= subscription[c]
            \/ ~link /\ retained # None /\ retained.channel = c /\ retained.left >= subscription[c]

\* A channel that viewers keep asking for gets a new image again and again, although its
\* requests may be lost, replaced or stopped while the host believes them active: every
\* such state ends with the subscription.
ImagesKeepComing == \A c \in Channel : []<>(c \in fresh)
=============================================================================
