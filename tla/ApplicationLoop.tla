-------------------------- MODULE ApplicationLoop --------------------------
(***************************************************************************)
(* The run loop of the application and the encoder it drives. The loop     *)
(* polls the daemon for the desired configuration, starts a worker, a      *)
(* goroutine, for every channel whose version it has not recorded as       *)
(* applied, and reports to the host when no worker has for a while. A      *)
(* worker writes the settings of its channel to the encoder, stops and     *)
(* starts the stream, records the version and reports. A newer worker of a *)
(* channel cancels the older one, which looks at its context twice, and    *)
(* does not wait for it.                                                   *)
(*                                                                         *)
(* A version fixes a content: the state ACTIVE or IDLE, and the address    *)
(* that the stream of an ACTIVE channel is sent to, which is represented   *)
(* by the version itself. 0 is no version, no address and no stream.       *)
(***************************************************************************)
EXTENDS Naturals, FiniteSets, Functions

CONSTANTS
    Channel,
    Slot,            \* bound: workers of one channel at a time
    MaxUpdates,      \* bound: updates of the desired configuration of each channel
    ActiveVersion,   \* the versions whose content says ACTIVE
    HeartbeatPolls,  \* polls without a report until one is due (60 s, a poll each 5 s)
    MaxFaults        \* bound: losses of the connection or of a report, streams that end,
                     \* polls at which the worker of the same version is not done

Version == UNION {0 .. MaxUpdates[c] : c \in Channel}

ASSUME SlotAssumption == IsFiniteSet(Slot) /\ Slot # {}

ASSUME VersionAssumption == MaxUpdates \in [Channel -> Nat] /\ ActiveVersion \subseteq Version \ {0}

ASSUME BoundAssumption == HeartbeatPolls \in Nat /\ MaxFaults \in Nat

VARIABLES
    desired,      \* the daemon's copy of the desired configuration: the versions
    latest,       \* the versions recorded as applied
    loop,         \* where the loop is, and the channels it has yet to dispatch
    wasConnected,
    introduced,   \* reportedInitialActualConfig
    quiet,        \* polls since the last report
    worker,       \* the workers of each channel
    address,      \* what is written in the encoder for each channel
    running,      \* the address of the stream that runs
    known,        \* the last report that reached the host
    faults,
    overtaken,    \* history: channels of which a worker began next to one of another version
    ended         \* history: channels whose stream has ended by itself

loopVars == <<latest, loop, wasConnected, introduced, quiet>>
encoderVars == <<address, running>>
historyVars == <<overtaken, ended>>

vars == <<desired, loopVars, worker, encoderVars, known, faults, historyVars>>

-----------------------------------------------------------------------------
NoVersions == [c \in Channel |-> 0]

\* A report: the version of each channel, and the channels whose state is ACTIVE.
Report == [version : [Channel -> Version], active : SUBSET Channel]

Loop == [pc : {"poll", "introduce", "introducing", "fetch", "dispatch", "heartbeat", "beating"},
         plan : [Channel -> Version], dispatched : BOOLEAN, report : Report]

NoReport == [version |-> NoVersions, active |-> {}]

RunningChannel(c) == running[c] # 0

GetChannelState == {c \in Channel : RunningChannel(c)}

Worker == [pc : {"none", "apply", "issue", "start", "check", "record", "send"},
           version : Version, cancelled : BOOLEAN, address : Version, report : Report]

NoWorker == [pc |-> "none", version |-> 0, cancelled |-> FALSE, address |-> 0, report |-> NoReport]

NewWorker(v) == [NoWorker EXCEPT !.pc = "apply", !.version = v]

\* The workers that may still touch the encoder or the record of versions.
AtWork(c) == {s \in Slot : worker[c][s].pc \in {"apply", "issue", "start", "check", "record"}}

\* Mutant: every slot is marked.
CancelAll(w) == [w EXCEPT !.cancelled = TRUE]

\* Cancelling matters to a worker until it has looked at its context the last time.
Cancel(w) == IF w.pc \in {"apply", "issue", "start", "check"} THEN [w EXCEPT !.cancelled = TRUE] ELSE w

Init ==
    /\ desired = NoVersions
    /\ latest = NoVersions
    /\ loop = [pc |-> "poll", plan |-> NoVersions, dispatched |-> FALSE, report |-> NoReport]
    /\ wasConnected = FALSE
    /\ introduced = FALSE
    /\ quiet = 0
    /\ worker = [c \in Channel |-> [s \in Slot |-> NoWorker]]
    /\ address = NoVersions
    /\ running = NoVersions
    /\ known = NoReport
    /\ faults = 0
    /\ overtaken = {}
    /\ ended = {}

-----------------------------------------------------------------------------
\* The environment: the host publishes a new version of a channel, and a stream ends by
\* itself. Nothing in the loop looks after a stream.
Update(c) ==
    /\ desired[c] < MaxUpdates[c]
    /\ desired' = [desired EXCEPT ![c] = @ + 1]
    /\ UNCHANGED <<loopVars, worker, encoderVars, known, faults, historyVars>>

StreamEnds(c) ==
    /\ RunningChannel(c)
    /\ faults < MaxFaults
    /\ running' = [running EXCEPT ![c] = 0]
    /\ ended' = ended \cup {c}
    /\ faults' = faults + 1
    /\ UNCHANGED <<desired, loopVars, worker, address, known, overtaken>>

-----------------------------------------------------------------------------
\* The loop.
Goto(pc) == loop' = [loop EXCEPT !.pc = pc]

CountPoll == quiet' = IF quiet < HeartbeatPolls THEN quiet + 1 ELSE quiet

\* Connect answers CONNECTED. The first time the loop waits before it goes on.
PollConnected ==
    /\ loop.pc = "poll"
    /\ wasConnected' = TRUE
    /\ CountPoll
    /\ Goto(IF introduced THEN "fetch" ELSE "introduce")
    /\ UNCHANGED <<desired, latest, introduced, worker, encoderVars, known, faults, historyVars>>

\* Connect answers with another state, or not at all: resetConfigState.
PollLost ==
    /\ loop.pc = "poll"
    /\ faults < MaxFaults
    /\ faults' = faults + 1
    /\ CountPoll
    /\ IF wasConnected
       THEN /\ worker' = [c \in Channel |-> [s \in Slot |-> Cancel(worker[c][s])]]
            /\ latest' = NoVersions
            /\ introduced' = FALSE
       ELSE UNCHANGED <<worker, latest, introduced>>
    /\ wasConnected' = FALSE
    /\ UNCHANGED <<desired, loop, encoderVars, known, historyVars>>

\* reportInitialActualConfig and reportActual: the versions are copied, then the encoder
\* is read, then the daemon is called.
Compose ==
    /\ loop.pc \in {"introduce", "heartbeat"}
    /\ loop' = [loop EXCEPT !.pc = IF @ = "introduce" THEN "introducing" ELSE "beating",
                            !.report = [version |-> latest, active |-> GetChannelState]]
    /\ UNCHANGED <<desired, latest, wasConnected, introduced, quiet, worker, encoderVars,
                   known, faults, historyVars>>

\* What becomes of a report: it reaches the host, it is lost although the daemon has
\* answered (throttled, or the connection went), or the daemon does not answer.
Delivered(report) == known' = report /\ quiet' = 0 /\ UNCHANGED faults

Dropped == faults < MaxFaults /\ faults' = faults + 1 /\ quiet' = 0 /\ UNCHANGED known

Unanswered == faults < MaxFaults /\ faults' = faults + 1 /\ UNCHANGED <<known, quiet>>

SendIntroduction ==
    /\ loop.pc = "introducing"
    /\ \/ /\ Delivered(loop.report) \/ Dropped
          /\ introduced' = TRUE
       \/ Unanswered /\ UNCHANGED introduced
    /\ loop' = [loop EXCEPT !.pc = "fetch", !.report = NoReport]
    /\ UNCHANGED <<desired, latest, wasConnected, worker, encoderVars, historyVars>>

\* The first half of processConfiguration. Without a configuration the pass ends here.
\* A version that its own worker has not recorded yet is dispatched once more.
Fetch ==
    LET again == \E c \in Channel : \E s \in AtWork(c) :
                    ~worker[c][s].cancelled /\ worker[c][s].version = desired[c]
    IN  /\ loop.pc = "fetch"
        /\ again => faults < MaxFaults
        /\ faults' = IF again THEN faults + 1 ELSE faults
        /\ \/ /\ Range(desired) = {0}
              /\ Goto("poll")
           \/ /\ Range(desired) # {0}
              /\ loop' = [loop EXCEPT !.pc = "dispatch",
                                      !.plan = [c \in Channel |-> IF latest[c] = desired[c] THEN 0
                                                                  ELSE desired[c]],
                                      !.dispatched = \E c \in Channel : latest[c] # desired[c]]
        /\ UNCHANGED <<desired, latest, wasConnected, introduced, quiet, worker, encoderVars,
                       known, historyVars>>

\* dispatchChannelWork.
Dispatch(c) ==
    LET v == loop.plan[c]
        free == {s \in Slot : worker[c][s].pc = "none"}
    IN  /\ loop.pc = "dispatch"
        /\ v # 0
        /\ free # {}
        /\ worker' = [worker EXCEPT ![c] = [s \in Slot |-> IF s = CHOOSE f \in free : TRUE THEN NewWorker(v)
                                                           ELSE Cancel(worker[c][s])]]
        /\ loop' = [loop EXCEPT !.plan[c] = 0]
        /\ overtaken' = IF \E s \in AtWork(c) : worker[c][s].version # v THEN overtaken \cup {c}
                        ELSE IF AtWork(c) = {} THEN overtaken \ {c} ELSE overtaken
        /\ UNCHANGED <<desired, latest, wasConnected, introduced, quiet, encoderVars,
                       known, faults, ended>>

\* Mutant: a report is due after a pass that has dispatched something.
EndBusyPass ==
    /\ loop.pc = "dispatch"
    /\ loop.plan = NoVersions
    /\ loop' = [loop EXCEPT !.pc = IF loop.dispatched /\ quiet = HeartbeatPolls THEN "heartbeat" ELSE "poll",
                            !.dispatched = FALSE]
    /\ UNCHANGED <<desired, latest, wasConnected, introduced, quiet, worker, encoderVars,
                   known, faults, historyVars>>

\* The end of the pass: whether a report is due.
EndPass ==
    /\ loop.pc = "dispatch"
    /\ loop.plan = NoVersions
    /\ loop' = [loop EXCEPT !.pc = IF ~loop.dispatched /\ quiet = HeartbeatPolls THEN "heartbeat" ELSE "poll",
                            !.dispatched = FALSE]
    /\ UNCHANGED <<desired, latest, wasConnected, introduced, quiet, worker, encoderVars,
                   known, faults, historyVars>>

SendHeartbeat ==
    /\ loop.pc = "beating"
    /\ Delivered(loop.report) \/ Dropped \/ Unanswered
    /\ loop' = [loop EXCEPT !.pc = "poll", !.report = NoReport]
    /\ UNCHANGED <<desired, latest, wasConnected, introduced, worker, encoderVars, historyVars>>

-----------------------------------------------------------------------------
\* channelWorkerFn, by the worker in slot s of channel c.
Step(c, s, pc) == worker' = [worker EXCEPT ![c][s].pc = pc]

End(c, s) == worker' = [worker EXCEPT ![c][s] = NoWorker]

\* What the encoder stores for the next start, whether a stream is running or not.
HandleTransportConfigChange(c, v) == address' = [address EXCEPT ![c] = v]

StopChannel(c) == running' = [running EXCEPT ![c] = 0]

\* The settings are written; then the context is looked at.
Apply(c, s) ==
    /\ worker[c][s].pc = "apply"
    /\ HandleTransportConfigChange(c, worker[c][s].version)
    /\ IF worker[c][s].cancelled THEN End(c, s) ELSE Step(c, s, "issue")
    /\ UNCHANGED <<desired, loopVars, running, known, faults, historyVars>>

\* Mutant: a stream that is running is not stopped before the start.
IssueStart(c, s) ==
    /\ worker[c][s].pc = "issue"
    /\ IF worker[c][s].version \in ActiveVersion THEN UNCHANGED running ELSE StopChannel(c)
    /\ worker' = [worker EXCEPT
           ![c][s].pc = IF worker[c][s].version \in ActiveVersion THEN "start" ELSE "check",
           ![c][s].address = IF worker[c][s].version \in ActiveVersion THEN address[c] ELSE 0]
    /\ UNCHANGED <<desired, loopVars, address, known, faults, historyVars>>

\* HandleUpdateState: IDLE stops the stream. ACTIVE reads the address and, if a stream
\* is running, stops it; the stop sleeps for some seconds, outside the lock.
Issue(c, s) ==
    /\ worker[c][s].pc = "issue"
    /\ StopChannel(c)
    /\ worker' = [worker EXCEPT
           ![c][s].pc = IF worker[c][s].version \in ActiveVersion THEN "start" ELSE "check",
           ![c][s].address = IF worker[c][s].version \in ActiveVersion THEN address[c] ELSE 0]
    /\ UNCHANGED <<desired, loopVars, address, known, faults, historyVars>>

\* StartChannel: unless a stream is running, the one of the address that was read.
StartChannel(c, s) ==
    /\ worker[c][s].pc = "start"
    /\ IF ~RunningChannel(c)
       THEN /\ running' = [running EXCEPT ![c] = worker[c][s].address]
            /\ address' = [address EXCEPT ![c] = worker[c][s].address]
            /\ ended' = ended \ {c}
       ELSE UNCHANGED <<running, address, ended>>
    /\ worker' = [worker EXCEPT ![c][s].pc = "check", ![c][s].address = 0]
    /\ UNCHANGED <<desired, loopVars, known, faults, overtaken>>

\* The context is looked at for the last time.
Check(c, s) ==
    /\ worker[c][s].pc = "check"
    /\ IF worker[c][s].cancelled THEN End(c, s) ELSE Step(c, s, "record")
    /\ UNCHANGED <<desired, loopVars, encoderVars, known, faults, historyVars>>

\* Mutant: the version that is desired now is recorded.
RecordDesired(c, s) ==
    /\ worker[c][s].pc = "record"
    /\ latest' = [latest EXCEPT ![c] = desired[c]]
    /\ worker' = [worker EXCEPT ![c][s] = [NoWorker EXCEPT !.pc = "send",
                                 !.report = [version |-> latest', active |-> GetChannelState]]]
    /\ UNCHANGED <<desired, loop, wasConnected, introduced, quiet, encoderVars,
                   known, faults, historyVars>>

\* The version is recorded, whoever has been dispatched or reset since the check, and
\* the report is put together.
Record(c, s) ==
    /\ worker[c][s].pc = "record"
    /\ latest' = [latest EXCEPT ![c] = worker[c][s].version]
    /\ worker' = [worker EXCEPT ![c][s] = [NoWorker EXCEPT !.pc = "send",
                                 !.report = [version |-> latest', active |-> GetChannelState]]]
    /\ UNCHANGED <<desired, loop, wasConnected, introduced, quiet, encoderVars,
                   known, faults, historyVars>>

ReportActual(c, s) ==
    /\ worker[c][s].pc = "send"
    /\ Delivered(worker[c][s].report) \/ Dropped \/ Unanswered
    /\ End(c, s)
    /\ UNCHANGED <<desired, latest, loop, wasConnected, introduced, encoderVars, historyVars>>

-----------------------------------------------------------------------------
RunWorker(c, s) ==
    \/ Apply(c, s)
    \/ Issue(c, s)
    \/ StartChannel(c, s)
    \/ Check(c, s)
    \/ Record(c, s)
    \/ ReportActual(c, s)

RunLoop ==
    \/ PollConnected
    \/ Compose
    \/ SendIntroduction
    \/ Fetch
    \/ \E c \in Channel : Dispatch(c)
    \/ EndPass
    \/ SendHeartbeat

Next ==
    \/ \E c \in Channel : Update(c)
    \/ \E c \in Channel : StreamEnds(c)
    \/ PollLost
    \/ RunLoop
    \/ \E c \in Channel, s \in Slot : RunWorker(c, s)

Spec == Init /\ [][Next]_vars

\* The goroutines of the loop and of the workers are scheduled, and no call they make
\* waits for ever.
FairSpec ==
    /\ Spec
    /\ WF_vars(RunLoop)
    /\ \A c \in Channel, s \in Slot : WF_vars(RunWorker(c, s))

-----------------------------------------------------------------------------
\* The types of the variables. A worker that cannot start a stream holds no address,
\* and a slot that is free holds nothing of the worker before.
TypeOK ==
    /\ {desired, latest} \subseteq [Channel -> Version]
    /\ loop \in Loop
    /\ {wasConnected, introduced} \subseteq BOOLEAN
    /\ quiet \in 0 .. HeartbeatPolls
    /\ worker \in [Channel -> [Slot -> Worker]]
    /\ \A c \in Channel, s \in Slot :
          /\ worker[c][s].pc = "none" => worker[c][s] = NoWorker
          /\ worker[c][s].address # 0 => worker[c][s].pc = "start"
    /\ {address, running} \subseteq [Channel -> Version]
    /\ known \in Report
    /\ faults \in 0 .. MaxFaults
    /\ {overtaken, ended} \subseteq SUBSET Channel

\* The stream of channel c is what version v asks for.
Obeys(c, v) == IF v \in ActiveVersion THEN running[c] = v \/ (c \in ended /\ running[c] = 0)
               ELSE running[c] = 0

\* What is recorded as applied is what the encoder does, once no worker of the channel
\* is at work: an ACTIVE channel streams to the address of that version, an IDLE one
\* does not stream. The version gate of the loop rests on it: a version that is recorded
\* wrongly is never applied. Channels on which a worker was dispatched next to one of
\* another version are excepted until a worker has had the channel for itself.
AppliedIsTrue ==
    \A c \in Channel \ overtaken :
        AtWork(c) = {} /\ latest[c] # 0 => Obeys(c, latest[c])

\* The same for every channel: "A newer version dispatched while a goroutine is running
\* cancels the in-flight goroutine so it never operates against stale settings"
\* (application_loop.go:28). The cancelled worker may be asleep between the stop and the
\* start of the stream, and starts it after the newer worker is done.
NewestWins ==
    \A c \in Channel :
        AtWork(c) = {} /\ latest[c] # 0 => Obeys(c, latest[c])

\* The device catches up with the host: when no more versions arrive, every version is
\* recorded in the end, and the encoder does what it says, through losses of the
\* connection, workers cancelled half way and polls that come too early.
DeviceConverges ==
    <>[] /\ latest = desired
         /\ \A c \in Channel \ overtaken : desired[c] # 0 => Obeys(c, desired[c])

\* The host learns it: the last report that reaches the host has the versions recorded
\* and the streams that run, although reports of two workers may be sent in the other
\* order than they were put together, and any of them may be lost.
HostLearns ==
    <>[](Range(desired) # {0} =>
            known = [version |-> latest, active |-> GetChannelState])
=============================================================================
