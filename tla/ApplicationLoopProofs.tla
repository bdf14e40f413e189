----------------------- MODULE ApplicationLoopProofs -----------------------
(***************************************************************************)
(* Proofs about ApplicationLoop, for any channels, workers of a channel,   *)
(* versions, and number of polls and faults.                               *)
(***************************************************************************)
EXTENDS ApplicationLoop, TLAPS

-----------------------------------------------------------------------------
(* The inductive invariant *)

\* The stream is what the version asks for, or a worker is about to start it.
Settled(c, v) == Obeys(c, v) \/ \E s \in Slot : worker[c][s].pc = "start"

\* A worker has left the encoder as its version asks for, as far as it has come.
WorkerFits(c, s) ==
    LET v == worker[c][s].version
        pc == worker[c][s].pc
    IN  /\ v # 0
        /\ pc \in {"issue", "start", "check", "record"} => address[c] = v
        /\ pc = "start" => v \in ActiveVersion /\ worker[c][s].address = v
        /\ pc \in {"start", "check", "record"} =>
              running[c] = 0 \/ (running[c] = v /\ v \in ActiveVersion)
        /\ pc \in {"check", "record"} => Settled(c, v)
        /\ pc = "record" => ~worker[c][s].cancelled

\* The workers at work are of one version.
OneVersion(c) == \A s, t \in AtWork(c) : worker[c][s].version = worker[c][t].version

\* What is recorded is what the encoder does, or is about to do, unless a worker that has
\* not been cancelled will record something else.
RecordFits(c) ==
    latest[c] # 0 =>
        \/ Settled(c, latest[c]) /\ \A s \in AtWork(c) : worker[c][s].version = latest[c]
        \/ \E s \in AtWork(c) : ~worker[c][s].cancelled

ChannelFits(c) == OneVersion(c) /\ (\A s \in AtWork(c) : WorkerFits(c, s)) /\ RecordFits(c)

EncoderFits == \A c \in Channel \ overtaken : ChannelFits(c)

-----------------------------------------------------------------------------
(* Lemmas about the operators *)

LEMMA VersionFits ==
    /\ \A v \in Version : v \in Nat
    /\ NoVersions \in [Channel -> Version]
    /\ \A c \in Channel : 0 \in Version
    /\ \A c \in Channel, v \in Version : v < MaxUpdates[c] => v + 1 \in Version
    /\ NoReport \in Report
BY VersionAssumption DEF Version, NoVersions, NoReport, Report

LEMMA NewFits ==
    ASSUME NEW c \in Channel, NEW v \in Version
    PROVE  /\ NoWorker \in Worker
           /\ NoWorker.pc = "none" /\ NoWorker.version = 0 /\ NoWorker.address = 0
           /\ NewWorker(v) \in Worker
           /\ NewWorker(v).pc = "apply" /\ NewWorker(v).version = v
           /\ ~NewWorker(v).cancelled /\ NewWorker(v).address = 0
<1>1. NoWorker \in Worker
    BY VersionFits DEF NoWorker, Worker
<1> QED BY <1>1 DEF NoWorker, NewWorker, Worker

LEMMA CancelFits ==
    ASSUME NEW w \in Worker
    PROVE  /\ Cancel(w) \in Worker
           /\ Cancel(w).pc = w.pc /\ Cancel(w).version = w.version /\ Cancel(w).address = w.address
           /\ w.pc \notin {"apply", "issue", "start", "check"} => Cancel(w) = w
BY DEF Cancel, Worker

LEMMA WorkerTypes == ASSUME TypeOK PROVE \A c \in Channel, s \in Slot : worker[c][s] \in Worker
BY DEF TypeOK

LEMMA ActiveFits == GetChannelState \subseteq Channel
BY DEF GetChannelState

-----------------------------------------------------------------------------
(* What the workers do *)

\* The worker in slot s of channel c becomes w.
Becomes(c, s, w) ==
    /\ worker' \in [Channel -> [Slot -> Worker]]
    /\ worker'[c][s] = w
    /\ \A t \in Slot \ {s} : worker'[c][t] = worker[c][t]
    /\ \A d \in Channel \ {c} : worker'[d] = worker[d]

LEMMA Become ==
    ASSUME TypeOK, NEW c \in Channel, NEW s \in Slot, NEW w \in Worker,
           worker' = [worker EXCEPT ![c][s] = w]
    PROVE  Becomes(c, s, w)
<1>1. worker \in [Channel -> [Slot -> Worker]]
    BY DEF TypeOK
<1>2. worker' = [worker EXCEPT ![c] = [worker[c] EXCEPT ![s] = w]]
    BY <1>1
<1>3. [worker[c] EXCEPT ![s] = w] \in [Slot -> Worker]
    BY <1>1
<1> QED BY <1>1, <1>2, <1>3 DEF Becomes

LEMMA EndEffect ==
    ASSUME TypeOK, NEW c \in Channel, NEW s \in Slot, End(c, s)
    PROVE  Becomes(c, s, NoWorker)
BY VersionFits, NewFits, Become DEF End

LEMMA StepEffect ==
    ASSUME TypeOK, NEW c \in Channel, NEW s \in Slot, NEW pc \in {"issue", "record"}, Step(c, s, pc)
    PROVE  \E w \in Worker :
              /\ Becomes(c, s, w) /\ w.pc = pc /\ w.version = worker[c][s].version
              /\ w.cancelled = worker[c][s].cancelled /\ w.address = worker[c][s].address
<1> DEFINE w == [worker[c][s] EXCEPT !.pc = pc]
<1>1. worker[c][s] \in Worker
    BY WorkerTypes
<1>2. w \in Worker /\ w.pc = pc /\ w.version = worker[c][s].version
      /\ w.cancelled = worker[c][s].cancelled /\ w.address = worker[c][s].address
    BY <1>1 DEF Worker
<1>3. worker' = [worker EXCEPT ![c][s] = w]
    BY DEF Step, TypeOK
<1> HIDE DEF w
<1> QED BY <1>2, <1>3, Become

LEMMA IssueEffect ==
    ASSUME TypeOK, NEW c \in Channel, NEW s \in Slot, Issue(c, s)
    PROVE  \E w \in Worker :
              /\ Becomes(c, s, w) /\ w.version = worker[c][s].version
              /\ w.cancelled = worker[c][s].cancelled
              /\ worker[c][s].version \in ActiveVersion => w.pc = "start" /\ w.address = address[c]
              /\ worker[c][s].version \notin ActiveVersion => w.pc = "check" /\ w.address = 0
<1> DEFINE pc == IF worker[c][s].version \in ActiveVersion THEN "start" ELSE "check"
           a == IF worker[c][s].version \in ActiveVersion THEN address[c] ELSE 0
           w == [worker[c][s] EXCEPT !.pc = pc, !.address = a]
<1>1. worker[c][s] \in Worker /\ a \in Version
    BY WorkerTypes, VersionFits DEF TypeOK
<1>2. w \in Worker /\ w.pc = pc /\ w.version = worker[c][s].version
      /\ w.cancelled = worker[c][s].cancelled /\ w.address = a
    BY <1>1 DEF Worker
<1>3. worker' = [worker EXCEPT ![c][s] = w]
  <2>1. worker' = [worker EXCEPT ![c][s].pc = pc, ![c][s].address = a]
      BY DEF Issue
  <2> HIDE DEF pc, a
  <2> QED BY <2>1 DEF TypeOK
<1>4. Becomes(c, s, w)
  <2> HIDE DEF w
  <2> QED BY <1>2, <1>3, Become
<1> QED BY <1>2, <1>4

LEMMA StartEffect ==
    ASSUME TypeOK, NEW c \in Channel, NEW s \in Slot, StartChannel(c, s)
    PROVE  \E w \in Worker :
              /\ Becomes(c, s, w) /\ w.pc = "check" /\ w.version = worker[c][s].version
              /\ w.cancelled = worker[c][s].cancelled /\ w.address = 0
<1> DEFINE w == [worker[c][s] EXCEPT !.pc = "check", !.address = 0]
<1>1. worker[c][s] \in Worker
    BY WorkerTypes
<1>2. w \in Worker /\ w.pc = "check" /\ w.version = worker[c][s].version
      /\ w.cancelled = worker[c][s].cancelled /\ w.address = 0
    BY <1>1, VersionFits DEF Worker
<1>3. worker' = [worker EXCEPT ![c][s] = w]
    BY DEF StartChannel, TypeOK
<1>4. Becomes(c, s, w)
  <2> HIDE DEF w
  <2> QED BY <1>2, <1>3, Become
<1> QED BY <1>2, <1>4

LEMMA RecordEffect ==
    ASSUME TypeOK, NEW c \in Channel, NEW s \in Slot, Record(c, s)
    PROVE  /\ \E w \in Worker : Becomes(c, s, w) /\ w.pc = "send" /\ w.version = 0 /\ w.address = 0
           /\ latest' \in [Channel -> Version]
           /\ latest'[c] = worker[c][s].version /\ \A d \in Channel \ {c} : latest'[d] = latest[d]
<1> DEFINE r == [version |-> latest', active |-> GetChannelState]
           w == [NoWorker EXCEPT !.pc = "send", !.report = r]
<1>1. worker[c][s].version \in Version
    BY WorkerTypes DEF Worker
<1>2. /\ latest' \in [Channel -> Version]
      /\ latest'[c] = worker[c][s].version /\ \A d \in Channel \ {c} : latest'[d] = latest[d]
    BY <1>1 DEF Record, TypeOK
<1>3. r \in Report
    BY <1>2, ActiveFits DEF Report
<1>4. w \in Worker /\ w.pc = "send" /\ w.version = 0 /\ w.address = 0
  <2> HIDE DEF r
  <2> QED BY <1>1, <1>3, NewFits DEF Worker, NoWorker
<1>5. worker' = [worker EXCEPT ![c][s] = w]
    BY DEF Record
<1>6. Becomes(c, s, w)
  <2> HIDE DEF w
  <2> QED BY <1>4, <1>5, Become
<1> QED BY <1>2, <1>4, <1>6

LEMMA DispatchEffect ==
    ASSUME TypeOK, NEW c \in Channel, Dispatch(c)
    PROVE  /\ worker' \in [Channel -> [Slot -> Worker]]
           /\ \A d \in Channel \ {c} : worker'[d] = worker[d]
           /\ \E s \in Slot :
                 /\ worker[c][s].pc = "none" /\ worker'[c][s] = NewWorker(loop.plan[c])
                 /\ \A t \in Slot \ {s} : worker'[c][t] = Cancel(worker[c][t])
<1>1. PICK s \in Slot :
          /\ worker[c][s].pc = "none"
          /\ s = CHOOSE f \in {f \in Slot : worker[c][f].pc = "none"} : TRUE
    BY DEF Dispatch
<1> DEFINE g == [t \in Slot |-> IF t = s THEN NewWorker(loop.plan[c]) ELSE Cancel(worker[c][t])]
<1>2. worker' = [worker EXCEPT ![c] = g]
    BY <1>1 DEF Dispatch
<1>3. loop.plan[c] \in Version
    BY DEF TypeOK, Loop
<1>4. g \in [Slot -> Worker]
    BY <1>3, NewFits, CancelFits, WorkerTypes
<1>5. \A t \in Slot : g[t] = IF t = s THEN NewWorker(loop.plan[c]) ELSE Cancel(worker[c][t])
    OBVIOUS
<1> HIDE DEF g
<1>6. /\ worker' \in [Channel -> [Slot -> Worker]]
      /\ \A d \in Channel \ {c} : worker'[d] = worker[d]
      /\ worker'[c] = g
    BY <1>2, <1>4 DEF TypeOK
<1> QED BY <1>1, <1>5, <1>6

LEMMA ResetEffect ==
    ASSUME TypeOK, PollLost, wasConnected
    PROVE  /\ worker' \in [Channel -> [Slot -> Worker]]
           /\ \A c \in Channel, s \in Slot : worker'[c][s] = Cancel(worker[c][s])
           /\ latest' = NoVersions
BY WorkerTypes, CancelFits DEF PollLost

-----------------------------------------------------------------------------
(* Types *)

\* The conditions of the type on a single worker.
SlotFits(w) == (w.pc = "none" => w = NoWorker) /\ (w.address # 0 => w.pc = "start")

LEMMA TypeInit == Init => TypeOK
<1> SUFFICES ASSUME Init PROVE TypeOK
    OBVIOUS
<1>1. {wasConnected, introduced} \subseteq BOOLEAN
    BY Zenon DEF Init
<1>2. worker \in [Channel -> [Slot -> Worker]]
    BY VersionFits, NewFits DEF Init
<1>3. \A c \in Channel, s \in Slot : worker[c][s] = NoWorker
    BY DEF Init
<1>4. loop \in Loop
    BY VersionFits DEF Init, Loop
<1>5. \A c \in Channel, s \in Slot :
          /\ worker[c][s].pc = "none" => worker[c][s] = NoWorker
          /\ worker[c][s].address # 0 => worker[c][s].pc = "start"
    BY <1>3, VersionFits, NewFits
<1> QED BY <1>1, <1>2, <1>4, <1>5, VersionFits, BoundAssumption DEF Init, TypeOK

LEMMA BecomesKeepsTypes ==
    ASSUME TypeOK, NEW c \in Channel, NEW s \in Slot, NEW w \in Worker, Becomes(c, s, w), SlotFits(w)
    PROVE  /\ worker' \in [Channel -> [Slot -> Worker]]
           /\ \A d \in Channel, t \in Slot :
                 /\ worker'[d][t].pc = "none" => worker'[d][t] = NoWorker
                 /\ worker'[d][t].address # 0 => worker'[d][t].pc = "start"
BY SMTT(30) DEF TypeOK, Becomes, SlotFits

\* What a report may do to what the host knows.
LEMMA SendFits ==
    ASSUME TypeOK, NEW r \in Report, Delivered(r) \/ Dropped \/ Unanswered
    PROVE  known' \in Report /\ quiet' \in 0 .. HeartbeatPolls /\ faults' \in 0 .. MaxFaults
BY BoundAssumption DEF TypeOK, Delivered, Dropped, Unanswered

LEMMA TypeStep == ASSUME TypeOK, [Next]_vars PROVE TypeOK'
<1> USE BoundAssumption
<1>1. ASSUME NEW c \in Channel, Update(c) PROVE TypeOK'
  <2>1. desired[c] \in Version /\ desired[c] + 1 \in Version
      BY <1>1, VersionFits DEF Update, TypeOK
  <2>2. desired' \in [Channel -> Version]
      BY <1>1, <2>1 DEF Update, TypeOK
  <2> QED BY <1>1, <2>2 DEF Update, TypeOK, loopVars, encoderVars, historyVars
<1>2. ASSUME NEW c \in Channel, StreamEnds(c) PROVE TypeOK'
  <2>1. running' \in [Channel -> Version] /\ ended' \in SUBSET Channel /\ faults' \in 0 .. MaxFaults
      BY <1>2, VersionFits DEF StreamEnds, TypeOK
  <2> QED BY <1>2, <2>1 DEF StreamEnds, TypeOK, loopVars
<1>3. CASE PollConnected
  <2>1. wasConnected' \in BOOLEAN
      BY <1>3, Zenon DEF PollConnected
  <2>2. loop' \in Loop /\ quiet' \in 0 .. HeartbeatPolls
      BY <1>3 DEF PollConnected, Goto, CountPoll, TypeOK, Loop
  <2> QED BY <1>3, <2>1, <2>2 DEF PollConnected, TypeOK, encoderVars, historyVars
<1>4. CASE PollLost
  <2>1. wasConnected' \in BOOLEAN
      BY <1>4, Zenon DEF PollLost
  <2>2. quiet' \in 0 .. HeartbeatPolls /\ faults' \in 0 .. MaxFaults
      BY <1>4 DEF PollLost, CountPoll, TypeOK
  <2>3. CASE wasConnected
    <3>1. introduced' \in BOOLEAN
        BY <1>4, <2>3, Zenon DEF PollLost
    <3>2. \A c \in Channel, s \in Slot :
              /\ worker'[c][s].pc = "none" => worker'[c][s] = NoWorker
              /\ worker'[c][s].address # 0 => worker'[c][s].pc = "start"
      <4> TAKE c \in Channel, s \in Slot
      <4>1. worker[c][s] \in Worker /\ worker'[c][s] = Cancel(worker[c][s])
          BY <1>4, <2>3, ResetEffect, WorkerTypes
      <4>2. SlotFits(worker[c][s])
          BY DEF TypeOK, SlotFits
      <4> QED BY <4>1, <4>2, CancelFits DEF SlotFits
    <3> QED BY <1>4, <2>1, <2>2, <2>3, <3>1, <3>2, ResetEffect, VersionFits
            DEF PollLost, TypeOK, encoderVars, historyVars
  <2>4. CASE ~wasConnected
      BY <1>4, <2>1, <2>2, <2>4 DEF PollLost, TypeOK, encoderVars, historyVars
  <2> QED BY <2>3, <2>4
<1>5. CASE Compose
  <2> DEFINE r == [version |-> latest, active |-> GetChannelState]
  <2>1. r \in Report
      BY ActiveFits DEF Report, TypeOK
  <2>2. loop' \in Loop
      BY <1>5, <2>1 DEF Compose, TypeOK, Loop
  <2> QED BY <1>5, <2>2 DEF Compose, TypeOK, encoderVars, historyVars
<1>6. CASE SendIntroduction
  <2>1. loop.report \in Report
      BY DEF TypeOK, Loop
  <2>2. known' \in Report /\ quiet' \in 0 .. HeartbeatPolls /\ faults' \in 0 .. MaxFaults
      BY <1>6, <2>1, SendFits DEF SendIntroduction
  <2>3. introduced' = TRUE \/ introduced' = introduced
      BY <1>6 DEF SendIntroduction
  <2>4. introduced' \in BOOLEAN
      BY <2>3 DEF TypeOK
  <2>5. loop' \in Loop
      BY <1>6, VersionFits DEF SendIntroduction, TypeOK, Loop
  <2> QED BY <1>6, <2>2, <2>4, <2>5 DEF SendIntroduction, TypeOK, encoderVars, historyVars
<1>7. CASE Fetch
  <2>1. faults' \in 0 .. MaxFaults
      BY <1>7 DEF Fetch, TypeOK
  <2>2. loop' \in Loop
    <3>1. CASE loop' = [loop EXCEPT !.pc = "poll"]
        BY <3>1 DEF TypeOK, Loop
    <3>2. ASSUME NEW p, NEW b \in BOOLEAN, p \in [Channel -> Version],
                 loop' = [loop EXCEPT !.pc = "dispatch", !.plan = p, !.dispatched = b]
          PROVE  loop' \in Loop
        BY <3>2 DEF TypeOK, Loop
    <3>3. [c \in Channel |-> IF latest[c] = desired[c] THEN 0 ELSE desired[c]] \in [Channel -> Version]
        BY VersionFits DEF TypeOK
    <3>4. (\E c \in Channel : latest[c] # desired[c]) \in BOOLEAN
        BY Zenon
    <3> QED BY <1>7, <3>1, <3>2, <3>3, <3>4 DEF Fetch, Goto
  <2> QED BY <1>7, <2>1, <2>2 DEF Fetch, TypeOK, encoderVars, historyVars
<1>8. ASSUME NEW c \in Channel, Dispatch(c) PROVE TypeOK'
  <2>1. \A d \in Channel, t \in Slot :
            /\ worker'[d][t].pc = "none" => worker'[d][t] = NoWorker
            /\ worker'[d][t].address # 0 => worker'[d][t].pc = "start"
    <3>1. loop.plan[c] \in Version
        BY DEF TypeOK, Loop
    <3>2. \A t \in Slot :
            /\ worker'[c][t].pc = "none" => worker'[c][t] = NoWorker
            /\ worker'[c][t].address # 0 => worker'[c][t].pc = "start"
      <4>1. PICK s \in Slot :
                /\ worker'[c][s] = NewWorker(loop.plan[c])
                /\ \A t \in Slot \ {s} : worker'[c][t] = Cancel(worker[c][t])
          BY <1>8, DispatchEffect
      <4>2. SlotFits(worker'[c][s])
          BY <3>1, <4>1, NewFits DEF SlotFits
      <4>3. ASSUME NEW t \in Slot \ {s} PROVE SlotFits(worker'[c][t])
        <5>1. worker[c][t] \in Worker /\ SlotFits(worker[c][t])
            BY WorkerTypes DEF TypeOK, SlotFits
        <5> QED BY <4>1, <5>1, CancelFits DEF SlotFits
      <4> QED BY <4>2, <4>3 DEF SlotFits
    <3> QED BY SMTT(30), <1>8, <3>2, DispatchEffect DEF TypeOK
  <2>2. loop' \in Loop
    <3>1. [loop.plan EXCEPT ![c] = 0] \in [Channel -> Version]
        BY VersionFits DEF TypeOK, Loop
    <3>2. loop' = [loop EXCEPT !.plan = [loop.plan EXCEPT ![c] = 0]]
        BY <1>8 DEF Dispatch, TypeOK, Loop
    <3> QED BY <3>1, <3>2 DEF TypeOK, Loop
  <2>3. overtaken' \in SUBSET Channel
      BY <1>8 DEF Dispatch, TypeOK
  <2>4. worker' \in [Channel -> [Slot -> Worker]]
      BY <1>8, DispatchEffect
  <2>5. UNCHANGED <<desired, latest, wasConnected, introduced, quiet, address, running, known, faults, ended>>
      BY <1>8 DEF Dispatch, encoderVars
  <2> QED BY <2>1, <2>2, <2>3, <2>4, <2>5 DEF TypeOK
<1>9. CASE EndPass
  <2>1. loop' \in Loop
    <3>1. FALSE \in BOOLEAN
        OBVIOUS
    <3> QED BY <1>9 DEF EndPass, TypeOK, Loop
  <2> QED BY <1>9, <2>1 DEF EndPass, TypeOK, encoderVars, historyVars
<1>10. CASE SendHeartbeat
  <2>1. loop.report \in Report
      BY DEF TypeOK, Loop
  <2>2. known' \in Report /\ quiet' \in 0 .. HeartbeatPolls /\ faults' \in 0 .. MaxFaults
      BY <1>10, <2>1, SendFits DEF SendHeartbeat
  <2>3. loop' \in Loop
      BY <1>10, VersionFits DEF SendHeartbeat, TypeOK, Loop
  <2> QED BY <1>10, <2>2, <2>3 DEF SendHeartbeat, TypeOK, encoderVars, historyVars
<1>11. ASSUME NEW c \in Channel, NEW s \in Slot, Apply(c, s) PROVE TypeOK'
  <2>1. worker[c][s] \in Worker /\ SlotFits(worker[c][s]) /\ worker[c][s].pc = "apply"
      BY <1>11, WorkerTypes DEF Apply, TypeOK, SlotFits
  <2>2. \E w \in Worker : Becomes(c, s, w) /\ SlotFits(w)
    <3>1. CASE worker[c][s].cancelled
      <4>1. Becomes(c, s, NoWorker)
          BY <1>11, <3>1, EndEffect DEF Apply
      <4> QED BY <4>1, <2>1, NewFits, VersionFits DEF SlotFits
    <3>2. CASE ~worker[c][s].cancelled
        BY <1>11, <2>1, <3>2, StepEffect DEF Apply, SlotFits
    <3> QED BY <3>1, <3>2
  <2>3. address' \in [Channel -> Version]
      BY <1>11, <2>1 DEF Apply, HandleTransportConfigChange, TypeOK, Worker
  <2> QED BY <1>11, <2>2, <2>3, BecomesKeepsTypes DEF Apply, TypeOK, loopVars, historyVars
<1>12. ASSUME NEW c \in Channel, NEW s \in Slot, Issue(c, s) PROVE TypeOK'
  <2>1. \E w \in Worker : Becomes(c, s, w) /\ SlotFits(w)
      BY <1>12, IssueEffect DEF SlotFits
  <2>2. running' \in [Channel -> Version]
      BY <1>12, VersionFits DEF Issue, StopChannel, TypeOK
  <2> QED BY <1>12, <2>1, <2>2, BecomesKeepsTypes DEF Issue, TypeOK, loopVars, historyVars
<1>13. ASSUME NEW c \in Channel, NEW s \in Slot, StartChannel(c, s) PROVE TypeOK'
  <2>1. \E w \in Worker : Becomes(c, s, w) /\ SlotFits(w)
      BY <1>13, StartEffect DEF SlotFits
  <2>2. worker[c][s].address \in Version
      BY WorkerTypes DEF Worker
  <2>3. {address', running'} \subseteq [Channel -> Version] /\ ended' \in SUBSET Channel
    <3>1. CASE RunningChannel(c)
        BY <1>13, <3>1 DEF StartChannel, TypeOK
    <3>2. CASE ~RunningChannel(c)
      <4>1. /\ running' = [running EXCEPT ![c] = worker[c][s].address]
            /\ address' = [address EXCEPT ![c] = worker[c][s].address]
            /\ ended' = ended \ {c}
          BY <1>13, <3>2 DEF StartChannel
      <4> QED BY <2>2, <4>1 DEF TypeOK
    <3> QED BY <3>1, <3>2
  <2> QED BY <1>13, <2>1, <2>3, BecomesKeepsTypes DEF StartChannel, TypeOK, loopVars
<1>14. ASSUME NEW c \in Channel, NEW s \in Slot, Check(c, s) PROVE TypeOK'
  <2>1. worker[c][s] \in Worker /\ SlotFits(worker[c][s]) /\ worker[c][s].pc = "check"
      BY <1>14, WorkerTypes DEF Check, TypeOK, SlotFits
  <2>2. \E w \in Worker : Becomes(c, s, w) /\ SlotFits(w)
    <3>1. CASE worker[c][s].cancelled
      <4>1. Becomes(c, s, NoWorker)
          BY <1>14, <3>1, EndEffect DEF Check
      <4> QED BY <4>1, <2>1, NewFits, VersionFits DEF SlotFits
    <3>2. CASE ~worker[c][s].cancelled
        BY <1>14, <2>1, <3>2, StepEffect DEF Check, SlotFits
    <3> QED BY <3>1, <3>2
  <2> QED BY <1>14, <2>2, BecomesKeepsTypes DEF Check, TypeOK, loopVars, encoderVars, historyVars
<1>15. ASSUME NEW c \in Channel, NEW s \in Slot, Record(c, s) PROVE TypeOK'
  <2>1. \E w \in Worker : Becomes(c, s, w) /\ SlotFits(w)
      BY <1>15, RecordEffect DEF SlotFits
  <2>2. latest' \in [Channel -> Version]
      BY <1>15, RecordEffect
  <2>3. UNCHANGED <<desired, loop, wasConnected, introduced, quiet, encoderVars, known, faults, historyVars>>
      BY <1>15 DEF Record
  <2> QED BY <2>1, <2>2, <2>3, BecomesKeepsTypes DEF TypeOK, encoderVars, historyVars
<1>16. ASSUME NEW c \in Channel, NEW s \in Slot, ReportActual(c, s) PROVE TypeOK'
  <2>1. worker[c][s].report \in Report
      BY WorkerTypes DEF Worker
  <2>2. known' \in Report /\ quiet' \in 0 .. HeartbeatPolls /\ faults' \in 0 .. MaxFaults
      BY <1>16, <2>1, SendFits DEF ReportActual
  <2>3. NoWorker \in Worker /\ Becomes(c, s, NoWorker) /\ SlotFits(NoWorker)
      BY <1>16, EndEffect, VersionFits, NewFits DEF ReportActual, SlotFits
  <2> QED BY <1>16, <2>2, <2>3, BecomesKeepsTypes DEF ReportActual, TypeOK, encoderVars, historyVars
<1>17. CASE UNCHANGED vars
    BY <1>17 DEF vars, TypeOK, loopVars, encoderVars, historyVars
<1> QED
    BY <1>1, <1>2, <1>3, <1>4, <1>5, <1>6, <1>7, <1>8, <1>9, <1>10, <1>11, <1>12, <1>13, <1>14,
       <1>15, <1>16, <1>17
    DEF Next, RunLoop, RunWorker

-----------------------------------------------------------------------------
(* What is recorded as applied *)

Working == {"apply", "issue", "start", "check", "record"}

\* A step that does not touch the channel.
LEMMA ChannelStill ==
    ASSUME NEW c \in Channel, ChannelFits(c), worker'[c] = worker[c], latest'[c] = latest[c],
           address'[c] = address[c], running'[c] = running[c], c \in ended' <=> c \in ended
    PROVE  ChannelFits(c)'
<1>1. AtWork(c)' = AtWork(c)
    BY DEF AtWork
<1>2. \A v : Settled(c, v) => Settled(c, v)'
    BY DEF Settled, Obeys
<1>3. ASSUME NEW s \in AtWork(c) PROVE WorkerFits(c, s)'
  <2>1. WorkerFits(c, s)
      BY DEF ChannelFits
  <2> QED BY <1>1, <1>2, <2>1 DEF WorkerFits
<1>4. RecordFits(c)'
    BY <1>1, <1>2 DEF ChannelFits, RecordFits
<1>5. OneVersion(c)'
    BY <1>1 DEF ChannelFits, OneVersion
<1> QED BY <1>1, <1>3, <1>4, <1>5 DEF ChannelFits

\* A worker goes on: it stays at work, with its version.
LEMMA GoesOn ==
    ASSUME NEW c \in Channel, NEW s \in AtWork(c), ChannelFits(c),
           NEW w \in Worker, Becomes(c, s, w), w.pc \in Working,
           w.version = worker[c][s].version, w.cancelled = worker[c][s].cancelled
    PROVE  /\ AtWork(c)' = AtWork(c) /\ OneVersion(c)'
           /\ \A t \in AtWork(c) : /\ worker'[c][t].version = worker[c][s].version
                                   /\ worker'[c][t].cancelled = worker[c][t].cancelled
<1>1. AtWork(c)' = AtWork(c)
    BY DEF AtWork, Becomes, Working
<1>2. \A t \in AtWork(c) : /\ worker'[c][t].version = worker[c][s].version
                           /\ worker'[c][t].cancelled = worker[c][t].cancelled
    BY DEF AtWork, Becomes, ChannelFits, OneVersion
<1> QED BY <1>1, <1>2 DEF OneVersion

\* A worker leaves: the others stay as they are.
LEMMA Leaves ==
    ASSUME NEW c \in Channel, NEW s \in Slot, ChannelFits(c),
           NEW w \in Worker, Becomes(c, s, w), w.pc \notin Working
    PROVE  /\ AtWork(c)' = AtWork(c) \ {s} /\ OneVersion(c)'
           /\ \A t \in AtWork(c)' : worker'[c][t] = worker[c][t]
<1>1. AtWork(c)' = AtWork(c) \ {s}
    BY DEF AtWork, Becomes, Working
<1>2. \A t \in AtWork(c)' : worker'[c][t] = worker[c][t]
    BY <1>1 DEF AtWork, Becomes
<1> QED BY <1>1, <1>2 DEF ChannelFits, OneVersion

LEMMA ApplyFits ==
    ASSUME TypeOK, NEW c \in Channel, NEW s \in Slot, ChannelFits(c), Apply(c, s)
    PROVE  ChannelFits(c)'
<1> DEFINE v == worker[c][s].version
<1>1. s \in AtWork(c) /\ worker[c][s] \in Worker /\ worker[c][s].pc = "apply"
    BY WorkerTypes DEF Apply, AtWork
<1>2. /\ address'[c] = v /\ UNCHANGED <<latest, running, ended>>
    BY DEF Apply, HandleTransportConfigChange, TypeOK, loopVars, historyVars
<1>3. \A t \in AtWork(c) : WorkerFits(c, t) /\ worker[c][t].version = v
    BY <1>1 DEF ChannelFits, OneVersion
<1>4. CASE worker[c][s].cancelled
  <2>1. Becomes(c, s, NoWorker) /\ NoWorker \in Worker /\ NoWorker.pc \notin Working
      BY <1>4, EndEffect, VersionFits, NewFits DEF Apply, Working
  <2>2. /\ AtWork(c)' = AtWork(c) \ {s} /\ OneVersion(c)'
        /\ \A t \in AtWork(c)' : worker'[c][t] = worker[c][t]
      BY <2>1, Leaves
  <2>3. \A u : Settled(c, u) => Settled(c, u)'
      BY <1>1, <1>2, <2>1 DEF Settled, Obeys, Becomes
  <2>4. ASSUME NEW t \in AtWork(c)' PROVE WorkerFits(c, t)'
    <3>1. WorkerFits(c, t) /\ worker'[c][t] = worker[c][t] /\ worker[c][t].version = v
        BY <1>3, <2>2
    <3> QED BY <1>2, <2>3, <3>1 DEF WorkerFits
  <2>5. RecordFits(c)'
      BY <1>2, <1>4, <2>2, <2>3 DEF ChannelFits, RecordFits
  <2> QED BY <2>2, <2>4, <2>5 DEF ChannelFits
<1>5. CASE ~worker[c][s].cancelled
  <2>1. PICK w \in Worker :
            /\ Becomes(c, s, w) /\ w.pc = "issue" /\ w.version = v
            /\ w.cancelled = worker[c][s].cancelled
      BY <1>5, StepEffect DEF Apply
  <2>2. /\ AtWork(c)' = AtWork(c) /\ OneVersion(c)'
        /\ \A t \in AtWork(c) : /\ worker'[c][t].version = v
                                /\ worker'[c][t].cancelled = worker[c][t].cancelled
      BY <1>1, <2>1, GoesOn DEF Working
  <2>3. \A u : Settled(c, u) => Settled(c, u)'
      BY <1>1, <1>2, <2>1 DEF Settled, Obeys, Becomes
  <2>4. ASSUME NEW t \in AtWork(c) PROVE WorkerFits(c, t)'
    <3>1. WorkerFits(c, t) /\ worker[c][t].version = v /\ worker'[c][t].version = v /\ t \in Slot
        BY <1>3, <2>2 DEF AtWork
    <3>2. CASE t = s
        BY <1>2, <2>1, <3>1, <3>2 DEF WorkerFits, Becomes
    <3>3. CASE t # s
      <4>1. worker'[c][t] = worker[c][t]
          BY <2>1, <3>1, <3>3 DEF Becomes
      <4> QED BY <1>2, <2>3, <3>1, <4>1 DEF WorkerFits
    <3> QED BY <3>2, <3>3
  <2>5. RecordFits(c)'
      BY <1>1, <1>2, <1>5, <2>2 DEF RecordFits
  <2> QED BY <2>2, <2>4, <2>5 DEF ChannelFits
<1> QED BY <1>4, <1>5

LEMMA IssueFits ==
    ASSUME TypeOK, NEW c \in Channel, NEW s \in Slot, ChannelFits(c), Issue(c, s)
    PROVE  ChannelFits(c)'
<1>0. PICK v \in Version : v = worker[c][s].version
    BY WorkerTypes DEF Worker
<1>1. s \in AtWork(c) /\ worker[c][s] \in Worker /\ worker[c][s].pc = "issue"
    BY WorkerTypes DEF Issue, AtWork
<1>2. running'[c] = 0 /\ UNCHANGED <<latest, address, ended>>
    BY DEF Issue, StopChannel, TypeOK, loopVars, historyVars
<1>3. \A t \in AtWork(c) : WorkerFits(c, t) /\ worker[c][t].version = v
    BY <1>0, <1>1 DEF ChannelFits, OneVersion
<1>4. PICK w \in Worker :
          /\ Becomes(c, s, w) /\ w.version = v
          /\ w.cancelled = worker[c][s].cancelled
          /\ v \in ActiveVersion => w.pc = "start" /\ w.address = address[c]
          /\ v \notin ActiveVersion => w.pc = "check" /\ w.address = 0
    BY <1>0, IssueEffect
<1>5. /\ AtWork(c)' = AtWork(c) /\ OneVersion(c)'
      /\ \A t \in AtWork(c) : /\ worker'[c][t].version = v
                              /\ worker'[c][t].cancelled = worker[c][t].cancelled
    BY <1>0, <1>1, <1>4, GoesOn DEF Working
<1>6. Settled(c, v)'
    BY <1>1, <1>2, <1>4 DEF Settled, Obeys, Becomes
<1>7. ASSUME NEW t \in AtWork(c) PROVE WorkerFits(c, t)'
  <2>1. WorkerFits(c, t) /\ worker[c][t].version = v /\ worker'[c][t].version = v /\ t \in Slot
      BY <1>3, <1>5 DEF AtWork
  <2>2. CASE t = s
      BY <1>1, <1>2, <1>4, <1>6, <2>1, <2>2 DEF WorkerFits, Becomes
  <2>3. CASE t # s
    <3>1. worker'[c][t] = worker[c][t]
        BY <1>4, <2>1, <2>3 DEF Becomes
    <3> QED BY <1>2, <1>6, <2>1, <3>1 DEF WorkerFits
  <2> QED BY <2>2, <2>3
<1>8. RecordFits(c)'
  <2>1. CASE \E t \in AtWork(c) : ~worker[c][t].cancelled
      BY <1>5, <2>1 DEF RecordFits
  <2>2. CASE latest[c] # 0 /\ \A t \in AtWork(c) : worker[c][t].version = latest[c]
    <3>1. latest'[c] = v
        BY <1>0, <1>1, <1>2, <2>2
    <3> QED BY <1>5, <1>6, <3>1 DEF RecordFits
  <2> QED BY <1>2, <2>1, <2>2 DEF ChannelFits, RecordFits
<1> QED BY <1>5, <1>7, <1>8 DEF ChannelFits

LEMMA StartFits ==
    ASSUME TypeOK, NEW c \in Channel, NEW s \in Slot, ChannelFits(c), StartChannel(c, s)
    PROVE  ChannelFits(c)'
<1>0. PICK v \in Version : v = worker[c][s].version
    BY WorkerTypes DEF Worker
<1>1. s \in AtWork(c) /\ worker[c][s] \in Worker /\ worker[c][s].pc = "start"
    BY WorkerTypes DEF StartChannel, AtWork
<1>2. \A t \in AtWork(c) : WorkerFits(c, t) /\ worker[c][t].version = v
    BY <1>0, <1>1 DEF ChannelFits, OneVersion
<1>3. /\ v # 0 /\ v \in ActiveVersion /\ worker[c][s].address = v /\ address[c] = v
      /\ running[c] \in {0, v}
    BY <1>1, <1>2 DEF WorkerFits
<1>4. address'[c] = v /\ running'[c] = v /\ latest' = latest
  <2>1. CASE RunningChannel(c)
      BY <1>3, <2>1 DEF StartChannel, RunningChannel, loopVars
  <2>2. CASE ~RunningChannel(c)
      BY <1>3, <2>2 DEF StartChannel, TypeOK, loopVars
  <2> QED BY <2>1, <2>2
<1>5. PICK w \in Worker :
          /\ Becomes(c, s, w) /\ w.pc = "check" /\ w.version = v
          /\ w.cancelled = worker[c][s].cancelled
    BY <1>0, StartEffect
<1>6. /\ AtWork(c)' = AtWork(c) /\ OneVersion(c)'
      /\ \A t \in AtWork(c) : /\ worker'[c][t].version = v
                              /\ worker'[c][t].cancelled = worker[c][t].cancelled
    BY <1>0, <1>1, <1>5, GoesOn DEF Working
<1>7. Settled(c, v)'
    BY <1>3, <1>4 DEF Settled, Obeys
<1>8. ASSUME NEW t \in AtWork(c) PROVE WorkerFits(c, t)'
  <2>1. WorkerFits(c, t) /\ worker[c][t].version = v /\ worker'[c][t].version = v /\ t \in Slot
      BY <1>2, <1>6 DEF AtWork
  <2>2. CASE t = s
      BY <1>3, <1>4, <1>5, <1>7, <2>1, <2>2 DEF WorkerFits, Becomes
  <2>3. CASE t # s
    <3>1. worker'[c][t] = worker[c][t]
        BY <1>5, <2>1, <2>3 DEF Becomes
    <3> QED BY <1>3, <1>4, <1>7, <2>1, <3>1 DEF WorkerFits
  <2> QED BY <2>2, <2>3
<1>9. RecordFits(c)'
  <2>1. CASE \E t \in AtWork(c) : ~worker[c][t].cancelled
      BY <1>6, <2>1 DEF RecordFits
  <2>2. CASE latest[c] # 0 /\ \A t \in AtWork(c) : worker[c][t].version = latest[c]
    <3>1. latest'[c] = v
        BY <1>0, <1>1, <1>4, <2>2
    <3> QED BY <1>6, <1>7, <3>1 DEF RecordFits
  <2> QED BY <1>4, <2>1, <2>2 DEF ChannelFits, RecordFits
<1> QED BY <1>6, <1>8, <1>9 DEF ChannelFits

LEMMA CheckFits ==
    ASSUME TypeOK, NEW c \in Channel, NEW s \in Slot, ChannelFits(c), Check(c, s)
    PROVE  ChannelFits(c)'
<1> DEFINE v == worker[c][s].version
<1>1. s \in AtWork(c) /\ worker[c][s] \in Worker /\ worker[c][s].pc = "check"
    BY WorkerTypes DEF Check, AtWork
<1>2. /\ UNCHANGED <<latest, address, running, ended>>
    BY DEF Check, loopVars, encoderVars, historyVars
<1>3. \A t \in AtWork(c) : WorkerFits(c, t) /\ worker[c][t].version = v
    BY <1>1 DEF ChannelFits, OneVersion
<1>4. CASE worker[c][s].cancelled
  <2>1. Becomes(c, s, NoWorker) /\ NoWorker \in Worker /\ NoWorker.pc \notin Working
      BY <1>4, EndEffect, VersionFits, NewFits DEF Check, Working
  <2>2. /\ AtWork(c)' = AtWork(c) \ {s} /\ OneVersion(c)'
        /\ \A t \in AtWork(c)' : worker'[c][t] = worker[c][t]
      BY <2>1, Leaves
  <2>3. \A u : Settled(c, u) => Settled(c, u)'
      BY <1>1, <1>2, <2>1 DEF Settled, Obeys, Becomes
  <2>4. ASSUME NEW t \in AtWork(c)' PROVE WorkerFits(c, t)'
    <3>1. WorkerFits(c, t) /\ worker'[c][t] = worker[c][t]
        BY <1>3, <2>2
    <3> QED BY <1>2, <2>3, <3>1 DEF WorkerFits
  <2>5. RecordFits(c)'
      BY <1>2, <1>4, <2>2, <2>3 DEF ChannelFits, RecordFits
  <2> QED BY <2>2, <2>4, <2>5 DEF ChannelFits
<1>5. CASE ~worker[c][s].cancelled
  <2>1. PICK w \in Worker :
            /\ Becomes(c, s, w) /\ w.pc = "record" /\ w.version = v
            /\ w.cancelled = worker[c][s].cancelled
      BY <1>5, StepEffect DEF Check
  <2>2. /\ AtWork(c)' = AtWork(c) /\ OneVersion(c)'
        /\ \A t \in AtWork(c) : /\ worker'[c][t].version = v
                                /\ worker'[c][t].cancelled = worker[c][t].cancelled
      BY <1>1, <2>1, GoesOn DEF Working
  <2>3. \A u : Settled(c, u) => Settled(c, u)'
      BY <1>1, <1>2, <2>1 DEF Settled, Obeys, Becomes
  <2>4. ASSUME NEW t \in AtWork(c) PROVE WorkerFits(c, t)'
    <3>1. WorkerFits(c, t) /\ worker[c][t].version = v /\ worker'[c][t].version = v /\ t \in Slot
        BY <1>3, <2>2 DEF AtWork
    <3>2. CASE t = s
        BY <1>1, <1>2, <1>5, <2>1, <2>3, <3>1, <3>2 DEF WorkerFits, Becomes
    <3>3. CASE t # s
      <4>1. worker'[c][t] = worker[c][t]
          BY <2>1, <3>1, <3>3 DEF Becomes
      <4> QED BY <1>2, <2>3, <3>1, <4>1 DEF WorkerFits
    <3> QED BY <3>2, <3>3
  <2>5. RecordFits(c)'
      BY <1>1, <1>2, <1>5, <2>2 DEF RecordFits
  <2> QED BY <2>2, <2>4, <2>5 DEF ChannelFits
<1> QED BY <1>4, <1>5

\* The version is recorded: the encoder does what it says, or is about to.
LEMMA RecordKeeps ==
    ASSUME TypeOK, NEW c \in Channel, NEW s \in Slot, ChannelFits(c), Record(c, s)
    PROVE  ChannelFits(c)'
<1>0. PICK v \in Version : v = worker[c][s].version
    BY WorkerTypes DEF Worker
<1>1. s \in AtWork(c) /\ worker[c][s].pc = "record"
    BY DEF Record, AtWork
<1>2. latest'[c] = v /\ UNCHANGED <<address, running, ended>>
    BY <1>0, RecordEffect DEF Record, encoderVars, historyVars
<1>3. \A t \in AtWork(c) : WorkerFits(c, t) /\ worker[c][t].version = v
    BY <1>0, <1>1 DEF ChannelFits, OneVersion
<1>4. PICK w \in Worker : Becomes(c, s, w) /\ w.pc = "send"
    BY RecordEffect
<1>5. /\ AtWork(c)' = AtWork(c) \ {s} /\ OneVersion(c)'
      /\ \A t \in AtWork(c)' : worker'[c][t] = worker[c][t]
    BY <1>4, Leaves DEF Working
<1>6. \A u : Settled(c, u) => Settled(c, u)'
    BY <1>1, <1>2, <1>4 DEF Settled, Obeys, Becomes
<1>7. Settled(c, v)'
    BY <1>1, <1>3, <1>6 DEF WorkerFits
<1>8. ASSUME NEW t \in AtWork(c)' PROVE WorkerFits(c, t)'
  <2>1. WorkerFits(c, t) /\ worker'[c][t] = worker[c][t]
      BY <1>3, <1>5
  <2> QED BY <1>2, <1>6, <2>1 DEF WorkerFits
<1>9. RecordFits(c)'
    BY <1>2, <1>3, <1>5, <1>7 DEF RecordFits
<1> QED BY <1>5, <1>8, <1>9 DEF ChannelFits

\* A worker that sends its report has left before.
LEMMA SendKeeps ==
    ASSUME TypeOK, NEW c \in Channel, NEW s \in Slot, ChannelFits(c), ReportActual(c, s)
    PROVE  ChannelFits(c)'
<1>1. s \notin AtWork(c) /\ worker[c][s].pc = "send" /\ UNCHANGED <<latest, address, running, ended>>
    BY DEF ReportActual, AtWork, encoderVars, historyVars
<1>2. Becomes(c, s, NoWorker) /\ NoWorker \in Worker /\ NoWorker.pc \notin Working
    BY EndEffect, VersionFits, NewFits DEF ReportActual, Working
<1>3. /\ AtWork(c)' = AtWork(c) /\ OneVersion(c)'
      /\ \A t \in AtWork(c) : worker'[c][t] = worker[c][t]
  <2>1. AtWork(c)' = AtWork(c) \ {s} /\ OneVersion(c)' /\ \A t \in AtWork(c)' : worker'[c][t] = worker[c][t]
      BY <1>2, Leaves
  <2> QED BY <1>1, <2>1
<1>4. \A u : Settled(c, u) => Settled(c, u)'
    BY <1>1, <1>2 DEF Settled, Obeys, Becomes
<1>5. ASSUME NEW t \in AtWork(c) PROVE WorkerFits(c, t)'
  <2>1. WorkerFits(c, t) /\ worker'[c][t] = worker[c][t]
      BY <1>3 DEF ChannelFits
  <2> QED BY <1>1, <1>4, <2>1 DEF WorkerFits
<1>6. RecordFits(c)'
    BY <1>1, <1>3, <1>4 DEF ChannelFits, RecordFits
<1> QED BY <1>3, <1>5, <1>6 DEF ChannelFits

\* The workers of a channel are cancelled, and nothing is recorded any more.
LEMMA ResetKeeps ==
    ASSUME TypeOK, NEW c \in Channel, ChannelFits(c), PollLost, wasConnected
    PROVE  ChannelFits(c)'
<1>1. UNCHANGED <<address, running, ended>> /\ latest'[c] = 0
    BY ResetEffect DEF PollLost, NoVersions, encoderVars, historyVars
<1>2. \A s \in Slot :
          /\ worker'[c][s].pc = worker[c][s].pc /\ worker'[c][s].version = worker[c][s].version
          /\ worker'[c][s].address = worker[c][s].address
          /\ worker[c][s].pc = "record" => worker'[c][s] = worker[c][s]
    BY ResetEffect, WorkerTypes, CancelFits
<1>3. AtWork(c)' = AtWork(c) /\ AtWork(c) \subseteq Slot
    BY <1>2 DEF AtWork
<1>4. \A u : Settled(c, u) => Settled(c, u)'
    BY <1>1, <1>2 DEF Settled, Obeys
<1>5. ASSUME NEW s \in AtWork(c) PROVE WorkerFits(c, s)'
  <2>1. WorkerFits(c, s) /\ s \in Slot
      BY <1>3 DEF ChannelFits
  <2> QED BY <1>1, <1>2, <1>4, <2>1 DEF WorkerFits
<1>6. OneVersion(c)'
    BY <1>2, <1>3 DEF ChannelFits, OneVersion
<1>7. RecordFits(c)'
    BY <1>1 DEF RecordFits
<1> QED BY <1>3, <1>5, <1>6, <1>7 DEF ChannelFits

\* A worker is dispatched, next to those of its version only.
LEMMA DispatchKeeps ==
    ASSUME TypeOK, EncoderFits, NEW c \in Channel, Dispatch(c), c \notin overtaken'
    PROVE  ChannelFits(c)'
<1> DEFINE v == loop.plan[c]
<1>1. /\ v # 0 /\ v \in Version
      /\ UNCHANGED <<latest, address, running, ended>>
    BY DEF Dispatch, encoderVars, TypeOK, Loop
<1>2. /\ \A t \in AtWork(c) : worker[c][t].version = v
      /\ AtWork(c) # {} => ChannelFits(c)
    BY DEF Dispatch, EncoderFits
<1>3. PICK s \in Slot :
          /\ worker[c][s].pc = "none" /\ worker'[c][s] = NewWorker(v)
          /\ \A t \in Slot \ {s} : worker'[c][t] = Cancel(worker[c][t])
    BY DispatchEffect
<1>4. /\ worker'[c][s].pc = "apply" /\ worker'[c][s].version = v /\ ~worker'[c][s].cancelled
    BY <1>1, <1>3, NewFits
<1>5. \A t \in Slot \ {s} :
          /\ worker'[c][t].pc = worker[c][t].pc /\ worker'[c][t].version = worker[c][t].version
          /\ worker'[c][t].address = worker[c][t].address
          /\ worker[c][t].pc = "record" => worker'[c][t] = worker[c][t]
    BY <1>3, WorkerTypes, CancelFits
<1>6. AtWork(c)' = AtWork(c) \cup {s} /\ s \notin AtWork(c) /\ AtWork(c) \subseteq Slot
    BY <1>3, <1>4, <1>5 DEF AtWork
<1>7. \A t \in AtWork(c)' : worker'[c][t].version = v
    BY <1>2, <1>4, <1>5, <1>6
<1>8. \A u : Settled(c, u) => Settled(c, u)'
    BY <1>1, <1>3, <1>5 DEF Settled, Obeys
<1>9. ASSUME NEW t \in AtWork(c)' PROVE WorkerFits(c, t)'
  <2>1. CASE t = s
      BY <1>1, <1>4, <2>1 DEF WorkerFits
  <2>2. CASE t # s
    <3>1. t \in AtWork(c) /\ t \in Slot \ {s} /\ WorkerFits(c, t)
        BY <1>2, <1>6, <2>2 DEF ChannelFits
    <3> QED BY <1>1, <1>5, <1>8, <3>1 DEF WorkerFits
  <2> QED BY <2>1, <2>2
<1>10. RecordFits(c)'
    BY <1>4, <1>6 DEF RecordFits
<1> QED BY <1>7, <1>9, <1>10 DEF ChannelFits, OneVersion

\* A stream ends by itself.
LEMMA StreamKeeps ==
    ASSUME TypeOK, NEW c \in Channel, ChannelFits(c), StreamEnds(c)
    PROVE  ChannelFits(c)'
<1>1. UNCHANGED <<worker, latest, address>> /\ running'[c] = 0 /\ c \in ended'
    BY DEF StreamEnds, TypeOK, loopVars
<1>2. \A u : Settled(c, u)'
    BY <1>1 DEF Settled, Obeys
<1>3. AtWork(c)' = AtWork(c)
    BY <1>1 DEF AtWork
<1>4. ASSUME NEW s \in AtWork(c) PROVE WorkerFits(c, s)'
  <2>1. WorkerFits(c, s)
      BY DEF ChannelFits
  <2> QED BY <1>1, <1>2, <2>1 DEF WorkerFits
<1> QED BY <1>1, <1>2, <1>3, <1>4 DEF ChannelFits, OneVersion, RecordFits

LEMMA EncoderStep == ASSUME TypeOK, EncoderFits, [Next]_vars PROVE EncoderFits'
<1>1. CASE UNCHANGED <<latest, worker, encoderVars, historyVars>>
    BY <1>1, ChannelStill DEF EncoderFits, encoderVars, historyVars
<1>2. ASSUME NEW c \in Channel, StreamEnds(c) PROVE EncoderFits'
  <2>1. /\ UNCHANGED <<worker, latest, address, overtaken>>
        /\ \A d \in Channel \ {c} : running'[d] = running[d] /\ (d \in ended' <=> d \in ended)
      BY <1>2 DEF StreamEnds, TypeOK, loopVars
  <2>2. \A d \in Channel \ overtaken : d # c => ChannelFits(d)'
      BY <2>1, ChannelStill DEF EncoderFits
  <2> QED BY <1>2, <2>1, <2>2, StreamKeeps DEF EncoderFits
<1>3. CASE PollLost
  <2>1. CASE wasConnected
      BY <1>3, <2>1, ResetKeeps DEF EncoderFits, PollLost, historyVars
  <2>2. CASE ~wasConnected
      BY <1>1, <1>3, <2>2 DEF PollLost
  <2> QED BY <2>1, <2>2
<1>4. ASSUME NEW c \in Channel, Dispatch(c) PROVE EncoderFits'
  <2>1. UNCHANGED <<latest, address, running, ended>> /\ \A d \in Channel \ {c} : worker'[d] = worker[d]
      BY <1>4, DispatchEffect DEF Dispatch, encoderVars
  <2>2. \A d \in Channel \ {c} : d \in overtaken' <=> d \in overtaken
      BY <1>4 DEF Dispatch
  <2>3. \A d \in Channel \ overtaken' : d # c => ChannelFits(d)'
      BY <2>1, <2>2, ChannelStill DEF EncoderFits
  <2>4. c \notin overtaken' => ChannelFits(c)'
      BY <1>4, DispatchKeeps
  <2> QED BY <2>3, <2>4 DEF EncoderFits
<1>5. ASSUME NEW c \in Channel, NEW s \in Slot, RunWorker(c, s) PROVE EncoderFits'
  <2>1. \E w \in Worker : Becomes(c, s, w)
    <3>1. NoWorker \in Worker
        BY VersionFits, NewFits
    <3> QED BY <1>5, <3>1, EndEffect, StepEffect, IssueEffect, StartEffect, RecordEffect
            DEF RunWorker, Apply, Check, ReportActual
  <2>2. \A d \in Channel \ {c} : worker'[d] = worker[d]
      BY <2>1 DEF Becomes
  <2>3. /\ overtaken' = overtaken
        /\ \A d \in Channel \ {c} :
              /\ latest'[d] = latest[d] /\ address'[d] = address[d]
              /\ running'[d] = running[d] /\ (d \in ended' <=> d \in ended)
    <3>1. CASE Apply(c, s)
        BY <3>1 DEF Apply, HandleTransportConfigChange, TypeOK, loopVars, historyVars
    <3>2. CASE Issue(c, s)
        BY <3>2 DEF Issue, StopChannel, TypeOK, loopVars, historyVars
    <3>3. CASE StartChannel(c, s)
        BY <3>3 DEF StartChannel, TypeOK, loopVars
    <3>4. CASE Check(c, s) \/ ReportActual(c, s)
        BY <3>4 DEF Check, ReportActual, loopVars, encoderVars, historyVars
    <3>5. CASE Record(c, s)
        BY <3>5, RecordEffect DEF Record, encoderVars, historyVars
    <3> QED BY <1>5, <3>1, <3>2, <3>3, <3>4, <3>5 DEF RunWorker
  <2>4. \A d \in Channel \ overtaken : d # c => ChannelFits(d)'
      BY <2>2, <2>3, ChannelStill DEF EncoderFits
  <2>5. ASSUME c \notin overtaken PROVE ChannelFits(c)'
    <3>1. ChannelFits(c)
        BY <2>5 DEF EncoderFits
    <3> QED BY <1>5, <3>1, ApplyFits, IssueFits, StartFits, CheckFits, RecordKeeps, SendKeeps
            DEF RunWorker
  <2> QED BY <2>3, <2>4, <2>5 DEF EncoderFits
<1> QED
    BY <1>1, <1>2, <1>3, <1>4, <1>5
    DEF Next, RunLoop, Update, PollConnected, Compose, SendIntroduction, Fetch, EndPass,
        SendHeartbeat, loopVars, vars

-----------------------------------------------------------------------------
(* The theorems *)

\* Every variable keeps its type: a report has a version for every channel, and a slot
\* that is free holds nothing of the worker before.
THEOREM TypeCorrect == Spec => []TypeOK
<1>1. Init => TypeOK
    BY TypeInit
<1>2. TypeOK /\ [Next]_vars => TypeOK'
    BY TypeStep
<1> QED BY <1>1, <1>2, PTL DEF Spec

\* What is recorded as applied is what the encoder does, once no worker of the channel is
\* at work, whatever is lost, reset, cancelled or dispatched again meanwhile; unless
\* workers of two versions were at work on the channel at a time, and no worker has had
\* it for itself since.
THEOREM AppliedCorrect == Spec => []AppliedIsTrue
<1>1. Init => EncoderFits
  <2> SUFFICES ASSUME Init, NEW c \in Channel PROVE ChannelFits(c)
      BY DEF EncoderFits
  <2>1. AtWork(c) = {}
      BY DEF Init, AtWork, NoWorker
  <2>2. latest[c] = 0
      BY DEF Init, NoVersions
  <2> QED BY <2>1, <2>2 DEF ChannelFits, OneVersion, RecordFits
<1>2. TypeOK /\ EncoderFits /\ [Next]_vars => EncoderFits'
    BY EncoderStep
<1>3. EncoderFits => AppliedIsTrue
  <2> SUFFICES ASSUME EncoderFits, NEW c \in Channel \ overtaken, AtWork(c) = {}, latest[c] # 0
               PROVE  Obeys(c, latest[c])
      BY DEF AppliedIsTrue
  <2>1. Settled(c, latest[c])
      BY DEF EncoderFits, ChannelFits, RecordFits
  <2>2. \A s \in Slot : worker[c][s].pc # "start"
      BY DEF AtWork
  <2> QED BY <2>1, <2>2 DEF Settled
<1> QED BY <1>1, <1>2, <1>3, TypeCorrect, PTL DEF Spec
=============================================================================
