------------------------------ MODULE Throttle ------------------------------
(***************************************************************************)
(* The throttle of the daemon's reports. It keeps the times at which it    *)
(* has let reports through and refuses one when there are as many of them  *)
(* in the window as are allowed. It reads a clock of whole seconds, which  *)
(* may be set; time itself goes on in ticks of a fraction of a second.     *)
(*                                                                         *)
(* The daemon has two, for status and for configuration, which have        *)
(* nothing in common; this is one of them. A reset and some ways to        *)
(* connect replace it.                                                     *)
(***************************************************************************)
EXTENDS Integers, Sequences

CONSTANTS
    TicksPerSecond,
    WindowSeconds,
    LeastPublications,  \* allowed in a window, whatever the interval
    PubMinInterval,     \* the intervals that hosts ask for, in seconds, and 1 for no host
    MaxTicks,           \* bound: ticks
    MaxBehind,          \* bound: ticks that the clock is behind its first setting
    MaxAhead            \* bound: ticks that it is ahead of it

\* The code has ten seconds and five reports.
ThrottleAssumption ==
    /\ TicksPerSecond \in Nat \ {0} /\ WindowSeconds \in Nat \ {0}
    /\ LeastPublications \in Nat \ {0} /\ PubMinInterval \subseteq Int
    /\ MaxTicks \in Nat /\ MaxBehind \in Nat /\ MaxAhead \in Nat

VARIABLES
    ticks,               \* the time
    behind,              \* the ticks by which the clock has been set back, less those ahead
    maxPublishInWindow,
    publishTimes,        \* as the clock showed them
    published,           \* history: the times at which this throttle let a report through
    setBack,             \* history: the clock has been set back since it was made
    setAhead             \* history: it has been set ahead since then

clockVars == <<ticks, behind>>
windowVars == <<maxPublishInWindow, publishTimes, published>>

setVars == <<setBack, setAhead>>

throttleVars == <<clockVars, windowVars, setVars>>

-----------------------------------------------------------------------------
\* time.Now().Unix()
Now == (ticks - behind) \div TicksPerSecond

Larger(a, b) == IF a > b THEN a ELSE b

\* NewThrottle, for a host that asks for an interval.
Allowed(interval) == Larger(WindowSeconds \div Larger(interval, 1), LeastPublications)

ThrottleInit ==
    /\ ticks = 0
    /\ behind = 0
    /\ maxPublishInWindow = Allowed(1)
    /\ publishTimes = <<>>
    /\ published = <<>>
    /\ setBack = FALSE
    /\ setAhead = FALSE

Tick ==
    /\ ticks < MaxTicks
    /\ ticks' = ticks + 1
    /\ UNCHANGED <<behind, windowVars, setVars>>

\* The clock of the machine is corrected.
SetBack ==
    /\ behind < MaxBehind
    /\ behind' = behind + 1
    /\ setBack' = TRUE
    /\ UNCHANGED <<ticks, windowVars, setAhead>>

SetAhead ==
    /\ behind > -MaxAhead
    /\ behind' = behind - 1
    /\ setAhead' = TRUE
    /\ UNCHANGED <<ticks, windowVars, setBack>>

\* initThrottles, or NewThrottle where a connection begins.
Replace ==
    /\ \E interval \in PubMinInterval : maxPublishInWindow' = Allowed(interval)
    /\ publishTimes' = <<>>
    /\ published' = <<>>
    /\ setBack' = FALSE
    /\ setAhead' = FALSE
    /\ UNCHANGED clockVars

\* The first n times are those that CanPublish removes: all before the first that has not
\* expired.
Expired(n) ==
    /\ n \in 0 .. Len(publishTimes)
    /\ \A i \in 1 .. n : publishTimes[i] <= Now - WindowSeconds
    /\ n < Len(publishTimes) => publishTimes[n + 1] > Now - WindowSeconds

\* With the first n removed, there is room for one more.
Room(n) == Len(publishTimes) - n < maxPublishInWindow

Kept(n) == SubSeq(publishTimes, n + 1, Len(publishTimes))

\* CanPublish, of a report that it lets through.
LetThrough ==
    \E n \in 0 .. Len(publishTimes) :
        /\ Expired(n) /\ Room(n)
        /\ publishTimes' = Append(Kept(n), Now)
        /\ published' = Append(published, ticks)
        /\ UNCHANGED <<clockVars, maxPublishInWindow, setVars>>

\* CanPublish, of a report that it refuses.
Refuse ==
    \E n \in 0 .. Len(publishTimes) :
        /\ Expired(n) /\ ~Room(n)
        /\ publishTimes' = Kept(n)
        /\ UNCHANGED <<clockVars, maxPublishInWindow, published, setVars>>

ThrottleNext == Tick \/ SetBack \/ SetAhead \/ Replace \/ LetThrough \/ Refuse

ThrottleSpec == ThrottleInit /\ [][ThrottleNext]_throttleVars

-----------------------------------------------------------------------------
ThrottleTypeOK ==
    /\ ticks \in 0 .. MaxTicks /\ behind \in -MaxAhead .. MaxBehind
    /\ maxPublishInWindow \in Nat \ {0}
    /\ publishTimes \in Seq(Int) /\ Len(publishTimes) <= maxPublishInWindow
    /\ published \in Seq(0 .. MaxTicks)
    /\ setBack \in BOOLEAN /\ setAhead \in BOOLEAN

\* No throttle lets more than maxPublishInWindow reports through in a window less a second,
\* even if the clock is set back meanwhile, unless it is set ahead: times are whole seconds,
\* so that one that was kept at the end of a second expires at the beginning of another
\* (CanPublish).
WithinLimit ==
    ~setAhead => \A i, j \in 1 .. Len(published) :
        j - i >= maxPublishInWindow =>
            published[j] - published[i] > (WindowSeconds - 1) * TicksPerSecond

\* A report is refused only if as many as are allowed were let through in the last window,
\* unless the clock has been set back since the throttle was made; setting it ahead makes
\* the throttle refuse no more (CanPublish).
RefusesAtLimitOnly ==
    (\E n \in 0 .. Len(publishTimes) : Expired(n) /\ ~Room(n)) /\ ~setBack =>
        /\ Len(published) >= maxPublishInWindow
        /\ published[Len(published) - maxPublishInWindow + 1]
               > ticks - WindowSeconds * TicksPerSecond
=============================================================================
