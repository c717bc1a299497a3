---------------------------- MODULE SamScheduler ----------------------------
(***************************************************************************)
(* The SAM request scheduler (sam/scheduler.go) and its two callers in the *)
(* daemon's run loop (cmd/infinid/main.go): the read loop, which feeds it  *)
(* every decoded frame, and the one-second ticker.  Both run their calls   *)
(* under schedMu, so each is one step here.                                *)
(*                                                                         *)
(* Both callers hand the scheduler a time stamp taken BEFORE they got the  *)
(* lock (main.go takes it before the capture and journal writes, the       *)
(* ticker's stamp waits in its channel), so a stamp may be up to MaxLag    *)
(* behind the clock at the moment a request is really written.             *)
(***************************************************************************)
EXTENDS Integers

CONSTANTS
    N,               \* number of polled registers; a target is its position
    Interval,        \* Interval[x]: configured polling interval of target x
    InterSendGap,    \* interSendGap
    PendingTimeout,  \* pendingTimeout
    FirstBackoff,    \* the backoff of a first failure (4s)
    MaxBackoff,      \* maxBackoff
    MinInterval,     \* minInterval
    RetryDelay,      \* main's sleep between two runs (5s)
    MaxLag,          \* how far behind the clock a caller's stamp may be
    MaxTime          \* bound on the clock

Targets == 1..N
None == 0            \* no request is pending
ZeroTime == 0        \* Go's zero time.Time; the clock starts after it

ASSUME SizeAssumption == N \in Nat
ASSUME IntervalAssumption == Interval \in [Targets -> Nat]
ASSUME TimingAssumption ==
    /\ InterSendGap \in Nat \ {0}
    /\ PendingTimeout \in Nat \ {0}
    /\ FirstBackoff \in Nat \ {0}
    /\ MaxBackoff \in Nat /\ FirstBackoff <= MaxBackoff
    /\ MinInterval \in Nat \ {0}
    /\ MaxTime \in Nat
ASSUME LagAssumption == MaxLag \in Nat
\* A stamp lags no more than the shortest wait before a register is due again.
ASSUME ShortLagAssumption == MaxLag <= FirstBackoff /\ MaxLag <= MinInterval
ASSUME RetryAssumption == RetryDelay \in Nat /\ InterSendGap <= RetryDelay

VARIABLES
    now,       \* the clock, in seconds
    ticked,    \* has the ticker been served in this second?
    sched,     \* the Scheduler
    opened,    \* the clock when this scheduler was built
    \* History variables, read by the properties only.
    attempts,  \* requests this scheduler tried to write
    acks,      \* requests of this scheduler that were answered
    last,      \* the clock at the last attempt of any scheduler
    spacing    \* clock time between the last two attempts

hist == <<attempts, acks, last, spacing>>
vars == <<now, ticked, sched, opened, hist>>

-----------------------------------------------------------------------------
\* Frames as NoteFrame tells them apart: an Ack06 from the wall control to the
\* SAM that carries the register of a target, a NACK from the wall control to
\* the SAM, and everything else.
Frames == [kind : {"ack"}, reg : Targets] \cup {[kind |-> "nack"], [kind |-> "other"]}

\* New floors every interval.
Every(x) == IF Interval[x] < MinInterval THEN MinInterval ELSE Interval[x]

New == [due      |-> [x \in Targets |-> ZeroTime],
        backoff  |-> [x \in Targets |-> 0],
        pending  |-> None,
        sentAt   |-> ZeroTime,
        lastSend |-> ZeroTime,
        failures |-> 0]

nextBackoff_Unclamped(cur) == IF cur = 0 THEN FirstBackoff ELSE 2 * cur

nextBackoff(cur) ==
    IF cur = 0 THEN FirstBackoff
    ELSE IF 2 * cur > MaxBackoff THEN MaxBackoff ELSE 2 * cur

\* The pending request failed (timeout or NACK): back its target off.
Fail(s, t) ==
    LET b == nextBackoff(s.backoff[s.pending]) IN
    [s EXCEPT !.failures = @ + 1,
              !.backoff[s.pending] = b,
              !.due[s.pending] = t + b,
              !.pending = None]

\* The pending request was answered: poll its target again in an interval.
Succeed(s, t) ==
    [s EXCEPT !.backoff[s.pending] = 0,
              !.due[s.pending] = t + Every(s.pending),
              !.pending = None]

Answers_AnyRegister(s, f) == s.pending # None /\ f.kind = "ack"

\* Is f the reply to the pending request?
Answers(s, f) == s.pending # None /\ f.kind = "ack" /\ f.reg = s.pending

NoteFrame(s, f, t) ==
    IF s.pending # None /\ f.kind = "nack" THEN Fail(s, t)
    ELSE IF Answers(s, f) THEN Succeed(s, t)
    ELSE s

Expire_Never(s, t) == s

\* The first half of Tick: give up a request past its timeout.
Expire(s, t) ==
    IF s.pending # None /\ t - s.sentAt >= PendingTimeout THEN Fail(s, t) ELSE s

GapOver_OffByOne(s, t) == t - s.lastSend >= InterSendGap - 1 \/ s.lastSend = ZeroTime

GapOver(s, t) == t - s.lastSend >= InterSendGap \/ s.lastSend = ZeroTime

Due(s, t) == {x \in Targets : s.due[x] <= t}

Pick_FirstDue(s, t) == CHOOSE x \in Due(s, t) : \A y \in Due(s, t) : x <= y

\* The most overdue target, the first one configured on a tie.
Pick(s, t) ==
    CHOOSE x \in Due(s, t) : \A y \in Due(s, t) :
        s.due[x] < s.due[y] \/ (s.due[x] = s.due[y] /\ x <= y)

Sends_Overlapping(s, t) == GapOver(s, t) /\ Due(s, t) # {}

\* Does Tick, after Expire, write a request?
Sends(s, t) == s.pending = None /\ GapOver(s, t) /\ Due(s, t) # {}

Send_FreeFailure(s, t, ok) ==
    LET x == Pick(s, t) IN
    IF ok THEN [s EXCEPT !.pending = x, !.sentAt = t, !.lastSend = t]
          ELSE [s EXCEPT !.due[x] = t + InterSendGap, !.lastSend = t]

\* Write the request; ok says whether Write returned without an error.
Send(s, t, ok) ==
    LET x == Pick(s, t) IN
    IF ok THEN [s EXCEPT !.pending = x, !.sentAt = t, !.lastSend = t]
          ELSE [s EXCEPT !.failures = @ + 1,
                         !.due[x] = t + InterSendGap,
                         !.lastSend = t]

Tick(s, t, ok) ==
    LET e == Expire(s, t) IN IF Sends(e, t) THEN Send(e, t, ok) ELSE e

-----------------------------------------------------------------------------
\* The stamps a caller of this scheduler may hold at this moment.
Stamps == {t \in now - MaxLag .. now : t >= opened}

\* What a call of Tick on s with stamp t means for the request history.
NoteAttempt(s, t) ==
    IF Sends(Expire(s, t), t)
    THEN /\ attempts' = attempts + 1
         /\ last' = now
         /\ spacing' = IF last = ZeroTime THEN spacing ELSE now - last
    ELSE UNCHANGED <<attempts, last, spacing>>

Init ==
    /\ now = ZeroTime + 1
    /\ ticked = FALSE
    /\ sched = New
    /\ opened = now
    /\ attempts = 0
    /\ acks = 0
    /\ last = ZeroTime
    /\ spacing = InterSendGap

\* A second passes.  The ticker goroutine is served once in every second.
Clock ==
    /\ ticked
    /\ now < MaxTime
    /\ now' = now + 1
    /\ ticked' = FALSE
    /\ UNCHANGED <<sched, opened, hist>>

\* The ticker goroutine's turn.
Ticker ==
    /\ ~ticked
    /\ ticked' = TRUE
    /\ \E t \in Stamps, ok \in BOOLEAN :
        /\ sched' = Tick(sched, t, ok)
        /\ NoteAttempt(sched, t)
    /\ UNCHANGED <<now, acks, opened>>

\* The read loop decoded frame f: NoteFrame, then Tick, under one lock.
ReadLoop(f) ==
    /\ \E t \in Stamps, ok \in BOOLEAN :
        LET s == NoteFrame(sched, f, t) IN
        /\ sched' = Tick(s, t, ok)
        /\ NoteAttempt(s, t)
    /\ acks' = acks + (IF Answers(sched, f) THEN 1 ELSE 0)
    /\ UNCHANGED <<now, ticked, opened>>

\* The read loop failed: run returns, main sleeps and run starts over with a
\* fresh scheduler that has forgotten the last send and every backoff.
Reopen ==
    /\ now + RetryDelay <= MaxTime
    /\ now' = now + RetryDelay
    /\ ticked' = FALSE
    /\ sched' = New
    /\ opened' = now'
    /\ attempts' = 0
    /\ acks' = 0
    /\ UNCHANGED <<last, spacing>>

Next == Clock \/ Ticker \/ (\E f \in Frames : ReadLoop(f)) \/ Reopen

Spec == Init /\ [][Next]_vars

-----------------------------------------------------------------------------
Schedulers ==
    [due : [Targets -> Nat],
     backoff : [Targets -> {0} \cup FirstBackoff..MaxBackoff],
     pending : Targets \cup {None},
     sentAt : Nat,
     lastSend : Nat,
     failures : Nat]

\* Type invariant.  A backoff is 0 or between the first one and maxBackoff,
\* however long a register keeps failing (nextBackoff's clamp).
TypeOK ==
    /\ now \in Nat \ {ZeroTime}
    /\ ticked \in BOOLEAN
    /\ sched \in Schedulers
    /\ opened \in Nat \ {ZeroTime}
    /\ attempts \in Nat /\ acks \in Nat /\ last \in Nat /\ spacing \in Int

\* Every request this scheduler wrote, or tried to, is an answer, a counted
\* failure or the one still pending: no path through Tick and NoteFrame loses
\* a request or counts one twice (Failures is the published health figure).
Accounting ==
    attempts = acks + sched.failures + (IF sched.pending = None THEN 0 ELSE 1)

\* Two requests are never closer on the wire than interSendGap, less what a
\* stamp may lag, whether the first was answered, refused, timed out or failed
\* to be written, and also across a reconnect, where the new scheduler no
\* longer knows when the old one sent.
RequestSpacing == spacing >= InterSendGap - MaxLag

\* A request without an answer is given up within its timeout (amendment A1:
\* on a silent bus only the ticker can do so), so it never wedges the polling.
PendingBounded ==
    sched.pending # None => now - sched.sentAt <= PendingTimeout + MaxLag

\* How long target x has been waiting for its turn.
Slot == (IF PendingTimeout > InterSendGap THEN PendingTimeout ELSE InterSendGap) + MaxLag
Waiting(x) == now - (IF sched.due[x] = ZeroTime THEN opened ELSE sched.due[x])

\* No starvation: a register that is due is asked within one slot per target,
\* however the others answer, fail or time out.  (The one pending has been
\* asked and only waits for its answer.)
NoStarvation ==
    \A x \in Targets \ {sched.pending} : Waiting(x) <= N * Slot
=============================================================================
