------------------------------ MODULE Sam_proofs ------------------------------
(***************************************************************************)
(* Proofs about the request scheduler by itself (SamScheduler) and on the  *)
(* bus (SamBus), for every number of targets, every choice of intervals    *)
(* and timings, every stamp lag and however long replies are delayed.      *)
(***************************************************************************)
EXTENDS SamBus, FiniteSetTheorems, WellFoundedInduction, TLAPS

\* A non-empty set of naturals has a least element.
LEMMA LeastNat ==
    ASSUME NEW S \in SUBSET Nat, S # {}
    PROVE  \E m \in S : \A k \in S : m <= k
<1> DEFINE R == OpToRel(<, Nat)
<1>1. IsWellFoundedOn(R, Nat)
    BY NatLessThanWellFounded, Zenon
<1>2. PICK m \in S : \A k \in S : <<k, m>> \notin R
    <2> HIDE DEF R
    <2> QED BY <1>1, WFMin
<1>3. \A k \in S : ~(k < m)
    BY <1>2 DEF OpToRel
<1> QED BY <1>3

\* The scan of Tick picks the most overdue target whenever one is due.
LEMMA PickIsDue ==
    ASSUME NEW s \in Schedulers, NEW t \in Nat, Due(s, t) # {}
    PROVE  /\ Pick(s, t) \in Due(s, t)
           /\ \A y \in Due(s, t) :
                \/ s.due[Pick(s, t)] < s.due[y]
                \/ s.due[Pick(s, t)] = s.due[y] /\ Pick(s, t) <= y
<1> DEFINE D == Due(s, t)
           Times == {s.due[x] : x \in D}
<1>1. D \subseteq Targets /\ D \in SUBSET Nat /\ D # {}
    BY SizeAssumption DEF Due, Targets
<1>2. \A x \in D : s.due[x] \in Nat
    BY <1>1 DEF Schedulers
<1>3. Times \in SUBSET Nat /\ Times # {}
    BY <1>1, <1>2
<1>4. PICK m \in Times : \A k \in Times : m <= k
    <2> HIDE DEF Times
    <2> QED BY <1>3, LeastNat
<1> DEFINE E == {x \in D : s.due[x] = m}
<1>5. E \in SUBSET Nat /\ E # {}
    BY <1>1, <1>4
<1>6. PICK x \in E : \A y \in E : x <= y
    <2> HIDE DEF E
    <2> QED BY <1>5, LeastNat
<1>7. \A y \in D : s.due[x] < s.due[y] \/ (s.due[x] = s.due[y] /\ x <= y)
    BY <1>2, <1>4, <1>6
<1> QED BY <1>6, <1>7 DEF Pick

-----------------------------------------------------------------------------
\* A fresh scheduler has the type of one.
LEMMA NewType == New \in Schedulers
BY DEF New, Schedulers, ZeroTime, None

\* A backoff never leaves its range, however often it is doubled.
LEMMA BackoffType ==
    ASSUME NEW b \in {0} \cup FirstBackoff..MaxBackoff
    PROVE  nextBackoff(b) \in FirstBackoff..MaxBackoff
BY TimingAssumption DEF nextBackoff

\* Failing the pending request keeps the type, counts one failure and leaves
\* nothing pending.
LEMMA FailType ==
    ASSUME NEW s \in Schedulers, s.pending # None, NEW t \in Nat
    PROVE  /\ Fail(s, t) \in Schedulers
           /\ Fail(s, t).pending = None
           /\ Fail(s, t).lastSend = s.lastSend
           /\ Fail(s, t).failures = s.failures + 1
<1> DEFINE b == nextBackoff(s.backoff[s.pending])
<1>1. s.pending \in Targets
    BY DEF Schedulers
<1>2. b \in FirstBackoff..MaxBackoff
    BY <1>1, BackoffType DEF Schedulers
<1>3. b \in Nat
    BY <1>2, TimingAssumption
<1> HIDE DEF b
<1> DEFINE s1 == [s EXCEPT !.failures = s.failures + 1]
           s2 == [s1 EXCEPT !.backoff = [s1.backoff EXCEPT ![s.pending] = b]]
           s3 == [s2 EXCEPT !.due = [s2.due EXCEPT ![s.pending] = t + b]]
<1>4. Fail(s, t) = [s3 EXCEPT !.pending = None]
    BY DEF Fail, b
<1>5. s1 \in Schedulers /\ s1.lastSend = s.lastSend /\ s1.failures = s.failures + 1
    BY DEF Schedulers
<1> HIDE DEF s1
<1>6. s2 \in Schedulers /\ s2.lastSend = s.lastSend /\ s2.failures = s.failures + 1
    BY <1>1, <1>2, <1>5 DEF Schedulers
<1> HIDE DEF s2
<1>7. s3 \in Schedulers /\ s3.lastSend = s.lastSend /\ s3.failures = s.failures + 1
    BY <1>1, <1>3, <1>6 DEF Schedulers
<1> HIDE DEF s3
<1> QED BY <1>4, <1>7 DEF Schedulers

\* So does answering it, which counts none.
LEMMA SucceedType ==
    ASSUME NEW s \in Schedulers, s.pending # None, NEW t \in Nat
    PROVE  /\ Succeed(s, t) \in Schedulers
           /\ Succeed(s, t).pending = None
           /\ Succeed(s, t).lastSend = s.lastSend
           /\ Succeed(s, t).failures = s.failures
<1>1. s.pending \in Targets
    BY DEF Schedulers
<1>2. Every(s.pending) \in Nat
    BY <1>1, IntervalAssumption, TimingAssumption DEF Every
<1> DEFINE s1 == [s EXCEPT !.backoff = [s.backoff EXCEPT ![s.pending] = 0]]
           s2 == [s1 EXCEPT !.due = [s1.due EXCEPT ![s.pending] = t + Every(s.pending)]]
<1>3. Succeed(s, t) = [s2 EXCEPT !.pending = None]
    BY DEF Succeed
<1>4. s1 \in Schedulers /\ s1.lastSend = s.lastSend /\ s1.failures = s.failures
    BY <1>1 DEF Schedulers
<1> HIDE DEF s1
<1>5. s2 \in Schedulers /\ s2.lastSend = s.lastSend /\ s2.failures = s.failures
    BY <1>1, <1>2, <1>4 DEF Schedulers
<1> HIDE DEF s2
<1> QED BY <1>3, <1>5 DEF Schedulers

\* What NoteFrame changes: nothing, or it closes the pending request.
LEMMA NoteFrameType ==
    ASSUME NEW s \in Schedulers, NEW t \in Nat, NEW f \in Frames
    PROVE  LET n == NoteFrame(s, f, t) IN
           /\ n \in Schedulers
           /\ n.lastSend = s.lastSend
           /\ \/ n = s /\ ~Answers(s, f)
              \/ /\ s.pending # None /\ n.pending = None
                 /\ Answers(s, f) /\ n.failures = s.failures
              \/ /\ s.pending # None /\ n.pending = None
                 /\ ~Answers(s, f) /\ n.failures = s.failures + 1
<1>1. CASE s.pending # None /\ f.kind = "nack"
    <2>1. NoteFrame(s, f, t) = Fail(s, t) /\ ~Answers(s, f)
        BY <1>1 DEF NoteFrame, Answers
    <2> QED BY <1>1, <2>1, FailType
<1>2. CASE Answers(s, f)
    <2>1. NoteFrame(s, f, t) = Succeed(s, t) /\ s.pending # None
        BY <1>2 DEF NoteFrame, Answers
    <2> QED BY <1>2, <2>1, SucceedType
<1>3. CASE ~(s.pending # None /\ f.kind = "nack") /\ ~Answers(s, f)
    BY <1>3 DEF NoteFrame
<1> QED BY <1>1, <1>2, <1>3

\* What Expire changes: nothing, or it fails the pending request.
LEMMA ExpireType ==
    ASSUME NEW s \in Schedulers, NEW t \in Nat
    PROVE  LET e == Expire(s, t) IN
           /\ e \in Schedulers
           /\ e.lastSend = s.lastSend
           /\ \/ e = s /\ (s.pending # None => t - s.sentAt < PendingTimeout)
              \/ /\ s.pending # None /\ e.pending = None
                 /\ e.failures = s.failures + 1
<1>1. CASE s.pending # None /\ t - s.sentAt >= PendingTimeout
    <2>1. Expire(s, t) = Fail(s, t)
        BY <1>1 DEF Expire
    <2> QED BY <1>1, <2>1, FailType
<1>2. CASE ~(s.pending # None /\ t - s.sentAt >= PendingTimeout)
    <2>1. Expire(s, t) = s
        BY <1>2 DEF Expire
    <2>2. s.sentAt \in Nat
        BY DEF Schedulers
    <2> QED BY <1>2, <2>1, <2>2, TimingAssumption
<1> QED BY <1>1, <1>2

\* What a request that is written, or fails to be written, changes.
LEMMA SendType ==
    ASSUME NEW s \in Schedulers, NEW t \in Nat, NEW ok \in BOOLEAN, Sends(s, t)
    PROVE  LET n == Send(s, t, ok) IN
           /\ n \in Schedulers
           /\ n.lastSend = t
           /\ \/ n.pending # None /\ n.sentAt = t /\ n.failures = s.failures
              \/ n.pending = None /\ n.failures = s.failures + 1
<1> DEFINE x == Pick(s, t)
<1>1. x \in Targets
    BY PickIsDue DEF Sends, Due
<1>2. x # None
    BY <1>1, SizeAssumption DEF Targets, None
<1>3. s.pending = None
    BY DEF Sends
<1> HIDE DEF x
<1>4. CASE ok
    <2> DEFINE s1 == [s EXCEPT !.pending = x]
               s2 == [s1 EXCEPT !.sentAt = t]
    <2>1. Send(s, t, ok) = [s2 EXCEPT !.lastSend = t]
        BY <1>4 DEF Send, x
    <2>2. s1 \in Schedulers /\ s1.pending # None /\ s1.failures = s.failures
        BY <1>1, <1>2 DEF Schedulers
    <2> HIDE DEF s1
    <2>3. /\ s2 \in Schedulers /\ s2.pending # None /\ s2.sentAt = t
          /\ s2.failures = s.failures
        BY <2>2 DEF Schedulers
    <2> HIDE DEF s2
    <2> QED BY <2>1, <2>3 DEF Schedulers
<1>5. CASE ~ok
    <2> DEFINE s1 == [s EXCEPT !.failures = s.failures + 1]
               s2 == [s1 EXCEPT !.due = [s1.due EXCEPT ![x] = t + InterSendGap]]
    <2>1. Send(s, t, ok) = [s2 EXCEPT !.lastSend = t]
        BY <1>5 DEF Send, x
    <2>2. s1 \in Schedulers /\ s1.pending = None /\ s1.failures = s.failures + 1
        BY <1>3 DEF Schedulers
    <2> HIDE DEF s1
    <2>3. s2 \in Schedulers /\ s2.pending = None /\ s2.failures = s.failures + 1
        BY <1>1, <2>2, TimingAssumption DEF Schedulers
    <2> HIDE DEF s2
    <2> QED BY <2>1, <2>3 DEF Schedulers
<1> QED BY <1>4, <1>5

-----------------------------------------------------------------------------
\* Requests of a scheduler that have no answer: failed ones and the pending one.
Unanswered(s) == s.failures + (IF s.pending = None THEN 0 ELSE 1)

\* One call of Tick.  It adds at most one request, and only when the gap since
\* the last one is over; a request still pending after it is younger than the
\* timeout.
LEMMA TickStep ==
    ASSUME NEW s \in Schedulers, NEW t \in Nat, NEW ok \in BOOLEAN
    PROVE  LET n == Tick(s, t, ok) IN
           /\ n \in Schedulers
           /\ \/ /\ Sends(Expire(s, t), t)
                 /\ GapOver(s, t)
                 /\ n.lastSend = t
                 /\ Unanswered(n) = Unanswered(s) + 1
                 /\ n.pending # None => n.sentAt = t
              \/ /\ ~Sends(Expire(s, t), t)
                 /\ n.lastSend = s.lastSend
                 /\ Unanswered(n) = Unanswered(s)
                 /\ n.pending # None => n = s /\ t - s.sentAt < PendingTimeout
<1> DEFINE e == Expire(s, t)
<1>1. /\ e \in Schedulers
      /\ e.lastSend = s.lastSend
      /\ \/ e = s /\ (s.pending # None => t - s.sentAt < PendingTimeout)
         \/ s.pending # None /\ e.pending = None /\ e.failures = s.failures + 1
    BY ExpireType
<1>2. Tick(s, t, ok) = IF Sends(e, t) THEN Send(e, t, ok) ELSE e
    BY DEF Tick
<1> HIDE DEF e
<1>3. s.failures \in Nat /\ e.failures \in Nat
    BY <1>1 DEF Schedulers
<1>4. Unanswered(e) = Unanswered(s)
    BY <1>1, <1>3 DEF Unanswered
<1>5. CASE Sends(e, t)
    <2> DEFINE n == Send(e, t, ok)
    <2>1. /\ n \in Schedulers
          /\ n.lastSend = t
          /\ \/ n.pending # None /\ n.sentAt = t /\ n.failures = e.failures
             \/ n.pending = None /\ n.failures = e.failures + 1
        BY <1>1, <1>5, SendType
    <2>2. e.pending = None /\ GapOver(s, t)
        BY <1>1, <1>5 DEF Sends, GapOver
    <2>3. Tick(s, t, ok) = n
        BY <1>2, <1>5
    <2> HIDE DEF n
    <2>4. Unanswered(n) = Unanswered(e) + 1
        BY <1>3, <2>1, <2>2 DEF Unanswered
    <2> QED BY <1>4, <1>5, <2>1, <2>2, <2>3, <2>4 DEF e
<1>6. CASE ~Sends(e, t)
    BY <1>1, <1>2, <1>4, <1>6 DEF e
<1> QED BY <1>5, <1>6

\* One call of NoteFrame only ever turns the pending request into an answered
\* or a failed one.
LEMMA NoteFrameStep ==
    ASSUME NEW s \in Schedulers, NEW t \in Nat, NEW f \in Frames
    PROVE  LET n == NoteFrame(s, f, t) IN
           /\ n \in Schedulers
           /\ n.lastSend = s.lastSend
           /\ Unanswered(n) + (IF Answers(s, f) THEN 1 ELSE 0) = Unanswered(s)
           /\ n.pending # None => n = s
<1> DEFINE n == NoteFrame(s, f, t)
<1>1. /\ n \in Schedulers
      /\ n.lastSend = s.lastSend
      /\ \/ n = s /\ ~Answers(s, f)
         \/ /\ s.pending # None /\ n.pending = None
            /\ Answers(s, f) /\ n.failures = s.failures
         \/ /\ s.pending # None /\ n.pending = None
            /\ ~Answers(s, f) /\ n.failures = s.failures + 1
    BY NoteFrameType
<1> HIDE DEF n
<1>2. s.failures \in Nat /\ n.failures \in Nat
    BY <1>1 DEF Schedulers
<1>3. Unanswered(n) + (IF Answers(s, f) THEN 1 ELSE 0) = Unanswered(s)
    BY <1>1, <1>2 DEF Unanswered
<1> QED BY <1>1, <1>3 DEF n

-----------------------------------------------------------------------------
\* The inductive invariant.  Spacing: the scheduler remembers the last attempt
\* up to the stamp lag, or it is fresh and a whole RetryDelay younger than the
\* last attempt.  Pending: once the ticker has been served in this second the
\* pending request has at least one second left.
SpacingInv ==
    /\ last <= now
    /\ opened <= now
    /\ sched.lastSend # ZeroTime => last - MaxLag <= sched.lastSend
    /\ sched.lastSend = ZeroTime => last = ZeroTime \/ opened - last >= RetryDelay

PendingInv ==
    sched.pending # None =>
        now - sched.sentAt <= PendingTimeout + MaxLag - (IF ticked THEN 1 ELSE 0)

IInv == TypeOK /\ Accounting /\ RequestSpacing /\ SpacingInv /\ PendingInv

\* A step in which some caller runs Tick on scheduler s with stamp t.
LEMMA CallerStep ==
    ASSUME IInv, NEW s \in Schedulers, NEW t \in Stamps, NEW ok \in BOOLEAN,
           s.lastSend = sched.lastSend,
           s.pending # None => s = sched,
           sched' = Tick(s, t, ok), NoteAttempt(s, t),
           now' = now, opened' = opened, ticked' \in BOOLEAN
    PROVE  /\ sched' \in Schedulers
           /\ attempts' \in Nat /\ last' \in Nat /\ spacing' \in Int
           /\ attempts' - attempts = Unanswered(sched') - Unanswered(s)
           /\ RequestSpacing'
           /\ SpacingInv'
           /\ PendingInv'
<1> USE DEF ZeroTime
<1>1. /\ t \in Nat /\ t # 0 /\ now - MaxLag <= t /\ t <= now /\ opened <= t
      /\ now \in Nat /\ opened \in Nat /\ last \in Nat /\ spacing \in Int
      /\ attempts \in Nat /\ sched \in Schedulers /\ ticked \in BOOLEAN
    BY LagAssumption DEF IInv, TypeOK, Stamps
<1>2. /\ sched' \in Schedulers
      /\ \/ /\ Sends(Expire(s, t), t)
            /\ GapOver(s, t)
            /\ sched'.lastSend = t
            /\ Unanswered(sched') = Unanswered(s) + 1
            /\ sched'.pending # None => sched'.sentAt = t
         \/ /\ ~Sends(Expire(s, t), t)
            /\ sched'.lastSend = s.lastSend
            /\ Unanswered(sched') = Unanswered(s)
            /\ sched'.pending # None => sched' = s /\ t - s.sentAt < PendingTimeout
    BY <1>1, TickStep
<1>3. /\ s.lastSend \in Nat /\ sched.sentAt \in Nat /\ sched'.sentAt \in Nat
      /\ Unanswered(s) \in Nat
    BY <1>1, <1>2 DEF Schedulers, Unanswered
<1>4. CASE Sends(Expire(s, t), t)
    <2>1. /\ attempts' = attempts + 1 /\ last' = now
          /\ spacing' = IF last = 0 THEN spacing ELSE now - last
        BY <1>4 DEF NoteAttempt
    <2>2. Unanswered(sched') = Unanswered(s) + 1
        BY <1>2, <1>4
    <2>3. last = 0 \/ now - last >= InterSendGap - MaxLag
        <3>1. GapOver(s, t)
            BY <1>2, <1>4
        <3>2. CASE s.lastSend = 0
            BY <1>1, <3>2, RetryAssumption, TimingAssumption, LagAssumption
               DEF IInv, SpacingInv
        <3>3. CASE s.lastSend # 0
            BY <1>1, <1>3, <3>1, <3>3, TimingAssumption, LagAssumption
               DEF IInv, SpacingInv, GapOver
        <3> QED BY <3>2, <3>3
    <2>4. RequestSpacing'
        BY <1>1, <2>1, <2>3 DEF IInv, RequestSpacing
    <2>5. SpacingInv'
        BY <1>1, <1>2, <1>4, <2>1, LagAssumption DEF IInv, SpacingInv
    <2>6. PendingInv'
        BY <1>1, <1>2, <1>4, TimingAssumption, LagAssumption DEF PendingInv
    <2> QED BY <1>1, <1>2, <1>3, <2>1, <2>2, <2>4, <2>5, <2>6
<1>5. CASE ~Sends(Expire(s, t), t)
    <2>1. UNCHANGED <<attempts, last, spacing>>
        BY <1>5 DEF NoteAttempt
    <2>2. Unanswered(sched') = Unanswered(s)
        BY <1>2, <1>5
    <2>3. RequestSpacing'
        BY <2>1 DEF IInv, RequestSpacing
    <2>4. SpacingInv'
        BY <1>2, <1>5, <2>1 DEF IInv, SpacingInv
    <2>5. PendingInv'
        BY <1>1, <1>2, <1>3, <1>5, TimingAssumption, LagAssumption DEF PendingInv
    <2> QED BY <1>1, <1>2, <1>3, <2>1, <2>2, <2>3, <2>4, <2>5
<1> QED BY <1>4, <1>5

-----------------------------------------------------------------------------
\* The inductive invariant holds initially.
LEMMA InitInv == Init => IInv
<1> SUFFICES ASSUME Init PROVE IInv
    OBVIOUS
<1> USE DEF Init, ZeroTime
<1>1. TypeOK
    <2>1. ticked \in BOOLEAN
        BY Zenon
    <2>2. /\ now \in Nat \ {0} /\ opened \in Nat \ {0} /\ sched = New
          /\ attempts \in Nat /\ acks \in Nat /\ last \in Nat /\ spacing \in Int
        BY TimingAssumption
    <2> QED BY <2>1, <2>2, NewType DEF TypeOK
<1>2. Accounting
    BY DEF Accounting, New
<1>3. RequestSpacing
    BY TimingAssumption, LagAssumption DEF RequestSpacing
<1>4. SpacingInv /\ PendingInv
    BY LagAssumption DEF SpacingInv, PendingInv, New, None
<1> QED BY <1>1, <1>2, <1>3, <1>4 DEF IInv

\* Every step of the clock, the two callers and the reconnect preserves it.
LEMMA NextInv == IInv /\ [Next]_vars => IInv'
<1> SUFFICES ASSUME IInv, [Next]_vars PROVE IInv'
    OBVIOUS
<1>1. /\ TypeOK /\ sched \in Schedulers /\ sched.failures \in Nat
      /\ attempts = acks + Unanswered(sched)
    BY DEF IInv, TypeOK, Accounting, Unanswered, Schedulers
<1>2. CASE Clock
    <2>1. TypeOK'
        <3>1. ticked' \in BOOLEAN
            BY <1>2, Zenon DEF Clock
        <3>2. now' \in Nat \ {ZeroTime}
            BY <1>1, <1>2 DEF Clock, TypeOK, ZeroTime
        <3> QED BY <1>1, <1>2, <3>1, <3>2 DEF Clock, TypeOK, hist
    <2>2. Accounting' /\ RequestSpacing'
        BY <1>2 DEF Clock, IInv, Accounting, RequestSpacing, hist
    <2>3. SpacingInv'
        BY <1>1, <1>2 DEF Clock, IInv, SpacingInv, hist, TypeOK
    <2>4. PendingInv'
        BY <1>1, <1>2, TimingAssumption, LagAssumption
           DEF Clock, IInv, PendingInv, TypeOK, Schedulers
    <2> QED BY <2>1, <2>2, <2>3, <2>4 DEF IInv
<1>3. CASE Ticker
    <2>1. PICK t \in Stamps, ok \in BOOLEAN :
            sched' = Tick(sched, t, ok) /\ NoteAttempt(sched, t)
        BY <1>3 DEF Ticker
    <2>2. /\ now' = now /\ opened' = opened /\ acks' = acks /\ ticked' = TRUE
        BY <1>3 DEF Ticker
    <2>3. /\ sched' \in Schedulers
          /\ attempts' \in Nat /\ last' \in Nat /\ spacing' \in Int
          /\ attempts' - attempts = Unanswered(sched') - Unanswered(sched)
          /\ RequestSpacing' /\ SpacingInv' /\ PendingInv'
        BY <1>1, <2>1, <2>2, CallerStep
    <2>4. TypeOK'
        BY <1>1, <2>2, <2>3 DEF TypeOK
    <2>5. Accounting'
        <3>1. sched'.failures \in Nat /\ acks \in Nat /\ attempts \in Nat
            BY <1>1, <2>3 DEF Schedulers, TypeOK
        <3> QED BY <1>1, <2>2, <2>3, <3>1 DEF Accounting, Unanswered
    <2> QED BY <2>3, <2>4, <2>5 DEF IInv
<1>4. ASSUME NEW f \in Frames, ReadLoop(f) PROVE IInv'
    <2>1. PICK t \in Stamps, ok \in BOOLEAN :
            /\ sched' = Tick(NoteFrame(sched, f, t), t, ok)
            /\ NoteAttempt(NoteFrame(sched, f, t), t)
        BY <1>4 DEF ReadLoop
    <2> DEFINE s == NoteFrame(sched, f, t)
               a == IF Answers(sched, f) THEN 1 ELSE 0
    <2>2. /\ now' = now /\ opened' = opened /\ ticked' = ticked
          /\ acks' = acks + a
        BY <1>4 DEF ReadLoop
    <2>3. t \in Nat
        BY <1>1 DEF Stamps, TypeOK, ZeroTime
    <2>4. /\ s \in Schedulers /\ s.lastSend = sched.lastSend
          /\ Unanswered(s) + a = Unanswered(sched)
          /\ s.pending # None => s = sched
        BY <1>1, <2>3, NoteFrameStep
    <2>5. sched' = Tick(s, t, ok) /\ NoteAttempt(s, t) /\ a \in Nat
        BY <2>1
    <2> HIDE DEF s, a
    <2>6. /\ sched' \in Schedulers
          /\ attempts' \in Nat /\ last' \in Nat /\ spacing' \in Int
          /\ attempts' - attempts = Unanswered(sched') - Unanswered(s)
          /\ RequestSpacing' /\ SpacingInv' /\ PendingInv'
        BY <1>1, <2>2, <2>4, <2>5, CallerStep DEF TypeOK
    <2>7. TypeOK'
        BY <1>1, <2>2, <2>5, <2>6 DEF TypeOK
    <2>8. Accounting'
        <3>1. /\ sched'.failures \in Nat /\ acks \in Nat /\ attempts \in Nat
              /\ Unanswered(s) \in Nat
            BY <1>1, <2>4, <2>6 DEF Schedulers, TypeOK, Unanswered
        <3> QED BY <1>1, <2>2, <2>4, <2>5, <2>6, <3>1 DEF Accounting, Unanswered
    <2> QED BY <2>6, <2>7, <2>8 DEF IInv
<1>5. CASE Reopen
    <2>1. TypeOK'
        <3>1. ticked' \in BOOLEAN
            BY <1>5, Zenon DEF Reopen
        <3>2. now' \in Nat \ {ZeroTime}
            BY <1>1, <1>5, RetryAssumption DEF Reopen, TypeOK, ZeroTime
        <3> QED BY <1>1, <1>5, <3>1, <3>2, NewType DEF Reopen, TypeOK
    <2>2. Accounting' /\ PendingInv'
        BY <1>5 DEF Reopen, Accounting, PendingInv, New
    <2>3. RequestSpacing'
        BY <1>5 DEF Reopen, IInv, RequestSpacing
    <2>4. SpacingInv'
        BY <1>1, <1>5, RetryAssumption
           DEF Reopen, IInv, SpacingInv, New, TypeOK, ZeroTime
    <2> QED BY <2>1, <2>2, <2>3, <2>4 DEF IInv
<1>6. CASE UNCHANGED vars
    BY <1>6 DEF vars, hist, IInv, TypeOK, Accounting, RequestSpacing, SpacingInv, PendingInv
<1> QED BY <1>2, <1>3, <1>4, <1>5, <1>6 DEF Next

\* The inductive invariant holds in every reachable state.
THEOREM Invariance == Spec => []IInv
BY InitInv, NextInv, PTL DEF Spec

\* The scheduler's fields keep their types, and a backoff its range, whatever
\* frames arrive and whichever writes fail.
THEOREM TypeCorrect == Spec => []TypeOK
<1>1. IInv => TypeOK
    BY DEF IInv
<1> QED BY Invariance, <1>1, PTL

\* No request is lost from the books or counted twice.
THEOREM AccountingHolds == Spec => []Accounting
<1>1. IInv => Accounting
    BY DEF IInv
<1> QED BY Invariance, <1>1, PTL

\* Two requests are never closer than interSendGap less the stamp lag, also
\* across reconnects.
THEOREM SpacingHolds == Spec => []RequestSpacing
<1>1. IInv => RequestSpacing
    BY DEF IInv
<1> QED BY Invariance, <1>1, PTL

\* A pending request is given up within its timeout plus the stamp lag.
THEOREM PendingBoundHolds == Spec => []PendingBounded
<1>1. IInv => PendingBounded
    <2> SUFFICES ASSUME IInv, sched.pending # None
                 PROVE  now - sched.sentAt <= PendingTimeout + MaxLag
        BY DEF PendingBounded
    <2>1. now \in Nat /\ sched.sentAt \in Nat
        BY DEF IInv, TypeOK, Schedulers
    <2> QED BY <2>1, TimingAssumption, LagAssumption DEF IInv, PendingInv
<1> QED BY Invariance, <1>1, PTL

-----------------------------------------------------------------------------
\* Since when target x waits, and since when it could have been asked: a target
\* waits its turn from its due time, or from the last request if that is later.
Since(s, x) == IF s.due[x] = ZeroTime THEN opened ELSE s.due[x]
Turn(s, x) == IF s.lastSend > Since(s, x) THEN s.lastSend ELSE Since(s, x)

\* The targets that Tick prefers to x.
Ahead(s, x) ==
    {y \in Targets \ {x, s.pending} :
        s.due[y] < s.due[x] \/ (s.due[y] = s.due[x] /\ y < x)}

\* The inductive invariant of fairness.  Sent: what is pending is the last
\* request.  Timely: some request is written within a slot (k is the second the
\* ticker has already used).  Ranked: every slot a target has waited so far went
\* to a target that was preferred to it and is so no longer.
Sent(s) ==
    /\ s.lastSend <= now
    /\ s.pending # None => s.sentAt = s.lastSend /\ s.lastSend # ZeroTime

Timely(s, k) == \A x \in Targets \ {s.pending} : now - Turn(s, x) <= Slot - k

Ranked(s) ==
    \A x \in Targets \ {s.pending} :
        Turn(s, x) - Since(s, x) <= (N - 1 - Cardinality(Ahead(s, x))) * Slot

FairInv == Sent(sched) /\ Timely(sched, IF ticked THEN 1 ELSE 0) /\ Ranked(sched)

\* The types behind the invariant.
LEMMA SlotType ==
    /\ Slot \in Nat /\ Slot >= MaxLag + 1
    /\ Slot >= PendingTimeout + MaxLag /\ Slot >= InterSendGap + MaxLag
BY TimingAssumption, LagAssumption DEF Slot

LEMMA SinceType ==
    ASSUME TypeOK, NEW s \in Schedulers, NEW x \in Targets
    PROVE  /\ Since(s, x) \in Nat /\ Turn(s, x) \in Nat
           /\ Since(s, x) <= Turn(s, x) /\ s.lastSend <= Turn(s, x)
           /\ s.due[x] <= Since(s, x) /\ s.due[x] \in Nat /\ s.lastSend \in Nat
BY DEF TypeOK, Schedulers, Since, Turn, ZeroTime

\* At most all the others are ahead of a target.
LEMMA AheadBound ==
    ASSUME NEW s \in Schedulers, NEW x \in Targets
    PROVE  /\ IsFiniteSet(Ahead(s, x))
           /\ Cardinality(Ahead(s, x)) \in Nat
           /\ Cardinality(Ahead(s, x)) <= N - 1
<1>1. /\ IsFiniteSet(Targets) /\ Cardinality(Targets) = N
    <2>1. 1 \in Int /\ N \in Int /\ (1 > N => N = 0) /\ N - 1 + 1 = N
        BY SizeAssumption
    <2> QED BY <2>1, FS_Interval DEF Targets
<1>2. /\ IsFiniteSet(Targets \ {x})
      /\ Cardinality(Targets \ {x}) = N - 1
    BY <1>1, FS_RemoveElement
<1>3. Ahead(s, x) \subseteq Targets \ {x}
    BY DEF Ahead
<1>4. /\ IsFiniteSet(Ahead(s, x))
      /\ Cardinality(Ahead(s, x)) <= Cardinality(Targets \ {x})
    BY <1>2, <1>3, FS_Subset
<1> QED BY <1>2, <1>4, FS_CardinalityType

\* The more there are ahead, the less a target has waited.
LEMMA FewerSlots ==
    ASSUME NEW m \in Nat, NEW k \in Nat, m <= k
    PROVE  (N - 1 - k) * Slot <= (N - 1 - m) * Slot
<1>1. N \in Int /\ Slot \in Nat
    BY SizeAssumption, SlotType
<1>2. PICK d \in Nat : k = m + d
    <2>1. k - m \in Nat /\ k = m + (k - m)
        OBVIOUS
    <2> QED BY <2>1
<1>3. \A a, b, c \in Int : (a - (b + c)) * Slot = (a - b) * Slot - c * Slot
    BY <1>1
<1>4. d * Slot \in Nat
    BY <1>1, <1>2
<1>5. (N - 1 - m) * Slot \in Int
    BY <1>1
<1>6. (N - 1 - k) * Slot = (N - 1 - m) * Slot - d * Slot
    BY <1>1, <1>2, <1>3
<1> QED BY <1>4, <1>5, <1>6

\* One more slot for one less ahead.
LEMMA OneSlot ==
    ASSUME NEW k \in Nat
    PROVE  /\ (N - 1 - k) * Slot \in Int
           /\ (N - 1 - (k - 1)) * Slot = (N - 1 - k) * Slot + Slot
<1>1. N \in Int /\ Slot \in Nat
    BY SizeAssumption, SlotType
<1>2. \A a \in Int : (a + 1) * Slot = a * Slot + Slot /\ a * Slot \in Int
    BY <1>1
<1>3. N - 1 - (k - 1) = (N - 1 - k) + 1 /\ N - 1 - k \in Int
    BY <1>1
<1> QED BY <1>2, <1>3

\* A target that was not passed over has nothing to show for it.
LEMMA SlotsLeft ==
    ASSUME NEW s \in Schedulers, NEW x \in Targets
    PROVE  0 <= (N - 1 - Cardinality(Ahead(s, x))) * Slot
<1>1. N - 1 \in Nat /\ N \in Int
    BY SizeAssumption DEF Targets
<1>2. (N - 1 - (N - 1)) * Slot = 0
    BY <1>1, SlotType
<1> QED BY <1>1, <1>2, AheadBound, FewerSlots

\* Closing the pending request keeps the invariant: its target is due later than
\* the clock, so it is ahead of nobody who has been passed over.
LEMMA CloseFair ==
    ASSUME TypeOK, NEW s \in Schedulers, NEW e \in Schedulers, NEW u \in Nat,
           NEW k \in 0..1, now <= u,
           s.pending # None, e.pending = None, e.lastSend = s.lastSend,
           e.due = [s.due EXCEPT ![s.pending] = u],
           Sent(s), Timely(s, k), Ranked(s)
    PROVE  Sent(e) /\ Timely(e, k) /\ Ranked(e)
<1> DEFINE p == s.pending
<1>1. p \in Targets /\ now \in Nat /\ now # 0 /\ s.lastSend \in Nat /\ s.lastSend <= now
    BY DEF TypeOK, Schedulers, Sent, ZeroTime
<1>2. ASSUME NEW x \in Targets, x # p
      PROVE  /\ e.due[x] = s.due[x] /\ Since(e, x) = Since(s, x)
             /\ Turn(e, x) = Turn(s, x)
    <2>1. e.due[x] = s.due[x]
        BY <1>1, <1>2 DEF Schedulers
    <2> QED BY <2>1 DEF Since, Turn
<1>3. e.due[p] = u /\ Since(e, p) = u /\ Turn(e, p) = u
    <2>1. e.due[p] = u
        BY <1>1 DEF Schedulers
    <2> QED BY <1>1, <2>1 DEF Since, Turn, ZeroTime
<1>4. Sent(e)
    BY DEF Sent
<1>5. Timely(e, k)
    <2> SUFFICES ASSUME NEW x \in Targets PROVE now - Turn(e, x) <= Slot - k
        BY DEF Timely
    <2>1. CASE x = p
        BY <1>1, <1>3, <2>1, SlotType, LagAssumption
    <2>2. CASE x # p
        BY <1>2, <2>2 DEF Timely
    <2> QED BY <2>1, <2>2
<1>6. Ranked(e)
    <2> SUFFICES ASSUME NEW x \in Targets
                 PROVE  Turn(e, x) - Since(e, x)
                            <= (N - 1 - Cardinality(Ahead(e, x))) * Slot
        BY DEF Ranked
    <2>1. 0 <= (N - 1 - Cardinality(Ahead(e, x))) * Slot
        BY SlotsLeft
    <2>2. Turn(e, x) \in Nat /\ Since(e, x) \in Nat
        BY SinceType
    <2>3. CASE Turn(e, x) = Since(e, x)
        BY <2>1, <2>2, <2>3
    <2>4. CASE x # p /\ Turn(e, x) # Since(e, x)
        <3>1. s.lastSend > Since(s, x)
            BY <1>2, <2>4 DEF Turn
        <3>2. s.due[x] < u /\ s.due[x] \in Nat
            BY <1>1, <3>1, SinceType
        <3>3. Ahead(e, x) \subseteq Ahead(s, x)
            <4> SUFFICES ASSUME NEW y \in Ahead(e, x) PROVE y \in Ahead(s, x)
                OBVIOUS
            <4>1. /\ y \in Targets /\ y # x
                  /\ e.due[y] < e.due[x] \/ (e.due[y] = e.due[x] /\ y < x)
                BY DEF Ahead
            <4>2. y # p
                BY <1>2, <1>3, <2>4, <3>2, <4>1
            <4> QED BY <1>2, <2>4, <4>1, <4>2 DEF Ahead
        <3>4. Cardinality(Ahead(e, x)) <= Cardinality(Ahead(s, x))
            BY <3>3, AheadBound, FS_Subset
        <3>5. (N - 1 - Cardinality(Ahead(s, x))) * Slot
                <= (N - 1 - Cardinality(Ahead(e, x))) * Slot
            BY <3>4, AheadBound, FewerSlots
        <3>6. Turn(e, x) - Since(e, x) <= (N - 1 - Cardinality(Ahead(s, x))) * Slot
            BY <1>2, <2>4 DEF Ranked
        <3>7. /\ (N - 1 - Cardinality(Ahead(s, x))) * Slot \in Int
              /\ (N - 1 - Cardinality(Ahead(e, x))) * Slot \in Int
            BY AheadBound, OneSlot
        <3> QED BY <2>2, <3>5, <3>6, <3>7
    <2>5. x = p => Turn(e, x) = Since(e, x)
        BY <1>3
    <2> QED BY <2>3, <2>4, <2>5
<1> QED BY <1>4, <1>5, <1>6

\* Writing a request keeps it, and starts a slot: whoever is due and passed over
\* had the chosen target ahead and has it ahead no longer.
LEMMA SendFair ==
    ASSUME TypeOK, NEW s \in Schedulers, NEW t \in Stamps, NEW ok \in BOOLEAN,
           Sends(s, t), Sent(s), Timely(s, 0), Ranked(s)
    PROVE  LET n == Send(s, t, ok) IN Sent(n) /\ Timely(n, 1) /\ Ranked(n)
<1> DEFINE n == Send(s, t, ok)
           p == Pick(s, t)
<1>1. /\ t \in Nat /\ t # 0 /\ now - MaxLag <= t /\ t <= now /\ now \in Nat
      /\ opened <= t /\ opened \in Nat /\ s.pending = None
    BY LagAssumption DEF TypeOK, Stamps, ZeroTime, Sends
<1>2. /\ n \in Schedulers /\ n.lastSend = t
      /\ n.pending # None => n.sentAt = t
    BY <1>1, SendType
<1>3. /\ p \in Targets /\ s.due[p] <= t
      /\ \A y \in Targets : s.due[y] <= t =>
            s.due[p] < s.due[y] \/ (s.due[p] = s.due[y] /\ p <= y)
    BY <1>1, PickIsDue DEF Sends, Due
<1>4. \/ n.pending = p /\ n.due = s.due
      \/ n.pending = None /\ n.due = [s.due EXCEPT ![p] = t + InterSendGap]
    <2>1. CASE ok
        BY <2>1 DEF Send, Schedulers
    <2>2. CASE ~ok
        BY <1>1, <2>2 DEF Send, Schedulers
    <2> QED BY <2>1, <2>2
<1> HIDE DEF n, p
<1>5. Sent(n)
    BY <1>1, <1>2 DEF Sent, ZeroTime
<1>6. Timely(n, 1)
    <2> SUFFICES ASSUME NEW x \in Targets PROVE now - Turn(n, x) <= Slot - 1
        BY DEF Timely
    <2> QED BY <1>1, <1>2, SinceType, SlotType, LagAssumption
<1>7. Ranked(n)
    <2> SUFFICES ASSUME NEW x \in Targets \ {n.pending}
                 PROVE  Turn(n, x) - Since(n, x)
                            <= (N - 1 - Cardinality(Ahead(n, x))) * Slot
        BY DEF Ranked
    <2>1. 0 <= (N - 1 - Cardinality(Ahead(n, x))) * Slot
        BY <1>2, SlotsLeft
    <2>2. /\ Turn(n, x) \in Nat /\ Since(n, x) \in Nat
          /\ Turn(s, x) \in Nat /\ Since(s, x) \in Nat
          /\ s.due[x] \in Nat /\ s.due[x] <= Since(s, x)
        BY <1>2, SinceType
    <2>3. CASE Turn(n, x) = Since(n, x)
        BY <2>1, <2>2, <2>3
    <2>4. CASE Turn(n, x) # Since(n, x)
        <3>1. t > Since(n, x) /\ Turn(n, x) = t
            BY <1>2, <2>4 DEF Turn
        <3>2. x # p
            <4> SUFFICES ASSUME x = p PROVE FALSE
                OBVIOUS
            <4>1. n.due[x] = t + InterSendGap
                BY <1>3, <1>4 DEF Schedulers
            <4> QED BY <1>1, <3>1, <4>1, TimingAssumption DEF Since, ZeroTime
        <3>3. n.due[x] = s.due[x] /\ Since(n, x) = Since(s, x)
            <4>1. n.due[x] = s.due[x]
                BY <1>3, <1>4, <3>2 DEF Schedulers
            <4> QED BY <4>1 DEF Since
        <3>4. s.due[x] <= t
            BY <1>1, <2>2, <3>1, <3>3
        <3>5. p \in Ahead(s, x)
            <4>1. p # None /\ p \in Int /\ x \in Int
                BY <1>3, SizeAssumption DEF Targets, None
            <4>2. s.due[p] < s.due[x] \/ (s.due[p] = s.due[x] /\ p < x)
                BY <1>3, <3>2, <3>4, <4>1
            <4> QED BY <1>1, <1>3, <3>2, <4>1, <4>2 DEF Ahead
        <3>6. Ahead(n, x) \subseteq Ahead(s, x) \ {p}
            <4> SUFFICES ASSUME NEW y \in Ahead(n, x)
                         PROVE  y \in Ahead(s, x) /\ y # p
                OBVIOUS
            <4>1. /\ y \in Targets /\ y # x /\ y # n.pending
                  /\ n.due[y] < n.due[x] \/ (n.due[y] = n.due[x] /\ y < x)
                BY DEF Ahead
            <4>2. y # p
                <5> SUFFICES ASSUME y = p PROVE FALSE
                    OBVIOUS
                <5>1. n.due[p] = t + InterSendGap
                    BY <1>3, <1>4, <4>1 DEF Schedulers
                <5> QED BY <1>1, <2>2, <3>3, <3>4, <4>1, <5>1, TimingAssumption
            <4>3. n.due[y] = s.due[y]
                BY <1>3, <1>4, <4>1, <4>2 DEF Schedulers
            <4>4. y # None
                BY <4>1, SizeAssumption DEF Targets, None
            <4> QED BY <1>1, <3>3, <4>1, <4>2, <4>3, <4>4 DEF Ahead
        <3> DEFINE c == Cardinality(Ahead(s, x))
                   m == Cardinality(Ahead(n, x))
        <3>7. c \in Nat /\ m \in Nat /\ m <= c - 1
            <4>1. IsFiniteSet(Ahead(s, x)) /\ c \in Nat /\ m \in Nat
                BY <1>2, AheadBound
            <4>2. /\ IsFiniteSet(Ahead(s, x) \ {p})
                  /\ Cardinality(Ahead(s, x) \ {p}) = c - 1
                BY <3>5, <4>1, FS_RemoveElement
            <4> QED BY <3>6, <4>1, <4>2, FS_Subset
        <3>8. Turn(s, x) - Since(s, x) <= (N - 1 - c) * Slot
            BY <1>1, SizeAssumption DEF Ranked, Targets, None
        <3>9. now - Turn(s, x) <= Slot
            <4>1. now - Turn(s, x) <= Slot - 0
                BY <1>1, SizeAssumption DEF Timely, Targets, None
            <4> QED BY <4>1, SlotType
        <3> HIDE DEF c, m
        <3>10. /\ (N - 1 - c) * Slot \in Int
               /\ (N - 1 - (c - 1)) * Slot = (N - 1 - c) * Slot + Slot
            BY <3>7, OneSlot
        <3>11. /\ (N - 1 - (c - 1)) * Slot <= (N - 1 - m) * Slot
               /\ (N - 1 - m) * Slot \in Int
            <4>1. c - 1 \in Nat
                BY <3>7
            <4> QED BY <3>7, <4>1, FewerSlots, OneSlot
        <3>12. t - Since(s, x) <= (N - 1 - m) * Slot
            BY <1>1, <2>2, <3>8, <3>9, <3>10, <3>11, SlotType
        <3> QED BY <3>1, <3>3, <3>12 DEF m
    <2> QED BY <2>3, <2>4
<1> QED BY <1>5, <1>6, <1>7 DEF n

\* Failing the pending request, and answering it, close it in this way: a backoff
\* and an interval are longer than the lag of a stamp.
LEMMA FailFair ==
    ASSUME TypeOK, NEW s \in Schedulers, NEW t \in Stamps, s.pending # None,
           Sent(s), Timely(s, 0), Ranked(s)
    PROVE  LET e == Fail(s, t) IN Sent(e) /\ Timely(e, 0) /\ Ranked(e)
<1> DEFINE b == nextBackoff(s.backoff[s.pending])
<1>1. b \in FirstBackoff..MaxBackoff /\ s.pending \in Targets
    BY BackoffType DEF Schedulers
<1>2. /\ t \in Nat /\ now - MaxLag <= t /\ now \in Nat
    BY LagAssumption DEF TypeOK, Stamps, ZeroTime
<1>3. Fail(s, t).due = [s.due EXCEPT ![s.pending] = t + b]
    BY DEF Fail, Schedulers, b
<1> HIDE DEF b
<1>4. t + b \in Nat /\ now <= t + b
    BY <1>1, <1>2, TimingAssumption, LagAssumption, ShortLagAssumption
<1>5. /\ Fail(s, t) \in Schedulers /\ Fail(s, t).pending = None
      /\ Fail(s, t).lastSend = s.lastSend
    BY <1>2, FailType
<1> QED BY <1>3, <1>4, <1>5, CloseFair

LEMMA SucceedFair ==
    ASSUME TypeOK, NEW s \in Schedulers, NEW t \in Stamps, s.pending # None,
           Sent(s), Timely(s, 0), Ranked(s)
    PROVE  LET e == Succeed(s, t) IN Sent(e) /\ Timely(e, 0) /\ Ranked(e)
<1> DEFINE b == Every(s.pending)
<1>1. s.pending \in Targets
    BY DEF Schedulers
<1>2. b \in Nat /\ MinInterval <= b
    BY <1>1, IntervalAssumption, TimingAssumption DEF Every
<1>3. t \in Nat /\ now - MaxLag <= t /\ now \in Nat
    BY LagAssumption DEF TypeOK, Stamps, ZeroTime
<1>4. Succeed(s, t).due = [s.due EXCEPT ![s.pending] = t + b]
    BY DEF Succeed, Schedulers
<1> HIDE DEF b
<1>5. t + b \in Nat /\ now <= t + b
    BY <1>2, <1>3, TimingAssumption, LagAssumption, ShortLagAssumption
<1>6. /\ Succeed(s, t) \in Schedulers /\ Succeed(s, t).pending = None
      /\ Succeed(s, t).lastSend = s.lastSend
    BY <1>3, SucceedType
<1> QED BY <1>4, <1>5, <1>6, CloseFair

\* After a call of Tick the next request is less than a slot away: had somebody
\* waited the whole slot, the pending request would be over its timeout, the gap
\* over, and Tick would have written a request.
LEMMA TickFair ==
    ASSUME TypeOK, NEW s \in Schedulers, NEW t \in Stamps, NEW ok \in BOOLEAN,
           Sent(s), Timely(s, 0), Ranked(s)
    PROVE  LET n == Tick(s, t, ok) IN Sent(n) /\ Timely(n, 1) /\ Ranked(n)
<1> DEFINE e == Expire(s, t)
<1>1. t \in Nat /\ now - MaxLag <= t /\ now \in Nat
    BY LagAssumption DEF TypeOK, Stamps, ZeroTime
<1>2. /\ e \in Schedulers
      /\ \/ e = s /\ (s.pending # None => t - s.sentAt < PendingTimeout)
         \/ s.pending # None /\ e.pending = None
    BY <1>1, ExpireType
<1>3. Sent(e) /\ Timely(e, 0) /\ Ranked(e)
    <2>1. e = s \/ (s.pending # None /\ e = Fail(s, t))
        BY DEF Expire
    <2> QED BY <2>1, FailFair
<1>4. Tick(s, t, ok) = IF Sends(e, t) THEN Send(e, t, ok) ELSE e
    BY DEF Tick
<1> HIDE DEF e
<1>5. CASE Sends(e, t)
    BY <1>2, <1>3, <1>4, <1>5, SendFair
<1>6. CASE ~Sends(e, t)
    <2>1. ASSUME NEW x \in Targets \ {e.pending}, ~(now - Turn(e, x) <= Slot - 1)
          PROVE  FALSE
        <3>1. /\ Turn(e, x) \in Nat /\ e.lastSend \in Nat /\ e.due[x] \in Nat
              /\ e.lastSend <= Turn(e, x) /\ e.due[x] <= Turn(e, x)
            BY <1>2, SinceType
        <3>2. /\ t - e.lastSend >= PendingTimeout
              /\ t - e.lastSend >= InterSendGap /\ e.due[x] <= t
            BY <1>1, <2>1, <3>1, SlotType, TimingAssumption, LagAssumption
        <3>3. e.pending = None
            <4>1. s.pending # None => s.sentAt = s.lastSend
                BY DEF Sent
            <4> QED BY <1>1, <1>2, <3>1, <3>2, <4>1, TimingAssumption
        <3> QED BY <1>6, <3>2, <3>3 DEF Sends, GapOver, Due
    <2>2. Timely(e, 1)
        BY <2>1 DEF Timely
    <2> QED BY <1>3, <1>4, <1>6, <2>2
<1> QED BY <1>5, <1>6

\* A second more for the ticker is never too much.
LEMMA TimelyWeaker ==
    ASSUME TypeOK, NEW s \in Schedulers, Timely(s, 1)
    PROVE  Timely(s, 0)
<1> SUFFICES ASSUME NEW x \in Targets \ {s.pending} PROVE now - Turn(s, x) <= Slot - 0
    BY DEF Timely
<1>1. now - Turn(s, x) <= Slot - 1
    BY DEF Timely
<1>2. now \in Nat /\ Turn(s, x) \in Nat
    BY SinceType DEF TypeOK
<1> QED BY <1>1, <1>2, SlotType

-----------------------------------------------------------------------------
\* The fairness invariant holds of a fresh scheduler, in Init and after a
\* reconnect: nobody has waited yet.
LEMMA FreshFair == TypeOK /\ sched = New /\ opened = now /\ ticked = FALSE => FairInv
<1> SUFFICES ASSUME TypeOK, sched = New, opened = now, ticked = FALSE
             PROVE  FairInv
    OBVIOUS
<1>1. /\ now \in Nat /\ now # 0 /\ sched \in Schedulers
      /\ sched.lastSend = 0 /\ sched.pending = None
    BY NewType DEF TypeOK, New, ZeroTime
<1>2. \A x \in Targets : Since(sched, x) = now /\ Turn(sched, x) = now
    BY <1>1 DEF Since, Turn, New, ZeroTime
<1>3. Sent(sched)
    BY <1>1 DEF Sent
<1>4. Timely(sched, 0)
    BY <1>1, <1>2, SlotType DEF Timely
<1>5. Ranked(sched)
    <2> SUFFICES ASSUME NEW x \in Targets
                 PROVE  Turn(sched, x) - Since(sched, x)
                            <= (N - 1 - Cardinality(Ahead(sched, x))) * Slot
        BY DEF Ranked
    <2>1. Turn(sched, x) - Since(sched, x) = 0
        BY <1>1, <1>2
    <2> QED BY <1>1, <2>1, SlotsLeft
<1> QED BY <1>3, <1>4, <1>5 DEF FairInv

\* What the predicates say in the next state, where sched' and now' are known.
LEMMA FairPrimed ==
    ASSUME TypeOK, NEW s \in Schedulers, s = sched', opened' = opened, now' = now,
           Sent(s), Timely(s, 1), Ranked(s)
    PROVE  FairInv'
<1>1. \A x \in Targets : /\ Since(sched, x)' = Since(s, x)
                         /\ Turn(sched, x)' = Turn(s, x)
                         /\ Ahead(sched, x)' = Ahead(s, x)
    BY DEF Since, Turn, Ahead
<1>2. Sent(sched)'
    BY DEF Sent
<1>3. Ranked(sched)'
    BY <1>1 DEF Ranked
<1>4. Timely(sched, 1)'
    BY <1>1 DEF Timely
<1>5. Timely(sched, 0)'
    BY <1>1, TimelyWeaker DEF Timely
<1> QED BY <1>2, <1>3, <1>4, <1>5 DEF FairInv

\* Every step preserves it.
LEMMA NextFair == IInv /\ IInv' /\ FairInv /\ [Next]_vars => FairInv'
<1> SUFFICES ASSUME IInv, IInv', FairInv, [Next]_vars PROVE FairInv'
    OBVIOUS
<1>1. /\ TypeOK /\ TypeOK' /\ sched \in Schedulers /\ sched' \in Schedulers
      /\ Sent(sched) /\ Ranked(sched)
    BY DEF IInv, TypeOK, FairInv
<1>2. Timely(sched, 0)
    BY <1>1, TimelyWeaker DEF FairInv
<1>3. CASE Clock
    <2>1. /\ ticked /\ now' = now + 1 /\ ticked' = FALSE /\ sched' = sched
          /\ opened' = opened
        BY <1>3 DEF Clock
    <2>2. /\ now \in Nat /\ sched.lastSend \in Nat
        BY <1>1 DEF TypeOK, Schedulers
    <2>3. \A x \in Targets : /\ Since(sched, x)' = Since(sched, x)
                             /\ Turn(sched, x)' = Turn(sched, x)
                             /\ Ahead(sched, x)' = Ahead(sched, x)
        BY <2>1 DEF Since, Turn, Ahead
    <2>4. Sent(sched)'
        BY <1>1, <2>1, <2>2 DEF Sent
    <2>5. Ranked(sched)'
        BY <1>1, <2>1, <2>3 DEF Ranked
    <2>6. Timely(sched, 0)'
        <3>1. ASSUME NEW x \in Targets \ {sched.pending}
              PROVE  now' - Turn(sched, x)' <= Slot - 0
            <4>1. now - Turn(sched, x) <= Slot - 1
                BY <2>1 DEF FairInv, Timely
            <4>2. Turn(sched, x) \in Nat /\ Turn(sched, x)' = Turn(sched, x)
                BY <1>1, <2>3, SinceType
            <4> QED BY <2>1, <2>2, <4>1, <4>2, SlotType
        <3> QED BY <2>1, <3>1 DEF Timely
    <2> QED BY <2>1, <2>4, <2>5, <2>6 DEF FairInv
<1>4. CASE Ticker
    <2>1. PICK t \in Stamps, ok \in BOOLEAN : sched' = Tick(sched, t, ok)
        BY <1>4 DEF Ticker
    <2>2. /\ now' = now /\ opened' = opened
        BY <1>4 DEF Ticker
    <2> QED BY <1>1, <1>2, <2>1, <2>2, TickFair, FairPrimed
<1>5. ASSUME NEW f \in Frames, ReadLoop(f) PROVE FairInv'
    <2>1. PICK t \in Stamps, ok \in BOOLEAN :
            sched' = Tick(NoteFrame(sched, f, t), t, ok)
        BY <1>5 DEF ReadLoop
    <2>2. /\ now' = now /\ opened' = opened
        BY <1>5 DEF ReadLoop
    <2> DEFINE s == NoteFrame(sched, f, t)
    <2>3. t \in Nat
        BY <1>1 DEF Stamps, TypeOK, ZeroTime
    <2>4. s \in Schedulers
        BY <1>1, <2>3, NoteFrameType
    <2>5. \/ s = sched
          \/ sched.pending # None /\ s = Fail(sched, t)
          \/ sched.pending # None /\ s = Succeed(sched, t)
        BY DEF NoteFrame, Answers
    <2> HIDE DEF s
    <2>6. Sent(s) /\ Timely(s, 0) /\ Ranked(s)
        BY <1>1, <1>2, <2>5, FailFair, SucceedFair
    <2>7. sched' = Tick(s, t, ok)
        BY <2>1 DEF s
    <2> QED BY <1>1, <2>2, <2>4, <2>6, <2>7, TickFair, FairPrimed
<1>6. CASE Reopen
    <2>1. sched' = New /\ opened' = now' /\ ticked' = FALSE
        BY <1>6 DEF Reopen
    <2>2. (TypeOK /\ sched = New /\ opened = now /\ ticked = FALSE)'
        BY <1>1, <2>1 DEF New
    <2> QED BY <2>2, FreshFair, PTL
<1>7. CASE UNCHANGED vars
    BY <1>7 DEF vars, FairInv, Sent, Timely, Ranked, Since, Turn, Ahead
<1> QED BY <1>3, <1>4, <1>5, <1>6, <1>7 DEF Next

\* Nobody starves: a register that is due is asked within one slot per target,
\* however the others answer, fail or time out.
THEOREM NoStarvationHolds == Spec => []NoStarvation
<1>1. Init => FairInv
    <2> SUFFICES ASSUME Init PROVE FairInv
        OBVIOUS
    <2>1. TypeOK
        BY InitInv DEF IInv
    <2> QED BY <2>1, FreshFair DEF Init
<1>2. IInv /\ FairInv => NoStarvation
    <2> SUFFICES ASSUME IInv, FairInv, NEW x \in Targets \ {sched.pending}
                 PROVE  Waiting(x) <= N * Slot
        BY DEF NoStarvation
    <2>1. TypeOK /\ sched \in Schedulers /\ now \in Nat
        BY DEF IInv, TypeOK
    <2>2. Waiting(x) = now - Since(sched, x)
        BY DEF Waiting, Since
    <2> DEFINE c == Cardinality(Ahead(sched, x))
    <2>3. c \in Nat
        BY <2>1, AheadBound
    <2>4. Turn(sched, x) - Since(sched, x) <= (N - 1 - c) * Slot
        BY DEF FairInv, Ranked
    <2>5. now - Turn(sched, x) <= Slot
        <3>1. Timely(sched, 0)
            BY <2>1, TimelyWeaker DEF FairInv
        <3>2. now - Turn(sched, x) <= Slot - 0
            BY <3>1 DEF Timely
        <3> QED BY <3>2, SlotType
    <2>6. Since(sched, x) \in Nat /\ Turn(sched, x) \in Nat
        BY <2>1, SinceType
    <2> HIDE DEF c
    <2>7. (N - 1 - c) * Slot <= (N - 1 - 0) * Slot
        BY <2>3, FewerSlots
    <2>8. (N - 1 - 0) * Slot + Slot = N * Slot /\ (N - 1 - 0) * Slot \in Int
        BY SizeAssumption, SlotType
    <2>9. (N - 1 - c) * Slot \in Int
        BY <2>3, OneSlot
    <2> QED BY <2>1, <2>2, <2>4, <2>5, <2>6, <2>7, <2>8, <2>9, SlotType
<1> QED BY InitInv, NextInv, NextFair, <1>1, <1>2, PTL DEF Spec

(***************************************************************************)
(* The scheduler on the bus.                                               *)
(***************************************************************************)

\* How often v occurs in q.
Count(q, v) == Cardinality({i \in 1..Len(q) : q[i] = v})

\* An element of a sequence has the sequence's type.
LEMMA ElementType ==
    ASSUME NEW S, NEW q \in Seq(S), NEW i \in 1..Len(q)
    PROVE  q[i] \in S
OBVIOUS

\* Taking an element off the front moves the others up.
LEMMA TailIs ==
    ASSUME NEW S, NEW q \in Seq(S), q # <<>>
    PROVE  /\ Tail(q) \in Seq(S)
           /\ Len(q) \in Nat /\ Len(q) > 0 /\ Len(Tail(q)) = Len(q) - 1
           /\ Head(q) = q[1] /\ \A i \in 1..Len(q) - 1 : Tail(q)[i] = q[i + 1]
OBVIOUS

\* A sequence holds finitely many of everything.
LEMMA CountType ==
    ASSUME NEW S, NEW q \in Seq(S), NEW v
    PROVE  /\ IsFiniteSet({i \in 1..Len(q) : q[i] = v})
           /\ Count(q, v) \in Nat
<1>1. IsFiniteSet(1..Len(q))
    BY FS_Interval
<1>2. IsFiniteSet({i \in 1..Len(q) : q[i] = v})
    BY <1>1, FS_Subset
<1> QED BY <1>2, FS_CardinalityType DEF Count

\* Appending v adds one occurrence of v.
LEMMA CountAppend ==
    ASSUME NEW S, NEW q \in Seq(S), NEW e \in S, NEW v
    PROVE  Count(Append(q, e), v) = Count(q, v) + (IF e = v THEN 1 ELSE 0)
<1> DEFINE A == {i \in 1..Len(q) : q[i] = v}
           n == Len(q) + 1
           B == {i \in 1..Len(Append(q, e)) : Append(q, e)[i] = v}
<1>1. IsFiniteSet(A) /\ Cardinality(A) \in Nat
    BY CountType DEF Count
<1>2. /\ Len(q) \in Nat /\ Len(Append(q, e)) = n
      /\ Append(q, e)[n] = e /\ \A i \in 1..Len(q) : Append(q, e)[i] = q[i]
    OBVIOUS
<1>3. n \notin A
    BY <1>2
<1>4. B = IF e = v THEN A \cup {n} ELSE A
    BY <1>2
<1> HIDE DEF A, n, B
<1>5. Cardinality(A \cup {n}) = Cardinality(A) + 1
    BY <1>1, <1>3, FS_AddElement
<1>6. Cardinality(B) = Cardinality(A) + (IF e = v THEN 1 ELSE 0)
    BY <1>1, <1>4, <1>5
<1> QED BY <1>6 DEF Count, A, B

\* Taking v off the front takes one occurrence of v away.
LEMMA CountTail ==
    ASSUME NEW S, NEW q \in Seq(S), q # <<>>, NEW v
    PROVE  Count(q, v) = Count(Tail(q), v) + (IF Head(q) = v THEN 1 ELSE 0)
<1> DEFINE A == {i \in 1..Len(q) : q[i] = v}
           B == {i \in 1..Len(Tail(q)) : Tail(q)[i] = v}
           f == [i \in B |-> i + 1]
<1>1. Tail(q) \in Seq(S)
    OBVIOUS
<1>2. /\ IsFiniteSet(A) /\ Cardinality(A) \in Nat
      /\ IsFiniteSet(B) /\ Cardinality(B) \in Nat
    BY <1>1, CountType DEF Count
<1>3. /\ Head(q) = q[1] /\ Len(q) \in Nat /\ Len(q) > 0 /\ Len(Tail(q)) = Len(q) - 1
      /\ \A i \in 1..Len(q) - 1 : Tail(q)[i] = q[i + 1]
    OBVIOUS
<1>4. f \in Bijection(B, A \ {1})
  <2>1. f \in [B -> A \ {1}]
    BY <1>3
  <2>2. \A i, j \in B : f[i] = f[j] => i = j
    OBVIOUS
  <2>3. ASSUME NEW j \in A \ {1} PROVE \E i \in B : f[i] = j
    <3>1. j - 1 \in B /\ f[j - 1] = j
        BY <1>3
    <3> QED BY <3>1
  <2> QED BY <2>1, <2>2, <2>3 DEF Bijection, Injection, Surjection, IsInjective
<1>5. 1 \in A <=> Head(q) = v
    BY <1>3
<1> HIDE DEF A, B, f
<1>6. Cardinality(A \ {1}) = Cardinality(B)
    BY <1>2, <1>4, FS_Bijection DEF ExistsBijection
<1>7. Cardinality(A \ {1}) = IF 1 \in A THEN Cardinality(A) - 1 ELSE Cardinality(A)
    BY <1>2, FS_RemoveElement
<1>8. Cardinality(A) = Cardinality(B) + (IF Head(q) = v THEN 1 ELSE 0)
    BY <1>2, <1>5, <1>6, <1>7
<1> QED BY <1>8 DEF Count, A, B

-----------------------------------------------------------------------------
Replies == {Ack(x) : x \in Targets} \cup {Nack}

BusType ==
    /\ asked \in Seq([reg : Targets, at : Nat])
    /\ rx \in Seq(Replies) /\ rxAsked \in Seq(Nat) /\ Len(rxAsked) = Len(rx)
    /\ \A i \in 1..Len(asked) : asked[i].at <= now
    /\ \A i \in 1..Len(rx) : rxAsked[i] <= now
    /\ served \in [Targets -> Nat] /\ refused \in [Targets -> Nat]
    /\ credited \in [Targets -> Nat] /\ blamed \in [Targets -> Nat]
    /\ late \in BOOLEAN

\* What a register may still be credited with has been served.
CreditInv == \A x \in Targets : credited[x] + Count(rx, Ack(x)) <= served[x]

\* Is a request written at a still sure to be pending, unless it was answered?
Fresh(a) == now - a < PendingTimeout - MaxLag

FreshAsked == {i \in 1..Len(asked) : Fresh(asked[i].at)}
FreshRead == {i \in 1..Len(rx) : Fresh(rxAsked[i])}

\* Before any reply was late there is at most one fresh request, on the bus or
\* answered, and it is the pending one; if it was refused, then that refusal
\* has not been counted against its register yet.
OutstandingInv ==
    /\ \A i \in FreshAsked :
        sched.pending = asked[i].reg /\ asked[i].at <= sched.sentAt + MaxLag
    /\ \A i \in FreshRead :
        /\ sched.pending # None /\ rxAsked[i] <= sched.sentAt + MaxLag
        /\ \/ rx[i] = Ack(sched.pending)
           \/ rx[i] = Nack /\ blamed[sched.pending] < refused[sched.pending]
    /\ \A i, j \in FreshAsked : i = j
    /\ \A i, j \in FreshRead : i = j
    /\ FreshAsked = {} \/ FreshRead = {}

BlameInv == ~late => OutstandingInv /\ \A x \in Targets : blamed[x] <= refused[x]

\* A reply is a frame that NoteFrame knows.
LEMMA ReplyIsFrame ==
    /\ Replies \subseteq Frames /\ Other \in Frames
    /\ \A x : Ack(x) # Nack /\ Ack(x).kind = "ack" /\ Ack(x).reg = x /\ Nack.kind = "nack"
    /\ \A x, y : Ack(x) = Ack(y) => x = y
<1>1. \A x : Ack(x).kind = "ack" /\ Ack(x).reg = x /\ Nack.kind = "nack"
    BY DEF Ack, Nack
<1>2. \A x, y : Ack(x) = Ack(y) => x = y
    BY <1>1
<1>3. \A x : Ack(x) # Nack
    BY <1>1
<1>4. \A x \in Targets : Ack(x) \in Frames
    BY DEF Ack, Frames
<1>5. Nack \in Frames /\ Other \in Frames
    BY DEF Nack, Other, Frames
<1> QED BY <1>1, <1>2, <1>3, <1>4, <1>5 DEF Replies

\* The composition only takes steps of the scheduler.
LEMMA BusStepIsStep == BusType /\ [BusNext]_busVars => [Next]_vars
<1> SUFFICES ASSUME BusType, [BusNext]_busVars PROVE [Next]_vars
    OBVIOUS
<1>1. CASE BusClock \/ BusTicker \/ BusReopen
    BY <1>1 DEF BusClock, BusTicker, BusReopen, Next
<1>2. CASE ReadReply
  <2>1. Head(rx) \in Replies /\ ReadLoop(Head(rx))
    BY <1>2 DEF ReadReply, BusType
  <2> QED BY <2>1, ReplyIsFrame DEF Next
<1>3. CASE ReadOther
    BY <1>3, ReplyIsFrame DEF ReadOther, Next
<1>4. CASE WallControl \/ UNCHANGED busVars
    BY <1>4 DEF WallControl, busVars
<1> QED BY <1>1, <1>2, <1>3, <1>4 DEF BusNext

-----------------------------------------------------------------------------
\* The request on the bus after a call of Tick, if the call wrote one.
Written == [reg |-> sched'.pending, at |-> now]

\* What a call of Tick may do to the bus: it puts at most the request now
\* pending there, and otherwise pends no other request than before.
CallOutcome ==
    \/ asked' = asked /\ (sched'.pending # None => sched' = sched)
    \/ /\ asked' = Append(asked, Written)
       /\ sched'.pending \in Targets
       /\ now <= sched'.sentAt + MaxLag

\* A step in which some caller runs Tick on scheduler s with stamp t.  A request
\* that cannot have timed out stays pending and nothing else is written.
LEMMA CallStep ==
    ASSUME IInv, NEW s \in Schedulers, NEW t \in Stamps, NEW ok \in BOOLEAN,
           s.pending # None => s = sched,
           sched' = Tick(s, t, ok), NoteAttempt(s, t), Transmit
    PROVE  /\ sched' \in Schedulers
           /\ s.pending # None /\ now - sched.sentAt < PendingTimeout
                => sched' = sched /\ asked' = asked
           /\ CallOutcome
<1>1. /\ t \in Nat /\ now \in Nat /\ now - MaxLag <= t /\ t <= now
      /\ attempts \in Nat /\ sched \in Schedulers
    BY LagAssumption DEF IInv, TypeOK, Stamps, ZeroTime
<1>2. sched.sentAt \in Nat
    BY <1>1 DEF Schedulers
<1>3. /\ sched' \in Schedulers
      /\ \/ /\ Sends(Expire(s, t), t)
            /\ sched'.pending # None => sched'.sentAt = t
         \/ /\ ~Sends(Expire(s, t), t)
            /\ sched'.pending # None => sched' = s
    BY <1>1, TickStep
<1>4. ASSUME s.pending # None, now - sched.sentAt < PendingTimeout
      PROVE  sched' = sched /\ ~Sends(Expire(s, t), t)
    <2>1. s = sched /\ ~(t - s.sentAt >= PendingTimeout)
        BY <1>1, <1>2, <1>4, TimingAssumption
    <2>2. Expire(s, t) = s
        BY <2>1 DEF Expire
    <2>3. ~Sends(Expire(s, t), t)
        BY <1>4, <2>2 DEF Sends
    <2> QED BY <2>1, <2>2, <2>3 DEF Tick
<1>5. CASE Sends(Expire(s, t), t)
    <2>1. attempts' # attempts
        BY <1>1, <1>5 DEF NoteAttempt
    <2>2. CASE sched'.pending = None
        BY <1>3, <1>4, <1>5, <2>2 DEF Transmit, CallOutcome
    <2>3. CASE sched'.pending # None
        <3>1. asked' = Append(asked, Written)
            BY <2>1, <2>3 DEF Transmit, Written
        <3>2. sched'.pending \in Targets
            BY <1>3, <2>3 DEF Schedulers
        <3>3. now <= sched'.sentAt + MaxLag
            BY <1>1, <1>3, <1>5, <2>3, LagAssumption
        <3> QED BY <1>3, <1>4, <1>5, <3>1, <3>2, <3>3 DEF CallOutcome
    <2> QED BY <2>2, <2>3
<1>6. CASE ~Sends(Expire(s, t), t)
    <2>1. attempts' = attempts
        BY <1>6 DEF NoteAttempt
    <2>2. asked' = asked
        BY <2>1 DEF Transmit
    <2>3. sched'.pending # None => sched' = sched
        BY <1>3, <1>6
    <2> QED BY <1>3, <1>4, <2>2, <2>3 DEF CallOutcome
<1> QED BY <1>5, <1>6

\* A call keeps the types of what is on the bus.
LEMMA CallType ==
    ASSUME BusType, TypeOK, CallOutcome, now' = now
    PROVE  /\ asked' \in Seq([reg : Targets, at : Nat])
           /\ \A i \in 1..Len(asked') : asked'[i].at <= now'
<1>1. CASE asked' = asked
    BY <1>1 DEF BusType
<1>2. CASE asked' = Append(asked, Written) /\ sched'.pending \in Targets
    <2>1. Written \in [reg : Targets, at : Nat] /\ Written.at = now /\ now \in Nat
        BY <1>2 DEF Written, TypeOK
    <2> HIDE DEF Written
    <2>2. asked' \in Seq([reg : Targets, at : Nat])
        BY <1>2, <2>1 DEF BusType
    <2>3. /\ Len(asked) \in Nat /\ Len(asked') = Len(asked) + 1
          /\ \A i \in 1..Len(asked) : asked'[i] = asked[i]
          /\ asked'[Len(asked) + 1] = Written
        BY <1>2, <2>1 DEF BusType
    <2>4. ASSUME NEW i \in 1..Len(asked') PROVE asked'[i].at <= now'
        <3>1. CASE i = Len(asked) + 1
            BY <2>1, <2>3, <3>1
        <3>2. CASE i \in 1..Len(asked)
            BY <2>3, <3>2 DEF BusType
        <3> QED BY <2>3, <3>1, <3>2
    <2> QED BY <2>2, <2>4
<1> QED BY <1>1, <1>2 DEF CallOutcome

\* When nothing fresh is left, a call leaves at most its own request fresh.
LEMMA QuietCall ==
    ASSUME BusType, TypeOK, CallOutcome, now' = now, FreshAsked = {}, FreshRead' = {}
    PROVE  OutstandingInv'
<1>1. CASE asked' = asked
    <2>1. FreshAsked' = {}
        BY <1>1 DEF FreshAsked, Fresh
    <2> QED BY <2>1 DEF OutstandingInv
<1>2. CASE /\ asked' = Append(asked, Written)
           /\ now <= sched'.sentAt + MaxLag
    <2>1. Len(asked) \in Nat /\ Len(asked') = Len(asked) + 1
        BY <1>2 DEF BusType
    <2>2. \A i \in 1..Len(asked) : asked'[i] = asked[i]
        BY <1>2 DEF BusType
    <2>3. asked'[Len(asked) + 1] = Written
        BY <1>2 DEF BusType
    <2>4. \A i \in FreshAsked' : i = Len(asked) + 1
        BY <2>1, <2>2 DEF FreshAsked, Fresh
    <2>5. Written.reg = sched'.pending /\ Written.at = now
        BY DEF Written
    <2>6. \A i \in FreshAsked' :
            sched'.pending = asked'[i].reg /\ asked'[i].at <= sched'.sentAt + MaxLag
        BY <1>2, <2>3, <2>4, <2>5
    <2> QED BY <2>4, <2>6 DEF OutstandingInv
<1> QED BY <1>1, <1>2 DEF CallOutcome

\* A fresh request is pending and cannot have timed out.
LEMMA FreshIsPending ==
    ASSUME BusType, TypeOK, OutstandingInv, FreshAsked # {} \/ FreshRead # {}
    PROVE  sched.pending # None /\ now - sched.sentAt < PendingTimeout
<1>1. now \in Nat /\ sched.sentAt \in Nat
    BY DEF TypeOK, Schedulers
<1>2. ASSUME NEW i \in FreshAsked
      PROVE  sched.pending # None /\ now - sched.sentAt < PendingTimeout
    <2>0. i \in 1..Len(asked) /\ Fresh(asked[i].at)
        BY DEF FreshAsked
    <2>1. /\ Fresh(asked[i].at)
          /\ asked[i].reg \in Targets /\ asked[i].at \in Nat
        <3>1. asked \in Seq([reg : Targets, at : Nat])
            BY DEF BusType
        <3>2. asked[i] \in [reg : Targets, at : Nat]
            BY <2>0, <3>1, ElementType
        <3> QED BY <2>0, <3>2
    <2>2. sched.pending = asked[i].reg /\ asked[i].at <= sched.sentAt + MaxLag
        BY DEF OutstandingInv
    <2>3. sched.pending # None
        BY <2>1, <2>2, SizeAssumption DEF Targets, None
    <2> QED BY <1>1, <2>1, <2>2, <2>3, LagAssumption, TimingAssumption DEF Fresh
<1>3. ASSUME NEW i \in FreshRead
      PROVE  sched.pending # None /\ now - sched.sentAt < PendingTimeout
    <2>1. rxAsked[i] \in Nat /\ Fresh(rxAsked[i])
        BY DEF BusType, FreshRead
    <2>2. sched.pending # None /\ rxAsked[i] <= sched.sentAt + MaxLag
        BY DEF OutstandingInv
    <2> QED BY <1>1, <2>1, <2>2, LagAssumption, TimingAssumption DEF Fresh
<1> QED BY <1>2, <1>3

-----------------------------------------------------------------------------
\* The part of the invariant that is not the scheduler's own.
WireInv == BusType /\ CreditInv /\ BlameInv

\* A call of Tick by which no reply is read: the ticker, or another frame.
LEMMA OtherCall ==
    ASSUME IInv, WireInv, NEW t \in Stamps, NEW ok \in BOOLEAN,
           sched' = Tick(sched, t, ok), NoteAttempt(sched, t), Transmit,
           now' = now, UNCHANGED <<rx, rxAsked, busHist>>
    PROVE  WireInv'
<1> USE DEF busHist
<1>1. sched \in Schedulers /\ TypeOK /\ BusType
    BY DEF IInv, TypeOK, WireInv
<1>2. /\ sched.pending # None /\ now - sched.sentAt < PendingTimeout
            => sched' = sched /\ asked' = asked
      /\ CallOutcome
    BY <1>1, CallStep
<1>3. BusType'
    <2>1. /\ asked' \in Seq([reg : Targets, at : Nat])
          /\ \A i \in 1..Len(asked') : asked'[i].at <= now'
        BY <1>1, <1>2, CallType
    <2> QED BY <1>1, <2>1 DEF BusType
<1>4. CreditInv'
    BY DEF WireInv, CreditInv
<1>5. ASSUME ~late, OutstandingInv PROVE OutstandingInv'
    <2>1. CASE FreshAsked = {} /\ FreshRead = {}
        <3>1. FreshRead' = {}
            BY <2>1 DEF FreshRead, Fresh
        <3> QED BY <1>1, <1>2, <2>1, <3>1, QuietCall
    <2>2. CASE FreshAsked # {} \/ FreshRead # {}
        <3>1. sched' = sched /\ asked' = asked
            BY <1>1, <1>2, <1>5, <2>2, FreshIsPending
        <3>2. FreshAsked' = FreshAsked /\ FreshRead' = FreshRead
            BY <3>1 DEF FreshAsked, FreshRead, Fresh
        <3> QED BY <1>5, <3>1, <3>2 DEF OutstandingInv
    <2> QED BY <2>1, <2>2
<1>6. BlameInv'
    BY <1>5 DEF WireInv, BlameInv
<1> QED BY <1>3, <1>4, <1>6 DEF WireInv

\* The read loop takes a reply: it is credited at most once, and a refusal read
\* in time is the refusal of the register it is counted against.
LEMMA ReadReplyInv == IInv /\ WireInv /\ ReadReply => WireInv'
<1> SUFFICES ASSUME IInv, WireInv, ReadReply PROVE WireInv'
    OBVIOUS
<1> DEFINE f == Head(rx)
<1>1. /\ sched \in Schedulers /\ TypeOK /\ BusType
      /\ rx # <<>> /\ rx \in Seq(Replies) /\ f \in Replies
      /\ rx' = Tail(rx) /\ rxAsked' = Tail(rxAsked)
    <2>1. sched \in Schedulers /\ TypeOK /\ BusType
        BY DEF IInv, TypeOK, WireInv
    <2>2. rx # <<>> /\ rx' = Tail(rx) /\ rxAsked' = Tail(rxAsked)
        BY DEF ReadReply
    <2>3. rx \in Seq(Replies)
        BY <2>1 DEF BusType
    <2>4. f \in Replies
        BY <2>2, <2>3
    <2> QED BY <2>1, <2>2, <2>3, <2>4
<1>2. PICK t \in Stamps, ok \in BOOLEAN :
        /\ sched' = Tick(NoteFrame(sched, f, t), t, ok)
        /\ NoteAttempt(NoteFrame(sched, f, t), t)
    BY DEF ReadReply, ReadLoop
<1>3. now' = now /\ Transmit /\ UNCHANGED <<served, refused>>
    BY DEF ReadReply, ReadLoop
<1>4. t \in Nat /\ f \in Frames
    BY <1>1, ReplyIsFrame DEF Stamps, TypeOK, ZeroTime
<1> DEFINE s == NoteFrame(sched, f, t)
<1>5. s \in Schedulers /\ (s.pending # None => s = sched)
    BY <1>1, <1>4, NoteFrameStep
<1>6. CallOutcome
    <2> HIDE DEF s
    <2>1. sched' = Tick(s, t, ok) /\ NoteAttempt(s, t)
        BY <1>2 DEF s
    <2> QED BY <1>3, <1>5, <2>1, CallStep
<1>7. /\ Len(rx) \in Nat /\ Len(rx) > 0 /\ Len(rxAsked) = Len(rx)
      /\ Len(rx') = Len(rx) - 1 /\ Len(rxAsked') = Len(rx) - 1
      /\ rx' \in Seq(Replies) /\ rxAsked' \in Seq(Nat)
      /\ f = rx[1] /\ Head(rxAsked) = rxAsked[1]
      /\ \A i \in 1..Len(rx) - 1 : rx'[i] = rx[i + 1] /\ rxAsked'[i] = rxAsked[i + 1]
    BY <1>1 DEF BusType
<1>8. /\ sched.pending \in Targets \cup {None}
      /\ Answers(sched, f) => sched.pending \in Targets /\ f = Ack(sched.pending)
      /\ sched.pending # None => sched.pending \in Targets
    BY <1>1, ReplyIsFrame DEF Schedulers, Answers, Replies
<1>9. BusType'
    <2>1. /\ asked' \in Seq([reg : Targets, at : Nat])
          /\ \A i \in 1..Len(asked') : asked'[i].at <= now'
        BY <1>1, <1>3, <1>6, CallType
    <2>2. \A i \in 1..Len(rx') : rxAsked'[i] <= now'
        BY <1>1, <1>3, <1>7 DEF BusType
    <2>3. credited' \in [Targets -> Nat]
        BY <1>1, <1>8 DEF ReadReply, BusType
    <2>4. blamed' \in [Targets -> Nat]
        BY <1>1, <1>8 DEF ReadReply, BusType
    <2>5. late' \in BOOLEAN
        BY Zenon DEF ReadReply
    <2> QED BY <1>1, <1>3, <1>7, <2>1, <2>2, <2>3, <2>4, <2>5 DEF BusType
<1>10. CreditInv'
    <2> SUFFICES ASSUME NEW x \in Targets
                 PROVE  credited'[x] + Count(rx', Ack(x)) <= served'[x]
        BY DEF CreditInv
    <2>1. Count(rx, Ack(x)) = Count(rx', Ack(x)) + (IF f = Ack(x) THEN 1 ELSE 0)
        BY <1>1, CountTail
    <2>2. Count(rx', Ack(x)) \in Nat /\ credited[x] \in Nat /\ served[x] \in Nat
        BY <1>1, <1>7, CountType DEF BusType
    <2>3. credited[x] + Count(rx, Ack(x)) <= served[x]
        BY DEF WireInv, CreditInv
    <2>4. credited'[x] = credited[x] \/ (f = Ack(x) /\ credited'[x] = credited[x] + 1)
        BY <1>1, <1>8 DEF ReadReply, BusType
    <2> QED BY <1>3, <2>1, <2>2, <2>3, <2>4
<1>11. ASSUME ~late' PROVE OutstandingInv' /\ \A x \in Targets : blamed'[x] <= refused'[x]
    <2>1. ~late /\ ~(now - Head(rxAsked) >= PendingTimeout - MaxLag)
        BY <1>11, Zenon DEF ReadReply
    <2>2. OutstandingInv /\ \A x \in Targets : blamed[x] <= refused[x]
        BY <2>1 DEF WireInv, BlameInv
    <2>3. rxAsked[1] \in Nat /\ now \in Nat
        BY <1>1, <1>7 DEF BusType, TypeOK
    <2>4. 1 \in FreshRead
        BY <1>7, <2>1, <2>3, LagAssumption, TimingAssumption DEF FreshRead, Fresh
    <2>5. FreshAsked = {} /\ \A i \in FreshRead : i = 1
        BY <2>2, <2>4 DEF OutstandingInv
    <2>6. FreshRead' = {}
        <3> SUFFICES ASSUME NEW i \in FreshRead' PROVE FALSE
            OBVIOUS
        <3>1. i \in 1..Len(rx) - 1 /\ Fresh(rxAsked[i + 1])
            BY <1>3, <1>7 DEF FreshRead, Fresh
        <3>2. i + 1 \in FreshRead
            BY <1>7, <3>1 DEF FreshRead
        <3> QED BY <2>5, <3>1, <3>2
    <2>7. OutstandingInv'
        BY <1>1, <1>3, <1>6, <2>5, <2>6, QuietCall
    <2>8. f = Nack => blamed[sched.pending] < refused[sched.pending]
        BY <1>7, <2>2, <2>4, ReplyIsFrame DEF OutstandingInv
    <2>9. ASSUME NEW x \in Targets PROVE blamed'[x] <= refused'[x]
        <3>1. blamed[x] \in Nat /\ refused[x] \in Nat
            BY <1>1 DEF BusType
        <3>2. CASE sched.pending # None /\ f = Nack /\ sched.pending = x
            <4>1. blamed'[x] = blamed[x] + 1
                BY <1>1, <3>2 DEF ReadReply, BusType
            <4> QED BY <1>3, <2>8, <3>1, <3>2, <4>1
        <3>3. CASE ~(sched.pending # None /\ f = Nack /\ sched.pending = x)
            <4>1. blamed'[x] = blamed[x]
                BY <1>1, <3>3 DEF ReadReply, BusType
            <4> QED BY <1>3, <2>2, <4>1
        <3> QED BY <3>2, <3>3
    <2> QED BY <2>7, <2>9
<1>12. BlameInv'
    BY <1>11 DEF BlameInv
<1> QED BY <1>9, <1>10, <1>12 DEF WireInv

\* The wall control takes the oldest request off the bus.  A refusal it sends is
\* on its books before it can be counted against the register.
LEMMA WallControlInv == IInv /\ WireInv /\ WallControl => WireInv'
<1> SUFFICES ASSUME IInv, WireInv, WallControl PROVE WireInv'
    OBVIOUS
<1> DEFINE x == Head(asked).reg
           a == Head(asked).at
           n == Len(rx) + 1
<1>1. TypeOK /\ BusType /\ CreditInv /\ BlameInv
    BY DEF IInv, WireInv
<1>2. asked # <<>> /\ asked' = Tail(asked) /\ UNCHANGED <<vars, credited, blamed, late>>
    BY DEF WallControl
<1>3. now' = now /\ sched' = sched /\ credited' = credited /\ blamed' = blamed /\ late' = late
    BY <1>2 DEF vars
<1>4. asked \in Seq([reg : Targets, at : Nat])
    BY <1>1 DEF BusType
<1>5. /\ asked' \in Seq([reg : Targets, at : Nat])
      /\ Len(asked) \in Nat /\ Len(asked) > 0 /\ Len(asked') = Len(asked) - 1
      /\ Head(asked) = asked[1] /\ \A i \in 1..Len(asked) - 1 : asked'[i] = asked[i + 1]
    <2> DEFINE S == [reg : Targets, at : Nat]
    <2>1. asked \in Seq(S)
        BY <1>4
    <2> HIDE DEF S
    <2>2. /\ Tail(asked) \in Seq(S)
          /\ Len(asked) \in Nat /\ Len(asked) > 0 /\ Len(Tail(asked)) = Len(asked) - 1
          /\ Head(asked) = asked[1]
          /\ \A i \in 1..Len(asked) - 1 : Tail(asked)[i] = asked[i + 1]
        BY <1>2, <2>1, TailIs
    <2> QED BY <1>2, <2>2 DEF S
<1>6. Head(asked) \in [reg : Targets, at : Nat]
    <2>1. 1 \in 1..Len(asked) /\ Head(asked) = asked[1]
        BY <1>5
    <2>2. asked[1] \in [reg : Targets, at : Nat]
        BY <1>4, <2>1, ElementType
    <2> QED BY <2>1, <2>2, Zenon
<1>7. x \in Targets /\ a \in Nat /\ asked[1].reg = x /\ asked[1].at = a /\ a <= now
    <2>1. \A i \in 1..Len(asked) : asked[i].at <= now
        BY <1>1 DEF BusType
    <2>2. 1 \in 1..Len(asked) /\ Head(asked) = asked[1]
        BY <1>5
    <2>3. a <= now
        BY <2>1, <2>2, Zenon
    <2> QED BY <1>6, <2>2, <2>3
<1>8. PICK v \in Replies :
        \/ /\ rx' = Append(rx, v) /\ rxAsked' = Append(rxAsked, a)
           /\ v = Ack(x)
           /\ served' = [served EXCEPT ![x] = @ + 1] /\ refused' = refused
        \/ /\ rx' = Append(rx, v) /\ rxAsked' = Append(rxAsked, a)
           /\ v = Nack
           /\ refused' = [refused EXCEPT ![x] = @ + 1] /\ served' = served
        \/ UNCHANGED <<rx, rxAsked, served, refused>>
    BY <1>7 DEF WallControl, Replies
<1>9. /\ Len(rx) \in Nat /\ rx \in Seq(Replies) /\ rxAsked \in Seq(Nat)
      /\ Len(rxAsked) = Len(rx) /\ \A i \in 1..Len(rx) : rxAsked[i] <= now
      /\ served \in [Targets -> Nat] /\ refused \in [Targets -> Nat]
      /\ credited \in [Targets -> Nat] /\ blamed \in [Targets -> Nat]
    BY <1>1 DEF BusType
<1>10. \A y \in Targets : refused[y] <= refused'[y] /\ served[y] <= served'[y]
    <2>1. CASE UNCHANGED <<rx, rxAsked, served, refused>>
        BY <1>9, <2>1
    <2>2. CASE served' = [served EXCEPT ![x] = @ + 1] /\ refused' = refused
        BY <1>9, <2>2
    <2>3. CASE refused' = [refused EXCEPT ![x] = @ + 1] /\ served' = served
        BY <1>9, <2>3
    <2> QED BY <1>8, <2>1, <2>2, <2>3
<1>11. served' \in [Targets -> Nat] /\ refused' \in [Targets -> Nat]
    <2>1. CASE UNCHANGED <<rx, rxAsked, served, refused>>
        BY <1>9, <2>1
    <2>2. CASE served' = [served EXCEPT ![x] = @ + 1] /\ refused' = refused
        BY <1>7, <1>9, <2>2
    <2>3. CASE refused' = [refused EXCEPT ![x] = @ + 1] /\ served' = served
        BY <1>7, <1>9, <2>3
    <2> QED BY <1>8, <2>1, <2>2, <2>3
<1> HIDE DEF x, a
<1>12. ASSUME rx' = Append(rx, v), rxAsked' = Append(rxAsked, a)
       PROVE  /\ rx' \in Seq(Replies) /\ rxAsked' \in Seq(Nat)
              /\ Len(rx') = n /\ Len(rxAsked') = n
              /\ rx'[n] = v /\ rxAsked'[n] = a
              /\ \A i \in 1..Len(rx) : rx'[i] = rx[i] /\ rxAsked'[i] = rxAsked[i]
    BY <1>7, <1>9, <1>12
<1>13. BusType'
    <2>1. \A i \in 1..Len(asked') : asked'[i].at <= now'
        <3> SUFFICES ASSUME NEW i \in 1..Len(asked) - 1 PROVE asked[i + 1].at <= now
            BY <1>3, <1>5
        <3>1. i + 1 \in 1..Len(asked)
            BY <1>5
        <3> QED BY <1>1, <3>1 DEF BusType
    <2>2. /\ rx' \in Seq(Replies) /\ rxAsked' \in Seq(Nat) /\ Len(rxAsked') = Len(rx')
          /\ \A i \in 1..Len(rx') : rxAsked'[i] <= now'
        <3>1. CASE UNCHANGED <<rx, rxAsked, served, refused>>
            BY <1>3, <1>9, <3>1
        <3>2. CASE rx' = Append(rx, v) /\ rxAsked' = Append(rxAsked, a)
            BY <1>3, <1>7, <1>9, <1>12, <3>2
        <3> QED BY <1>8, <3>1, <3>2
    <2> QED BY <1>1, <1>3, <1>5, <1>11, <2>1, <2>2 DEF BusType
<1>14. CreditInv'
    <2> SUFFICES ASSUME NEW y \in Targets
                 PROVE  credited[y] + Count(rx', Ack(y)) <= served'[y]
        BY <1>3 DEF CreditInv
    <2>1. /\ Count(rx, Ack(y)) \in Nat /\ credited[y] \in Nat /\ served[y] \in Nat
          /\ served'[y] \in Nat /\ credited[y] + Count(rx, Ack(y)) <= served[y]
        BY <1>1, <1>9, <1>11, CountType DEF CreditInv
    <2>2. CASE UNCHANGED <<rx, rxAsked, served, refused>>
        BY <2>1, <2>2
    <2>3. CASE /\ rx' = Append(rx, v) /\ v = Ack(x)
               /\ served' = [served EXCEPT ![x] = @ + 1]
        <3>1. Count(rx', Ack(y)) = Count(rx, Ack(y)) + (IF v = Ack(y) THEN 1 ELSE 0)
            BY <1>9, <2>3, CountAppend
        <3>2. v = Ack(y) => y = x
            BY <2>3, ReplyIsFrame
        <3>3. y = x => served'[y] = served[y] + 1
            BY <1>9, <2>3
        <3> QED BY <1>10, <2>1, <3>1, <3>2, <3>3
    <2>4. CASE rx' = Append(rx, v) /\ v = Nack
        <3>1. Count(rx', Ack(y)) = Count(rx, Ack(y)) + (IF v = Ack(y) THEN 1 ELSE 0)
            BY <1>9, <2>4, CountAppend
        <3>2. v # Ack(y)
            BY <2>4, ReplyIsFrame
        <3> QED BY <1>10, <2>1, <3>1, <3>2
    <2> QED BY <1>8, <2>2, <2>3, <2>4
<1>15. ASSUME OutstandingInv, \A y \in Targets : blamed[y] <= refused[y]
       PROVE  OutstandingInv'
    <2>1. \A i \in FreshAsked' : i + 1 \in FreshAsked /\ asked'[i] = asked[i + 1] /\ i \in Nat \ {0}
        BY <1>3, <1>5 DEF FreshAsked, Fresh
    <2>2. /\ \A i \in FreshAsked' :
                sched.pending = asked'[i].reg /\ asked'[i].at <= sched.sentAt + MaxLag
          /\ \A i, j \in FreshAsked' : i = j
        BY <1>15, <2>1 DEF OutstandingInv
    <2>3. CASE 1 \in FreshAsked
        <3>1. FreshRead = {} /\ \A i \in FreshAsked : i = 1
            BY <1>15, <2>3 DEF OutstandingInv
        <3>2. FreshAsked' = {}
            BY <2>1, <3>1
        <3>3. sched.pending = x /\ a <= sched.sentAt + MaxLag
            BY <1>7, <1>15, <2>3 DEF OutstandingInv
        <3>4. CASE UNCHANGED <<rx, rxAsked, served, refused>>
            <4>1. FreshRead' = {}
                BY <1>3, <3>1, <3>4 DEF FreshRead, Fresh
            <4> QED BY <3>2, <4>1 DEF OutstandingInv
        <3>5. CASE rx' = Append(rx, v) /\ rxAsked' = Append(rxAsked, a)
            <4>1. \A i \in FreshRead' : i = n
                <5> SUFFICES ASSUME NEW i \in FreshRead', i # n PROVE FALSE
                    OBVIOUS
                <5>1. i \in 1..Len(rx) /\ rxAsked'[i] = rxAsked[i]
                    BY <1>9, <1>12, <3>5 DEF FreshRead
                <5>2. i \in FreshRead
                    BY <1>3, <5>1 DEF FreshRead, Fresh
                <5> QED BY <3>1, <5>2
            <4>2. v = Nack => blamed[x] < refused'[x]
                <5> SUFFICES ASSUME v = Nack PROVE blamed[x] < refused'[x]
                    OBVIOUS
                <5>1. \/ v = Ack(x)
                      \/ refused' = [refused EXCEPT ![x] = @ + 1]
                      \/ rx' = rx
                    BY <1>8
                <5>2. v # Ack(x) /\ rx' # rx
                    BY <1>9, <1>12, <3>5, ReplyIsFrame
                <5>3. refused'[x] = refused[x] + 1
                    BY <1>7, <1>9, <5>1, <5>2
                <5>4. blamed[x] <= refused[x] /\ blamed[x] \in Nat /\ refused[x] \in Nat
                    BY <1>7, <1>9, <1>15
                <5> QED BY <5>3, <5>4
            <4>3. v = Ack(x) \/ v = Nack
                <5>1. rx' # rx
                    BY <1>9, <1>12, <3>5
                <5> QED BY <1>8, <5>1
            <4>4. x # None
                BY <1>7, SizeAssumption DEF Targets, None
            <4>5. \A i \in FreshRead' :
                    /\ sched'.pending # None /\ rxAsked'[i] <= sched'.sentAt + MaxLag
                    /\ \/ rx'[i] = Ack(sched'.pending)
                       \/ rx'[i] = Nack /\ blamed'[sched'.pending] < refused'[sched'.pending]
                BY <1>3, <1>12, <3>3, <3>5, <4>1, <4>2, <4>3, <4>4
            <4> QED BY <3>2, <4>1, <4>5 DEF OutstandingInv
        <3> QED BY <1>8, <3>4, <3>5
    <2>4. CASE 1 \notin FreshAsked
        <3>1. ~Fresh(a)
            BY <1>5, <1>7, <2>4 DEF FreshAsked
        <3>2. \A i \in FreshRead' : i \in FreshRead /\ rx'[i] = rx[i] /\ rxAsked'[i] = rxAsked[i]
            <4>1. CASE UNCHANGED <<rx, rxAsked, served, refused>>
                BY <1>3, <4>1 DEF FreshRead, Fresh
            <4>2. CASE rx' = Append(rx, v) /\ rxAsked' = Append(rxAsked, a)
                BY <1>3, <1>9, <1>12, <3>1, <4>2 DEF FreshRead, Fresh
            <4> QED BY <1>8, <4>1, <4>2
        <3>3. sched.pending # None => /\ blamed[sched.pending] \in Nat
                                      /\ refused[sched.pending] \in Nat
                                      /\ refused'[sched.pending] \in Nat
                                      /\ refused[sched.pending] <= refused'[sched.pending]
            BY <1>1, <1>9, <1>10, <1>11 DEF TypeOK, Schedulers
        <3>4. \A i \in FreshRead' :
                /\ sched'.pending # None /\ rxAsked'[i] <= sched'.sentAt + MaxLag
                /\ \/ rx'[i] = Ack(sched'.pending)
                   \/ rx'[i] = Nack /\ blamed'[sched'.pending] < refused'[sched'.pending]
            BY <1>3, <1>15, <3>2, <3>3 DEF OutstandingInv
        <3>5. \A i, j \in FreshRead' : i = j
            BY <1>15, <3>2 DEF OutstandingInv
        <3>6. FreshAsked' = {} \/ FreshRead' = {}
            BY <1>15, <2>1, <3>2 DEF OutstandingInv
        <3> QED BY <1>3, <2>2, <3>4, <3>5, <3>6 DEF OutstandingInv
    <2> QED BY <2>3, <2>4
<1>16. BlameInv'
    <2> SUFFICES ASSUME ~late'
                 PROVE  OutstandingInv' /\ \A y \in Targets : blamed'[y] <= refused'[y]
        BY DEF BlameInv
    <2>1. OutstandingInv /\ \A y \in Targets : blamed[y] <= refused[y]
        BY <1>1, <1>3 DEF BlameInv
    <2>2. \A y \in Targets : blamed'[y] <= refused'[y]
        BY <1>3, <1>9, <1>10, <1>11, <2>1
    <2> QED BY <1>15, <2>1, <2>2
<1> QED BY <1>13, <1>14, <1>16 DEF WireInv

-----------------------------------------------------------------------------
\* The bus starts empty and its books at zero.
LEMMA BusInitInv == BusInit => IInv /\ WireInv
<1> SUFFICES ASSUME BusInit PROVE IInv /\ WireInv
    OBVIOUS
<1>1. IInv
    BY InitInv DEF BusInit
<1>2. asked = <<>> /\ rx = <<>> /\ rxAsked = <<>>
    BY DEF BusInit
<1>3. BusType
    <2>1. late \in BOOLEAN
        BY Zenon DEF BusInit
    <2> QED BY <1>2, <2>1 DEF BusInit, BusType
<1>4. CreditInv
    <2>1. \A v : Count(rx, v) = 0
        <3> SUFFICES ASSUME NEW v PROVE Cardinality({i \in 1..Len(rx) : rx[i] = v}) = 0
            BY DEF Count
        <3>1. {i \in 1..Len(rx) : rx[i] = v} = {}
            BY <1>2
        <3> QED BY <3>1, FS_EmptySet
    <2> QED BY <2>1 DEF BusInit, CreditInv
<1>5. BlameInv
    <2>1. FreshAsked = {} /\ FreshRead = {}
        BY <1>2 DEF FreshAsked, FreshRead
    <2> QED BY <2>1 DEF BusInit, BlameInv, OutstandingInv
<1> QED BY <1>1, <1>3, <1>4, <1>5 DEF WireInv

\* A second passes: requests only get older.
LEMMA BusClockInv == IInv /\ WireInv /\ BusClock => WireInv'
<1> SUFFICES ASSUME IInv, WireInv, BusClock PROVE WireInv'
    OBVIOUS
<1>1. BusType /\ CreditInv /\ BlameInv /\ now \in Nat
    BY DEF WireInv, IInv, TypeOK
<1>2. now' = now + 1 /\ sched' = sched /\ UNCHANGED <<asked, rx, rxAsked, busHist>>
    BY DEF BusClock, Clock
<1>3. /\ UNCHANGED <<asked, rx, rxAsked>>
      /\ UNCHANGED <<served, refused, credited, blamed, late>>
    BY <1>2 DEF busHist
<1>4. BusType'
    <2>1. \A i \in 1..Len(rx) : rxAsked[i] \in Nat
        BY <1>1 DEF BusType
    <2>2. \A i \in 1..Len(asked) : asked[i] \in [reg : Targets, at : Nat]
        BY <1>1, ElementType DEF BusType
    <2>3. ASSUME NEW i \in 1..Len(asked) PROVE asked[i].at <= now'
        <3>1. asked[i].at <= now
            BY <1>1 DEF BusType
        <3>2. asked[i].at \in Nat
            BY <2>2
        <3> QED BY <1>1, <1>2, <3>1, <3>2
    <2>4. \A i \in 1..Len(rx) : rxAsked[i] <= now'
        BY <1>1, <1>2, <2>1 DEF BusType
    <2> QED BY <1>1, <1>3, <2>3, <2>4 DEF BusType
<1>5. CreditInv'
    BY <1>1, <1>3 DEF CreditInv
<1>6. FreshAsked' \subseteq FreshAsked
    <2> SUFFICES ASSUME NEW i \in 1..Len(asked), Fresh(asked[i].at)'
                 PROVE  Fresh(asked[i].at)
        BY <1>3 DEF FreshAsked
    <2>1. asked[i].at \in Nat
        <3>1. asked[i] \in [reg : Targets, at : Nat]
            BY <1>1, ElementType DEF BusType
        <3> QED BY <3>1
    <2> QED BY <1>1, <1>2, <1>3, <2>1, LagAssumption, TimingAssumption DEF Fresh
<1>7. FreshRead' \subseteq FreshRead
    <2> SUFFICES ASSUME NEW i \in 1..Len(rx), Fresh(rxAsked[i])'
                 PROVE  Fresh(rxAsked[i])
        BY <1>3 DEF FreshRead
    <2>1. rxAsked[i] \in Nat
        BY <1>1 DEF BusType
    <2> QED BY <1>1, <1>2, <1>3, <2>1, LagAssumption, TimingAssumption DEF Fresh
<1>8. BlameInv'
    BY <1>1, <1>2, <1>3, <1>6, <1>7 DEF BlameInv, OutstandingInv
<1> QED BY <1>4, <1>5, <1>8 DEF WireInv

\* A reconnect takes longer than a request is fresh.
LEMMA BusReopenInv == IInv /\ WireInv /\ BusReopen => WireInv'
<1> SUFFICES ASSUME IInv, WireInv, BusReopen PROVE WireInv'
    OBVIOUS
<1>1. BusType /\ CreditInv /\ BlameInv /\ now \in Nat
    BY DEF WireInv, IInv, TypeOK
<1>2. /\ now' = now + RetryDelay /\ rx' = <<>> /\ rxAsked' = <<>>
      /\ UNCHANGED <<asked, served, refused, credited, blamed, late>>
    BY DEF BusReopen, Reopen, busHist
<1>3. \A i \in 1..Len(asked) : asked[i].at \in Nat /\ asked[i].at <= now
    <2> TAKE i \in 1..Len(asked)
    <2>1. asked[i] \in [reg : Targets, at : Nat]
        BY <1>1, ElementType DEF BusType
    <2> QED BY <1>1, <2>1 DEF BusType
<1>4. BusType'
    <2>1. \A i \in 1..Len(asked) : asked[i].at <= now'
        BY <1>1, <1>2, <1>3, RetryAssumption
    <2> QED BY <1>1, <1>2, <2>1 DEF BusType
<1>5. CreditInv'
    <2> SUFFICES ASSUME NEW x \in Targets
                 PROVE  credited[x] + Count(rx', Ack(x)) <= served[x]
        BY <1>2 DEF CreditInv
    <2>1. {i \in 1..Len(rx') : rx'[i] = Ack(x)} = {}
        BY <1>2
    <2>2. Count(rx', Ack(x)) = 0
        BY <2>1, FS_EmptySet DEF Count
    <2>3. /\ credited[x] \in Nat /\ served[x] \in Nat /\ Count(rx, Ack(x)) \in Nat
          /\ credited[x] + Count(rx, Ack(x)) <= served[x]
        BY <1>1, CountType DEF BusType, CreditInv
    <2> QED BY <2>2, <2>3
<1>6. FreshRead' = {}
    BY <1>2 DEF FreshRead
<1>7. FreshAsked' = {}
    <2> SUFFICES ASSUME NEW i \in 1..Len(asked), Fresh(asked[i].at)' PROVE FALSE
        BY <1>2 DEF FreshAsked
    <2> QED BY <1>1, <1>2, <1>3, SleepAssumption, RetryAssumption, LagAssumption,
               TimingAssumption DEF Fresh
<1>8. BlameInv'
    BY <1>1, <1>2, <1>6, <1>7 DEF BlameInv, OutstandingInv
<1> QED BY <1>4, <1>5, <1>8 DEF WireInv

\* Every step of the composition preserves the invariant.
LEMMA BusNextInv == IInv /\ WireInv /\ [BusNext]_busVars => IInv' /\ WireInv'
<1> SUFFICES ASSUME IInv, WireInv, [BusNext]_busVars PROVE IInv' /\ WireInv'
    OBVIOUS
<1>1. IInv'
    BY BusStepIsStep, NextInv DEF WireInv
<1>2. CASE BusTicker
    <2>1. PICK t \in Stamps, ok \in BOOLEAN :
            sched' = Tick(sched, t, ok) /\ NoteAttempt(sched, t)
        BY <1>2 DEF BusTicker, Ticker
    <2>2. now' = now /\ Transmit /\ UNCHANGED <<rx, rxAsked, busHist>>
        BY <1>2 DEF BusTicker, Ticker
    <2> QED BY <1>1, <2>1, <2>2, OtherCall
<1>3. CASE ReadOther
    <2>1. \A t : NoteFrame(sched, Other, t) = sched
        BY DEF NoteFrame, Answers, Other
    <2>2. PICK t \in Stamps, ok \in BOOLEAN :
            sched' = Tick(sched, t, ok) /\ NoteAttempt(sched, t)
        BY <1>3, <2>1 DEF ReadOther, ReadLoop
    <2>3. now' = now /\ Transmit /\ UNCHANGED <<rx, rxAsked, busHist>>
        BY <1>3 DEF ReadOther, ReadLoop
    <2> QED BY <1>1, <2>2, <2>3, OtherCall
<1>4. CASE UNCHANGED busVars
    <2>1. /\ now' = now /\ sched' = sched /\ asked' = asked /\ rx' = rx
          /\ rxAsked' = rxAsked /\ served' = served /\ refused' = refused
          /\ credited' = credited /\ blamed' = blamed /\ late' = late
        BY <1>4 DEF busVars, vars, busHist
    <2>2. BusType'
        BY <2>1 DEF WireInv, BusType
    <2>3. CreditInv'
        BY <2>1 DEF WireInv, CreditInv
    <2>4. FreshAsked' = FreshAsked /\ FreshRead' = FreshRead
        BY <2>1 DEF FreshAsked, FreshRead, Fresh
    <2>5. BlameInv'
        BY <2>1, <2>4 DEF WireInv, BlameInv, OutstandingInv
    <2> QED BY <1>1, <2>2, <2>3, <2>5 DEF WireInv
<1> QED BY <1>1, <1>2, <1>3, <1>4, BusClockInv, ReadReplyInv, WallControlInv,
           BusReopenInv DEF BusNext

\* The invariant holds in every reachable state of the composition.
THEOREM BusInvariance == BusSpec => [](IInv /\ WireInv)
BY BusInitInv, BusNextInv, PTL DEF BusSpec

\* The bus does not make the scheduler do anything it may not do by itself:
\* every behaviour of the composition is one of the scheduler, so what is proved
\* of Spec (books, spacing, timeouts) also holds on the bus.
THEOREM BusImplementsScheduler == BusSpec => Spec
<1>1. BusInit => Init
    BY DEF BusInit
<1>2. IInv /\ WireInv /\ [BusNext]_busVars => [Next]_vars
    BY BusStepIsStep DEF WireInv
<1> QED BY BusInvariance, <1>1, <1>2, PTL DEF BusSpec, Spec

\* A register is never credited with more answers than it gave, however late
\* its replies are read and whatever else is on the wire by then.
THEOREM CreditIsEarnedHolds == BusSpec => []CreditIsEarned
<1>1. IInv /\ WireInv => CreditIsEarned
    <2> SUFFICES ASSUME WireInv, NEW x \in Targets PROVE credited[x] <= served[x]
        BY DEF CreditIsEarned
    <2>1. credited[x] \in Nat /\ served[x] \in Nat /\ Count(rx, Ack(x)) \in Nat
        BY CountType DEF WireInv, BusType
    <2> QED BY <2>1 DEF WireInv, CreditInv
<1> QED BY BusInvariance, <1>1, PTL

\* As long as replies are read before their requests can time out, a register
\* is never failed more often than it was refused: NoteFrame's assumption that
\* "only one request is ever outstanding" suffices for a NACK without register.
THEOREM BlameIsEarnedHolds == BusSpec => []BlameIsEarnedInTime
<1>1. IInv /\ WireInv => BlameIsEarnedInTime
    BY DEF WireInv, BlameInv, BlameIsEarnedInTime
<1> QED BY BusInvariance, <1>1, PTL
=============================================================================
