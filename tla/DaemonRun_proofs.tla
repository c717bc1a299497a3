-------------------------- MODULE DaemonRun_proofs --------------------------
(***************************************************************************)
(* Proofs about the daemon's goroutines, for every number of observers and *)
(* any number of runs, failures and skipped bytes.                         *)
(***************************************************************************)
EXTENDS DaemonRun, TLAPS

Workers == {Reader, Ticker}

\* Where each goroutine may be.
ReaderAt == {"down", "next", "counts", "counting", "bail", "bailing", "joining", "closing",
             "sched", "tick", "delta", "fold", "add"}
TickerAt == {"none", "select", "done", "sched", "tick", "delta", "fold", "add"}
HoldsMu == {"counting", "bailing", "add", "read"}
HoldsSched == {"tick", "delta", "fold", "add"}

PlaceInv ==
    /\ samEnabled \in BOOLEAN
    /\ DOMAIN pc = Threads /\ pc = [t \in Threads |-> pc[t]]
    /\ pc[Reader] \in ReaderAt
    /\ pc[Ticker] \in TickerAt
    /\ \A o \in Observers : pc[o] \in {"idle", "read"}

\* A goroutine is in a critical section exactly when it holds the lock.
LockInv ==
    /\ \A t \in Threads : mu = t <=> pc[t] \in HoldsMu
    /\ \A t \in Workers : schedMu = t <=> pc[t] \in HoldsSched
    /\ schedMu \in Workers \cup {Nobody}

\* The port is open while the reader is not down, and the ticker is gone
\* before the reader gets to closing the port.
RunInv ==
    /\ open \/ pc[Reader] = "down"
    /\ pc[Reader] \in {"down", "closing"} => pc[Ticker] \in {"none", "done"}
    /\ ~samEnabled => pc[Ticker] = "none"

\* A failure is in the total, or not yet folded in by whoever holds schedMu.
Folded == samFailures = failed /\ failures = lastSchedFailures

SchedInv ==
    /\ failures \in Nat /\ lastSchedFailures \in Nat /\ lastSchedFailures <= failures
    /\ samFailures \in Nat /\ failed \in Nat
    /\ delta \in [Workers -> Nat]
    /\ schedMu = Nobody => Folded
    /\ \A t \in Workers :
        /\ pc[t] = "tick" => Folded
        /\ pc[t] = "delta" => samFailures + (failures - lastSchedFailures) = failed
        /\ pc[t] \in {"fold", "add"} =>
                failures = lastSchedFailures /\ samFailures + delta[t] = failed

\* A skipped byte is in the total, or the reader is on its way to count it.
Counting == {"counts", "counting", "bail", "bailing"}
Counted == {"next", "sched", "tick", "delta", "fold", "add"}

DecoderInv ==
    /\ resyncs \in Nat /\ lastResyncs \in Nat /\ lastResyncs <= resyncs
    /\ crcResyncs \in Nat /\ skipped \in Nat
    /\ pc[Reader] \in Counting => crcResyncs + (resyncs - lastResyncs) = skipped
    /\ pc[Reader] \notin Counting => crcResyncs = skipped
    /\ pc[Reader] \in Counted => resyncs = lastResyncs

ObservedInv ==
    /\ observed \in [Observers -> Nat]
    /\ \A o \in Observers : observed[o] <= samFailures

IInv == PlaceInv /\ LockInv /\ RunInv /\ SchedInv /\ DecoderInv /\ ObservedInv

\* The goroutines are different ones.
LEMMA Distinct ==
    /\ Reader \in Threads /\ Ticker \in Threads /\ Workers \subseteq Threads
    /\ Reader # Ticker /\ Nobody \notin Threads
    /\ \A o \in Observers : o \in Threads /\ o # Reader /\ o # Ticker /\ o # Nobody
BY ThreadAssumption DEF Threads, Workers, Reader, Ticker, Nobody

\* The inductive invariant holds initially.
LEMMA InitInv == Init => IInv
<1> SUFFICES ASSUME Init PROVE IInv
    OBVIOUS
<1>1. /\ pc[Reader] = "down" /\ pc[Ticker] = "none"
      /\ \A o \in Observers : pc[o] = "idle"
    BY Distinct DEF Init
<1>2. PlaceInv
    BY <1>1 DEF Init, PlaceInv, ReaderAt, TickerAt
<1>3. LockInv
    BY <1>1, Distinct DEF Init, LockInv, HoldsMu, HoldsSched, Threads, Workers
<1>4. RunInv
    BY <1>1 DEF RunInv
<1>5. SchedInv
    BY <1>1 DEF Init, SchedInv, Folded, Workers
<1>6. DecoderInv
    BY <1>1 DEF Init, DecoderInv, Counting, Counted
<1>7. ObservedInv
    BY DEF Init, ObservedInv
<1> QED BY <1>2, <1>3, <1>4, <1>5, <1>6, <1>7 DEF IInv

\* Taking mu: only from a place outside every critical section of mu, and not
\* into or out of one of schedMu.
LEMMA LockMuStep ==
    ASSUME IInv, NEW t \in Threads, NEW from, NEW to, LockMu(t, from, to),
           \/ t \in Workers /\ from = "fold" /\ to = "add"
           \/ t = Reader /\ from = "counts" /\ to = "counting"
           \/ t = Reader /\ from = "bail" /\ to = "bailing"
           \/ t \in Observers /\ from = "idle" /\ to = "read"
    PROVE  IInv'
<1>1. /\ pc[t] = from /\ mu = Nobody /\ mu' = t /\ pc' = [pc EXCEPT ![t] = to]
      /\ UNCHANGED <<samEnabled, open, stop, schedMu, observed>>
      /\ UNCHANGED <<failures, lastSchedFailures, delta, samFailures, failed>>
      /\ UNCHANGED <<resyncs, lastResyncs, crcResyncs, skipped>>
    BY DEF LockMu, Goto, run, sched, decoder
<1>2. pc'[t] = to /\ \A u \in Threads \ {t} : pc'[u] = pc[u]
    BY <1>1 DEF IInv, PlaceInv
<1>3. PlaceInv'
    BY <1>1, <1>2, Distinct DEF IInv, PlaceInv, ReaderAt, TickerAt, Workers
<1>4. LockInv'
    BY <1>1, <1>2, Distinct DEF IInv, LockInv, HoldsMu, HoldsSched, Workers
<1>5. RunInv'
    BY <1>1, <1>2, Distinct DEF IInv, RunInv, Workers
<1>6. SchedInv'
    BY <1>1, <1>2, Distinct DEF IInv, SchedInv, Folded, Workers
<1>7. DecoderInv'
    BY <1>1, <1>2, Distinct DEF IInv, DecoderInv, Counting, Counted, Workers
<1>8. ObservedInv'
    BY <1>1 DEF IInv, ObservedInv
<1> QED BY <1>3, <1>4, <1>5, <1>6, <1>7, <1>8 DEF IInv

\* A new run starts its counts at zero, when nothing is left to fold in.
LEMMA OpenStep == IInv /\ Open => IInv'
<1> SUFFICES ASSUME IInv, Open PROVE IInv'
    OBVIOUS
<1> DEFINE l == IF samEnabled THEN "select" ELSE "none"
<1>1. /\ pc[Reader] = "down" /\ open' = TRUE
      /\ failures' = 0 /\ lastSchedFailures' = 0 /\ resyncs' = 0 /\ lastResyncs' = 0
      /\ pc' = [pc EXCEPT ![Reader] = "next", ![Ticker] = l]
      /\ UNCHANGED <<samEnabled, schedMu, mu, delta, samFailures, failed, crcResyncs, skipped, observed>>
    BY DEF Open
<1>2. /\ pc'[Reader] = "next" /\ pc'[Ticker] = l
      /\ \A o \in Observers : pc'[o] = pc[o]
      /\ DOMAIN pc' = Threads /\ pc' = [t \in Threads |-> pc'[t]]
    BY <1>1, Distinct DEF IInv, PlaceInv
<1>3. pc[Ticker] \in {"none", "done"}
    BY <1>1 DEF IInv, RunInv
<1>4. schedMu = Nobody
    BY <1>1, <1>3 DEF IInv, LockInv, HoldsSched, Workers
<1>5. l \in {"none", "select"}
    OBVIOUS
<1>6. PlaceInv'
    BY <1>1, <1>2, <1>5 DEF IInv, PlaceInv, ReaderAt, TickerAt
<1>7. LockInv'
    BY <1>1, <1>2, <1>3, <1>5, Distinct DEF IInv, LockInv, HoldsMu, HoldsSched, Workers, Threads
<1>8. RunInv'
    BY <1>1, <1>2 DEF RunInv
<1>9. SchedInv'
    BY <1>1, <1>2, <1>4, <1>5 DEF IInv, SchedInv, Folded, Workers
<1>10. DecoderInv'
    BY <1>1, <1>2 DEF IInv, DecoderInv, Counting, Counted
<1>11. ObservedInv'
    BY <1>1 DEF IInv, ObservedInv
<1> QED BY <1>6, <1>7, <1>8, <1>9, <1>10, <1>11 DEF IInv

\* The decoder returns: what it skipped is on its way to be counted.
LEMMA NextFrameStep ==
    ASSUME IInv, NEW to \in {"counts", "bail"}, decNext(to)
    PROVE  IInv'
<1>1. PICK n \in 0 .. MaxSkips - skipped : resyncs' = resyncs + n /\ skipped' = skipped + n
    BY DEF decNext
<1>2. /\ pc[Reader] = "next" /\ pc' = [pc EXCEPT ![Reader] = to]
      /\ UNCHANGED <<samEnabled, open, stop, schedMu, mu, lastResyncs, crcResyncs, observed>>
      /\ UNCHANGED <<failures, lastSchedFailures, delta, samFailures, failed>>
    BY DEF decNext, Goto, run, sched
<1>3. n \in Nat
    BY CountAssumption DEF IInv, DecoderInv
<1>4. /\ pc'[Reader] = to
      /\ \A u \in Threads \ {Reader} : pc'[u] = pc[u]
    BY <1>2, Distinct DEF IInv, PlaceInv
<1>5. PlaceInv'
    BY <1>2, <1>4, Distinct DEF IInv, PlaceInv, ReaderAt
<1>6. LockInv'
    BY <1>2, <1>4, Distinct DEF IInv, LockInv, HoldsMu, HoldsSched, Workers
<1>7. RunInv'
    BY <1>2, <1>4, Distinct DEF IInv, RunInv
<1>8. SchedInv'
    BY <1>2, <1>4, Distinct DEF IInv, SchedInv, Folded, Workers
<1>9. DecoderInv'
    BY <1>1, <1>2, <1>3, <1>4 DEF IInv, DecoderInv, Counting, Counted
<1>10. ObservedInv'
    BY <1>2 DEF IInv, ObservedInv
<1> QED BY <1>5, <1>6, <1>7, <1>8, <1>9, <1>10 DEF IInv

\* The reader folds the skipped bytes in, after a frame or on the error path.
LEMMA CountStep == IInv /\ (Count \/ Bail) => IInv'
<1> SUFFICES ASSUME IInv, Count \/ Bail PROVE IInv'
    OBVIOUS
<1> DEFINE from == pc[Reader]
           to == pc'[Reader]
<1>1. /\ from \in {"counting", "bailing"}
      /\ crcResyncs' = crcResyncs + (resyncs - lastResyncs)
      /\ mu' = Nobody
      /\ UNCHANGED <<samEnabled, open, schedMu, resyncs, skipped, observed>>
      /\ UNCHANGED <<failures, lastSchedFailures, delta, samFailures, failed>>
    BY DEF Count, Bail, run, sched
<1>2. \A u \in Threads \ {Reader} : pc'[u] = pc[u]
    BY Distinct DEF IInv, PlaceInv, Count, Bail, Goto
<1>3. /\ DOMAIN pc' = Threads /\ pc' = [t \in Threads |-> pc'[t]]
      /\ to \in {"sched", "next", "joining", "closing"}
      /\ to \in {"sched", "next"} => lastResyncs' = resyncs
      /\ to = "closing" => ~samEnabled
      /\ lastResyncs' \in {lastResyncs, resyncs}
    BY Distinct DEF IInv, PlaceInv, Count, Bail, Goto
<1> HIDE DEF to
<1>4. PlaceInv'
    BY <1>1, <1>2, <1>3, Distinct DEF IInv, PlaceInv, ReaderAt, to
<1>5. LockInv'
  <2>1. mu = Reader
    BY <1>1, Distinct DEF IInv, LockInv, HoldsMu
  <2>2. \A t \in Threads : pc'[t] \notin HoldsMu
    BY <1>2, <1>3, <2>1, Distinct DEF IInv, LockInv, HoldsMu, to
  <2>3. \A t \in Workers : pc'[t] \in HoldsSched <=> pc[t] \in HoldsSched
    BY <1>1, <1>2, <1>3, Distinct DEF HoldsSched, Workers, to
  <2> QED BY <1>1, <2>2, <2>3, Distinct DEF IInv, LockInv
<1>6. RunInv'
    BY <1>1, <1>2, <1>3, Distinct DEF IInv, RunInv, to
<1>7. SchedInv'
    BY <1>1, <1>2, <1>3, Distinct DEF IInv, SchedInv, Folded, Workers, to
<1>8. DecoderInv'
    BY <1>1, <1>3 DEF IInv, DecoderInv, Counting, Counted, to
<1>9. ObservedInv'
    BY <1>1 DEF IInv, ObservedInv
<1> QED BY <1>4, <1>5, <1>6, <1>7, <1>8, <1>9 DEF IInv

\* Steps that only move one goroutine, outside every critical section.
LEMMA MoveStep ==
    ASSUME IInv, Join \/ Close \/ TickerStops \/ TickerFires
    PROVE  IInv'
<1>1. /\ UNCHANGED <<samEnabled, schedMu, mu, observed>>
      /\ UNCHANGED <<failures, lastSchedFailures, delta, samFailures, failed>>
      /\ UNCHANGED <<resyncs, lastResyncs, crcResyncs, skipped>>
      /\ DOMAIN pc' = Threads /\ pc' = [t \in Threads |-> pc'[t]]
      /\ \A o \in Observers : pc'[o] = pc[o]
    BY Distinct DEF IInv, PlaceInv, Join, Close, TickerStops, TickerFires, Goto, run, sched, decoder
<1>2. \/ /\ pc[Reader] = "joining" /\ pc'[Reader] = "closing"
         /\ pc[Ticker] = "done" /\ pc'[Ticker] = "done" /\ open' = open
      \/ /\ pc[Reader] = "closing" /\ pc'[Reader] = "down" /\ pc'[Ticker] = pc[Ticker]
      \/ /\ pc'[Reader] = pc[Reader] /\ open' = open
         /\ pc[Ticker] = "select" /\ pc'[Ticker] \in {"done", "sched"}
    BY Distinct DEF IInv, PlaceInv, Join, Joined, Close, TickerStops, TickerFires, Goto, run
<1>3. PlaceInv'
    BY <1>1, <1>2 DEF IInv, PlaceInv, ReaderAt, TickerAt
<1>4. LockInv'
    BY <1>1, <1>2 DEF IInv, LockInv, HoldsMu, HoldsSched, Workers, Threads
<1>5. RunInv'
    BY <1>1, <1>2 DEF IInv, RunInv
<1>6. SchedInv'
    BY <1>1, <1>2 DEF IInv, SchedInv, Folded, Workers
<1>7. DecoderInv'
    BY <1>1, <1>2 DEF IInv, DecoderInv, Counting, Counted
<1>8. ObservedInv'
    BY <1>1 DEF IInv, ObservedInv
<1> QED BY <1>3, <1>4, <1>5, <1>6, <1>7, <1>8 DEF IInv

\* The steps inside the scheduler's critical section: only the holder of
\* schedMu moves, so only its stage of the accounting changes.
LEMMA SectionStep ==
    ASSUME IInv, NEW t \in Workers, LockSched(t) \/ Scheduler(t) \/ Delta(t) \/ Fold(t)
    PROVE  IInv'
<1> DEFINE u == IF t = Reader THEN Ticker ELSE Reader
<1>1. /\ t \in Threads /\ u \in Threads /\ u \in Workers /\ u # t /\ Workers = {t, u}
      /\ t # Nobody /\ u # Nobody
      /\ {t, u} = {Reader, Ticker}
    BY Distinct DEF Workers
<1> HIDE DEF u
<1>2. /\ UNCHANGED <<samEnabled, open, resyncs, lastResyncs, crcResyncs, skipped, observed>>
      /\ DOMAIN pc' = Threads /\ pc' = [s \in Threads |-> pc'[s]]
      /\ \A s \in Threads \ {t} : pc'[s] = pc[s]
    BY <1>1 DEF IInv, PlaceInv, LockSched, Scheduler, Delta, Fold, Goto, run, decoder
<1>3. \/ pc[t] = "sched" /\ pc'[t] = "tick" /\ schedMu = Nobody /\ schedMu' = t /\ mu' = mu
      \/ pc[t] = "tick" /\ pc'[t] = "delta" /\ schedMu' = schedMu /\ mu' = mu
      \/ pc[t] = "delta" /\ pc'[t] = "fold" /\ schedMu' = schedMu /\ mu' = mu
      \/ /\ pc[t] = "add" /\ schedMu' = Nobody /\ mu' = Nobody
         /\ pc'[t] = IF t = Reader THEN "next" ELSE "select"
    BY <1>1 DEF IInv, PlaceInv, LockSched, Scheduler, Delta, Fold, Goto
<1>4. pc[u] \notin HoldsSched
    BY <1>1, <1>3 DEF IInv, LockInv, HoldsSched
<1>5. PlaceInv'
    BY <1>1, <1>2, <1>3, Distinct DEF IInv, PlaceInv, ReaderAt, TickerAt
<1>6. LockInv'
  <2>1. \A s \in Threads : mu' = s <=> pc'[s] \in HoldsMu
    BY <1>1, <1>2, <1>3, Distinct DEF IInv, LockInv, HoldsMu
  <2>2. \A s \in Workers : schedMu' = s <=> pc'[s] \in HoldsSched
    BY <1>1, <1>2, <1>3, <1>4, Distinct DEF IInv, LockInv, HoldsSched
  <2>3. schedMu' \in Workers \cup {Nobody}
    BY <1>3 DEF IInv, LockInv
  <2> QED BY <2>1, <2>2, <2>3 DEF LockInv
<1>7. RunInv'
    BY <1>1, <1>2, <1>3, Distinct DEF IInv, RunInv
<1>8. /\ SchedInv' /\ samFailures' >= samFailures
  <2>1. pc'[u] = pc[u]
    BY <1>1, <1>2
  <2>2. CASE LockSched(t)
    BY <1>1, <1>3, <1>4, <2>1, <2>2 DEF IInv, PlaceInv, SchedInv, Folded, LockSched, Goto, sched, HoldsSched
  <2>3. CASE Scheduler(t)
    <3>1. PICK n \in 0 .. 2 : failures' = failures + n /\ failed' = failed + n
        BY <2>3 DEF Scheduler
    <3>2. /\ pc[t] = "tick" /\ pc'[t] = "delta" /\ schedMu' = schedMu /\ schedMu = t
          /\ UNCHANGED <<lastSchedFailures, delta, samFailures>>
        BY <1>1, <2>3 DEF Scheduler, Goto, IInv, PlaceInv, LockInv, HoldsSched
    <3> QED BY <1>1, <1>4, <2>1, <3>1, <3>2 DEF IInv, SchedInv, Folded, HoldsSched
  <2>4. CASE Delta(t)
    <3>1. /\ pc[t] = "delta" /\ pc'[t] = "fold" /\ schedMu' = schedMu /\ schedMu = t
          /\ delta' = [delta EXCEPT ![t] = failures - lastSchedFailures]
          /\ lastSchedFailures' = failures
          /\ UNCHANGED <<failures, samFailures, failed>>
        BY <1>1, <2>4 DEF Delta, Goto, IInv, PlaceInv, LockInv, HoldsSched
    <3>2. /\ failures - lastSchedFailures \in Nat
          /\ samFailures + (failures - lastSchedFailures) = failed
        BY <3>1 DEF IInv, SchedInv
    <3>3. delta' \in [Workers -> Nat] /\ delta'[t] = failures - lastSchedFailures
        BY <3>1, <3>2 DEF IInv, SchedInv
    <3> QED BY <1>1, <1>4, <2>1, <3>1, <3>2, <3>3 DEF IInv, SchedInv, Folded, HoldsSched
  <2>5. CASE Fold(t)
    <3>1. /\ pc[t] = "add" /\ pc'[t] \in {"next", "select"} /\ schedMu' = Nobody
          /\ samFailures' = samFailures + delta[t]
          /\ UNCHANGED <<failures, lastSchedFailures, delta, failed>>
        BY <1>1, <2>5 DEF Fold, Total, Goto, IInv, PlaceInv
    <3>2. /\ failures = lastSchedFailures /\ samFailures + delta[t] = failed
          /\ delta[t] \in Nat
        BY <3>1 DEF IInv, SchedInv
    <3> QED BY <1>1, <1>4, <2>1, <3>1, <3>2 DEF IInv, SchedInv, Folded, HoldsSched
  <2> QED BY <2>2, <2>3, <2>4, <2>5
<1>9. DecoderInv'
    BY <1>1, <1>2, <1>3, Distinct DEF IInv, DecoderInv, Counting, Counted
<1>10. ObservedInv'
    BY <1>2, <1>8 DEF IInv, ObservedInv, SchedInv
<1> QED BY <1>5, <1>6, <1>7, <1>8, <1>9, <1>10 DEF IInv

\* An observer reads the total that is there.
LEMMA ObserveStep ==
    ASSUME IInv, NEW o \in Observers, Observe(o)
    PROVE  IInv' /\ \A p \in Observers : observed'[p] >= observed[p]
<1>1. /\ pc[o] = "read" /\ mu' = Nobody /\ pc' = [pc EXCEPT ![o] = "idle"]
      /\ observed' = [observed EXCEPT ![o] = samFailures]
      /\ UNCHANGED <<samEnabled, open, stop, schedMu>>
      /\ UNCHANGED <<failures, lastSchedFailures, delta, samFailures, failed>>
      /\ UNCHANGED <<resyncs, lastResyncs, crcResyncs, skipped>>
    BY DEF Observe, Goto, run, sched, decoder
<1>2. /\ pc'[o] = "idle" /\ o \in Threads
      /\ \A s \in Threads \ {o} : pc'[s] = pc[s]
    BY <1>1, Distinct DEF IInv, PlaceInv
<1>3. PlaceInv'
    BY <1>1, <1>2, Distinct DEF IInv, PlaceInv
<1>4. LockInv'
    BY <1>1, <1>2, Distinct DEF IInv, LockInv, HoldsMu, HoldsSched, Workers
<1>5. RunInv'
    BY <1>1, <1>2, Distinct DEF IInv, RunInv
<1>6. SchedInv'
    BY <1>1, <1>2, Distinct DEF IInv, SchedInv, Folded, Workers
<1>7. DecoderInv'
    BY <1>1, <1>2, Distinct DEF IInv, DecoderInv, Counting, Counted
<1>8. ObservedInv' /\ \A p \in Observers : observed'[p] >= observed[p]
    BY <1>1 DEF IInv, SchedInv, ObservedInv
<1> QED BY <1>3, <1>4, <1>5, <1>6, <1>7, <1>8 DEF IInv

\* Every step preserves the invariant, and no observation falls.
LEMMA NextInv ==
    IInv /\ [Next]_vars => IInv' /\ \A o \in Observers : observed'[o] >= observed[o]
<1> SUFFICES ASSUME IInv, [Next]_vars
             PROVE  IInv' /\ \A o \in Observers : observed'[o] >= observed[o]
    OBVIOUS
<1>0. \A o \in Observers : observed[o] \in Nat
    BY DEF IInv, ObservedInv
<1>1. CASE ReadFrame \/ ReadError
  <2>1. IInv'
    BY <1>1, NextFrameStep DEF ReadFrame, ReadError
  <2>2. observed' = observed
    BY <1>1 DEF ReadFrame, ReadError, decNext
  <2> QED BY <1>0, <2>1, <2>2
<1>2. CASE ReaderWaits
  <2>1. IInv'
    BY <1>2, LockMuStep, Distinct DEF ReaderWaits
  <2>2. observed' = observed
    BY <1>2 DEF ReaderWaits, LockMu
  <2> QED BY <1>0, <2>1, <2>2
<1>3. CASE ReaderRuns
  <2>1. IInv'
    BY <1>3, OpenStep, CountStep, MoveStep DEF ReaderRuns
  <2>2. observed' = observed
    BY <1>3 DEF ReaderRuns, Open, Count, Bail, Join, Close
  <2> QED BY <1>0, <2>1, <2>2
<1>4. CASE TickerFires \/ TickerStops
  <2>1. IInv'
    BY <1>4, MoveStep
  <2>2. observed' = observed
    BY <1>4 DEF TickerFires, TickerStops
  <2> QED BY <1>0, <2>1, <2>2
<1>5. CASE \E t \in {Reader, Ticker} : Waits(t) \/ Runs(t)
  <2>1. PICK t \in Workers : Waits(t) \/ Runs(t)
    BY <1>5 DEF Workers
  <2>2. IInv'
    BY <2>1, SectionStep, LockMuStep, Distinct DEF Waits, Runs
  <2>3. observed' = observed
    BY <2>1 DEF Waits, Runs, LockSched, LockMu, Scheduler, Delta, Fold
  <2> QED BY <1>0, <2>2, <2>3
<1>6. CASE \E o \in Observers : LockMu(o, "idle", "read") \/ Observe(o)
  <2>1. PICK o \in Observers : LockMu(o, "idle", "read") \/ Observe(o)
    BY <1>6
  <2>2. CASE LockMu(o, "idle", "read")
    <3>1. IInv'
        BY <2>2, LockMuStep, Distinct
    <3>2. observed' = observed
        BY <2>2 DEF LockMu
    <3> QED BY <1>0, <3>1, <3>2
  <2> QED BY <2>1, <2>2, ObserveStep
<1>7. CASE UNCHANGED vars
  <2>1. /\ UNCHANGED <<samEnabled, open, stop, pc, schedMu, mu, observed>>
        /\ UNCHANGED <<failures, lastSchedFailures, delta, samFailures, failed>>
        /\ UNCHANGED <<resyncs, lastResyncs, crcResyncs, skipped>>
    BY <1>7 DEF vars, run, sched, decoder
  <2>2. PlaceInv' /\ LockInv' /\ RunInv'
    BY <2>1 DEF IInv, PlaceInv, LockInv, RunInv
  <2>3. SchedInv' /\ DecoderInv' /\ ObservedInv'
    BY <2>1 DEF IInv, SchedInv, Folded, DecoderInv, ObservedInv
  <2> QED BY <1>0, <2>1, <2>2, <2>3 DEF IInv
<1> QED BY <1>1, <1>2, <1>3, <1>4, <1>5, <1>6, <1>7 DEF Next

\* The invariant holds throughout.
THEOREM Invariance == Spec => []IInv
BY InitInv, NextInv, PTL DEF Spec

\* No goroutine is ever where it may write to a port that run has closed.
THEOREM NoWriteAfterCloseHolds == Spec => []NoWriteAfterClose
<1>1. IInv => NoWriteAfterClose
    BY DEF IInv, RunInv, NoWriteAfterClose
<1> QED BY Invariance, <1>1, PTL

\* The published totals are exact across any number of runs of the daemon.
THEOREM TotalsExactHolds == Spec => []TotalsExact
<1>1. IInv => TotalsExact
    BY DEF IInv, SchedInv, DecoderInv, TotalsExact, Folded, Counting
<1> QED BY Invariance, <1>1, PTL

\* What an observer reads never falls, although every run counts from zero.
THEOREM ObservedNeverFallsHolds == Spec => ObservedNeverFalls
<1>1. IInv /\ [Next]_vars => [\A o \in Observers : observed'[o] >= observed[o]]_vars
    BY NextInv
<1> QED BY Invariance, <1>1, PTL DEF Spec, ObservedNeverFalls
=============================================================================
