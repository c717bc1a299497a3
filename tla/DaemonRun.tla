----------------------------- MODULE DaemonRun -----------------------------
(***************************************************************************)
(* The goroutines of one daemon (cmd/infinid/main.go): run's read loop,    *)
(* the ticker goroutine each run starts for the SAM scheduler, and the     *)
(* observers of the daemon's counters (publishLoop and statusMap).  They   *)
(* share the serial port, the scheduler under schedMu and the counters     *)
(* under mu; run is left and started again whenever the bus fails.         *)
(*                                                                         *)
(* Of the counters, the two that are folded in as deltas are kept:         *)
(* samFailures and crcResyncs.  The frame counts change in the same        *)
(* critical section and have one writer.                                   *)
(***************************************************************************)
EXTENDS Integers

CONSTANTS
    Observers,     \* goroutines that read the counters
    MaxFailures,   \* bound on the failures of the schedulers of all runs
    MaxSkips       \* bound on the bytes skipped by the decoders of all runs

ASSUME CountAssumption == MaxFailures \in Nat /\ MaxSkips \in Nat

Reader == "reader"
Ticker == "ticker"
Nobody == "nobody"
Threads == {Reader, Ticker} \cup Observers

ASSUME ThreadAssumption == Observers \cap {Reader, Ticker, Nobody} = {}

VARIABLES
    samEnabled,
    pc,                  \* where each goroutine is, or the lock it waits for
    open,                \* is this run's port open?
    stop,                \* has this run closed its stop channel?
    schedMu, mu,         \* who holds the lock
    failures,            \* Failures() of this run's scheduler
    lastSchedFailures,
    delta,               \* each goroutine's local delta
    samFailures,
    resyncs,             \* Resyncs() of this run's decoder
    lastResyncs,
    crcResyncs,
    observed,            \* the samFailures each observer read last
    \* What really happened, over all runs.
    failed, skipped

sched == <<failures, lastSchedFailures, delta, samFailures, failed>>
decoder == <<resyncs, lastResyncs, crcResyncs, skipped>>
run == <<samEnabled, open, stop>>
vars == <<run, pc, schedMu, mu, sched, decoder, observed>>

Goto(t, l) == pc' = [pc EXCEPT ![t] = l]

Init ==
    /\ samEnabled \in BOOLEAN
    /\ pc = [t \in Threads |->
                CASE t = Reader -> "down" [] t = Ticker -> "none" [] OTHER -> "idle"]
    /\ open = FALSE /\ stop = FALSE
    /\ schedMu = Nobody /\ mu = Nobody
    /\ failures = 0 /\ lastSchedFailures = 0 /\ samFailures = 0
    /\ delta = [t \in {Reader, Ticker} |-> 0]
    /\ resyncs = 0 /\ lastResyncs = 0 /\ crcResyncs = 0
    /\ observed = [o \in Observers |-> 0]
    /\ failed = 0 /\ skipped = 0

-----------------------------------------------------------------------------
\* Wait for mu, on the way from one place to another.
LockMu(t, from, to) ==
    /\ pc[t] = from /\ mu = Nobody
    /\ mu' = t
    /\ Goto(t, to)
    /\ UNCHANGED <<run, schedMu, sched, decoder, observed>>

\* OpenSerial succeeds: a new run, with a scheduler and a decoder that count
\* from zero, and a ticker goroutine of its own.  (A failed open changes nothing.)
Open ==
    /\ pc[Reader] = "down"
    /\ open' = TRUE /\ stop' = FALSE
    /\ failures' = 0 /\ lastSchedFailures' = 0
    /\ resyncs' = 0 /\ lastResyncs' = 0
    /\ pc' = [pc EXCEPT ![Reader] = "next", ![Ticker] = IF samEnabled THEN "select" ELSE "none"]
    /\ UNCHANGED <<samEnabled, schedMu, mu, delta, samFailures, failed, crcResyncs, skipped, observed>>

\* dec.Next returns, with a frame or an error, having skipped some bytes.
decNext(to) ==
    /\ pc[Reader] = "next"
    /\ \E n \in 0 .. MaxSkips - skipped :
        resyncs' = resyncs + n /\ skipped' = skipped + n
    /\ Goto(Reader, to)
    /\ UNCHANGED <<run, schedMu, mu, sched, lastResyncs, crcResyncs, observed>>

ReadFrame == decNext("counts")
ReadError == decNext("bail")

\* The counters section of a frame; the scheduler comes next, if there is one.
Count ==
    /\ pc[Reader] = "counting"
    /\ crcResyncs' = crcResyncs + (resyncs - lastResyncs)
    /\ lastResyncs' = resyncs
    /\ mu' = Nobody
    /\ Goto(Reader, IF samEnabled THEN "sched" ELSE "next")
    /\ UNCHANGED <<run, schedMu, sched, resyncs, skipped, observed>>

Bail_NoFold ==
    /\ pc[Reader] = "bailing"
    /\ mu' = Nobody
    /\ Goto(Reader, IF samEnabled THEN "joining" ELSE "closing")
    /\ stop' = samEnabled
    /\ UNCHANGED <<samEnabled, open, schedMu, sched, decoder, observed>>

Bail_NoStop ==
    /\ pc[Reader] = "bailing"
    /\ crcResyncs' = crcResyncs + (resyncs - lastResyncs)
    /\ mu' = Nobody
    /\ Goto(Reader, IF samEnabled THEN "joining" ELSE "closing")
    /\ UNCHANGED <<run, schedMu, sched, resyncs, lastResyncs, skipped, observed>>

\* The error path: fold the resyncs in, then return, which closes stop.
Bail ==
    /\ pc[Reader] = "bailing"
    /\ crcResyncs' = crcResyncs + (resyncs - lastResyncs)
    /\ mu' = Nobody
    /\ Goto(Reader, IF samEnabled THEN "joining" ELSE "closing")
    /\ stop' = samEnabled
    /\ UNCHANGED <<samEnabled, open, schedMu, sched, resyncs, lastResyncs, skipped, observed>>

Joined_AtOnce == TRUE

\* The deferred join: the ticker has closed done.
Joined == pc[Ticker] = "done"

Join ==
    /\ pc[Reader] = "joining" /\ Joined
    /\ Goto(Reader, "closing")
    /\ UNCHANGED <<run, schedMu, mu, sched, decoder, observed>>

\* The deferred port.Close(), which runs last; main sleeps and tries again.
Close ==
    /\ pc[Reader] = "closing"
    /\ open' = FALSE
    /\ Goto(Reader, "down")
    /\ UNCHANGED <<samEnabled, stop, schedMu, mu, sched, decoder, observed>>

-----------------------------------------------------------------------------
\* The ticker's select.  When both channels are ready it takes either.
TickerStops ==
    /\ pc[Ticker] = "select" /\ stop
    /\ Goto(Ticker, "done")
    /\ UNCHANGED <<run, schedMu, mu, sched, decoder, observed>>

TickerFires ==
    /\ pc[Ticker] = "select"
    /\ Goto(Ticker, "sched")
    /\ UNCHANGED <<run, schedMu, mu, sched, decoder, observed>>

LockSched(t) ==
    /\ pc[t] = "sched" /\ schedMu = Nobody
    /\ schedMu' = t
    /\ Goto(t, "tick")
    /\ UNCHANGED <<run, mu, sched, decoder, observed>>

\* The scheduler runs (NoteFrame and Tick for the reader, Tick for the ticker).
\* It may write to the port, and it may count a failure for a request that ended
\* and one for a write that failed.
Scheduler(t) ==
    /\ pc[t] = "tick"
    /\ \E n \in 0 .. 2 :
        /\ failed + n <= MaxFailures
        /\ failures' = failures + n /\ failed' = failed + n
    /\ Goto(t, "delta")
    /\ UNCHANGED <<run, schedMu, mu, lastSchedFailures, delta, samFailures, decoder, observed>>

Delta(t) ==
    /\ pc[t] = "delta"
    /\ delta' = [delta EXCEPT ![t] = failures - lastSchedFailures]
    /\ lastSchedFailures' = failures
    /\ Goto(t, "fold")
    /\ UNCHANGED <<run, schedMu, mu, failures, samFailures, failed, decoder, observed>>

Total_Overwritten(t) == failures

Total(t) == samFailures + delta[t]

\* Fold the delta in and release both locks.
Fold(t) ==
    /\ pc[t] = "add"
    /\ samFailures' = Total(t)
    /\ mu' = Nobody /\ schedMu' = Nobody
    /\ Goto(t, IF t = Reader THEN "next" ELSE "select")
    /\ UNCHANGED <<run, failures, lastSchedFailures, delta, failed, decoder, observed>>

\* publishLoop and statusMap copy the counters under mu.
Observe(o) ==
    /\ pc[o] = "read"
    /\ observed' = [observed EXCEPT ![o] = samFailures]
    /\ mu' = Nobody
    /\ Goto(o, "idle")
    /\ UNCHANGED <<run, schedMu, sched, decoder>>

-----------------------------------------------------------------------------
\* Waiting for a lock.
Waits(t) ==
    \/ LockSched(t)
    \/ LockMu(t, "fold", "add")

\* Steps a goroutine takes without waiting.
Runs(t) == Scheduler(t) \/ Delta(t) \/ Fold(t)

ReaderWaits == LockMu(Reader, "counts", "counting") \/ LockMu(Reader, "bail", "bailing")
ReaderRuns == Open \/ Count \/ Bail \/ Join \/ Close

Next ==
    \/ ReadFrame \/ ReadError
    \/ ReaderWaits \/ ReaderRuns
    \/ TickerFires \/ TickerStops
    \/ \E t \in {Reader, Ticker} : Waits(t) \/ Runs(t)
    \/ \E o \in Observers : LockMu(o, "idle", "read") \/ Observe(o)

\* A goroutine that can run does.  Go's mutex hands the lock to a waiter that
\* waits long, and its select chooses at random among the ready channels, so
\* neither waits forever on what comes again and again.  Nothing is assumed of
\* the bus; the port can be opened again.
Fairness ==
    /\ WF_vars(ReaderRuns) /\ SF_vars(ReaderWaits) /\ SF_vars(TickerStops)
    /\ \A t \in {Reader, Ticker} : SF_vars(Waits(t)) /\ WF_vars(Runs(t))
    /\ \A o \in Observers : WF_vars(Observe(o))

Spec == Init /\ [][Next]_vars /\ Fairness

-----------------------------------------------------------------------------
\* run joins the ticker before it closes the port, so no goroutine is where it
\* may write to the port, or about to lock the scheduler to do so, once the
\* port is closed.
NoWriteAfterClose ==
    \A t \in {Reader, Ticker} : pc[t] \in {"sched", "tick"} => open

\* The totals are exact across runs: outside the scheduler's critical section
\* samFailures is the number of failures of all the schedulers there were, and
\* crcResyncs is the number of bytes all decoders skipped once the reader has
\* folded in what dec.Next just skipped, on the error path too.
TotalsExact ==
    /\ schedMu = Nobody => samFailures = failed
    /\ pc[Reader] \notin {"counts", "counting", "bail", "bailing"} => crcResyncs = skipped

\* What an observer publishes never falls, although every run starts its
\* scheduler's count again at zero.
ObservedNeverFalls ==
    [][\A o \in Observers : observed'[o] >= observed[o]]_vars

\* A bus error never wedges the daemon: whatever the ticker and the observers
\* are doing with the locks, run joins the ticker, returns and reads again.
ReadsAgain == pc[Reader] = "bail" ~> pc[Reader] = "next"
=============================================================================
