------------------------------- MODULE SamBus -------------------------------
(***************************************************************************)
(* The request scheduler against the wall control it polls.  A request     *)
(* that was written waits on the bus; the wall control answers it, refuses *)
(* it or says nothing, and its frame waits in the receive path (serial     *)
(* buffer, decoder) until the read loop gets to it.  The ticker does not   *)
(* wait for the read loop, so a reply can be read after its request has    *)
(* timed out and the next one is on the wire.                              *)
(***************************************************************************)
EXTENDS SamScheduler, Sequences

\* main sleeps longer than a request waits for its answer.
ASSUME SleepAssumption == PendingTimeout <= RetryDelay

VARIABLES
    asked,     \* requests on the bus, oldest first, with the time each was written
    rx,        \* replies received and not yet read, oldest first
    \* History variables: per register, what the wall control did and what the
    \* scheduler made of it.
    served, refused, credited, blamed,
    rxAsked,   \* when the requests answered in rx were written
    late       \* has a reply been read when its request might have timed out?

busHist == <<served, refused, credited, blamed, late>>
busVars == <<vars, asked, rx, rxAsked, busHist>>

Ack(x) == [kind |-> "ack", reg |-> x]
Nack == [kind |-> "nack"]
Other == [kind |-> "other"]

BusInit ==
    /\ Init
    /\ asked = <<>>
    /\ rx = <<>> /\ rxAsked = <<>>
    /\ late = FALSE
    /\ served = [x \in Targets |-> 0]
    /\ refused = [x \in Targets |-> 0]
    /\ credited = [x \in Targets |-> 0]
    /\ blamed = [x \in Targets |-> 0]

\* The request a scheduler step wrote, if it wrote one, goes on the bus.
Transmit ==
    asked' = IF attempts' # attempts /\ sched'.pending # None
             THEN Append(asked, [reg |-> sched'.pending, at |-> now]) ELSE asked

BusClock == Clock /\ UNCHANGED <<asked, rx, rxAsked, busHist>>

BusTicker == Ticker /\ Transmit /\ UNCHANGED <<rx, rxAsked, busHist>>

\* The read loop takes the oldest reply.
ReadReply ==
    /\ rx # <<>>
    /\ rx' = Tail(rx) /\ rxAsked' = Tail(rxAsked)
    /\ ReadLoop(Head(rx))
    /\ Transmit
    /\ credited' = IF Answers(sched, Head(rx))
                   THEN [credited EXCEPT ![sched.pending] = @ + 1] ELSE credited
    /\ blamed' = IF sched.pending # None /\ Head(rx) = Nack
                 THEN [blamed EXCEPT ![sched.pending] = @ + 1] ELSE blamed
    /\ late' = (late \/ now - Head(rxAsked) >= PendingTimeout - MaxLag)
    /\ UNCHANGED <<served, refused>>

\* The read loop takes any other frame of the shared bus.
ReadOther == ReadLoop(Other) /\ Transmit /\ UNCHANGED <<rx, rxAsked, busHist>>

\* The wall control (external) answers the oldest request with the register's
\* data, refuses it, or leaves it unanswered (or its frame fails the CRC).
WallControl ==
    /\ asked # <<>>
    /\ asked' = Tail(asked)
    /\ LET x == Head(asked).reg IN
       \/ /\ rx' = Append(rx, Ack(x))
          /\ served' = [served EXCEPT ![x] = @ + 1]
          /\ rxAsked' = Append(rxAsked, Head(asked).at)
          /\ UNCHANGED refused
       \/ /\ rx' = Append(rx, Nack)
          /\ refused' = [refused EXCEPT ![x] = @ + 1]
          /\ rxAsked' = Append(rxAsked, Head(asked).at)
          /\ UNCHANGED served
       \/ UNCHANGED <<rx, rxAsked, served, refused>>
    /\ UNCHANGED <<vars, credited, blamed, late>>

\* A reconnect drops what was received; requests on the bus stay there.
BusReopen == Reopen /\ rx' = <<>> /\ rxAsked' = <<>> /\ UNCHANGED <<asked, busHist>>

BusNext ==
    \/ BusClock \/ BusTicker \/ ReadReply \/ ReadOther \/ WallControl \/ BusReopen

BusSpec == BusInit /\ [][BusNext]_busVars

-----------------------------------------------------------------------------
\* A register is credited with an answer, which resets its backoff, only if it
\* answered: a late reply to a request already timed out is never taken for the
\* reply to the next register's request (NoteFrame's register match).
CreditIsEarned == \A x \in Targets : credited[x] <= served[x]

\* NoteFrame's comment: a NACK cannot be matched by register, "which is
\* acceptable because only one request is ever outstanding".  So it is as long
\* as replies are read before their requests can time out, which a lagging stamp
\* may bring forward by MaxLag: the register that is failed and backed off is
\* the one that was refused.
BlameIsEarnedInTime == ~late => \A x \in Targets : blamed[x] <= refused[x]
=============================================================================
