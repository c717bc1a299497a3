------------------------------ MODULE Capture ------------------------------
(***************************************************************************)
(* The capture of bus frames: the recorder's ring (capture/recorder.go),   *)
(* the size-capped JSONL file behind it (cappedWriter and main in          *)
(* cmd/infinid/main.go), writes that fail or are cut by the death of the   *)
(* process, restarts that append to what is there, and the inspector       *)
(* (module Inspect), which may read the file at any moment.                *)
(*                                                                         *)
(* The file is a sequence of writes.  A write is known by its record and   *)
(* by how many of its line's bytes reached the file; the last byte of a    *)
(* line is its newline.                                                    *)
(***************************************************************************)
EXTENDS Inspect

CONSTANTS
    Frames,         \* frames that may be received: records without a time stamp
    Times,          \* readings of the host's clock, which may be set back
    Cap,            \* -capture-max-mb, in bytes
    RingSize,       \* -ring
    Instants,       \* instants asked about: -at of a diff
    Windows,        \* -window of a diff
    Archives,       \* captures kept from other daemons, as lists of records
    MaxFrames,      \* bound: frames received in all runs
    MaxRuns,        \* bound: starts of the daemon
    MaxStatFails    \* bound: restarts that cannot stat the file

ASSUME CaptureAssumption ==
    /\ Cap \in Nat /\ RingSize \in Int
    /\ Frames \subseteq Frame /\ Times \subseteq Int /\ Archives \subseteq Seq(Record)
    /\ Instants \subseteq Int /\ Windows \subseteq Nat
    /\ MaxFrames \in Nat /\ MaxRuns \in Nat /\ MaxStatFails \in Nat

VARIABLES
    file,       \* the writes so far
    up,         \* is the daemon running?
    remain, stopped,    \* cappedWriter
    ring,
    \* History.
    run,        \* number of this run of the daemon
    seen,       \* how many frames this run has received
    received,   \* how many there were in all runs
    statFails

vars == <<file, up, remain, stopped, ring, run, seen, received, statFails>>

\* The length of a record's line, newline included.
LineLen(r) == 2 + Len(r.data)

Size(f) ==
    LET to[n \in 0 .. Len(f)] == IF n = 0 THEN 0 ELSE to[n - 1] + f[n].n
    IN  to[Len(f)]

\* New: a ring holds at least one record.
max == IF RingSize < 1 THEN 1 ELSE RingSize

-----------------------------------------------------------------------------
\* ParseAll: which writes come back as records.  A line ends at a newline or
\* at the end of the file, and is a record only if it holds one write and all
\* of that but the newline.
Ends(f, i) == i = Len(f) \/ f[i].n = LineLen(f[i].rec)

Alone(f, i) == i = 1 \/ f[i - 1].n = LineLen(f[i - 1].rec)

Parses(f, i) == Ends(f, i) /\ Alone(f, i) /\ f[i].n >= LineLen(f[i].rec) - 1

ParseAll(f) == Select(f, {i \in DOMAIN f : Parses(f, i)})

ReadBack == [n \in DOMAIN ParseAll(file) |-> ParseAll(file)[n].rec]

-----------------------------------------------------------------------------
AtCap(left) == left <= 0

Open_FullBudget(size) ==
    /\ remain' = Cap
    /\ stopped' = AtCap(remain')

\* main opens the file for append and takes its size off the budget.
Open(size) ==
    /\ remain' = Cap - size
    /\ stopped' = AtCap(remain')

\* A daemon starts on no file; or the inspector reads an archived capture,
\* which no daemon appends to.
Init ==
    /\ \/ file = <<>> /\ up = TRUE /\ run = 1
       \/ /\ \E a \in Archives :
               file = [j \in DOMAIN a |-> [rec |-> a[j], n |-> LineLen(a[j]), run |-> 0, i |-> j]]
          /\ up = FALSE /\ run = MaxRuns
    /\ remain = Cap /\ stopped = AtCap(Cap)
    /\ ring = <<>>
    /\ seen = 0 /\ received = 0 /\ statFails = 0

Written(r, n) == IF n = 0 THEN file
                 ELSE Append(file, [rec |-> r, n |-> n, run |-> run, i |-> seen + 1])

Keep_OneMore(s) == IF Len(s) > max + 1 THEN SubSeq(s, Len(s) - max, Len(s)) ELSE s

\* The ring after an append: the oldest is dropped.
Keep(s) == IF Len(s) > max THEN SubSeq(s, Len(s) - max + 1, Len(s)) ELSE s

\* How much of a line gets out before a write fails or the process dies:
\* nothing, a part, or all but the newline.
Cuts(r) == {0, 1, LineLen(r) - 1}

StopAtCap_NoLatch == stopped' = FALSE

\* A line over budget stops the capture for good.
StopAtCap == stopped' = TRUE

\* cappedWriter.Write of a record's line.
Write(r) ==
    \/ /\ stopped
       /\ UNCHANGED <<file, remain, stopped>>
    \/ /\ ~stopped /\ LineLen(r) > remain
       /\ StopAtCap
       /\ UNCHANGED <<file, remain>>
    \/ /\ ~stopped /\ LineLen(r) <= remain
       /\ file' = Written(r, LineLen(r))
       /\ remain' = remain - LineLen(r)
       /\ UNCHANGED stopped
    \/ /\ ~stopped /\ LineLen(r) <= remain
       /\ \E n \in Cuts(r) : file' = Written(r, n)
       /\ stopped' = TRUE
       /\ UNCHANGED remain

Rec(f, t) == [ts |-> t, src |-> f.src, dst |-> f.dst, op |-> f.op, data |-> f.data]

\* Recorder.Add of a frame, under its lock.
Add(r) ==
    /\ up /\ received < MaxFrames
    /\ Write(r)
    /\ ring' = Keep(Append(ring, r))
    /\ seen' = seen + 1
    /\ received' = received + 1
    /\ UNCHANGED <<up, run, statFails>>

\* The process dies (external), in the middle of a line or between frames.
Die ==
    /\ up
    /\ up' = FALSE
    /\ UNCHANGED <<file, remain, stopped, ring, run, seen, received, statFails>>

DieWriting(r) ==
    /\ up /\ ~stopped /\ LineLen(r) <= remain /\ received < MaxFrames
    /\ \E n \in {1, LineLen(r) - 1} : file' = Written(r, n)
    /\ up' = FALSE
    /\ received' = received + 1
    /\ UNCHANGED <<remain, stopped, ring, run, seen, statFails>>

\* It is started again; when the file cannot be statted its size is not known.
Restart ==
    /\ ~up /\ received < MaxFrames /\ run < MaxRuns
    /\ up' = TRUE
    /\ \/ Open(Size(file)) /\ UNCHANGED statFails
       \/ statFails < MaxStatFails /\ Open(0) /\ statFails' = statFails + 1
    /\ ring' = <<>>
    /\ run' = run + 1 /\ seen' = 0
    /\ UNCHANGED <<file, received>>

Next ==
    \/ \E f \in Frames, t \in Times : Add(Rec(f, t)) \/ DieWriting(Rec(f, t))
    \/ Die
    \/ Restart

Spec == Init /\ [][Next]_vars

-----------------------------------------------------------------------------
\* The capture never fills the disk: across crashes, failed writes and
\* restarts the file stays within its cap, once more for each restart that
\* could not learn its size.
WithinCap == received > 0 => Size(file) <= Cap * (1 + statFails)

\* Does run r append to a line that was cut short?
TornBefore(r) ==
    \E i \in 1 .. Len(file) - 1 :
        file[i].run < r /\ file[i + 1].run = r /\ file[i].n < LineLen(file[i].rec)

\* What is read back of a run has no holes: if a frame is there, so are all
\* that the run received before it, except the first when it ran into a line
\* that an earlier run left unfinished.
NoHoles ==
    LET back == {<<ParseAll(file)[n].run, ParseAll(file)[n].i>> : n \in DOMAIN ParseAll(file)}
    IN  \A x \in back : \A j \in 1 .. x[2] - 1 :
            <<x[1], j>> \in back \/ (j = 1 /\ TornBefore(x[1]))

\* The ring holds the last frames of the run, as many as it may, and while the
\* capture goes on, what the REST surface shows is the end of what the file
\* yields, again but for a first frame lost to a cut line.
RingAgrees ==
    /\ up => Len(ring) = Min({max, seen})
    /\ up /\ ~stopped =>
         \/ IsSuffix(ring, ReadBack)
         \/ TornBefore(run) /\ Len(ring) = seen /\ IsSuffix(Tail(ring), ReadBack)

\* The tables of businspect are right for whatever the daemon left behind.
TablesAreRight == GroupIsRight(ReadBack) /\ CadenceIsRight(ReadBack)

\* So are the timelines, although the clock may have been set back, and the
\* diffs around an instant, which agree with the timelines.
TimelinesAreRight ==
    /\ TimelineIsRight(ReadBack, Instants)
    /\ \A w \in Windows : DiffIsRight(ReadBack, Instants, w)
=============================================================================
