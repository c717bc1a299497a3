---------------------------- MODULE FrameDecoder ----------------------------
(***************************************************************************)
(* The frame splitter (bus/decoder.go, Decoder.Next) on a byte stream that *)
(* carries frames (bus/frame.go) between bytes of garbage, delivered by    *)
(* the serial port in chunks of any size, with idle reads and read errors  *)
(* in between: an error may pass, or be the port's last word.              *)
(*                                                                         *)
(* A byte is modelled by what the decoder would make of a frame that       *)
(* starts there: whether the header gate passes and how long the frame     *)
(* would be.  Only at the start of a real frame does the checksum hold:    *)
(* module FrameBytes says on which wires that is so.                       *)
(***************************************************************************)
EXTENDS Integers, Sequences

CONSTANTS
    NumBytes,   \* bytes on the wire
    MinFrame,   \* length of a frame without data (10)
    MaxFrame,   \* length of the longest frame (265)
    MaxIdle     \* idle reads in a row that end Next (100)

ASSUME LengthAssumption ==
    /\ NumBytes \in Nat /\ MinFrame \in Nat \ {0} /\ MaxFrame \in Nat /\ MinFrame <= MaxFrame
    /\ MaxIdle \in Nat \ {0}

Bytes == 1..NumBytes
Lengths == MinFrame..MaxFrame

VARIABLES
    \* The wire, fixed from the start.
    gate,       \* gate[p]: would the header gate pass for a frame at p?
    len,        \* len[p]: the length such a frame would have
    starts,     \* where real frames start
    \* The reader.
    got,        \* bytes read so far
    \* The decoder.
    head,       \* bytes consumed; pending are the bytes head+1..got
    resyncs,
    zeroReads,
    frames,     \* starts of the frames returned, in order
    pc,         \* "scan" the pending bytes, "read" more, or how Next ended:
                \* the port's "error", or "idle" (io.ErrNoProgress)
    \* History: the real frames Next slid into after a read error.
    cut

wire == <<gate, len, starts>>
vars == <<wire, got, head, resyncs, zeroReads, frames, pc, cut>>

\* Encode's layout: a real frame passes the gate and carries its length, and
\* frames do not overlap on the wire.
Encoded ==
    /\ \A p \in starts : gate[p]
    /\ \A p, q \in starts : p < q => p + len[p] <= q

Init ==
    /\ gate \in [Bytes -> BOOLEAN]
    /\ len \in {l \in [Bytes -> Lengths] : \A p \in Bytes : gate[p] \/ l[p] = MinFrame}
    /\ starts \in SUBSET Bytes
    /\ Encoded
    /\ got = 0
    /\ head = 0 /\ resyncs = 0 /\ zeroReads = 0
    /\ frames = <<>>
    /\ pc = "scan"
    /\ cut = {}

-----------------------------------------------------------------------------
first == head + 1
Pending == got - head

\* Are all bytes of the frame at p there?
Complete(p) == p + len[p] - 1 <= got

\* Frame.Decode: the checksum over the candidate.
Decode(p) == p \in starts

Skip_Candidate == len[first]

\* How many bytes a rejected candidate costs.
Skip == 1

Slide_ThenRead ==
    /\ head' = head + Skip
    /\ resyncs' = resyncs + Skip
    /\ pc' = "read"

Slide ==
    /\ head' = head + Skip
    /\ resyncs' = resyncs + Skip
    /\ pc' = "scan"

\* The candidate at the head of the buffer is rejected: by the gate, or by its
\* checksum once it is complete.
Reject ==
    /\ pc = "scan" /\ Pending >= MinFrame
    /\ \/ ~gate[first]
       \/ Complete(first) /\ ~Decode(first)
    /\ Slide
    /\ UNCHANGED <<wire, got, zeroReads, frames, cut>>

\* It is a frame: Next returns it, and the read loop calls Next again.
Return ==
    /\ pc = "scan" /\ Pending >= MinFrame
    /\ gate[first] /\ Complete(first) /\ Decode(first)
    /\ head' = head + len[first]
    /\ frames' = Append(frames, first)
    /\ zeroReads' = 0
    /\ UNCHANGED <<wire, got, resyncs, pc, cut>>

NeedMore_OffByOne ==
    IF Pending < MinFrame THEN TRUE ELSE gate[first] /\ first + len[first] > got

\* The buffer is short, or its candidate is.
NeedMore == IF Pending < MinFrame THEN TRUE ELSE gate[first] /\ ~Complete(first)

Wait ==
    /\ pc = "scan" /\ NeedMore
    /\ pc' = "read"
    /\ UNCHANGED <<wire, got, head, resyncs, zeroReads, frames, cut>>

\* The port (external) returns some bytes.
ReadBytes ==
    /\ pc = "read"
    /\ \E n \in 1 .. NumBytes - got : got' = got + n
    /\ zeroReads' = 0
    /\ pc' = "scan"
    /\ UNCHANGED <<wire, head, resyncs, frames, cut>>

\* It returns nothing, without an error.
ReadIdle ==
    /\ pc = "read"
    /\ zeroReads' = zeroReads + 1
    /\ pc' = IF zeroReads' >= MaxIdle THEN "idle" ELSE "scan"
    /\ UNCHANGED <<wire, got, head, resyncs, frames, cut>>

Salvage_Never == FALSE

\* Is there enough left to look for a frame in?
Salvage == Pending >= MinFrame

\* It fails, for once or for good: look for frames behind the candidate that
\* may never be completed, and give up only when there are none.
ReadError ==
    /\ pc = "read"
    /\ IF Salvage
       THEN Slide /\ cut' = cut \cup ({first} \cap starts)
       ELSE pc' = "error" /\ UNCHANGED <<head, resyncs, cut>>
    /\ UNCHANGED <<wire, got, zeroReads, frames>>

Next == Reject \/ Return \/ Wait \/ ReadBytes \/ ReadIdle \/ ReadError

Spec == Init /\ [][Next]_vars

-----------------------------------------------------------------------------
Delivered == {frames[i] : i \in DOMAIN frames}

\* Type invariant; the buffer is a stretch of what was read.
TypeOK ==
    /\ gate \in [Bytes -> BOOLEAN] /\ len \in [Bytes -> Lengths] /\ starts \in SUBSET Bytes
    /\ got \in 0..NumBytes /\ head \in 0..got
    /\ resyncs \in 0..head /\ zeroReads \in 0..MaxIdle
    /\ frames \in Seq(Bytes) /\ cut \in SUBSET starts
    /\ pc \in {"scan", "read", "error", "idle"}

\* However garbage, chunks and read errors fall, no frame is lost to a resync:
\* the real frames the decoder has passed are the ones it returned and the
\* ones a read error made it give up, and it never steps into the middle of
\* any other.
NoneLost ==
    \A p \in starts : p <= head <=> p \in Delivered \cup cut

\* A read error costs no frame that had arrived: only a frame some of whose
\* bytes were still missing is given up.
ArrivedNeverCut ==
    [][\A p \in cut' \ cut : ~Complete(p)]_vars

\* A garbage length byte delays a frame by less than the longest frame: when
\* Next waits for bytes, every frame whose start is MaxFrame bytes back in
\* what was read has been dealt with.
DelayBounded ==
    pc = "read" => \A p \in starts : p + MaxFrame - 1 <= got => p \in Delivered \cup cut

\* When Next surfaces the port's error, no complete frame is left in the
\* buffer, not one buried behind a garbage length byte either.
AllSalvaged ==
    pc = "error" => \A p \in starts : Complete(p) => p \in Delivered \cup cut

\* The decoder is a frame splitter: it delivers the frames on the wire in
\* order and once each, except those it gives up at a read error.
Stream == INSTANCE FrameStream WITH sent <- starts, delivered <- frames, lost <- cut

ImplementsStream == Stream!Spec
=============================================================================
