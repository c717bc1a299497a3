------------------------- MODULE FrameDecoder_proofs -------------------------
(***************************************************************************)
(* Proofs about the frame splitter, for every wire, every frame length and *)
(* every way the port cuts the stream into reads and fails in between.     *)
(***************************************************************************)
EXTENDS FrameDecoder, TLAPS

\* The wire and the position of the decoder on it, as far as the arithmetic of
\* the proof needs them.
WireInv ==
    /\ len \in [Bytes -> Lengths] /\ starts \in SUBSET Bytes /\ Encoded
    /\ got \in 0..NumBytes /\ head \in 0..got
    /\ frames \in Seq(Bytes)

\* The decoder has dealt with the frames it has passed, and with no others;
\* it is NoneLost, with what makes it inductive.
PassedInv ==
    /\ cut \in SUBSET starts
    /\ \A p \in starts : p <= head <=> p \in Delivered \cup cut

\* Why the decoder waits, and why it stopped.
WaitInv ==
    /\ pc = "read" => Pending < MinFrame \/ ~Complete(first)
    /\ pc = "error" => Pending < MinFrame

IInv == WireInv /\ PassedInv /\ WaitInv

\* Returning a frame adds it to the delivered ones.
LEMMA DeliveredAppend ==
    ASSUME frames \in Seq(Bytes), NEW p \in Bytes, frames' = Append(frames, p)
    PROVE  Delivered' = Delivered \cup {p}
<1>1. Len(frames) \in Nat /\ DOMAIN frames = 1..Len(frames)
    OBVIOUS
<1>2. DOMAIN frames' = 1..Len(frames) + 1
    OBVIOUS
<1>3. \A i \in 1..Len(frames) : frames'[i] = frames[i]
    OBVIOUS
<1>4. frames'[Len(frames) + 1] = p
    OBVIOUS
<1> QED BY <1>1, <1>2, <1>3, <1>4 DEF Delivered

\* The inductive invariant holds initially.
LEMMA InitInv == Init => IInv
<1> SUFFICES ASSUME Init PROVE IInv
    OBVIOUS
<1>1. WireInv
    BY LengthAssumption DEF Init, WireInv, Bytes, Lengths
<1>2. PassedInv
    BY <1>1 DEF Init, PassedInv, Delivered, WireInv, Bytes
<1>3. WaitInv
    BY DEF Init, WaitInv
<1> QED BY <1>1, <1>2, <1>3 DEF IInv

\* Sliding over a byte loses no frame but one that starts there, and that one
\* is recorded.
LEMMA SlideStep ==
    ASSUME IInv, Slide, UNCHANGED <<wire, got, frames>>, Pending >= MinFrame,
           cut' = cut \cup ({first} \cap starts)
    PROVE  IInv'
<1>1. /\ head' = head + 1 /\ pc' = "scan" /\ got' = got /\ frames' = frames
      /\ len' = len /\ starts' = starts /\ gate' = gate
    BY DEF Slide, Skip, wire
<1>2. WireInv'
    BY <1>1, LengthAssumption DEF IInv, WireInv, Encoded, Pending
<1>3. PassedInv'
  <2>1. cut' \in SUBSET starts
    BY DEF IInv, PassedInv
  <2>2. ASSUME NEW p \in starts
        PROVE  p <= head' <=> p \in Delivered \cup cut'
    <3>1. p \in Nat /\ head \in Nat /\ head' = head + 1 /\ first = head + 1
        BY <1>1, LengthAssumption DEF IInv, WireInv, Bytes, first
    <3>2. p <= head <=> p \in Delivered \cup cut
        BY DEF IInv, PassedInv
    <3>3. p \in cut' <=> p \in cut \/ p = first
        OBVIOUS
    <3>4. CASE p = first
        BY <3>1, <3>3, <3>4
    <3>5. CASE p # first
        BY <3>1, <3>2, <3>3, <3>5
    <3> QED BY <3>4, <3>5
  <2>3. Delivered' = Delivered
    BY <1>1 DEF Delivered
  <2> QED BY <1>1, <2>1, <2>2, <2>3 DEF PassedInv
<1>4. WaitInv'
    BY <1>1 DEF WaitInv
<1> QED BY <1>2, <1>3, <1>4 DEF IInv

\* Returning the frame at the head passes exactly that frame, since frames do
\* not overlap.
LEMMA ReturnStep == IInv /\ Return => IInv'
<1> SUFFICES ASSUME IInv, Return PROVE IInv'
    OBVIOUS
<1>1. /\ head' = head + len[first] /\ pc' = "scan" /\ got' = got /\ cut' = cut
      /\ len' = len /\ starts' = starts /\ gate' = gate
      /\ frames' = Append(frames, first)
      /\ first \in starts /\ Complete(first)
    BY DEF Return, wire, Decode
<1>2. /\ first \in Bytes /\ len[first] \in Nat /\ first \in Nat /\ head \in Nat
      /\ first = head + 1 /\ got \in Nat /\ head + len[first] <= got
    BY <1>1, LengthAssumption DEF IInv, WireInv, Bytes, Lengths, Complete, first
<1>3. WireInv'
  <2>1. frames' \in Seq(Bytes)
    BY <1>1, <1>2 DEF IInv, WireInv
  <2>2. head' \in 0..got'
    BY <1>1, <1>2
  <2>3. Encoded'
    BY <1>1 DEF IInv, WireInv, Encoded
  <2> QED BY <1>1, <2>1, <2>2, <2>3 DEF IInv, WireInv
<1>4. Delivered' = Delivered \cup {first}
    BY <1>1, <1>2, DeliveredAppend DEF IInv, WireInv
<1>5. PassedInv'
  <2> SUFFICES ASSUME NEW p \in starts
               PROVE  p <= head' <=> p \in Delivered' \cup cut
    BY <1>1 DEF IInv, PassedInv
  <2>1. p \in Nat /\ head' \in Nat /\ head < head' /\ len[first] >= 1
    BY <1>1, <1>2, LengthAssumption DEF IInv, WireInv, Bytes, Lengths
  <2>2. p <= head <=> p \in Delivered \cup cut
    BY DEF IInv, PassedInv
  <2>3. CASE p = first
    BY <1>1, <1>2, <1>4, <2>1, <2>3
  <2>4. CASE p < first
    BY <1>2, <1>4, <2>1, <2>2, <2>4
  <2>5. CASE p > first
    <3>1. first + len[first] <= p
        BY <1>1, <2>5 DEF IInv, WireInv, Encoded
    <3>2. p > head'
        BY <3>1, <1>1, <1>2, <2>1
    <3> QED BY <3>2, <1>2, <1>4, <2>1, <2>2, <2>5
  <2> QED BY <1>2, <2>1, <2>3, <2>4, <2>5
<1>6. WaitInv'
    BY <1>1 DEF WaitInv
<1> QED BY <1>3, <1>5, <1>6 DEF IInv

\* More bytes move nothing but the end of the buffer.
LEMMA ReadBytesStep == IInv /\ ReadBytes => IInv'
<1> SUFFICES ASSUME IInv, ReadBytes PROVE IInv'
    OBVIOUS
<1>1. /\ head' = head /\ pc' = "scan" /\ frames' = frames /\ cut' = cut
      /\ len' = len /\ starts' = starts /\ gate' = gate
    BY DEF ReadBytes, wire
<1>2. got' \in 0..NumBytes /\ got <= got'
    BY LengthAssumption DEF ReadBytes, IInv, WireInv
<1>3. WireInv'
    BY <1>1, <1>2, LengthAssumption DEF IInv, WireInv, Encoded
<1>4. PassedInv'
    BY <1>1 DEF IInv, PassedInv, Delivered
<1>5. WaitInv'
    BY <1>1 DEF WaitInv
<1> QED BY <1>3, <1>4, <1>5 DEF IInv

\* Every step preserves the invariant.
LEMMA NextInv == IInv /\ [Next]_vars => IInv'
<1> SUFFICES ASSUME IInv, [Next]_vars PROVE IInv'
    OBVIOUS
<1>1. CASE Reject
  <2>1. ~(first \in starts)
    BY <1>1 DEF Reject, Decode, IInv, WireInv, Encoded
  <2>2. UNCHANGED <<wire, got, frames, cut>> /\ Pending >= MinFrame /\ Slide
    BY <1>1 DEF Reject
  <2>3. cut' = cut \cup ({first} \cap starts)
    BY <2>1, <2>2
  <2> QED BY <2>2, <2>3, SlideStep
<1>2. CASE Return
    BY <1>2, ReturnStep
<1>3. CASE Wait
  <2>1. WireInv' /\ PassedInv'
    BY <1>3 DEF Wait, wire, IInv, WireInv, PassedInv, Encoded, Delivered, Complete
  <2>2. WaitInv'
    BY <1>3 DEF Wait, wire, NeedMore, WaitInv, Pending, first, Complete
  <2> QED BY <2>1, <2>2 DEF IInv
<1>4. CASE ReadBytes
    BY <1>4, ReadBytesStep
<1>5. CASE ReadIdle
  <2>1. WireInv' /\ PassedInv'
    BY <1>5 DEF ReadIdle, wire, IInv, WireInv, PassedInv, Encoded, Delivered, Complete
  <2>2. pc' # "read" /\ pc' # "error"
    BY <1>5 DEF ReadIdle
  <2>3. WaitInv'
    BY <2>2 DEF WaitInv
  <2> QED BY <2>1, <2>3 DEF IInv
<1>6. CASE ReadError
  <2>1. UNCHANGED <<wire, got, frames>>
    BY <1>6 DEF ReadError
  <2>2. CASE Salvage
    <3>1. Slide /\ Pending >= MinFrame /\ cut' = cut \cup ({first} \cap starts)
        BY <1>6, <2>2 DEF ReadError, Salvage
    <3> QED BY <2>1, <3>1, SlideStep
  <2>3. CASE ~Salvage
    <3>1. pc' = "error" /\ head' = head /\ cut' = cut
        BY <1>6, <2>3 DEF ReadError
    <3>2. WireInv'
        BY <2>1, <3>1 DEF wire, IInv, WireInv, Encoded
    <3>3. PassedInv'
        BY <2>1, <3>1 DEF wire, IInv, PassedInv, Delivered
    <3>4. Pending < MinFrame
        BY <2>3, LengthAssumption DEF Salvage, Pending, IInv, WireInv
    <3>5. WaitInv'
        BY <2>1, <3>1, <3>4 DEF WaitInv, Pending
    <3> QED BY <3>2, <3>3, <3>5 DEF IInv
  <2> QED BY <2>2, <2>3
<1>7. CASE UNCHANGED vars
    BY <1>7 DEF vars, wire, IInv, WireInv, PassedInv, WaitInv, Encoded, Delivered, Complete, Pending, first
<1> QED BY <1>1, <1>2, <1>3, <1>4, <1>5, <1>6, <1>7 DEF Next

\* The inductive invariant holds in every reachable state.
THEOREM Invariance == Spec => []IInv
BY InitInv, NextInv, PTL DEF Spec

\* No frame is lost to a resync of Decoder.Next, whatever garbage surrounds it
\* and whichever reads fail.
THEOREM NoneLostHolds == Spec => []NoneLost
<1>1. IInv => NoneLost
    BY DEF IInv, PassedInv, NoneLost
<1> QED BY Invariance, <1>1, PTL

\* Garbage delays a frame by less than the longest frame.
THEOREM DelayBoundHolds == Spec => []DelayBounded
<1>1. IInv => DelayBounded
  <2> SUFFICES ASSUME IInv, pc = "read", NEW p \in starts, p + MaxFrame - 1 <= got
               PROVE  p \in Delivered \cup cut
    BY DEF DelayBounded
  <2>1. /\ p \in Bytes /\ p \in Nat /\ p >= 1 /\ head \in Nat /\ got \in Nat /\ got <= NumBytes
        /\ len[p] \in Nat /\ len[p] <= MaxFrame /\ MinFrame \in Nat
        /\ MaxFrame \in Nat /\ MinFrame <= MaxFrame /\ MinFrame >= 1
    BY LengthAssumption DEF IInv, WireInv, Bytes, Lengths
  <2>2. Complete(p)
    BY <2>1 DEF Complete
  <2>3. p <= head
    <3> SUFFICES ASSUME p > head PROVE FALSE
        BY <2>1
    <3>1. first \in Bytes /\ first <= p /\ first = head + 1
        BY <2>1, LengthAssumption DEF first, Bytes
    <3>2. len[first] \in Nat /\ len[first] <= MaxFrame
        BY <3>1, LengthAssumption DEF IInv, WireInv, Lengths
    <3>3. Complete(first)
        BY <2>1, <3>1, <3>2 DEF Complete
    <3>4. ~(Pending < MinFrame)
        BY <2>1, <3>1 DEF Pending
    <3> QED BY <3>3, <3>4 DEF IInv, WaitInv
  <2> QED BY <2>2, <2>3 DEF IInv, PassedInv
<1> QED BY Invariance, <1>1, PTL

\* An error that Next surfaces leaves no complete frame in the buffer.
THEOREM AllSalvagedHolds == Spec => []AllSalvaged
<1>1. IInv => AllSalvaged
  <2> SUFFICES ASSUME IInv, pc = "error", NEW p \in starts, Complete(p)
               PROVE  p \in Delivered \cup cut
    BY DEF AllSalvaged
  <2>1. /\ p \in Nat /\ head \in Nat /\ got \in Nat /\ len[p] \in Nat
        /\ len[p] >= MinFrame /\ MinFrame \in Nat
    BY LengthAssumption DEF IInv, WireInv, Bytes, Lengths
  <2>2. got - head < MinFrame
    BY DEF IInv, WaitInv, Pending
  <2>3. p <= head
    BY <2>1, <2>2 DEF Complete
  <2> QED BY <2>3 DEF IInv, PassedInv
<1> QED BY Invariance, <1>1, PTL

\* A read error costs no frame that had arrived completely.
THEOREM ArrivedNeverCutHolds == Spec => ArrivedNeverCut
<1>1. IInv /\ [Next]_vars => \A p \in cut' \ cut : ~Complete(p)
  <2> SUFFICES ASSUME IInv, [Next]_vars, NEW p \in cut' \ cut PROVE ~Complete(p)
    OBVIOUS
  <2>1. CASE ReadError
    <3>1. Salvage /\ p = first /\ pc = "read"
        BY <2>1 DEF ReadError
    <3>2. Pending \in Int /\ MinFrame \in Int
        BY LengthAssumption DEF IInv, WireInv, Pending
    <3> QED BY <3>1, <3>2 DEF IInv, WaitInv, Salvage
  <2>2. CASE ~ReadError
    BY <2>2 DEF Next, vars, Reject, Return, Wait, ReadBytes, ReadIdle
  <2> QED BY <2>1, <2>2
<1> QED BY Invariance, <1>1, PTL DEF Spec, ArrivedNeverCut

\* The frames dealt with, in the terms of the abstract specification.
LEMMA DealtWithIs == Stream!DealtWith = Delivered \cup cut
BY DEF Stream!DealtWith, Delivered

\* A step to the frame at the head is a step to the next frame of the stream.
LEMMA HeadIsNext ==
    ASSUME IInv, first \in starts
    PROVE  Stream!IsNext(first)
<1>1. head \in Nat /\ first = head + 1 /\ starts \subseteq Nat
    BY LengthAssumption DEF IInv, WireInv, Bytes, first
<1>2. first \in starts \ Stream!DealtWith
    BY <1>1, DealtWithIs DEF IInv, PassedInv
<1>3. ASSUME NEW q \in starts, q < first PROVE q \in Stream!DealtWith
  <2>1. q <= head
    BY <1>1, <1>3
  <2> QED BY <2>1, DealtWithIs DEF IInv, PassedInv
<1> QED BY <1>2, <1>3 DEF Stream!IsNext

\* Decoder.Next implements the frame splitter of FrameStream: in order, once
\* each, and nothing given up but at a read error.
THEOREM Refinement == Spec => ImplementsStream
<1>1. Init => Stream!Init
  <2> SUFFICES ASSUME Init PROVE Stream!Init
    OBVIOUS
  <2>1. starts \subseteq Nat
    BY LengthAssumption DEF Init, Bytes
  <2> QED BY <2>1 DEF Init, Stream!Init
<1>2. IInv /\ [Next]_vars => [Stream!Next]_Stream!vars
  <2> SUFFICES ASSUME IInv, [Next]_vars PROVE [Stream!Next]_Stream!vars
    OBVIOUS
  <2>1. CASE Return
    <3>1. first \in starts /\ frames' = Append(frames, first) /\ UNCHANGED <<starts, cut>>
        BY <2>1 DEF Return, Decode, wire
    <3>2. Stream!Deliver(first)
        BY <3>1, HeadIsNext DEF Stream!Deliver
    <3> QED BY <3>1, <3>2 DEF Stream!Next
  <2>2. CASE ReadError
    <3>1. UNCHANGED <<starts, frames>>
        BY <2>2 DEF ReadError, wire
    <3>2. CASE Salvage /\ first \in starts
      <4>1. cut' = cut \cup {first}
        BY <2>2, <3>2 DEF ReadError
      <4>2. Stream!Lose(first)
        BY <3>1, <3>2, <4>1, HeadIsNext DEF Stream!Lose
      <4> QED BY <3>2, <4>2 DEF Stream!Next
    <3>3. CASE ~(Salvage /\ first \in starts)
      <4>1. cut' = cut
        BY <2>2, <3>3 DEF ReadError
      <4> QED BY <3>1, <4>1 DEF Stream!vars
    <3> QED BY <3>2, <3>3
  <2>3. CASE Reject \/ Wait \/ ReadBytes \/ ReadIdle \/ UNCHANGED vars
    BY <2>3 DEF Reject, Wait, ReadBytes, ReadIdle, vars, wire, Stream!vars
  <2> QED BY <2>1, <2>2, <2>3 DEF Next
<1> QED BY Invariance, <1>1, <1>2, PTL DEF Spec, ImplementsStream, Stream!Spec

\* The counters: bytes skipped are bytes passed, and a Next that goes on has
\* had fewer idle reads than end it.
CountInv ==
    /\ gate \in [Bytes -> BOOLEAN]
    /\ resyncs \in 0..head /\ zeroReads \in 0..MaxIdle
    /\ pc \in {"scan", "read", "error", "idle"}
    /\ pc \in {"scan", "read"} => zeroReads < MaxIdle

\* Every step preserves the counters' bounds.
LEMMA CountStep == IInv /\ CountInv /\ [Next]_vars => CountInv'
<1> SUFFICES ASSUME IInv, CountInv, [Next]_vars PROVE CountInv'
    OBVIOUS
<1>1. head \in Nat /\ resyncs \in Nat /\ zeroReads \in Nat /\ MaxIdle \in Nat \ {0} /\ got \in Nat
    BY LengthAssumption DEF IInv, WireInv, CountInv
<1>2. CASE Reject
    BY <1>1, <1>2 DEF Reject, Slide, Skip, wire, CountInv
<1>3. CASE Return
  <2>1. len[first] \in Nat /\ head' = head + len[first]
    BY <1>3, LengthAssumption DEF Return, Decode, IInv, WireInv, Lengths
  <2> QED BY <1>1, <1>3, <2>1 DEF Return, wire, CountInv
<1>4. CASE Wait
    BY <1>1, <1>4 DEF Wait, wire, CountInv
<1>5. CASE ReadBytes
    BY <1>1, <1>5 DEF ReadBytes, wire, CountInv
<1>6. CASE ReadIdle
    BY <1>1, <1>6 DEF ReadIdle, wire, CountInv
<1>7. CASE ReadError
    BY <1>1, <1>7 DEF ReadError, Slide, Skip, wire, CountInv
<1>8. CASE UNCHANGED vars
    BY <1>1, <1>8 DEF vars, wire, CountInv
<1> QED BY <1>2, <1>3, <1>4, <1>5, <1>6, <1>7, <1>8 DEF Next

\* Decoder.Next keeps its types: it never skips more bytes than it has read,
\* nor counts more idle reads than end it.
THEOREM TypeCorrect == Spec => []TypeOK
<1>1. Init => CountInv
    BY LengthAssumption DEF Init, CountInv
<1>2. IInv /\ CountInv => TypeOK
    BY DEF IInv, WireInv, PassedInv, CountInv, TypeOK
<1> QED BY Invariance, CountStep, <1>1, <1>2, PTL DEF Spec
=============================================================================
