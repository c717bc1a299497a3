----------------------------- MODULE FrameBytes -----------------------------
(***************************************************************************)
(* The frame codec (bus/frame.go) under the frame splitter of module       *)
(* FrameDecoder: the wire is a string of bytes, made of encoded frames,    *)
(* frames damaged on the way and noise, and what the splitter makes of     *)
(* each byte is computed from the bytes with the header layout and the     *)
(* CRC-16 of the code.                                                     *)
(***************************************************************************)
EXTENDS FrameDecoder, SequencesExt, Bitwise

CONSTANTS
    Traffic,    \* what may be on the wire: sequences of pieces
    Filler      \* the byte that fills the wire up to NumBytes

\* The code's frame lengths: ten bytes around at most 255 bytes of data.
ASSUME LayoutAssumption == MinFrame = 10 /\ MaxFrame = 265 /\ Filler \in 0..255

VARIABLES
    bytes,      \* the bytes on the wire
    sent        \* the frames sent intact, by the place of their first byte

byteVars == <<vars, bytes, sent>>

-----------------------------------------------------------------------------
\* crc16ARC's inner loop on one bit, and on the eight bits of a byte.
CrcBit(crc) == IF crc % 2 = 1 THEN (crc \div 2) ^^ 40961 ELSE crc \div 2

CrcOf == [b \in 0..255 |-> FoldLeft(LAMBDA c, i : CrcBit(c), b, <<1, 2, 3, 4, 5, 6, 7, 8>>)]

\* The loop is linear: the high byte of crc only moves down, and the low byte,
\* with b, is what falls out bit by bit.
CrcByte(crc, b) == (crc \div 256) ^^ CrcOf[(crc % 256) ^^ b]

crc16ARC(data) == FoldLeft(CrcByte, 0, data)

\* The published check value (bus/frame_test.go): the CRC of "123456789".
ASSUME CrcCheckValue == crc16ARC([i \in 1..9 |-> 48 + i]) = 47933

Encode(f) ==
    LET body == <<f.dst \div 256, f.dst % 256, f.src \div 256, f.src % 256,
                  Len(f.data), 0, 0, f.op>> \o f.data
        crc == crc16ARC(body)
    IN  body \o <<crc % 256, crc \div 256>>

Accepts_Zeros(buf) ==
    LET l == Len(buf) - 2
    IN  Len(buf) >= 10 /\ crc16ARC(SubSeq(buf, 1, l)) = buf[l + 1] + 256 * buf[l + 2]

\* Decode's verdict on a buffer.
Accepts(buf) ==
    LET l == Len(buf) - 2
    IN  /\ Len(buf) >= 10
        /\ \E i \in DOMAIN buf : buf[i] # 0
        /\ crc16ARC(SubSeq(buf, 1, l)) = buf[l + 1] + 256 * buf[l + 2]

Fields_ShortData(buf) ==
    [dst |-> 256 * buf[1] + buf[2], src |-> 256 * buf[3] + buf[4], op |-> buf[8],
     data |-> SubSeq(buf, 9, Len(buf) - 3)]

\* The frame it then fills in.
Fields(buf) ==
    [dst |-> 256 * buf[1] + buf[2], src |-> 256 * buf[3] + buf[4], op |-> buf[8],
     data |-> SubSeq(buf, 9, Len(buf) - 2)]

-----------------------------------------------------------------------------
\* Pieces of traffic: a frame, and bytes that are none.
Sent(f) == [bytes |-> Encode(f), frames |-> <<f>>]
Noise(b) == [bytes |-> b, frames |-> <<>>]

\* A frame with one byte changed on the way.
Damaged(f, i, mask) == Noise([Encode(f) EXCEPT ![i] = @ ^^ mask])

\* The bytes of some pieces, and where each piece starts.
OnWire(pieces) == FlattenSeq([i \in DOMAIN pieces |-> pieces[i].bytes])
PlaceOf(pieces, i) == 1 + Len(OnWire(SubSeq(pieces, 1, i - 1)))

\* Next's header gate and length byte at place p.
GateAt(p) ==
    /\ p + 6 <= NumBytes
    /\ bytes[p + 5] = 0 /\ bytes[p + 6] = 0

CandidateLen(p) == bytes[p + 4] + 10

Candidate(p) == SubSeq(bytes, p, p + CandidateLen(p) - 1)

ByteInit ==
    /\ \E pieces \in Traffic :
          /\ bytes = OnWire(pieces) \o [i \in 1 .. NumBytes - Len(OnWire(pieces)) |-> Filler]
          /\ sent = [p \in {PlaceOf(pieces, i) : i \in {j \in DOMAIN pieces : pieces[j].frames # <<>>}} |->
                        pieces[CHOOSE i \in DOMAIN pieces : pieces[i].frames # <<>> /\ PlaceOf(pieces, i) = p].frames[1]]
    /\ gate = [p \in Bytes |-> GateAt(p)]
    /\ len = [p \in Bytes |-> IF GateAt(p) THEN CandidateLen(p) ELSE MinFrame]
    /\ starts = {p \in Bytes : GateAt(p) /\ p + CandidateLen(p) - 1 <= NumBytes /\ Accepts(Candidate(p))}
    /\ got = 0
    /\ head = 0 /\ resyncs = 0 /\ zeroReads = 0
    /\ frames = <<>>
    /\ pc = "scan"
    /\ cut = {}

ByteNext == Next /\ UNCHANGED <<bytes, sent>>

ByteSpec == ByteInit /\ [][ByteNext]_byteVars

-----------------------------------------------------------------------------
\* From sender to receiver, on a bus whose frames all carry data, with the damage
\* and the noise of the traffic: every frame Next returns was sent, with the
\* fields it was sent with, and a frame sent intact is passed only by returning
\* it or by giving it up at a read error.  (A frame without data would be lost
\* after a zero byte: the CRC starts at 0 and does not see leading zeros, so
\* Decode accepts the two as one frame with shifted fields.)
Transparent ==
    /\ \A p \in Delivered : p \in DOMAIN sent /\ Fields(Candidate(p)) = sent[p]
    /\ \A p \in DOMAIN sent : p <= head => p \in Delivered \cup cut

\* On these wires the splitter is the one module FrameDecoder describes, of
\* which its theorems speak: what Decode accepts are frames that do not
\* overlap.
ImplementsDecoder == Spec
=============================================================================
