---------------------------- MODULE MCFrameBytes ----------------------------
EXTENDS FrameBytes

\* A request and an answer of the bus (bus/decoder_test.go), a refusal with its
\* code and the acknowledgement of a write, the shortest frames there are
\* (docs/protocol-tables.md:67-71).
Read306 == [dst |-> 15873, src |-> 8193, op |-> 11, data |-> <<0, 3, 6>>]
Ack306 == [dst |-> 8193, src |-> 15873, op |-> 6, data |-> <<0, 3, 6, 0>>]
Nack == [dst |-> 8193, src |-> 15873, op |-> 21, data |-> <<4>>]
WriteAck == [dst |-> 8193, src |-> 15873, op |-> 6, data |-> <<0>>]

Flips == {1, 2, 4, 8, 16, 32, 64, 128, 255}
Zeros(n) == [i \in 1..n |-> 0]

\* A damaged frame, noise or another frame, alone or after a frame, and then a
\* frame; and noise, zeros above all, right before a frame of each kind.
MCTraffic ==
    LET damaged == {Damaged(Read306, i, mask) : i \in 1..13, mask \in Flips}
                   \cup {Damaged(Nack, i, mask) : i \in 1..11, mask \in Flips}
        noise == {Noise(b) : b \in {Zeros(1), Zeros(3), <<9, 0>>, Zeros(12),
                                    SubSeq(Encode(Ack306), 1, 9), SubSeq(Encode(Read306), 6, 13)}}
        intact == {Sent(f) : f \in {Read306, Nack, WriteAck}}
    IN  {<<x, Sent(Ack306)>> : x \in damaged \cup noise \cup intact}
        \cup {<<Sent(Nack), x, Sent(Read306)>> : x \in damaged \cup noise}
        \cup {<<Noise(b), x>> : x \in intact,
                b \in {Zeros(n) : n \in {1, 2, 4, 7}} \cup {<<9>>, <<0, 9>>, <<1, 0, 0, 9>>}}
=============================================================================
