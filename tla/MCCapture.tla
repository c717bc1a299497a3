----------------------------- MODULE MCCapture -----------------------------
EXTENDS Capture

\* The wall control (1) polls and sets register <<7>> of a unit (2), which
\* answers with payloads of several lengths, has another register, and refuses.
Poll == [src |-> 1, dst |-> 2, op |-> "read", data |-> <<7>>]
Set == [src |-> 1, dst |-> 2, op |-> "write", data |-> <<7, 1>>]
Answer(reg, payload) == [src |-> 2, dst |-> 1, op |-> "ack06", data |-> <<reg>> \o payload]
Refusal == [src |-> 2, dst |-> 1, op |-> "nack", data |-> <<>>]

\* The daemon receives lines of three lengths.
MCFrames == {Refusal, Poll, Answer(7, <<0, 1>>)}

At(f, t) == [ts |-> t] @@ f

\* Archives of up to three records of any kind, and of four about one register.
Kinds == {Poll, Set, Refusal, Answer(7, <<>>), Answer(7, <<0>>), Answer(7, <<1>>),
          Answer(7, <<0, 1>>), Answer(8, <<0>>)}
MCArchives ==
    LET any == {At(f, t) : f \in Kinds, t \in 1..3}
        one == {At(f, t) : f \in {Poll, Set, Answer(7, <<0>>), Answer(7, <<0, 1>>)}, t \in 1..3}
    IN  UNION {[1..n -> any] : n \in 0..3} \cup [1..4 -> one]
=============================================================================
