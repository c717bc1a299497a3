---------------------------- MODULE FrameStream ----------------------------
(***************************************************************************)
(* What a frame splitter promises: of the frames sent, each is delivered   *)
(* once, in the order sent, or given up, and none is dealt with before the *)
(* ones sent ahead of it.  A frame is known by its place in the stream.    *)
(***************************************************************************)
EXTENDS Integers, Sequences

VARIABLES
    sent,       \* the places of the frames sent
    delivered,  \* those delivered, in order
    lost        \* those given up

vars == <<sent, delivered, lost>>

DealtWith == {delivered[i] : i \in DOMAIN delivered} \cup lost

\* The next frame to deal with.
IsNext(p) ==
    /\ p \in sent \ DealtWith
    /\ \A q \in sent : q < p => q \in DealtWith

Init ==
    /\ sent \subseteq Nat
    /\ delivered = <<>>
    /\ lost = {}

Deliver(p) ==
    /\ IsNext(p)
    /\ delivered' = Append(delivered, p)
    /\ UNCHANGED <<sent, lost>>

Lose(p) ==
    /\ IsNext(p)
    /\ lost' = lost \cup {p}
    /\ UNCHANGED <<sent, delivered>>

Next == \E p \in sent : Deliver(p) \/ Lose(p)

Spec == Init /\ [][Next]_vars
=============================================================================
