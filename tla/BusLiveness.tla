----------------------------- MODULE BusLiveness -----------------------------
(***************************************************************************)
(* Outage detection in the journal (state/journal.go): the read loop notes *)
(* every device it hears, the publish loop checks once a second who has    *)
(* gone quiet.  The publish loop also waits for the MQTT broker, so checks *)
(* may be up to MaxStall apart; stamps may lag the clock by MaxLag.        *)
(***************************************************************************)
EXTENDS Integers

CONSTANTS
    Devices,      \* bus addresses
    LostAfter,    \* deviceLostAfter
    SilentAfter,  \* busSilentAfter
    MaxStall,     \* longest time between two liveness checks
    MaxLag,       \* longest time between taking a stamp and using it
    MaxTime       \* bound on the clock

Never == 0        \* the zero time; the clock starts after it

ASSUME HorizonAssumption ==
    /\ LostAfter \in Nat /\ SilentAfter \in Nat /\ LostAfter <= SilentAfter
    /\ MaxStall \in Nat \ {0} /\ MaxLag \in Nat /\ MaxTime \in Nat
ASSUME DeviceAssumption == Devices # {}

VARIABLES
    now,
    lastSeen,     \* Journal.lastSeen; Never for an address not in the map
    lost,         \* Journal.lost
    busSilent,    \* Journal.busSilent
    firstCheck,   \* Journal.firstCheck
    sinceCheck,   \* time since the publish loop's last check
    \* History variables, read by the properties only.
    heard,        \* when each device was last heard
    recoveredAt   \* when the bus last came back

hist == <<heard, recoveredAt>>
vars == <<now, lastSeen, lost, busSilent, firstCheck, sinceCheck, hist>>

Stamps == {t \in now - MaxLag .. now : t > Never}
Seen == {d \in Devices : lastSeen[d] # Never}

Init ==
    /\ now = 1
    /\ lastSeen = [d \in Devices |-> Never]
    /\ lost = {}
    /\ busSilent = FALSE
    /\ firstCheck = Never
    /\ sinceCheck = 0
    /\ heard = [d \in Devices |-> Never]
    /\ recoveredAt = Never

Clock ==
    /\ now < MaxTime
    /\ sinceCheck < MaxStall
    /\ now' = now + 1
    /\ sinceCheck' = sinceCheck + 1
    /\ UNCHANGED <<lastSeen, lost, busSilent, firstCheck, hist>>

Recovered_Never(d) == lost

\* The lost set after device d was heard.
Recovered(d) == lost \ {d}

\* noteLocked: any frame ends a bus outage, and the outage of its sender.
NoteDevice(d) ==
    /\ busSilent' = FALSE
    /\ lost' = Recovered(d)
    /\ \E t \in Stamps : lastSeen' = [lastSeen EXCEPT ![d] = t]
    /\ heard' = [heard EXCEPT ![d] = now]
    /\ recoveredAt' = IF busSilent THEN now ELSE recoveredAt
    /\ UNCHANGED <<now, firstCheck, sinceCheck>>

QuietFor(d, t, h) == t - lastSeen[d] > h

AllQuiet_Some(t) == \E d \in Seen : QuietFor(d, t, SilentAfter)

\* The whole bus has been quiet past the silence horizon.
AllQuiet(t) == \A d \in Seen : QuietFor(d, t, SilentAfter)

NewlyLost_WithBus(t) == {d \in Seen \ lost : \A e \in Seen : QuietFor(e, t, LostAfter)}

NewlyLost(t) == {d \in Seen \ lost : QuietFor(d, t, LostAfter)}

CheckNeverHeard_NotArmed(t) == UNCHANGED <<busSilent, firstCheck>>

\* Nothing was ever heard: arm the silence horizon, then declare silence.
CheckNeverHeard(t) ==
    IF firstCheck = Never
    THEN firstCheck' = t /\ UNCHANGED busSilent
    ELSE /\ busSilent' = (busSilent \/ t - firstCheck > SilentAfter)
         /\ UNCHANGED firstCheck

\* CheckLiveness, with activeNow = nil as the daemon calls it.
CheckLiveness ==
    /\ \E t \in Stamps :
        IF Seen = {}
        THEN CheckNeverHeard(t) /\ UNCHANGED lost
        ELSE /\ UNCHANGED firstCheck
             /\ busSilent' = (busSilent \/ AllQuiet(t))
             /\ lost' = IF busSilent' THEN lost ELSE lost \cup NewlyLost(t)
    /\ sinceCheck' = 0
    /\ UNCHANGED <<now, lastSeen, heard, recoveredAt>>

Next == Clock \/ (\E d \in Devices : NoteDevice(d)) \/ CheckLiveness

Spec == Init /\ [][Next]_vars

-----------------------------------------------------------------------------
\* A bus reported silent has carried no frame for the silence horizon.
SilenceIsReal ==
    busSilent => \A d \in Devices : now - heard[d] > SilentAfter - MaxLag

\* A dead bus is always reported, also one that was dead from the start: once
\* nothing was heard for the horizon plus two checks, the bus is silent.
SilenceDetected ==
    (\A d \in Devices : now - heard[d] > SilentAfter + 2 * (MaxStall + MaxLag) + 1)
        => busSilent

\* A device reported lost has sent nothing for the loss horizon: whatever the
\* order of outages and recoveries, the first frame of a device clears it.
LossIsReal == \A d \in lost : now - heard[d] > LostAfter - MaxLag

\* A device that is silent "while others talk" is reported, also when it fell
\* silent in a bus outage and others came back without it.
LossDetected ==
    \A d \in Seen :
        (/\ \E e \in Devices : now - heard[e] <= LostAfter - MaxLag
         /\ now - heard[d] > LostAfter + MaxStall + MaxLag
         /\ now - recoveredAt > MaxStall + MaxLag)
            => d \in lost
=============================================================================
