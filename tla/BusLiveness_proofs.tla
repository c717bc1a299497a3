------------------------- MODULE BusLiveness_proofs -------------------------
(***************************************************************************)
(* Proofs about outage detection, for every set of devices and every       *)
(* choice of horizons, stalls and lags.                                    *)
(***************************************************************************)
EXTENDS BusLiveness, TLAPS

\* What the journal remembers of a device is when it was heard, less the lag
\* of the stamp.
ClockInv ==
    /\ now \in Nat /\ now > 0
    /\ lastSeen \in [Devices -> Nat] /\ heard \in [Devices -> Nat]
    /\ \A d \in Devices :
        /\ lastSeen[d] <= heard[d] /\ heard[d] <= now
        /\ heard[d] <= lastSeen[d] + MaxLag
        /\ lastSeen[d] = Never <=> heard[d] = Never
    /\ lost \subseteq Seen
    /\ busSilent \in BOOLEAN
    /\ firstCheck \in Nat /\ recoveredAt \in Nat
    /\ sinceCheck \in 0..MaxStall /\ sinceCheck < now

\* When the last liveness check ran.
CheckedAt == now - sinceCheck

\* A device that was quiet for the loss horizon at the last check is lost,
\* unless the bus was, or came back only after that check.
LossInv ==
    \A d \in Seen :
        ~busSilent /\ CheckedAt - heard[d] > LostAfter + MaxLag /\ recoveredAt < CheckedAt
            => d \in lost

\* A bus that was quiet for the silence horizon at the last check is silent.
\* If nothing was ever heard, the horizon is measured from the first check,
\* which comes no later than MaxStall after the start.
SilenceInv ==
    /\ (Seen # {} /\ \A d \in Devices : CheckedAt - heard[d] > SilentAfter + MaxLag)
            => busSilent
    /\ Seen = {} /\ firstCheck = Never => now = 1 + sinceCheck
    /\ Seen = {} /\ firstCheck # Never =>
            /\ firstCheck <= 1 + MaxStall
            /\ CheckedAt - firstCheck > SilentAfter + MaxLag => busSilent

IInv == ClockInv /\ SilenceIsReal /\ LossIsReal /\ LossInv /\ SilenceInv

\* The inductive invariant holds initially.
LEMMA InitInv == Init => IInv
<1> SUFFICES ASSUME Init PROVE IInv
    OBVIOUS
<1>1. Seen = {}
    BY DEF Init, Seen, Never
<1>2. ClockInv
  <2>1. /\ now = 1 /\ firstCheck = 0 /\ recoveredAt = 0 /\ sinceCheck = 0
        /\ lost \subseteq Seen /\ busSilent \in BOOLEAN
    BY <1>1 DEF Init, Never
  <2>2. /\ lastSeen \in [Devices -> Nat] /\ heard \in [Devices -> Nat]
        /\ \A d \in Devices : lastSeen[d] = 0 /\ heard[d] = 0
    BY DEF Init, Never
  <2> QED BY <2>1, <2>2, HorizonAssumption DEF ClockInv, Never
<1>3. SilenceIsReal /\ LossIsReal
    BY DEF Init, SilenceIsReal, LossIsReal
<1>4. LossInv
    BY <1>1 DEF LossInv
<1>5. SilenceInv
    BY <1>1 DEF Init, SilenceInv, Never
<1> QED BY <1>2, <1>3, <1>4, <1>5 DEF IInv

\* The clock moves away from all that was heard, and not from the last check.
LEMMA ClockStep == IInv /\ Clock => IInv'
<1> SUFFICES ASSUME IInv, Clock PROVE IInv'
    OBVIOUS
<1> USE HorizonAssumption
<1>1. /\ now' = now + 1 /\ sinceCheck' = sinceCheck + 1 /\ sinceCheck < MaxStall
      /\ lastSeen' = lastSeen /\ lost' = lost /\ busSilent' = busSilent
      /\ firstCheck' = firstCheck /\ heard' = heard /\ recoveredAt' = recoveredAt
    BY DEF Clock, hist
<1>2. Seen' = Seen
    BY <1>1 DEF Seen
<1>3. now \in Nat /\ sinceCheck \in Nat /\ CheckedAt' = CheckedAt
    BY <1>1 DEF IInv, ClockInv, CheckedAt
<1>4. ClockInv'
    BY <1>1, <1>2 DEF IInv, ClockInv
<1>5. SilenceIsReal' /\ LossIsReal'
    BY <1>1 DEF IInv, ClockInv, SilenceIsReal, LossIsReal, Seen
<1>6. LossInv'
    BY <1>1, <1>2, <1>3 DEF IInv, LossInv
<1>7. SilenceInv'
    BY <1>1, <1>2, <1>3 DEF IInv, SilenceInv
<1> QED BY <1>4, <1>5, <1>6, <1>7 DEF IInv

\* A frame ends the outage of its sender and of the bus, and no other.
LEMMA NoteDeviceStep ==
    ASSUME IInv, NEW e \in Devices, NoteDevice(e)
    PROVE  IInv'
<1> USE HorizonAssumption
<1>1. PICK t \in Stamps : lastSeen' = [lastSeen EXCEPT ![e] = t]
    BY DEF NoteDevice
<1>2. /\ now' = now /\ sinceCheck' = sinceCheck /\ firstCheck' = firstCheck
      /\ busSilent' = FALSE /\ lost' = lost \ {e}
      /\ heard' = [heard EXCEPT ![e] = now]
      /\ recoveredAt' = IF busSilent THEN now ELSE recoveredAt
    BY DEF NoteDevice, Recovered
<1>3. t \in Nat /\ t # Never /\ t <= now /\ now <= t + MaxLag
    BY DEF IInv, ClockInv, Stamps, Never
<1>4. Seen' = Seen \cup {e}
    BY <1>1, <1>3 DEF IInv, ClockInv, Seen
<1>5. ClockInv'
  <2>1. /\ lastSeen' \in [Devices -> Nat] /\ heard' \in [Devices -> Nat]
        /\ now \in Nat
    BY <1>1, <1>2, <1>3 DEF IInv, ClockInv
  <2>2. /\ lastSeen'[e] = t /\ heard'[e] = now
        /\ \A d \in Devices \ {e} : lastSeen'[d] = lastSeen[d] /\ heard'[d] = heard[d]
    BY <1>1, <1>2 DEF IInv, ClockInv
  <2>3. ASSUME NEW d \in Devices
        PROVE  /\ lastSeen'[d] <= heard'[d] /\ heard'[d] <= now
               /\ heard'[d] <= lastSeen'[d] + MaxLag
               /\ lastSeen'[d] = Never <=> heard'[d] = Never
    <3>1. CASE d = e
        BY <1>3, <2>1, <2>2, <3>1 DEF IInv, ClockInv, Never
    <3>2. CASE d # e
        BY <2>2, <3>2 DEF IInv, ClockInv
    <3> QED BY <3>1, <3>2
  <2>4. lost' \subseteq Seen'
    BY <1>2, <1>4 DEF IInv, ClockInv
  <2> QED BY <1>2, <2>1, <2>3, <2>4 DEF IInv, ClockInv
<1>6. SilenceIsReal' /\ LossIsReal'
    BY <1>2 DEF IInv, ClockInv, SilenceIsReal, LossIsReal, Seen
<1>7. CheckedAt' = CheckedAt /\ CheckedAt <= now /\ CheckedAt \in Int
    BY <1>2 DEF IInv, ClockInv, CheckedAt
<1>8. LossInv'
  <2> SUFFICES ASSUME NEW d \in Seen', CheckedAt - heard'[d] > LostAfter + MaxLag,
                      recoveredAt' < CheckedAt
               PROVE  d \in lost'
    BY <1>7 DEF LossInv
  <2>1. d # e
    BY <1>2, <1>7 DEF IInv, ClockInv, Seen
  <2>2. ~busSilent /\ recoveredAt' = recoveredAt
    BY <1>2, <1>7 DEF IInv, ClockInv
  <2>3. d \in Seen /\ heard'[d] = heard[d]
    BY <1>2, <1>4, <2>1 DEF Seen, IInv, ClockInv
  <2> QED BY <1>2, <2>1, <2>2, <2>3 DEF IInv, LossInv
<1>9. SilenceInv'
  <2>1. Seen' # {}
    BY <1>4
  <2>2. ~(CheckedAt' - heard'[e] > SilentAfter + MaxLag)
    BY <1>2, <1>7 DEF IInv, ClockInv
  <2> QED BY <2>1, <2>2 DEF SilenceInv
<1> QED BY <1>5, <1>6, <1>8, <1>9 DEF IInv

\* A check reports what was quiet for the horizon, and nothing else.
LEMMA CheckStep == IInv /\ CheckLiveness => IInv'
<1> SUFFICES ASSUME IInv, CheckLiveness PROVE IInv'
    OBVIOUS
<1> USE HorizonAssumption
<1>1. PICK t \in Stamps :
        IF Seen = {}
        THEN CheckNeverHeard(t) /\ UNCHANGED lost
        ELSE /\ UNCHANGED firstCheck
             /\ busSilent' = (busSilent \/ AllQuiet(t))
             /\ lost' = IF busSilent' THEN lost ELSE lost \cup NewlyLost(t)
    BY DEF CheckLiveness
<1>2. /\ now' = now /\ sinceCheck' = 0 /\ lastSeen' = lastSeen
      /\ heard' = heard /\ recoveredAt' = recoveredAt
    BY DEF CheckLiveness
<1>3. t \in Nat /\ t # Never /\ t <= now /\ now <= t + MaxLag
    BY DEF IInv, ClockInv, Stamps, Never
<1>4. Seen' = Seen
    BY <1>2 DEF Seen
<1>5. CheckedAt' = now /\ now \in Nat /\ recoveredAt \in Nat
    BY <1>2 DEF CheckedAt, IInv, ClockInv
<1>6. \A d \in Devices :
        /\ lastSeen[d] \in Nat /\ heard[d] \in Nat
        /\ lastSeen[d] <= heard[d] /\ heard[d] <= lastSeen[d] + MaxLag
        /\ heard[d] = Never <=> d \notin Seen
    BY DEF IInv, ClockInv, Seen
<1>7. CASE Seen = {}
  <2>1. CASE firstCheck = Never
    <3>1. firstCheck' = t /\ busSilent' = busSilent /\ lost' = lost
        BY <1>1, <1>7, <2>1 DEF CheckNeverHeard
    <3>2. now = 1 + sinceCheck
        BY <1>7, <2>1 DEF IInv, SilenceInv
    <3>3. ClockInv'
        BY <1>2, <1>3, <1>4, <3>1 DEF IInv, ClockInv
    <3>4. SilenceIsReal' /\ LossIsReal'
        BY <1>2, <3>1 DEF IInv, SilenceIsReal, LossIsReal
    <3>5. LossInv'
        BY <1>4, <1>7 DEF LossInv
    <3>6. SilenceInv'
        BY <1>3, <1>4, <1>5, <1>7, <3>1, <3>2 DEF SilenceInv, IInv, ClockInv
    <3> QED BY <3>3, <3>4, <3>5, <3>6 DEF IInv
  <2>2. CASE firstCheck # Never
    <3>1. /\ firstCheck' = firstCheck /\ lost' = lost
          /\ busSilent' = (busSilent \/ t - firstCheck > SilentAfter)
        BY <1>1, <1>7, <2>2 DEF CheckNeverHeard
    <3>2. ClockInv'
        BY <1>2, <1>4, <3>1 DEF IInv, ClockInv
    <3>3. SilenceIsReal'
      <4>1. CASE busSilent
        BY <1>2, <4>1 DEF IInv, SilenceIsReal
      <4>2. CASE t - firstCheck > SilentAfter
        BY <1>2, <1>3, <1>5, <1>6, <1>7, <4>2 DEF SilenceIsReal, IInv, ClockInv, Never
      <4> QED BY <3>1, <4>1, <4>2 DEF SilenceIsReal
    <3>4. LossIsReal' /\ LossInv'
        BY <1>2, <1>4, <1>7, <3>1 DEF IInv, LossIsReal, LossInv
    <3>5. SilenceInv'
      <4>1. firstCheck <= 1 + MaxStall /\ firstCheck \in Nat
        BY <1>7, <2>2 DEF IInv, SilenceInv, ClockInv
      <4>2. now - firstCheck > SilentAfter + MaxLag => t - firstCheck > SilentAfter
        BY <1>3, <1>5, <4>1
      <4>3. now - firstCheck > SilentAfter + MaxLag => busSilent'
        BY <3>1, <4>2, Zenon
      <4>4. firstCheck' = firstCheck
        BY <3>1
      <4> QED BY <1>4, <1>5, <1>7, <2>2, <4>1, <4>3, <4>4 DEF SilenceInv
    <3> QED BY <3>2, <3>3, <3>4, <3>5 DEF IInv
  <2> QED BY <2>1, <2>2
<1>8. CASE Seen # {}
  <2>1. /\ firstCheck' = firstCheck
        /\ busSilent' = (busSilent \/ AllQuiet(t))
        /\ lost' = IF busSilent' THEN lost ELSE lost \cup NewlyLost(t)
    BY <1>1, <1>8
  <2>2. ClockInv'
    BY <1>2, <1>4, <2>1 DEF IInv, ClockInv, NewlyLost
  <2>3. SilenceIsReal'
    <3>1. CASE busSilent
        BY <1>2, <3>1 DEF IInv, SilenceIsReal
    <3>2. CASE AllQuiet(t)
      <4>1. PICK e \in Seen : TRUE
        BY <1>8
      <4>2. e \in Devices /\ t - lastSeen[e] > SilentAfter
        BY <3>2, <4>1 DEF AllQuiet, QuietFor, Seen
      <4>3. t > SilentAfter
        BY <1>3, <1>6, <4>2
      <4>4. ASSUME NEW d \in Devices PROVE now - heard[d] > SilentAfter - MaxLag
        <5>1. CASE d \in Seen
          <6>1. t - lastSeen[d] > SilentAfter
            BY <3>2, <5>1 DEF AllQuiet, QuietFor
          <6> QED BY <1>3, <1>5, <1>6, <6>1
        <5>2. CASE d \notin Seen
            BY <1>3, <1>5, <1>6, <4>3, <5>2 DEF Never
        <5> QED BY <5>1, <5>2
      <4> QED BY <1>2, <4>4 DEF SilenceIsReal
    <3> QED BY <2>1, <3>1, <3>2 DEF SilenceIsReal
  <2>4. LossIsReal'
    <3> SUFFICES ASSUME NEW d \in lost' PROVE now - heard[d] > LostAfter - MaxLag
        BY <1>2 DEF LossIsReal
    <3>1. CASE d \in lost
        BY <3>1 DEF IInv, LossIsReal
    <3>2. CASE d \in NewlyLost(t)
      <4>1. d \in Devices /\ t - lastSeen[d] > LostAfter
        BY <3>2 DEF NewlyLost, QuietFor, Seen
      <4> QED BY <1>3, <1>5, <1>6, <4>1
    <3> QED BY <2>1, <3>1, <3>2
  <2>5. LossInv'
    <3> SUFFICES ASSUME NEW d \in Seen, ~busSilent', now - heard[d] > LostAfter + MaxLag
                 PROVE  d \in lost'
        BY <1>2, <1>4, <1>5 DEF LossInv
    <3>1. d \in Devices
        BY DEF Seen
    <3>2. t - lastSeen[d] > LostAfter
        BY <1>3, <1>5, <1>6, <3>1
    <3>3. d \in lost \cup NewlyLost(t)
        BY <3>2 DEF NewlyLost, QuietFor
    <3> QED BY <2>1, <3>3
  <2>6. SilenceInv'
    <3> SUFFICES ASSUME \A d \in Devices : now - heard[d] > SilentAfter + MaxLag
                 PROVE  busSilent'
        BY <1>2, <1>4, <1>5, <1>8 DEF SilenceInv
    <3>1. ASSUME NEW d \in Seen PROVE t - lastSeen[d] > SilentAfter
      <4>1. d \in Devices
        BY DEF Seen
      <4> QED BY <1>3, <1>5, <1>6, <4>1
    <3> QED BY <2>1, <3>1 DEF AllQuiet, QuietFor
  <2> QED BY <2>2, <2>3, <2>4, <2>5, <2>6 DEF IInv
<1> QED BY <1>7, <1>8

\* Every step preserves the invariant.
LEMMA NextInv == IInv /\ [Next]_vars => IInv'
<1> SUFFICES ASSUME IInv, [Next]_vars PROVE IInv'
    OBVIOUS
<1>1. CASE Clock
    BY <1>1, ClockStep
<1>2. CASE \E d \in Devices : NoteDevice(d)
    BY <1>2, NoteDeviceStep
<1>3. CASE CheckLiveness
    BY <1>3, CheckStep
<1>4. CASE UNCHANGED vars
    BY <1>4 DEF vars, hist, IInv, ClockInv, SilenceIsReal, LossIsReal, LossInv, SilenceInv,
                CheckedAt, Seen
<1> QED BY <1>1, <1>2, <1>3, <1>4 DEF Next

\* The invariant holds throughout.
THEOREM Invariance == Spec => []IInv
BY InitInv, NextInv, PTL DEF Spec

\* The journal never reports a bus silent that carried a frame within the
\* silence horizon, less the lag of a stamp.
THEOREM SilenceIsRealHolds == Spec => []SilenceIsReal
<1>1. IInv => SilenceIsReal
    BY DEF IInv
<1> QED BY Invariance, <1>1, PTL

\* It never reports a device lost that was heard within the loss horizon, less
\* the lag of a stamp.
THEOREM LossIsRealHolds == Spec => []LossIsReal
<1>1. IInv => LossIsReal
    BY DEF IInv
<1> QED BY Invariance, <1>1, PTL

\* Every device that falls silent while another talks is reported lost within
\* one stall and one lag of the horizon: no bus_silent stands in the way then.
THEOREM LossDetectedHolds == Spec => []LossDetected
<1>1. IInv => LossDetected
  <2> SUFFICES ASSUME IInv, NEW d \in Seen, NEW e \in Devices, now - heard[e] <= LostAfter - MaxLag,
                      now - heard[d] > LostAfter + MaxStall + MaxLag,
                      now - recoveredAt > MaxStall + MaxLag
               PROVE  d \in lost
    BY DEF LossDetected
  <2>1. /\ now \in Nat /\ recoveredAt \in Nat /\ sinceCheck \in Nat /\ sinceCheck <= MaxStall
        /\ d \in Devices /\ heard[d] \in Nat /\ MaxLag \in Nat /\ LostAfter \in Nat /\ MaxStall \in Nat
        /\ heard[e] \in Nat /\ SilentAfter \in Nat /\ LostAfter <= SilentAfter
    BY HorizonAssumption DEF IInv, ClockInv, Seen
  <2>2. CheckedAt - heard[d] > LostAfter + MaxLag /\ recoveredAt < CheckedAt
    BY <2>1 DEF CheckedAt
  <2>3. ~busSilent
    BY <2>1 DEF IInv, SilenceIsReal
  <2> QED BY <2>2, <2>3 DEF IInv, LossInv
<1> QED BY Invariance, <1>1, PTL

\* Every dead bus is reported silent, one that was dead from the start too.
THEOREM SilenceDetectedHolds == Spec => []SilenceDetected
<1>1. IInv => SilenceDetected
  <2> SUFFICES ASSUME IInv,
                      \A d \in Devices : now - heard[d] > SilentAfter + 2 * (MaxStall + MaxLag) + 1
               PROVE  busSilent
    BY DEF SilenceDetected
  <2>1. /\ now \in Nat /\ sinceCheck \in Nat /\ sinceCheck <= MaxStall /\ firstCheck \in Nat
        /\ MaxLag \in Nat /\ SilentAfter \in Nat /\ MaxStall \in Nat
        /\ \A d \in Devices : heard[d] \in Nat
    BY HorizonAssumption DEF IInv, ClockInv
  <2> DEFINE Slack == 2 * (MaxStall + MaxLag)
  <2>a. Slack = MaxStall + MaxStall + MaxLag + MaxLag
    BY <2>1
  <2>2. ASSUME NEW d \in Devices PROVE CheckedAt - heard[d] > SilentAfter + MaxLag
    <3>1. now - heard[d] > SilentAfter + Slack + 1 /\ heard[d] \in Nat
        BY <2>1
    <3> HIDE DEF Slack
    <3> QED BY <2>1, <2>a, <3>1 DEF CheckedAt
  <2>3. CASE Seen # {}
    BY <2>2, <2>3 DEF IInv, SilenceInv
  <2>4. CASE Seen = {}
    <3>1. PICK d \in Devices : TRUE
        BY DeviceAssumption
    <3>2. now > SilentAfter + 2 * (MaxStall + MaxLag) + 1
        BY <2>1, <3>1
    <3>3. firstCheck # Never
        BY <2>1, <2>4, <3>2 DEF IInv, SilenceInv
    <3>4. firstCheck <= 1 + MaxStall
        BY <2>4, <3>3 DEF IInv, SilenceInv
    <3>5. CheckedAt - firstCheck > SilentAfter + MaxLag
        BY <2>1, <3>2, <3>4 DEF CheckedAt
    <3> QED BY <2>4, <3>3, <3>5 DEF IInv, SilenceInv
  <2> QED BY <2>3, <2>4
<1> QED BY Invariance, <1>1, PTL
=============================================================================
