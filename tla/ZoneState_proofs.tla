-------------------------- MODULE ZoneState_proofs --------------------------
(***************************************************************************)
(* Proofs about the zone half of the state assembler, for every number of  *)
(* zones, every feed of frames and every lateness of them.                 *)
(***************************************************************************)
EXTENDS ZoneState, WellFoundedInduction, TLAPS

Stamped == 0..MaxTime

Readings ==
    [zone : {0}, field : {"active_zones"}, value : SUBSET Zones, ts : Stamped]
        \cup [zone : Zones, field : ZoneFields, value : {0, 1}, ts : Stamped]

\* Types, and what follows from them: a time stamp is never ahead of the clock.
TypeInv ==
    /\ now \in Stamped
    /\ zones \subseteq Zones /\ maskOnly \subseteq Zones /\ heard \subseteq Zones
    /\ field \in [Zones -> [ZoneFields -> Field({0, 1}) \cup {Missing}]]
    /\ mask \in Field(SUBSET Zones) \cup {Missing}
    /\ todo \in Seq(Readings)
    /\ replayed \in BOOLEAN

\* The zones only a mask knows are those that are neither zone 1 nor heard, and
\* a zone that is not there has no fields.
PresenceInv ==
    /\ ZonePresence
    /\ maskOnly = zones \ ({1} \cup heard)
    /\ \A z \in Zones \ zones : field[z] = NoFields

\* No stamp is ahead of the clock, the readings of a frame share one, and on the
\* live bus no stored stamp is ahead of the frame that is being applied.
StampInv ==
    /\ \A z \in Zones, k \in ZoneFields : field[z][k] # Missing =>
        /\ field[z][k].ts <= now
        /\ ~replayed => \A i \in 1..Len(todo) : field[z][k].ts <= todo[i].ts
    /\ \A i \in 1..Len(todo) : todo[i].ts <= now /\ todo[i].ts = todo[1].ts

\* Does the hold h cover a countdown stamped t?
Covers(h, t) == h # Missing /\ (h.value = 1 \/ (replayed /\ t < h.ts))

\* A countdown that is still to be applied follows its hold.
HoldInv ==
    /\ CountdownOnlyWhileHeld
    /\ \A i \in 1..Len(todo) : todo[i].field = "hold_remaining_min" =>
        \/ i = 1 /\ Covers(field[todo[1].zone]["hold"], todo[1].ts)
        \/ i = 2 /\ todo[1] = Reading(todo[2].zone, "hold", 1, todo[2].ts)

Comes(z, i) == todo[i].zone = z /\ ~IsDamper(todo[i])

\* On the live bus a zone that only the mask knows has a reading still to come;
\* a mask is the first reading of its frame, and finds no such zone.
LiveInv ==
    /\ \A i \in 2..Len(todo) : todo[i].zone # 0
    /\ ~replayed =>
        /\ \A z \in maskOnly : \E i \in 1..Len(todo) : Comes(z, i)
        /\ (todo # <<>> /\ todo[1].zone = 0) =>
            /\ maskOnly = {}
            /\ \A z \in todo[1].value : \E i \in 2..Len(todo) : Comes(z, i)

IInv == TypeInv /\ PresenceInv /\ StampInv /\ HoldInv /\ LiveInv

-----------------------------------------------------------------------------
\* Induction up to n, for a set: the numbers from 0 to n are in P.
LEMMA UpTo ==
    ASSUME NEW n \in Nat, NEW P, 0 \in P,
           \A m \in Nat : m < n /\ m \in P => m + 1 \in P
    PROVE  \A m \in 0..n : m \in P
<1> DEFINE R == OpToRel(<, Nat)
           Bad == {m \in 0..n : m \notin P}
<1> SUFFICES ASSUME Bad # {} PROVE FALSE
    OBVIOUS
<1>1. IsWellFoundedOn(R, Nat)
    BY NatLessThanWellFounded, Zenon
<1>2. Bad \subseteq Nat
    OBVIOUS
<1>3. PICK m \in Bad : \A k \in Bad : <<k, m>> \notin R
    <2> HIDE DEF R, Bad
    <2> QED BY <1>1, <1>2, WFMin
<1>4. m \in Nat /\ m # 0 /\ m - 1 \in Nat /\ m <= n /\ m \notin P
    OBVIOUS
<1>5. <<m - 1, m>> \in R
    BY <1>4 DEF OpToRel
<1>6. m - 1 \in P
  <2>1. m - 1 \notin Bad
    <3> HIDE DEF R, Bad
    <3> QED BY <1>3, <1>5
  <2> QED BY <1>4, <2>1
<1> QED BY <1>4, <1>6

OnePerZone(q, S, k, t) ==
    /\ q \in Seq({Reading(z, k, 0, t) : z \in S \cap Zones})
    /\ \A z \in S \cap Zones : \E i \in 1..Len(q) : q[i] = Reading(z, k, 0, t)

\* The decoders' loop yields a reading for each zone of S, and no others.
LEMMA PerZoneIs ==
    ASSUME NEW S, NEW k, NEW t
    PROVE  OnePerZone(PerZone(S, k, t), S, k, t)
<1> DEFINE R == {Reading(z, k, 0, t) : z \in S \cap Zones}
           Body(f, n) == IF n = 0 THEN <<>>
                         ELSE IF n \in S THEN Append(f[n - 1], Reading(n, k, 0, t)) ELSE f[n - 1]
           Loop(f, m) == f = [n \in 0..m |-> Body(f, n)]
           Done == {m \in Nat : \E f : Loop(f, m)}
<1>0. NumZones \in Nat
    BY ZonesAssumption
<1>1. 0 \in Done
  <2>1. Loop([n \in 0..0 |-> <<>>], 0)
    OBVIOUS
  <2> QED BY <2>1
<1>2. ASSUME NEW m \in Nat, m < NumZones, m \in Done PROVE m + 1 \in Done
  <2>1. PICK f : Loop(f, m)
    BY <1>2
  <2> DEFINE g == [n \in 0..m + 1 |-> IF n = m + 1 THEN Body(f, m + 1) ELSE f[n]]
  <2>2. ASSUME NEW n \in 0..m + 1 PROVE g[n] = Body(g, n)
    <3>1. CASE n = 0
        BY <2>1, <3>1
    <3>2. CASE n # 0
      <4>1. n - 1 \in 0..m /\ g[n - 1] = f[n - 1]
        BY <3>2
      <4>2. CASE n = m + 1
        BY <3>2, <4>1, <4>2
      <4>3. CASE n # m + 1
        <5>1. n \in 0..m /\ g[n] = f[n]
            BY <4>3
        <5>2. f[n] = Body(f, n)
            BY <2>1, <5>1
        <5> QED BY <3>2, <4>1, <5>1, <5>2
      <4> QED BY <4>2, <4>3
    <3> QED BY <3>1, <3>2
  <2>3. Loop(g, m + 1)
    BY <2>2
  <2>4. m + 1 \in Nat
    OBVIOUS
  <2> HIDE DEF Loop, g
  <2> QED BY <2>3, <2>4
<1>3. NumZones \in Done
  <2> HIDE DEF Done
  <2> QED BY <1>0, <1>1, <1>2, UpTo
<1> DEFINE upTo[n \in 0..NumZones] ==
            IF n = 0 THEN <<>>
            ELSE IF n \in S THEN Append(upTo[n - 1], Reading(n, k, 0, t)) ELSE upTo[n - 1]
<1>4. Loop(upTo, NumZones)
  <2>1. PICK f : Loop(f, NumZones)
    BY <1>3
  <2> QED BY <2>1
<1>5. PerZone(S, k, t) = upTo[NumZones]
    BY DEF PerZone
<1> HIDE DEF upTo
<1> DEFINE Right == {m \in Nat :
                /\ upTo[m] \in Seq(R)
                /\ \A z \in S \cap (1..m) : \E i \in 1..Len(upTo[m]) :
                        upTo[m][i] = Reading(z, k, 0, t)}
<1>6. 0 \in Right
  <2>1. upTo[0] = <<>>
    BY <1>0, <1>4
  <2>2. upTo[0] \in Seq(R) /\ S \cap (1..0) = {}
    BY <2>1
  <2> QED BY <2>2
<1>7. ASSUME NEW m \in Nat, m < NumZones, m \in Right PROVE m + 1 \in Right
  <2>1. upTo[m + 1] = IF m + 1 \in S THEN Append(upTo[m], Reading(m + 1, k, 0, t)) ELSE upTo[m]
    <3>1. m + 1 \in 0..NumZones /\ m + 1 # 0 /\ (m + 1) - 1 = m
        BY <1>0, <1>7
    <3>2. upTo[m + 1] = Body(upTo, m + 1)
        BY <1>4, <3>1
    <3> QED BY <3>1, <3>2
  <2>2. CASE m + 1 \in S
    <3> DEFINE q == upTo[m]
               r == Reading(m + 1, k, 0, t)
    <3>1. r \in R /\ q \in Seq(R)
        BY <1>0, <1>7, <2>2 DEF Zones
    <3>2. upTo[m + 1] = Append(q, r)
        BY <2>1, <2>2
    <3>3. \A z \in S \cap (1..m) : \E i \in 1..Len(q) : q[i] = Reading(z, k, 0, t)
        BY <1>7
    <3> HIDE DEF q, r, R
    <3>4. /\ Append(q, r) \in Seq(R) /\ Len(Append(q, r)) = Len(q) + 1 /\ Len(q) \in Nat
          /\ Append(q, r)[Len(q) + 1] = r
          /\ \A i \in 1..Len(q) : Append(q, r)[i] = q[i]
        BY <3>1
    <3>5. ASSUME NEW z \in S \cap (1..m + 1)
          PROVE  \E i \in 1..Len(q) + 1 : Append(q, r)[i] = Reading(z, k, 0, t)
      <4>1. CASE z = m + 1
        BY <3>4, <4>1 DEF r
      <4>2. CASE z # m + 1
        <5>1. z \in S \cap (1..m)
            BY <4>2
        <5>2. PICK i \in 1..Len(q) : q[i] = Reading(z, k, 0, t)
            BY <3>3, <5>1
        <5>3. i \in 1..Len(q) + 1
            BY <3>4
        <5> QED BY <3>4, <5>2, <5>3
      <4> QED BY <4>1, <4>2
    <3>6. /\ m + 1 \in Nat /\ upTo[m + 1] \in Seq(R)
          /\ \A z \in S \cap (1..m + 1) : \E i \in 1..Len(upTo[m + 1]) :
                upTo[m + 1][i] = Reading(z, k, 0, t)
        BY <3>2, <3>4, <3>5
    <3> QED BY <3>6
  <2>3. CASE m + 1 \notin S
    <3>1. S \cap (1..m + 1) = S \cap (1..m)
        BY <2>3
    <3> QED BY <1>7, <2>1, <2>3, <3>1
  <2> QED BY <2>2, <2>3
<1>8. NumZones \in Right
  <2> HIDE DEF Right
  <2> QED BY <1>0, <1>6, <1>7, UpTo
<1> QED BY <1>5, <1>8 DEF Zones, OnePerZone

\* The readings of a frame all carry its stamp; a countdown comes only behind
\* the hold it counts down; a mask comes only in front and, but for the bare
\* one, with a reading of each of its zones behind it.
FrameOf(q, f, t) ==
    /\ q \in Seq(Readings)
    /\ \A i \in 1..Len(q) :
        /\ q[i].ts = t
        /\ q[i].field = "hold_remaining_min" =>
                i = 2 /\ q[1] = Reading(q[2].zone, "hold", 1, t)
        /\ i > 1 => q[i].zone # 0
    /\ q # <<>> /\ q[1].zone = 0 /\ f.kind # "mask" =>
        \A z \in q[1].value : \E i \in 2..Len(q) : q[i].zone = z /\ ~IsDamper(q[i])

\* What the decoders make of a frame.
LEMMA DecodeIs ==
    ASSUME NEW f \in AllFrames, NEW t \in Stamped
    PROVE  FrameOf(Decode(f, t), f, t)
<1> USE DEF FrameOf
<1>0. 0 \notin Zones
    BY DEF Zones
<1>1. ASSUME NEW k \in {"temp_sam", "hold_permanent", "damper_position"}, NEW S \in SUBSET Zones
      PROVE  /\ PerZone(S, k, t) \in Seq(Readings)
             /\ \A i \in 1..Len(PerZone(S, k, t)) :
                    /\ PerZone(S, k, t)[i].ts = t /\ PerZone(S, k, t)[i].field = k
                    /\ PerZone(S, k, t)[i].zone # 0
             /\ \A z \in S : \E i \in 1..Len(PerZone(S, k, t)) :
                    PerZone(S, k, t)[i].zone = z /\ PerZone(S, k, t)[i].field = k
  <2> DEFINE q == PerZone(S, k, t)
             R == {Reading(z, k, 0, t) : z \in S \cap Zones}
  <2>0. OnePerZone(q, S, k, t)
    BY PerZoneIs
  <2> HIDE DEF q
  <2>1. q \in Seq(R)
    BY <2>0 DEF OnePerZone
  <2>2. \A z \in S : \E i \in 1..Len(q) : q[i] = Reading(z, k, 0, t)
    BY <2>0 DEF OnePerZone
  <2>3. \A r \in R : r \in Readings /\ r.ts = t /\ r.field = k /\ r.zone # 0
    BY <1>0 DEF Reading, Readings, ZoneFields
  <2>4. \A z : Reading(z, k, 0, t).zone = z /\ Reading(z, k, 0, t).field = k
    BY DEF Reading
  <2> HIDE DEF R
  <2>5. q \in Seq(Readings)
    BY <2>1, <2>3
  <2>6. \A i \in 1..Len(q) : q[i].ts = t /\ q[i].field = k /\ q[i].zone # 0
    BY <2>1, <2>3
  <2>7. \A z \in S : \E i \in 1..Len(q) : q[i].zone = z /\ q[i].field = k
    BY <2>2, <2>4
  <2> QED BY <2>5, <2>6, <2>7 DEF q
<1>2. CASE f.kind = "3B02"
  <2> DEFINE q == PerZone(f.zones, "temp_sam", t)
             r == Reading(0, "active_zones", f.zones, t)
             d == <<r>> \o q
  <2>1. f.zones \in SUBSET Zones
    BY <1>2 DEF AllFrames
  <2>2. Decode(f, t) = d
    BY <1>2 DEF Decode, systemState3B02
  <2>3. /\ q \in Seq(Readings)
        /\ \A i \in 1..Len(q) : q[i].ts = t /\ q[i].field = "temp_sam" /\ q[i].zone # 0
        /\ \A z \in f.zones : \E i \in 1..Len(q) : q[i].zone = z /\ q[i].field = "temp_sam"
    BY <1>1, <2>1
  <2>4. /\ r \in Readings /\ r.ts = t /\ r.field = "active_zones" /\ r.zone = 0
        /\ r.value = f.zones
    BY <2>1 DEF Reading, Readings
  <2> HIDE DEF q, r
  <2>5. /\ d \in Seq(Readings) /\ Len(d) = Len(q) + 1 /\ Len(q) \in Nat
        /\ d[1] = r /\ \A i \in 2..Len(d) : i - 1 \in 1..Len(q) /\ d[i] = q[i - 1]
    BY <2>3, <2>4
  <2> HIDE DEF d
  <2>6. \A i \in 2..Len(d) : d[i].ts = t /\ d[i].field = "temp_sam" /\ d[i].zone # 0
    BY <2>3, <2>5
  <2>7. ASSUME NEW z \in f.zones
        PROVE  \E i \in 2..Len(d) : d[i].zone = z /\ d[i].field = "temp_sam"
    <3>1. PICK i \in 1..Len(q) : q[i].zone = z /\ q[i].field = "temp_sam"
        BY <2>3
    <3>2. i + 1 \in 2..Len(d) /\ d[i + 1] = q[i]
        BY <2>5
    <3> QED BY <3>1, <3>2
  <2>8. ASSUME NEW i \in 1..Len(d)
        PROVE  /\ d[i].ts = t /\ d[i].field # "hold_remaining_min"
               /\ i > 1 => d[i].zone # 0
    <3>1. CASE i = 1
        BY <2>4, <2>5, <3>1
    <3>2. CASE i # 1
        BY <2>5, <2>6, <3>2
    <3> QED BY <3>1, <3>2
  <2>9. \A z \in d[1].value : \E i \in 2..Len(d) : d[i].zone = z /\ ~IsDamper(d[i])
    BY <2>4, <2>5, <2>7 DEF IsDamper
  <2>10. FrameOf(d, f, t)
    BY <2>5, <2>8, <2>9
  <2> QED BY <2>2, <2>10
<1>3. CASE f.kind \in {"3B03", "dampers"}
  <2>1. PICK k \in {"hold_permanent", "damper_position"} : Decode(f, t) = PerZone(f.zones, k, t)
    BY <1>3 DEF Decode, zoneSettings3B03, dampers
  <2>2. f.zones \in SUBSET Zones
    BY <1>3 DEF AllFrames
  <2> DEFINE q == PerZone(f.zones, k, t)
  <2>3. /\ q \in Seq(Readings)
        /\ \A i \in 1..Len(q) : q[i].ts = t /\ q[i].field = k /\ q[i].zone # 0
    BY <1>1, <2>2
  <2> HIDE DEF q
  <2>4. q # <<>> => 1 \in 1..Len(q)
    BY <2>3
  <2> QED BY <2>1, <2>3, <2>4 DEF q
<1>4. CASE f.kind = "mask"
  <2>1. f.zones \in SUBSET Zones
    BY <1>4 DEF AllFrames
  <2>2. Decode(f, t) = <<Reading(0, "active_zones", f.zones, t)>>
    BY <1>4 DEF Decode
  <2>3. Reading(0, "active_zones", f.zones, t) \in Readings
    BY <2>1 DEF Reading, Readings
  <2> QED BY <1>4, <2>2, <2>3 DEF Reading
<1>5. CASE f.kind = "041E"
  <2>1. f.zone \in Zones
    BY <1>5 DEF AllFrames
  <2>2. Decode(f, t) = <<Reading(f.zone, "temp", 0, t)>>
    BY <1>5 DEF Decode, zoneSensorStatus
  <2>3. Reading(f.zone, "temp", 0, t) \in Readings
    BY <2>1 DEF Reading, Readings, ZoneFields
  <2> QED BY <1>0, <2>1, <2>2, <2>3 DEF Reading
<1>6. CASE f.kind = "041F"
  <2>1. f.zone \in Zones /\ f.held \in BOOLEAN
    BY <1>6 DEF AllFrames
  <2> DEFINE h1 == Reading(f.zone, "hold", 1, t)
             h0 == Reading(f.zone, "hold", 0, t)
             c == Reading(f.zone, "hold_remaining_min", 0, t)
  <2>2. Decode(f, t) = IF f.held THEN <<h1, c>> ELSE <<h0>>
    BY <1>6 DEF Decode, zoneConfigPush
  <2>3. h1 \in Readings /\ h0 \in Readings /\ c \in Readings
    BY <2>1 DEF Reading, Readings, ZoneFields
  <2>4. /\ h1.ts = t /\ h1.field = "hold" /\ h1.zone # 0
        /\ h0.ts = t /\ h0.field = "hold" /\ h0.zone # 0
        /\ c.ts = t /\ c.field = "hold_remaining_min" /\ c.zone # 0 /\ c.zone = f.zone
    BY <1>0, <2>1 DEF Reading
  <2>5. h1 = Reading(c.zone, "hold", 1, t)
    BY <2>4
  <2> HIDE DEF h1, h0, c
  <2>6. CASE f.held
    BY <2>2, <2>3, <2>4, <2>5, <2>6
  <2>7. CASE ~f.held
    BY <2>2, <2>3, <2>4, <2>7
  <2> QED BY <2>6, <2>7
<1> QED BY <1>2, <1>3, <1>4, <1>5, <1>6 DEF AllFrames

-----------------------------------------------------------------------------
\* The inductive invariant holds initially.
LEMMA InitInv == Init => IInv
<1> SUFFICES ASSUME Init PROVE IInv
    OBVIOUS
<1>1. /\ todo = <<>> /\ todo \in Seq(Readings) /\ Len(todo) = 0
      /\ 1..Len(todo) = {} /\ 2..Len(todo) = {}
    BY DEF Init
<1>2. 1 \in Zones
    BY ZonesAssumption DEF Zones
<1>3. \A z \in Zones, k \in ZoneFields : field[z][k] = Missing
    BY DEF Init, NoFields
<1>4. TypeInv
  <2>1. now \in Stamped
    BY BoundsAssumption DEF Init, Stamped
  <2>3. /\ zones \subseteq Zones /\ maskOnly \subseteq Zones /\ heard \subseteq Zones
        /\ replayed \in BOOLEAN /\ mask = Missing
    BY <1>2 DEF Init
  <2>2. field \in [Zones -> [ZoneFields -> Field({0, 1}) \cup {Missing}]]
    BY DEF Init, NoFields
  <2> QED BY <1>1, <2>1, <2>2, <2>3 DEF TypeInv
<1>5. PresenceInv
    BY DEF Init, PresenceInv, ZonePresence, Bits
<1>6. StampInv
    BY <1>1, <1>3 DEF StampInv
<1>7. HoldInv
    BY <1>1, <1>3 DEF HoldInv, CountdownOnlyWhileHeld, ZoneFields
<1>8. LiveInv
    BY <1>1 DEF Init, LiveInv
<1> QED BY <1>4, <1>5, <1>6, <1>7, <1>8 DEF IInv

\* The clock only moves away from the stamps.
LEMMA ClockStep == IInv /\ Clock => IInv'
<1> SUFFICES ASSUME IInv, Clock PROVE IInv'
    OBVIOUS
<1>1. /\ now' = now + 1 /\ now < MaxTime
      /\ UNCHANGED <<zones, field, mask, maskOnly, todo, heard, replayed>>
    BY DEF Clock, hist
<1>2. TypeInv'
    BY <1>1, BoundsAssumption DEF IInv, TypeInv, Stamped
<1>3. PresenceInv'
    BY <1>1 DEF IInv, PresenceInv, ZonePresence, Bits
<1>4. StampInv'
  <2>1. \A z \in Zones, k \in ZoneFields : field[z][k] # Missing => field[z][k].ts \in Nat
    BY BoundsAssumption DEF IInv, TypeInv, Field
  <2>2. \A i \in 1..Len(todo) : todo[i].ts \in Nat
    BY BoundsAssumption DEF IInv, TypeInv, Readings, Stamped
  <2>3. now \in Nat
    BY BoundsAssumption DEF IInv, TypeInv, Stamped
  <2> QED BY <1>1, <2>1, <2>2, <2>3 DEF IInv, StampInv
<1>5. HoldInv'
    BY <1>1 DEF IInv, HoldInv, CountdownOnlyWhileHeld, Covers
<1>6. LiveInv'
    BY <1>1 DEF IInv, LiveInv, Comes, IsDamper
<1> QED BY <1>2, <1>3, <1>4, <1>5, <1>6 DEF IInv

\* A frame is received only when the last one has been applied.
LEMMA ReceiveStep == IInv /\ Receive => IInv'
<1> SUFFICES ASSUME IInv, Receive PROVE IInv'
    OBVIOUS
<1>1. PICK f \in Feed, t \in now - Late .. now :
        /\ t >= 0 /\ todo' = Decode(f, t)
        /\ replayed' = (replayed \/ t < now \/ f.kind = "mask")
    BY DEF Receive
<1>2. todo = <<>> /\ UNCHANGED <<now, zones, field, mask, maskOnly, heard>>
    BY DEF Receive
<1>3. now \in Nat /\ t \in Nat /\ t \in Stamped /\ t <= now
    BY <1>1, BoundsAssumption DEF IInv, TypeInv, Stamped
<1>4. FrameOf(todo', f, t)
    BY <1>1, <1>3, DecodeIs, FeedAssumption
<1>5. ~replayed' => ~replayed /\ t = now /\ f.kind # "mask"
  <2>1. ~replayed' => ~replayed /\ ~(t < now) /\ f.kind # "mask"
    BY <1>1, Zenon
  <2> QED BY <1>3, <2>1
<1>6. TypeInv'
    BY <1>1, <1>2, <1>4 DEF IInv, TypeInv, FrameOf
<1>7. PresenceInv'
    BY <1>2 DEF IInv, PresenceInv, ZonePresence, Bits
<1>8. StampInv'
  <2>1. \A i \in 1..Len(todo') : todo'[i].ts = t /\ todo'[1].ts = t
    BY <1>4 DEF FrameOf
  <2> QED BY <1>2, <1>3, <1>5, <2>1 DEF IInv, StampInv
<1>9. HoldInv'
  <2>1. CountdownOnlyWhileHeld'
    BY <1>1, <1>2 DEF IInv, HoldInv, CountdownOnlyWhileHeld
  <2> QED BY <1>4, <2>1 DEF HoldInv, FrameOf
<1>10. LiveInv'
  <2>1. ~replayed' => maskOnly' = {}
    BY <1>2, <1>5 DEF IInv, LiveInv
  <2> QED BY <1>4, <1>5, <2>1 DEF LiveInv, FrameOf, Comes, IsDamper
<1> QED BY <1>6, <1>7, <1>8, <1>9, <1>10 DEF IInv

\* Applying a reading takes it off the front of the frame.
LEMMA TailIs ==
    ASSUME IInv, todo # <<>>, todo' = Tail(todo)
    PROVE  /\ Head(todo) = todo[1] /\ todo[1] \in Readings /\ 1 \in 1..Len(todo)
           /\ todo' \in Seq(Readings)
           /\ \A i \in 1..Len(todo') : i + 1 \in 2..Len(todo) /\ todo'[i] = todo[i + 1]
           /\ \A i \in 2..Len(todo) : i - 1 \in 1..Len(todo') /\ todo'[i - 1] = todo[i]
           /\ todo' # <<>> => 1 \in 1..Len(todo')
<1>1. todo \in Seq(Readings)
    BY DEF IInv, TypeInv
<1> QED BY <1>1

\* A mask that is not out of order takes the place of the last one, and removes
\* the zones that only the last one knew.  On the live bus there are none.
LEMMA SysStep ==
    ASSUME IInv, Apply, Head(todo).zone = 0
    PROVE  IInv' /\ (~replayed' => zones \subseteq zones')
<1> DEFINE r == Head(todo)
<1>1. /\ todo # <<>> /\ todo' = Tail(todo) /\ ApplySys(r)
      /\ UNCHANGED <<now, heard, replayed>>
    BY DEF Apply, ApplySys, hist
<1>2. /\ r = todo[1] /\ r \in Readings /\ 1 \in 1..Len(todo)
      /\ todo' \in Seq(Readings)
      /\ \A i \in 1..Len(todo') : i + 1 \in 2..Len(todo) /\ todo'[i] = todo[i + 1]
      /\ \A i \in 2..Len(todo) : i - 1 \in 1..Len(todo') /\ todo'[i - 1] = todo[i]
      /\ todo' # <<>> => 1 \in 1..Len(todo')
    BY <1>1, TailIs
<1>3. /\ r.value \in SUBSET Zones /\ r.ts \in Stamped /\ r.zone = 0
      /\ r.field = "active_zones"
    BY <1>2 DEF Readings, Zones
<1> HIDE DEF r
<1>4. \/ UNCHANGED <<zones, field, mask, maskOnly>>
      \/ /\ zones' = (zones \ Retracted(r.value)) \cup r.value
         /\ maskOnly' = (maskOnly \ Retracted(r.value)) \cup (r.value \ zones)
         /\ field' = [z \in Zones |-> IF z \in Retracted(r.value) THEN NoFields ELSE field[z]]
         /\ mask' = [value |-> r.value, ts |-> r.ts]
    BY <1>1 DEF ApplySys, applyActiveZonesMask
<1>5. NoFields \in [ZoneFields -> Field({0, 1}) \cup {Missing}]
    BY DEF NoFields
<1>6. TypeInv'
  <2>1. zones' \subseteq Zones /\ maskOnly' \subseteq Zones
    BY <1>3, <1>4 DEF IInv, TypeInv
  <2>2. field' \in [Zones -> [ZoneFields -> Field({0, 1}) \cup {Missing}]]
    BY <1>4, <1>5 DEF IInv, TypeInv
  <2>3. mask' \in Field(SUBSET Zones) \cup {Missing}
    BY <1>3, <1>4 DEF IInv, TypeInv, Field, Stamped
  <2> QED BY <1>1, <1>2, <2>1, <2>2, <2>3 DEF IInv, TypeInv
<1>7. PresenceInv'
  <2>1. CASE UNCHANGED <<zones, field, mask, maskOnly>>
    BY <1>1, <2>1 DEF IInv, PresenceInv, ZonePresence, Bits
  <2>2. CASE /\ zones' = (zones \ Retracted(r.value)) \cup r.value
             /\ maskOnly' = (maskOnly \ Retracted(r.value)) \cup (r.value \ zones)
             /\ field' = [z \in Zones |-> IF z \in Retracted(r.value) THEN NoFields ELSE field[z]]
             /\ mask' = [value |-> r.value, ts |-> r.ts]
    <3>1. Bits' = r.value
      <4>1. mask' \in Field(SUBSET Zones) /\ mask'.value = r.value
        BY <1>3, <2>2 DEF Field, Stamped
      <4>2. mask' # Missing
        BY <4>1, MissingAssumption
      <4> QED BY <4>1, <4>2 DEF Bits
    <3>2. zones' = {1} \cup heard' \cup r.value
        BY <1>1, <2>2 DEF IInv, PresenceInv, ZonePresence, Retracted
    <3>3. maskOnly' = zones' \ ({1} \cup heard')
        BY <1>1, <2>2 DEF IInv, PresenceInv, ZonePresence, Retracted
    <3>4. \A z \in Zones \ zones' : field'[z] = NoFields
        BY <2>2 DEF IInv, PresenceInv
    <3> QED BY <3>1, <3>2, <3>3, <3>4 DEF PresenceInv, ZonePresence
  <2> QED BY <1>4, <2>1, <2>2
<1>8. \A z \in Zones : field'[z] = field[z] \/ field'[z] = NoFields
    BY <1>4
<1>9. StampInv'
  <2>1. ASSUME NEW z \in Zones, NEW k \in ZoneFields, field'[z][k] # Missing
        PROVE  field'[z][k] = field[z][k]
    BY <1>8, <2>1 DEF NoFields
  <2> QED BY <1>1, <1>2, <2>1 DEF IInv, StampInv
<1>10. HoldInv'
  <2>1. CountdownOnlyWhileHeld'
    <3>1. \A k \in ZoneFields : NoFields[k] = Missing
        BY DEF NoFields
    <3> QED BY <1>1, <1>8, <3>1 DEF IInv, HoldInv, CountdownOnlyWhileHeld, ZoneFields
  <2>2. ASSUME NEW i \in 1..Len(todo'), todo'[i].field = "hold_remaining_min" PROVE FALSE
    <3>1. /\ i + 1 \in 1..Len(todo) /\ i + 1 # 1
          /\ todo[i + 1].field = "hold_remaining_min"
        BY <1>2, <2>2
    <3>2. todo[1] = Reading(todo[2].zone, "hold", 1, todo[2].ts)
        BY <3>1 DEF IInv, HoldInv
    <3> QED BY <1>2, <1>3, <3>2 DEF Reading
  <2> QED BY <2>1, <2>2 DEF HoldInv
<1>11. LiveInv' /\ (~replayed' => zones \subseteq zones')
  <2>1. \A i \in 1..Len(todo') : todo'[i].zone # 0
    BY <1>2 DEF IInv, LiveInv
  <2>2. ASSUME ~replayed
        PROVE  /\ maskOnly' \subseteq r.value /\ zones \subseteq zones'
               /\ \A z \in r.value : \E i \in 2..Len(todo) : Comes(z, i)
    BY <1>1, <1>2, <1>3, <1>4, <2>2 DEF IInv, LiveInv, Retracted
  <2>3. ASSUME ~replayed, NEW z \in maskOnly' PROVE \E i \in 1..Len(todo') : Comes(z, i)'
    <3>1. PICK i \in 2..Len(todo) : Comes(z, i)
        BY <2>2, <2>3
    <3> QED BY <1>2, <3>1 DEF Comes, IsDamper
  <2>4. \A i \in 2..Len(todo') : i \in 1..Len(todo')
    BY <1>2
  <2> QED BY <1>1, <1>2, <2>1, <2>2, <2>3, <2>4 DEF LiveInv
<1> QED BY <1>6, <1>7, <1>9, <1>10, <1>11 DEF IInv

Fresh(r) == [value |-> r.value, ts |-> r.ts]

\* What storing a zone reading does to the fields: it changes one field of its
\* zone, unless that is newer, and the end of a hold also ends the countdown.
LEMMA StoreIs ==
    ASSUME TypeInv, NEW r \in Readings, r.zone # 0, ApplyZone(r)
    PROVE  /\ r.zone \in Zones /\ r.field \in ZoneFields
           /\ r.value \in {0, 1} /\ r.ts \in Stamped
           /\ Fresh(r) # Missing
           /\ field' \in [Zones -> [ZoneFields -> Field({0, 1}) \cup {Missing}]]
           /\ \A y \in Zones \ {r.zone} : field'[y] = field[y]
           /\ \/ field' = field
              \/ /\ ~Older(field[r.zone][r.field], r)
                 /\ field'[r.zone][r.field] = Fresh(r)
                 /\ \A k \in ZoneFields \ {r.field} :
                        \/ field'[r.zone][k] = field[r.zone][k]
                        \/ field'[r.zone][k] = Missing /\ k = "hold_remaining_min"
                 /\ (r.field = "hold" /\ r.value = 0) =>
                        field'[r.zone]["hold_remaining_min"] = Missing
<1>1. /\ r.zone \in Zones /\ r.field \in ZoneFields
      /\ r.value \in {0, 1} /\ r.ts \in Stamped
    BY DEF Readings
<1> DEFINE V == Field({0, 1}) \cup {Missing}
           s == field[r.zone]
           new == [s EXCEPT ![r.field] = Fresh(r)]
<1>2. Fresh(r) \in Field({0, 1}) /\ Fresh(r) # Missing
    BY <1>1, MissingAssumption DEF Fresh, Field, Stamped
<1>3. field \in [Zones -> [ZoneFields -> V]] /\ s \in [ZoneFields -> V]
    BY <1>1 DEF TypeInv
<1>4. \/ field' = field
      \/ ~Older(field[r.zone][r.field], r) /\ field' = [field EXCEPT ![r.zone] = Stored(s, r)]
    BY DEF ApplyZone
<1>5. Stored(s, r) = IF r.field = "hold" /\ r.value = 0
                     THEN [new EXCEPT !["hold_remaining_min"] = Missing] ELSE new
    BY DEF Stored, Fresh
<1>6. Fresh(r) \in V /\ Missing \in V
    BY <1>2
<1> HIDE DEF V
<1>7. /\ new \in [ZoneFields -> V] /\ new[r.field] = Fresh(r)
      /\ \A k \in ZoneFields \ {r.field} : new[k] = s[k]
    BY <1>1, <1>3, <1>6
<1> HIDE DEF new, s
<1>8. /\ Stored(s, r) \in [ZoneFields -> V]
      /\ Stored(s, r)[r.field] = Fresh(r)
      /\ \A k \in ZoneFields \ {r.field} :
            \/ Stored(s, r)[k] = s[k]
            \/ Stored(s, r)[k] = Missing /\ k = "hold_remaining_min"
      /\ (r.field = "hold" /\ r.value = 0) => Stored(s, r)["hold_remaining_min"] = Missing
  <2>1. CASE r.field = "hold" /\ r.value = 0
    <3>1. Stored(s, r) = [new EXCEPT !["hold_remaining_min"] = Missing]
        BY <1>5, <2>1
    <3>2. "hold_remaining_min" \in ZoneFields /\ r.field # "hold_remaining_min"
        BY <2>1 DEF ZoneFields
    <3> QED BY <1>1, <1>6, <1>7, <3>1, <3>2
  <2>2. CASE ~(r.field = "hold" /\ r.value = 0)
    <3>1. Stored(s, r) = new
        BY <1>5, <2>2
    <3> QED BY <1>7, <2>2, <3>1
  <2> QED BY <2>1, <2>2
<1>9. CASE field' = field
    BY <1>1, <1>2, <1>3, <1>9 DEF V
<1>10. CASE /\ ~Older(field[r.zone][r.field], r)
            /\ field' = [field EXCEPT ![r.zone] = Stored(s, r)]
  <2>1. /\ field' \in [Zones -> [ZoneFields -> V]] /\ field'[r.zone] = Stored(s, r)
        /\ \A y \in Zones \ {r.zone} : field'[y] = field[y]
    BY <1>1, <1>3, <1>8, <1>10
  <2> QED BY <1>1, <1>2, <1>8, <1>10, <2>1 DEF V, s
<1> QED BY <1>4, <1>9, <1>10

\* A zone reading: a damper alone establishes no zone, anything else makes its
\* zone permanent.  No zone goes away.
LEMMA ZoneStep ==
    ASSUME IInv, Apply, Head(todo).zone # 0
    PROVE  IInv' /\ zones \subseteq zones'
<1> DEFINE r == todo[1]
           skip == IsDamper(r) /\ r.zone \notin zones
           old == Older(field[r.zone][r.field], r)
<1>1. todo # <<>> /\ todo' = Tail(todo)
    BY DEF Apply
<1>2. /\ Head(todo) = r /\ r \in Readings /\ 1 \in 1..Len(todo)
      /\ todo' \in Seq(Readings)
      /\ \A i \in 1..Len(todo') : i + 1 \in 2..Len(todo) /\ todo'[i] = todo[i + 1]
      /\ \A i \in 2..Len(todo) : i - 1 \in 1..Len(todo') /\ todo'[i - 1] = todo[i]
      /\ todo' # <<>> => 1 \in 1..Len(todo')
    BY <1>1, TailIs
<1>3. ApplyZone(r) /\ r.zone # 0 /\ UNCHANGED <<now, mask, replayed>>
    BY <1>2 DEF Apply, ApplyZone
<1>4. /\ r.zone \in Zones /\ r.field \in ZoneFields
      /\ r.value \in {0, 1} /\ r.ts \in Stamped
      /\ Fresh(r) # Missing
      /\ field' \in [Zones -> [ZoneFields -> Field({0, 1}) \cup {Missing}]]
      /\ \A y \in Zones \ {r.zone} : field'[y] = field[y]
      /\ \/ field' = field
         \/ /\ ~Older(field[r.zone][r.field], r)
            /\ field'[r.zone][r.field] = Fresh(r)
            /\ \A k \in ZoneFields \ {r.field} :
                   \/ field'[r.zone][k] = field[r.zone][k]
                   \/ field'[r.zone][k] = Missing /\ k = "hold_remaining_min"
            /\ (r.field = "hold" /\ r.value = 0) =>
                   field'[r.zone]["hold_remaining_min"] = Missing
    BY <1>2, <1>3, StoreIs DEF IInv
<1>5. /\ zones' = IF skip THEN zones ELSE zones \cup {r.zone}
      /\ maskOnly' = IF skip \/ old \/ IsDamper(r) THEN maskOnly ELSE maskOnly \ {r.zone}
      /\ skip => field' = field
      /\ heard' = IF skip \/ old \/ IsDamper(r) THEN heard ELSE heard \cup {r.zone}
    BY <1>3 DEF ApplyZone, NoLongerMaskOnly
<1> HIDE DEF r
<1>6. old => r.zone \in zones
  <2>1. \A y \in Zones \ zones : field[y][r.field] = Missing
    BY <1>4 DEF IInv, PresenceInv, NoFields
  <2> QED BY <1>4, <2>1 DEF Older
<1>7. ~replayed => ~old
    BY <1>2, <1>4, BoundsAssumption DEF IInv, StampInv, TypeInv, Older, Field, Stamped, r
<1>8. \A y \in Zones, k \in ZoneFields :
        \/ field'[y][k] = field[y][k]
        \/ field'[y][k] = Missing
        \/ y = r.zone /\ field'[y][k] = Fresh(r)
    BY <1>4
<1> HIDE DEF skip, old
<1>9. TypeInv'
    BY <1>2, <1>3, <1>4, <1>5 DEF IInv, TypeInv
<1>10. PresenceInv'
  <2>1. Bits' = Bits
    BY <1>3 DEF Bits
  <2>2. IsDamper(r) /\ ~skip => r.zone \in zones
    BY DEF skip
  <2>3. zones' = {1} \cup heard' \cup Bits'
    BY <1>5, <1>6, <2>1, <2>2 DEF IInv, PresenceInv, ZonePresence
  <2>4. maskOnly' = zones' \ ({1} \cup heard')
    BY <1>5, <1>6, <2>2 DEF IInv, PresenceInv
  <2>5. ASSUME NEW y \in Zones \ zones' PROVE field'[y] = NoFields
    BY <1>4, <1>5 DEF IInv, PresenceInv
  <2> QED BY <2>3, <2>4, <2>5 DEF PresenceInv, ZonePresence
<1>11. StampInv'
  <2>1. /\ \A i \in 1..Len(todo) : todo[i].ts <= now /\ todo[i].ts = r.ts
        /\ Fresh(r).ts = r.ts /\ r.ts \in Nat
    BY <1>4, BoundsAssumption DEF IInv, StampInv, Fresh, r, Stamped
  <2>2. \A i \in 1..Len(todo') : i + 1 \in 1..Len(todo) /\ todo'[i].ts = r.ts
    BY <1>2, <2>1
  <2>3. \A i \in 1..Len(todo') : todo'[i].ts <= now /\ todo'[i].ts = todo'[1].ts
    <3>1. \A i \in 1..Len(todo') : 1 \in 1..Len(todo')
        BY <1>2
    <3> QED BY <1>2, <2>1, <2>2, <3>1
  <2>4. ASSUME NEW y \in Zones, NEW k \in ZoneFields, field'[y][k] # Missing
        PROVE  /\ field'[y][k].ts <= now
               /\ ~replayed => \A i \in 1..Len(todo') : field'[y][k].ts <= todo'[i].ts
    <3>1. CASE field'[y][k] = field[y][k]
      <4>1. field[y][k].ts <= now /\ (~replayed => field[y][k].ts <= r.ts)
        BY <1>2, <2>4, <3>1 DEF IInv, StampInv, r
      <4> QED BY <2>2, <3>1, <4>1
    <3>2. CASE field'[y][k] = Fresh(r)
      <4>1. field'[y][k].ts = r.ts
        BY <2>1, <3>2
      <4>2. r.ts <= now /\ r.ts <= r.ts
        BY <1>2, <2>1
      <4> QED BY <2>2, <4>1, <4>2
    <3> QED BY <1>8, <2>4, <3>1, <3>2
  <2> QED BY <1>3, <2>3, <2>4 DEF StampInv
<1>12. HoldInv'
  <2>1. "hold" \in ZoneFields /\ "hold_remaining_min" \in ZoneFields
    BY DEF ZoneFields
  <2>2. Fresh(r).value = r.value /\ Fresh(r).ts = r.ts
    BY DEF Fresh
  <2>3. ASSUME NEW y \in Zones, field'[y]["hold_remaining_min"] # Missing
        PROVE  Covers(field'[y]["hold"], field'[y]["hold_remaining_min"].ts)
    <3>1. CASE field'[y] = field[y]
        BY <2>3, <3>1 DEF IInv, HoldInv, CountdownOnlyWhileHeld, Covers
    <3>2. CASE field'[y] # field[y]
      <4>0. /\ y = r.zone
            /\ field'[y][r.field] = Fresh(r)
            /\ \A k \in ZoneFields \ {r.field} :
                   \/ field'[y][k] = field[y][k]
                   \/ field'[y][k] = Missing /\ k = "hold_remaining_min"
            /\ (r.field = "hold" /\ r.value = 0) => field'[y]["hold_remaining_min"] = Missing
        BY <1>4, <3>2
      <4>1. CASE r.field = "hold"
        BY <1>4, <2>2, <2>3, <4>0, <4>1 DEF Covers
      <4>2. CASE r.field = "hold_remaining_min"
        <5>1. Covers(field[y]["hold"], r.ts)
            BY <1>2, <4>0, <4>2 DEF IInv, HoldInv, r
        <5> QED BY <2>1, <2>2, <4>0, <4>2, <5>1
      <4>3. CASE r.field \notin {"hold", "hold_remaining_min"}
        <5>1. /\ field'[y]["hold"] = field[y]["hold"]
              /\ field'[y]["hold_remaining_min"] = field[y]["hold_remaining_min"]
            BY <2>1, <2>3, <4>0, <4>3
        <5> QED BY <2>3, <5>1 DEF IInv, HoldInv, CountdownOnlyWhileHeld, Covers
      <4> QED BY <4>1, <4>2, <4>3
    <3> QED BY <3>1, <3>2
  <2>4. CountdownOnlyWhileHeld'
    BY <1>3, <2>3 DEF CountdownOnlyWhileHeld, Covers
  <2>5. ASSUME NEW i \in 1..Len(todo'), todo'[i].field = "hold_remaining_min"
        PROVE  i = 1 /\ Covers(field'[todo'[1].zone]["hold"], todo'[1].ts)
    <3>1. /\ i + 1 \in 1..Len(todo) /\ i + 1 # 1 /\ todo'[i] = todo[i + 1]
          /\ todo[i + 1].field = "hold_remaining_min"
        BY <1>2, <2>5
    <3>2. i = 1 /\ r = Reading(todo[2].zone, "hold", 1, todo[2].ts)
        BY <3>1 DEF IInv, HoldInv, r
    <3>3. /\ r.field = "hold" /\ r.value = 1
          /\ todo'[1].zone = r.zone /\ todo'[1].ts = r.ts
        BY <3>1, <3>2 DEF Reading
    <3>4. ~skip
        BY <3>3 DEF skip, IsDamper
    <3>5. CASE old
      <4>1. replayed /\ field[r.zone]["hold"] # Missing /\ r.ts < field[r.zone]["hold"].ts
        BY <1>7, <3>3, <3>5 DEF old, Older
      <4>2. field' = field
        BY <1>3, <3>5 DEF ApplyZone, old
      <4> QED BY <3>2, <3>3, <4>1, <4>2 DEF Covers
    <3>6. CASE ~old
      <4>1. field'[r.zone] = Stored(field[r.zone], r)
        BY <1>3, <1>4, <3>4, <3>6 DEF ApplyZone, old, skip, IInv, TypeInv
      <4>2. field'[r.zone]["hold"] = Fresh(r)
        BY <1>4, <2>1, <3>3, <4>1 DEF Stored, Fresh, IInv, TypeInv
      <4> QED BY <1>4, <2>2, <3>2, <3>3, <4>2 DEF Covers
    <3> QED BY <3>5, <3>6
  <2> QED BY <1>3, <2>4, <2>5 DEF HoldInv, Covers
<1>13. LiveInv'
  <2>1. \A i \in 1..Len(todo') : todo'[i].zone # 0
    BY <1>2 DEF IInv, LiveInv
  <2>2. ASSUME ~replayed, NEW z \in maskOnly' PROVE \E i \in 1..Len(todo') : Comes(z, i)'
    <3>1. z \in maskOnly
        BY <1>5
    <3>2. PICK i \in 1..Len(todo) : Comes(z, i)
        BY <2>2, <3>1 DEF IInv, LiveInv
    <3>3. CASE i = 1
      <4>1. r.zone = z /\ ~IsDamper(r)
        BY <3>2, <3>3 DEF Comes, r
      <4> QED BY <1>5, <1>7, <2>2, <4>1 DEF skip
    <3>4. CASE i # 1
      <4>1. i \in 2..Len(todo)
        BY <3>4
      <4> QED BY <1>2, <3>2, <4>1 DEF Comes, IsDamper
    <3> QED BY <3>3, <3>4
  <2>3. \A i \in 2..Len(todo') : i \in 1..Len(todo')
    BY <1>2
  <2> QED BY <1>2, <1>3, <2>1, <2>2, <2>3 DEF LiveInv
<1>14. zones \subseteq zones'
    BY <1>5
<1> QED BY <1>9, <1>10, <1>11, <1>12, <1>13, <1>14 DEF IInv

\* Every step preserves the invariant, and on the live bus no zone goes away.
LEMMA NextInv == IInv /\ [Next]_vars => IInv' /\ (~replayed' => zones \subseteq zones')
<1> SUFFICES ASSUME IInv, [Next]_vars PROVE IInv' /\ (~replayed' => zones \subseteq zones')
    OBVIOUS
<1>1. CASE Clock
    BY <1>1, ClockStep DEF Clock
<1>2. CASE Receive
    BY <1>2, ReceiveStep DEF Receive
<1>3. CASE Apply
    BY <1>3, SysStep, ZoneStep
<1>4. CASE UNCHANGED vars
  <2>1. UNCHANGED <<now, zones, field, mask, maskOnly, todo, heard, replayed>>
    BY <1>4 DEF vars, hist
  <2>2. TypeInv' /\ PresenceInv' /\ StampInv'
    BY <2>1 DEF IInv, TypeInv, PresenceInv, ZonePresence, Bits, StampInv
  <2>3. HoldInv' /\ LiveInv'
    BY <2>1 DEF IInv, HoldInv, CountdownOnlyWhileHeld, Covers, LiveInv, Comes, IsDamper
  <2> QED BY <2>1, <2>2, <2>3 DEF IInv
<1> QED BY <1>1, <1>2, <1>3, <1>4 DEF Next

\* The invariant holds throughout.
THEOREM Invariance == Spec => []IInv
BY InitInv, NextInv, PTL DEF Spec

\* The zones are exactly zone 1, those heard and those in the last mask, between
\* any two readings.
THEOREM ZonePresenceHolds == Spec => []ZonePresence
<1>1. IInv => ZonePresence
    BY DEF IInv, PresenceInv
<1> QED BY Invariance, <1>1, PTL

\* No snapshot shows a countdown without the hold it counts down, but for one
\* that a replay brings back.
THEOREM CountdownHolds == Spec => []CountdownOnlyWhileHeld
<1>1. IInv => CountdownOnlyWhileHeld
    BY DEF IInv, HoldInv
<1> QED BY Invariance, <1>1, PTL

\* On the live bus no mask retracts anything: the frame that carries a mask also
\* carries a reading of every zone in it, which makes the zone permanent before
\* another mask can retract it.  (Only a bare mask, or a late one, leaves a zone
\* that the next mask retracts.)
LiveZonesStay == [][~replayed' => zones \subseteq zones']_vars

\* On the live bus no zone ever goes away, whatever the masks say.
THEOREM LiveZonesStayHolds == Spec => LiveZonesStay
<1>1. IInv /\ [Next]_vars => [~replayed' => zones \subseteq zones']_vars
    BY NextInv
<1> QED BY Invariance, <1>1, PTL DEF Spec, LiveZonesStay

\* No reading ever takes the place of a newer one, and the mask never goes back,
\* however late the frames come.
THEOREM NeverOlderHolds == Spec => NeverOlder
<1> DEFINE Ahead ==
        /\ \A z \in Zones, k \in ZoneFields :
            (field[z][k] # Missing /\ field'[z][k] # Missing)
                => field'[z][k].ts >= field[z][k].ts
        /\ (mask # Missing => mask'.ts >= mask.ts)
<1>1. IInv /\ [Next]_vars => [Ahead]_vars
  <2> SUFFICES ASSUME IInv, Next PROVE Ahead
    OBVIOUS
  <2>1. /\ \A z \in Zones, k \in ZoneFields : field[z][k] # Missing => field[z][k].ts \in Nat
        /\ mask # Missing => mask.ts \in Nat
    BY BoundsAssumption DEF IInv, TypeInv, Field
  <2>2. CASE Clock \/ Receive
    BY <2>1, <2>2 DEF Clock, Receive
  <2>3. CASE Apply /\ Head(todo).zone = 0
    <3>1. \/ UNCHANGED <<field, mask>>
          \/ /\ ~Older(mask, Head(todo))
             /\ \A z \in Zones : field'[z] = NoFields \/ field'[z] = field[z]
             /\ mask' = Fresh(Head(todo))
        BY <2>3 DEF Apply, ApplySys, applyActiveZonesMask, Fresh
    <3>2. Head(todo).ts \in Nat
      <4>1. Head(todo) \in Readings
        BY <2>3 DEF Apply, IInv, TypeInv
      <4> QED BY <4>1, BoundsAssumption DEF Readings, Stamped
    <3>3. \A k \in ZoneFields : NoFields[k] = Missing
        BY DEF NoFields
    <3> QED BY <2>1, <3>1, <3>2, <3>3 DEF Older, Fresh
  <2>4. CASE Apply /\ Head(todo).zone # 0
    <3> DEFINE r == Head(todo)
    <3>1. r \in Readings /\ ApplyZone(r) /\ mask' = mask
        BY <2>4 DEF Apply, ApplyZone, IInv, TypeInv
    <3>2. /\ r.zone \in Zones /\ r.field \in ZoneFields /\ r.ts \in Stamped
          /\ \A y \in Zones \ {r.zone} : field'[y] = field[y]
          /\ \/ field' = field
             \/ /\ ~Older(field[r.zone][r.field], r)
                /\ field'[r.zone][r.field] = Fresh(r)
                /\ \A k \in ZoneFields \ {r.field} :
                       \/ field'[r.zone][k] = field[r.zone][k]
                       \/ field'[r.zone][k] = Missing
        BY <2>4, <3>1, StoreIs DEF IInv
    <3>3. r.ts \in Nat /\ Fresh(r).ts = r.ts
        BY <3>2, BoundsAssumption DEF Stamped, Fresh
    <3> HIDE DEF r
    <3>4. ASSUME NEW z \in Zones, NEW k \in ZoneFields,
                 field[z][k] # Missing, field'[z][k] # Missing
          PROVE  field'[z][k].ts >= field[z][k].ts
      <4>1. CASE field'[z][k] = field[z][k]
        BY <2>1, <3>4, <4>1
      <4>2. CASE z = r.zone /\ k = r.field /\ ~Older(field[z][k], r) /\ field'[z][k] = Fresh(r)
        BY <2>1, <3>3, <3>4, <4>2 DEF Older
      <4> QED BY <3>2, <3>4, <4>1, <4>2
    <3> QED BY <2>1, <3>1, <3>4
  <2> QED BY <2>2, <2>3, <2>4 DEF Next
<1> QED BY Invariance, <1>1, PTL DEF Spec, NeverOlder
=============================================================================
