------------------------------ MODULE ZoneState ------------------------------
(***************************************************************************)
(* The zone half of the state assembler (state/state.go), fed with the     *)
(* readings of the zone decoders (protocol/zone.go, protocol/sam.go).  The *)
(* read loop decodes a frame into a list of readings and applies them one  *)
(* by one, each under the state's own lock, so a snapshot may be taken     *)
(* between any two readings of one frame.                                  *)
(***************************************************************************)
EXTENDS Integers, Sequences

CONSTANTS
    NumZones,   \* zones 1..NumZones (the code has 8)
    Feed,       \* the frames that may arrive
    MaxTime,    \* bound on the clock
    Missing,    \* stands for a key that is not in its map
    Late        \* how far behind the clock a frame of a replay may be stamped;
                \* the live bus stamps a frame with the clock

Zones == 1..NumZones

ASSUME ZonesAssumption == NumZones \in Nat \ {0}
ASSUME BoundsAssumption == MaxTime \in Nat /\ Late \in Nat

\* One field stands for all fields a decoder treats alike: temp for the zone
\* sensor's readings, temp_sam for the 3B02 ones, hold_permanent for the 3B03
\* ones and damper_position for both damper fields.
ZoneFields == {"temp", "temp_sam", "hold_permanent", "damper_position",
               "hold", "hold_remaining_min"}

\* The frames the decoders know, and a bare active_zones reading, which no
\* frame carries but the tests of the state package apply.
AllFrames ==
    [kind : {"3B02", "3B03", "dampers", "mask"}, zones : SUBSET Zones]
        \cup [kind : {"041E"}, zone : Zones]
        \cup [kind : {"041F"}, zone : Zones, held : BOOLEAN]

ASSUME FeedAssumption == Feed \subseteq AllFrames

Field(V) == [value : V, ts : 0..MaxTime]

ASSUME MissingAssumption == Missing \notin Field({0, 1}) \cup Field(SUBSET Zones)

VARIABLES
    now,        \* the clock
    zones,      \* the zones of State.zones
    field,      \* field[z][k]: the Field of zone z, or Missing
    mask,       \* sys["active_zones"], or Missing
    maskOnly,   \* State.maskOnly
    todo,       \* readings of the current frame still to be applied
    \* History variables, read by the properties only.
    heard,      \* zones some non-damper reading was applied to
    replayed    \* was a frame applied late, or a bare mask?

hist == <<heard, replayed>>
vars == <<now, zones, field, mask, maskOnly, todo, hist>>

-----------------------------------------------------------------------------
\* The readings of a frame.  Zone 0 is the whole system.
Reading(z, k, v, t) == [zone |-> z, field |-> k, value |-> v, ts |-> t]

\* One reading per zone of S, in the order of the zones: the decoders' loop.
PerZone(S, k, t) ==
    LET upTo[n \in 0..NumZones] ==
            IF n = 0 THEN <<>>
            ELSE IF n \in S THEN Append(upTo[n - 1], Reading(n, k, 0, t)) ELSE upTo[n - 1]
    IN  upTo[NumZones]

systemState3B02(f, t) ==
    <<Reading(0, "active_zones", f.zones, t)>> \o PerZone(f.zones, "temp_sam", t)

zoneSettings3B03(f, t) == PerZone(f.zones, "hold_permanent", t)

\* The zones whose damper slot is not 0xFF.
dampers(f, t) == PerZone(f.zones, "damper_position", t)

zoneSensorStatus(f, t) == <<Reading(f.zone, "temp", 0, t)>>

\* The countdown follows the hold flag, and only while the hold is timed.
zoneConfigPush(f, t) ==
    IF f.held THEN <<Reading(f.zone, "hold", 1, t),
                     Reading(f.zone, "hold_remaining_min", 0, t)>>
              ELSE <<Reading(f.zone, "hold", 0, t)>>

\* The dispatch by register, owner and operation.  Every other register yields
\* system readings that touch no zone, or nothing; those frames are left out.
Decode(f, t) ==
    CASE f.kind = "3B02" -> systemState3B02(f, t)
      [] f.kind = "3B03" -> zoneSettings3B03(f, t)
      [] f.kind = "mask" -> <<Reading(0, "active_zones", f.zones, t)>>
      [] f.kind = "dampers" -> dampers(f, t)
      [] f.kind = "041E" -> zoneSensorStatus(f, t)
      [] f.kind = "041F" -> zoneConfigPush(f, t)

-----------------------------------------------------------------------------
NoFields == [k \in ZoneFields |-> Missing]

Init ==
    /\ now = 0
    /\ zones = {1}
    /\ field = [z \in Zones |-> NoFields]
    /\ mask = Missing
    /\ maskOnly = {}
    /\ todo = <<>>
    /\ heard = {}
    /\ replayed = FALSE

Clock ==
    /\ now < MaxTime
    /\ now' = now + 1
    /\ UNCHANGED <<zones, field, mask, maskOnly, todo, hist>>

\* The read loop decodes the next frame.
Receive ==
    /\ todo = <<>>
    /\ \E f \in Feed, t \in now - Late .. now :
        /\ t >= 0
        /\ todo' = Decode(f, t)
        /\ replayed' = (replayed \/ t < now \/ f.kind = "mask")
    /\ UNCHANGED <<now, zones, field, mask, maskOnly, heard>>

Older_Never(old, r) == FALSE

\* The out-of-order guard: is r older than what is stored?
Older(old, r) == old # Missing /\ r.ts < old.ts

IsDamper(r) == r.field = "damper_position"

Retracted_AnyZone(m) == {z \in zones : z # 1 /\ z \notin m}

\* The zones a mask m removes: established by a mask alone, and now cleared.
Retracted(m) == {z \in maskOnly : z # 1 /\ z \notin m}

\* applyActiveZonesMask(m), which also drops the fields of removed zones.
applyActiveZonesMask(m) ==
    /\ zones' = (zones \ Retracted(m)) \cup m
    /\ maskOnly' = (maskOnly \ Retracted(m)) \cup (m \ zones)
    /\ field' = [z \in Zones |-> IF z \in Retracted(m) THEN NoFields ELSE field[z]]

\* Apply of a system reading; the only one that touches zones is active_zones.
ApplySys(r) ==
    /\ IF Older(mask, r)
       THEN UNCHANGED <<zones, field, mask, maskOnly>>
       ELSE /\ applyActiveZonesMask(r.value)
            /\ mask' = [value |-> r.value, ts |-> r.ts]
    /\ UNCHANGED hist

Stored_KeepsCountdown(old, r) ==
    [old EXCEPT ![r.field] = [value |-> r.value, ts |-> r.ts]]

\* The fields of a zone after r is stored: hold=0 also ends the countdown.
Stored(old, r) ==
    LET new == [old EXCEPT ![r.field] = [value |-> r.value, ts |-> r.ts]]
    IN  IF r.field = "hold" /\ r.value = 0
        THEN [new EXCEPT !["hold_remaining_min"] = Missing] ELSE new

\* Real sensor traffic makes a zone permanent.
NoLongerMaskOnly(r) == IF IsDamper(r) THEN maskOnly ELSE maskOnly \ {r.zone}

\* Apply of a zone reading: a damper alone establishes no zone, anything else
\* does, and a reading older than the stored one changes nothing more.
ApplyZone(r) ==
    LET skip == IsDamper(r) /\ r.zone \notin zones
        old == Older(field[r.zone][r.field], r)
    IN  /\ zones' = IF skip THEN zones ELSE zones \cup {r.zone}
        /\ maskOnly' = IF skip \/ old THEN maskOnly ELSE NoLongerMaskOnly(r)
        /\ field' = IF skip \/ old THEN field
                    ELSE [field EXCEPT ![r.zone] = Stored(@, r)]
        /\ heard' = IF skip \/ old \/ IsDamper(r) THEN heard ELSE heard \cup {r.zone}
        /\ UNCHANGED <<mask, replayed>>

\* Apply, for the next reading of the frame.
Apply ==
    /\ todo # <<>>
    /\ todo' = Tail(todo)
    /\ LET r == Head(todo) IN IF r.zone = 0 THEN ApplySys(r) ELSE ApplyZone(r)
    /\ UNCHANGED now

Next == Clock \/ Receive \/ Apply

Spec == Init /\ [][Next]_vars

-----------------------------------------------------------------------------
Bits == IF mask = Missing THEN {} ELSE mask.value

\* The zone-presence rule, exactly: between any two readings the zones are
\* zone 1, those a non-damper reading was applied to, and those in the last
\* mask.  So damper slots establish nothing, a mask never removes a zone that
\* was heard, and every zone only a mask knew goes when its bit is cleared.
ZonePresence == zones = {1} \cup heard \cup Bits

\* A countdown is shown only while the hold it counts down is on, in every
\* snapshot: also between the readings of one frame, and after the hold ended
\* without a last countdown (state.go deletes the field on hold=0).  Only a
\* replay can show another one, and then one older than the end of the hold,
\* whose time stamp went with the deleted field.
CountdownOnlyWhileHeld ==
    \A z \in Zones :
        LET hold == field[z]["hold"]
            countdown == field[z]["hold_remaining_min"]
        IN  countdown # Missing =>
                /\ hold # Missing
                /\ hold.value = 1 \/ (replayed /\ countdown.ts < hold.ts)

\* Late or replayed frames never put an older reading over a newer one, and
\* never move the zone mask back (the out-of-order guard of Apply).
NeverOlder ==
    [][/\ \A z \in Zones, k \in ZoneFields :
            (field[z][k] # Missing /\ field'[z][k] # Missing)
                => field'[z][k].ts >= field[z][k].ts
       /\ (mask # Missing => mask'.ts >= mask.ts)]_vars

\* "A later mask" retracts "a zone it established itself" (state.go on New and
\* maskOnly, the exporter's "mask-retracted zone"): on the live bus, a zone that
\* is known from 3B02 reads alone is gone once such a read leaves it out.
MaskRetracts ==
    (~replayed /\ todo = <<>> /\ mask # Missing) =>
        \A z \in zones \ ({1} \cup mask.value) :
            \E k \in {"temp", "hold", "hold_permanent"} : field[z][k] # Missing
=============================================================================
