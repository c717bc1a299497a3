------------------------------- MODULE Sensors -------------------------------
(***************************************************************************)
(* From what the equipment says on the bus to what a system sensor shows:  *)
(* the dispatch by owner, operation and register (protocol/protocol.go),   *)
(* the decoders of the indoor and outdoor unit and of the wall control     *)
(* (idu.go, odu.go, sam.go), the system half of the state assembler with   *)
(* its staleness (state/state.go), and the payload of a sensor             *)
(* (mqtt/entities.go, exporter.go).                                        *)
(*                                                                         *)
(* A system field is stored without regard to any other, so one field,     *)
(* watch, is followed at a time; it is chosen in Init.  A payload is the   *)
(* sequence of its words as unsigned integers, and a shorter payload is a  *)
(* prefix of it.  Values are kept in the unit of the wire: the division by *)
(* 16 and the number of decimals of a format are left out.                 *)
(***************************************************************************)
EXTENDS Integers, SequencesExt

CONSTANTS
    FastHorizon, SlowHorizon,  \* defaultHorizon and horizons[...]
    FastPeriod, SlowPeriod,    \* how often the bus repeats a field, and how
                               \* often the hourly registers are read
    MaxLate,                   \* how old a frame of a replay may be; the live
                               \* bus stamps a frame with the clock
    NaN,                       \* a float that is not a number, or not finite
    None                       \* the payload "None"; a field that is not there

ASSUME HorizonAssumption ==
    /\ {FastHorizon, SlowHorizon, FastPeriod, SlowPeriod, MaxLate} \subseteq Nat
    /\ FastPeriod <= FastHorizon /\ SlowPeriod <= SlowHorizon

-----------------------------------------------------------------------------
\* What the equipment states: the register tables of docs/protocol-tables.md.
\* A statement is made with an operation between two addresses; its words carry
\* the named fields, or something no field is named for.
Said(op, src, dst, reg, fields) ==
    [op |-> op, src |-> src, dst |-> dst, reg |-> reg, fields |-> fields]
Reply(src, reg, fields) == Said("ack06", src, "wall", reg, fields)
Push(dst, reg, fields) == Said("write", "wall", dst, reg, fields)

Temperatures ==
    [odu |-> <<"outdoor_temp", "outdoor_coil_temp", "suction_temp",
               "superheat", "other", "discharge_temp">>,
     idu |-> <<"supply_air_temp">>,
     zc |-> <<"other", "other", "supply_air_temp">>]
TempIds == [odu |-> <<17, 18, 48, 74, 75, 69>>, idu |-> <<20>>, zc |-> <<1, 2, 20>>]

Cycles == [odu |-> <<"other", "cool_cycles", "odu_power_cycles">>,
           idu |-> <<"heat_stage1_cycles", "heat_stage2_cycles", "other",
                     "idu_power_cycles", "blower_cycles">>]
Hours == [odu |-> <<"other", "cool_hours", "odu_power_hours">>,
          idu |-> <<"heat_stage1_hours", "heat_stage2_hours", "other",
                    "idu_power_hours", "blower_hours">>]
CycleKeys == [odu |-> <<35, 40, 43>>, idu |-> <<35, 36, 39, 43, 45>>, zc |-> <<35, 43>>]
HourKeys == [odu |-> <<37, 42, 44>>, idu |-> <<37, 38, 41, 44, 46>>, zc |-> <<37, 44>>]

Statements ==
    {Reply(u, "000302", Temperatures[u]) : u \in {"odu", "idu", "zc"}} \cup
    {Reply(u, "000310", Cycles[u]) : u \in {"odu", "idu"}} \cup
    {Reply(u, "000311", Hours[u]) : u \in {"odu", "idu"}} \cup
    {Reply("odu", "000303", <<"suction_pressure">>),
     Reply("odu", "000304", <<"line_voltage">>),
     Reply("odu", "000604", <<"compressor_rpm_target", "compressor_rpm">>),
     Push("odu", "000605", <<"compressor_stage_cmd", "cool_mode_flag">>),
     Reply("odu", "00060e", <<"compressor_stage">>),
     Reply("odu", "000625", <<"odu_power_analog">>),
     Push("idu", "000305", <<"heat_stage", "cool_demand", "commanded_cfm">>),
     Reply("idu", "000306", <<"blower_rpm_echo", "commanded_cfm_echo">>),
     Reply("idu", "000413", <<"supply_cfm", "blower_rpm", "static_pressure", "blower_watts">>),
     Push("all", "000202", <<"bus_time_minutes", "bus_weekday">>),
     Push("all", "000203", <<"bus_day", "bus_month", "bus_year">>),
     Said("ack06", "wall", "sam", "003b02",
          <<"active_zones", "metric_units", "outdoor_temp_sam", "active_stages", "system_mode">>),
     Said("ack06", "wall", "sam", "003b05",
          <<"filter_life_used", "uv_life_used", "humidifier_pad_life_used",
            "vent_filter_life_used">>)}

\* The registers the wall control serves over a SAM read only.
SamRegs == {"003b02", "003b05"}

Fields == UNION {ToSet(s.fields) : s \in Statements} \ {"other"}

\* The fields that are stated less than once in FastHorizon.
Accessories == {"filter_life_used", "uv_life_used", "humidifier_pad_life_used",
                "vent_filter_life_used"}

\* The words of a field: width in bits, sign, or a float.
Signed16 == ToSet(Temperatures.odu) \cup ToSet(Temperatures.idu)
Signed8 == {"outdoor_temp_sam"}
Floats == {"compressor_stage_cmd", "static_pressure", "blower_watts"}
Wide == UNION {ToSet(Cycles[u]) \cup ToSet(Hours[u]) : u \in {"odu", "idu"}}
Short == {"suction_pressure", "compressor_rpm_target", "compressor_rpm", "odu_power_analog",
          "commanded_cfm", "blower_rpm_echo", "commanded_cfm_echo", "supply_cfm", "blower_rpm"}

\* Values at the edges of a field's range, as the unit means them.
Meant(k) ==
    CASE k \in Signed16 -> {-(2^15), -1, 2^15 - 1}
      [] k \in Signed8 -> {-(2^7), -1, 2^7 - 1}
      [] k \in Floats -> {0, 1, NaN}
      [] k \in Wide -> {0, 2^24 - 1}
      [] k \in Short -> {0, 2^16 - 1}
      [] k = "bus_time_minutes" -> {0, 23 * 60 + 59}
      [] k = "bus_year" -> {2000, 2255}
      [] k = "cool_demand" -> {0, 1}
      [] k \in {"active_stages", "system_mode"} -> {0, 2, 3, 15}
      [] OTHER -> {0, 2^8 - 1}

\* The word that carries value v of field k: two's complement, hour and minute
\* in a byte each, the flag of 000305 and the offset of 000203.
Word(k, v) ==
    CASE k \in Signed16 -> v % 2^16
      [] k \in Signed8 -> v % 2^8
      [] k = "cool_demand" -> 2 * v
      [] k = "bus_time_minutes" -> (v \div 60) * 2^8 + (v % 60)
      [] k = "bus_year" -> v - 2000
      [] OTHER -> v

\* The payload of statement s for the values vals of its fields.  000302,
\* 000310 and 000311 are tables of rows that name their ids (a tag of 1 says
\* that a thermistor is there); 3B02 packs the stages and the mode in one byte.
Payload(s, vals) ==
    LET words == [i \in DOMAIN vals |-> Word(s.fields[i], vals[i])] IN
    CASE s.reg = "000302" ->
            [i \in DOMAIN words |-> [tag |-> 1, id |-> TempIds[s.src][i], raw |-> words[i]]]
      [] s.reg = "000310" ->
            [i \in DOMAIN words |-> [id |-> CycleKeys[s.src][i], raw |-> words[i]]]
      [] s.reg = "000311" ->
            [i \in DOMAIN words |-> [id |-> HourKeys[s.src][i], raw |-> words[i]]]
      [] s.reg = "003b02" -> SubSeq(words, 1, 3) \o <<words[4] * 2^4 + words[5]>>
      [] OTHER -> words

\* The values of a statement: one field at an edge of its range, the others at
\* values that tell neighbouring places apart.
Usual(k, i) == IF k = "bus_year" THEN 2000 + (i % 2) ELSE i % 2

ValuesOf(s) ==
    UNION {{[i \in DOMAIN s.fields |-> IF i = j THEN v ELSE Usual(s.fields[i], i)] :
                v \in Meant(s.fields[j])} : j \in DOMAIN s.fields}

\* The statements with their values and payloads.
Utterances ==
    UNION {{[of |-> s, vals |-> v, p |-> Payload(s, v)] : v \in ValuesOf(s)} : s \in Statements}

Frame(op, src, dst, reg, p) == [op |-> op, src |-> src, dst |-> dst, reg |-> reg, p |-> p]

Foreign == 99

\* What else is on the bus: registers of the same number on other units, with
\* another layout or with sensors that are not there; the other direction of a
\* register that is decoded in one; requests and refusals.
OtherFrames ==
    LET regs == {s.reg : s \in Statements}
        rows(ids, tag) == [i \in DOMAIN ids |-> [tag |-> tag, id |-> ids[i], raw |-> Foreign]]
        p(u, r) == CASE r = "000302" -> IF u \in DOMAIN TempIds THEN rows(TempIds[u], 4) ELSE <<>>
                     [] r = "000310" -> IF u = "zc" THEN rows(CycleKeys[u], 1) ELSE <<>>
                     [] r = "000311" -> IF u = "zc" THEN rows(HourKeys[u], 1) ELSE <<>>
                     [] OTHER -> [i \in 1..6 |-> Foreign]
        own == {<<s.src, s.reg>> : s \in {x \in Statements : x.op = "ack06"}}
    IN  {Frame("ack06", u, "wall", r, p(u, r)) :
            <<u, r>> \in {ur \in {"odu", "idu", "zc", "wall", "sam"} \X regs :
                            ur \notin own \/ ur[2] = "000302"}}
        \cup {Frame("write", "sam", "wall", r, p("wall", r)) : r \in {"003b02", "003b05"}}
        \cup {Frame(op, "wall", u, r, <<>>) :
                op \in {"read", "nack"}, u \in {"odu", "idu"}, r \in regs}

-----------------------------------------------------------------------------
\* The decoders.  Each yields pairs of a field and its value.
Reading(k, v) == [field |-> k, value |-> v]
Read(n, p, ks) ==
    IF Len(p) < n THEN <<>> ELSE [i \in DOMAIN ks |-> Reading(ks[i], p[i])]

int16(w) == IF w >= 2^15 THEN w - 2^16 ELSE w
int8(w) == IF w >= 2^7 THEN w - 2^8 ELSE w

tlvNames(id) ==
    CASE id = 17 -> "outdoor_temp" [] id = 18 -> "outdoor_coil_temp"
      [] id = 20 -> "supply_air_temp" [] id = 48 -> "suction_temp"
      [] id = 69 -> "discharge_temp" [] id = 74 -> "superheat" [] OTHER -> ""

Temps(p) ==
    LET known == SelectSeq(p, LAMBDA r : r.tag = 1 /\ tlvNames(r.id) # "")
    IN  [i \in DOMAIN known |-> Reading(tlvNames(known[i].id), int16(known[i].raw))]

tlvTemps_OduOnly(owner, p) == IF owner = "odu" THEN Temps(p) ELSE <<>>

\* The rows of 000302 whose thermistor is there, of any owner.
tlvTemps(owner, p) == Temps(p)

oduShortStatus(p) == Read(1, p, <<"suction_pressure">>)
oduStatus(p) == Read(1, p, <<"line_voltage">>)
compressorRPM(p) == Read(2, p, <<"compressor_rpm_target", "compressor_rpm">>)
compressorStage(p) == Read(1, p, <<"compressor_stage">>)
oduAnalog(p) == Read(1, p, <<"odu_power_analog">>)

compressorStageCmd(p) ==
    IF Len(p) < 2 \/ p[1] = NaN THEN <<>>
    ELSE Read(2, p, <<"compressor_stage_cmd", "cool_mode_flag">>)

\* The field of a counter row, by register, owner and key.
iduCycles(k) == CASE k = 35 -> "heat_stage1_cycles" [] k = 36 -> "heat_stage2_cycles"
                  [] k = 43 -> "idu_power_cycles" [] k = 45 -> "blower_cycles" [] OTHER -> ""
iduHours(k) == CASE k = 37 -> "heat_stage1_hours" [] k = 38 -> "heat_stage2_hours"
                 [] k = 44 -> "idu_power_hours" [] k = 46 -> "blower_hours" [] OTHER -> ""
oduCycles(k) == CASE k = 40 -> "cool_cycles" [] k = 43 -> "odu_power_cycles" [] OTHER -> ""
oduHours(k) == CASE k = 42 -> "cool_hours" [] k = 44 -> "odu_power_hours" [] OTHER -> ""

counterName_ByKey(reg, owner, k) ==
    LET first(a, b) == IF a # "" THEN a ELSE b IN
    IF reg = "000310" THEN first(iduCycles(k), oduCycles(k)) ELSE first(iduHours(k), oduHours(k))

counterName(reg, owner, k) ==
    CASE reg = "000310" /\ owner = "idu" -> iduCycles(k)
      [] reg = "000311" /\ owner = "idu" -> iduHours(k)
      [] reg = "000310" /\ owner = "odu" -> oduCycles(k)
      [] reg = "000311" /\ owner = "odu" -> oduHours(k)

counters(reg, owner, p) ==
    LET known == SelectSeq(p, LAMBDA r : counterName(reg, owner, r.id) # "")
    IN  [i \in DOMAIN known |-> Reading(counterName(reg, owner, known[i].id), known[i].raw)]

airflowCmd(p) ==
    IF Len(p) < 3 THEN <<>>
    ELSE <<Reading("heat_stage", p[1]), Reading("cool_demand", IF p[2] = 2 THEN 1 ELSE 0),
           Reading("commanded_cfm", p[3])>>

blowerStatus(p) == Read(2, p, <<"blower_rpm_echo", "commanded_cfm_echo">>)

blowerTelemetry(p) ==
    SelectSeq(Read(4, p, <<"supply_cfm", "blower_rpm", "static_pressure", "blower_watts">>),
              LAMBDA r : r.value # NaN)

busTime(p) ==
    IF Len(p) < 2 THEN <<>>
    ELSE <<Reading("bus_time_minutes", (p[1] \div 2^8) * 60 + (p[1] % 2^8)),
           Reading("bus_weekday", p[2])>>

busDate(p) ==
    IF Len(p) < 3 THEN <<>>
    ELSE <<Reading("bus_day", p[1]), Reading("bus_month", p[2]), Reading("bus_year", 2000 + p[3])>>

\* The system readings of 3B02; its zones are ZoneState's.
systemState3B02(p) ==
    IF Len(p) < 4 THEN <<>>
    ELSE <<Reading("active_zones", p[1]), Reading("metric_units", p[2]),
           Reading("outdoor_temp_sam", int8(p[3])), Reading("active_stages", p[4] \div 2^4),
           Reading("system_mode", p[4] % 2^4)>>

accessoryLife3B05(p) ==
    Read(4, p, <<"filter_life_used", "uv_life_used", "humidifier_pad_life_used",
                 "vent_filter_life_used">>)

\* A reply speaks for its sender, a write for the unit it is sent to.
Owner(f) == IF f.op = "ack06" THEN f.src ELSE f.dst

\* The dispatch.  A frame without a decoder, or without a payload, yields
\* nothing.
Decode(f) ==
    LET o == Owner(f) IN
    IF f.op \notin {"ack06", "write"} \/ f.p = <<>> THEN <<>> ELSE
    CASE f.reg = "000302" -> tlvTemps(o, f.p)
      [] f.reg = "000303" /\ o = "odu" -> oduShortStatus(f.p)
      [] f.reg = "000304" /\ o = "odu" -> oduStatus(f.p)
      [] f.reg = "000604" /\ o = "odu" -> compressorRPM(f.p)
      [] f.reg = "000605" /\ o = "odu" /\ f.op = "write" -> compressorStageCmd(f.p)
      [] f.reg = "00060e" /\ o = "odu" -> compressorStage(f.p)
      [] f.reg = "000625" /\ o = "odu" -> oduAnalog(f.p)
      [] f.reg \in {"000310", "000311"} /\ o \in {"idu", "odu"} -> counters(f.reg, o, f.p)
      [] f.reg = "000305" /\ o = "idu" /\ f.op = "write" -> airflowCmd(f.p)
      [] f.reg = "000306" /\ o = "idu" -> blowerStatus(f.p)
      [] f.reg = "000413" /\ o = "idu" -> blowerTelemetry(f.p)
      [] f.reg = "000202" /\ o = "all" -> busTime(f.p)
      [] f.reg = "000203" /\ o = "all" -> busDate(f.p)
      [] f.reg = "003b02" /\ o = "wall" /\ f.op = "ack06" -> systemState3B02(f.p)
      [] f.reg = "003b05" /\ o = "wall" /\ f.op = "ack06" -> accessoryLife3B05(f.p)
      [] OTHER -> <<>>

-----------------------------------------------------------------------------
VARIABLES
    sam,     \* are SAM reads enabled (the flag -sam)?
    watch,   \* the field that is followed
    field,   \* State.sys[watch] as its value and the age of its TS, or None;
             \* ages beyond every horizon are alike
    stated   \* history: the newest value stated for watch, and its age, or None

vars == <<sam, watch, field, stated>>

Init ==
    /\ sam \in BOOLEAN
    /\ watch \in Fields
    /\ field = None
    /\ stated = None

\* Apply: a reading that is older than what is stored is dropped.
Apply(old, v, age) ==
    IF old # None /\ age > old.age THEN old ELSE [value |-> v, age |-> age]

\* The read loop decodes a frame and applies its readings.
Receive(f, age) ==
    LET rs == SelectSeq(Decode(f), LAMBDA r : r.field = watch)
    IN  field' = FoldLeft(LAMBDA old, r : Apply(old, r.value, age), field, rs)

\* A unit makes a statement; n of its words arrive.  A value that is not a
\* number states nothing, and neither does a payload that is cut short, except
\* for the rows it has.
Rows == {"000302", "000310", "000311"}

Hears(u, n, age) ==
    LET s == u.of
        vals == u.vals
        carried == {i \in DOMAIN s.fields :
                      s.fields[i] = watch /\ vals[i] # NaN
                          /\ (n = Len(u.p) \/ (s.reg \in Rows /\ i <= n))
                          /\ ~(watch = "cool_mode_flag" /\ vals[1] = NaN)}
    IN  /\ Receive(Frame(s.op, s.src, s.dst, s.reg, SubSeq(u.p, 1, n)), age)
        /\ stated' = IF carried = {} THEN stated
                     ELSE Apply(stated, vals[CHOOSE i \in carried : TRUE], age)
        /\ UNCHANGED <<sam, watch>>

\* Is s ever made?  The daemon polls the SAM registers only when it is told to.
Asked(s) == s.reg \in SamRegs => sam

Statement(u) ==
    /\ Asked(u.of)
    /\ \E age \in 0..MaxLate, n \in {Len(u.p) - 1, Len(u.p)} : Hears(u, n, age)

OtherFrame(f) ==
    /\ \E age \in 0..MaxLate : Receive(f, age)
    /\ UNCHANGED <<sam, watch, stated>>

\* Time passes.
Older(x) == IF x = None THEN None ELSE [x EXCEPT !.age = Min({@ + 1, SlowHorizon + 1})]

Clock ==
    /\ field' = Older(field)
    /\ stated' = Older(stated)
    /\ UNCHANGED <<sam, watch>>

Next ==
    \/ \E u \in Utterances : Statement(u)
    \/ \E f \in OtherFrames : OtherFrame(f)
    \/ Clock

\* A complete, finite statement of the watched field as it is made.
Repeats ==
    \E u \in Utterances :
        /\ Asked(u.of) /\ watch \in ToSet(u.of.fields)
        /\ \A i \in DOMAIN u.vals : u.vals[i] # NaN
        /\ Hears(u, Len(u.p), 0)

\* The thermostat reads and writes the registers of the equipment in turn, and
\* the scheduler, if there is one, the SAM registers, for ever: every field that
\* is stated at all is stated again and again.
Fairness == WF_vars(Repeats)

Spec == Init /\ [][Next]_vars /\ Fairness

-----------------------------------------------------------------------------
horizon_Default(k) == FastHorizon

\* How old a field may be.
horizon(k) == IF k \in Accessories THEN SlowHorizon ELSE FastHorizon

\* Snapshot marks a field stale by its age.
Stale(k, f) == f.age > horizon(k)

Unknown == -1

\* The payload a sensor of field k publishes for its field f: "None" when it
\* is absent or stale, the mode's name (here its number, Unknown above 2), the
\* remaining life instead of the used one, the number itself.
publishField(k, f) ==
    IF f = None \/ Stale(k, f) THEN None
    ELSE CASE k = "system_mode" -> IF f.value < 3 THEN f.value ELSE Unknown
           [] k = "filter_life_used" -> 100 - f.value
           [] OTHER -> f.value

\* The fields of the system sensors.
sysEntities ==
    {"compressor_stage", "compressor_rpm", "supply_cfm", "blower_rpm", "static_pressure",
     "blower_watts", "suction_pressure", "outdoor_coil_temp", "discharge_temp", "outdoor_temp",
     "supply_air_temp", "suction_temp", "superheat", "line_voltage", "filter_life_used",
     "heat_stage1_cycles", "heat_stage2_cycles", "blower_cycles", "cool_cycles",
     "heat_stage1_hours", "heat_stage2_hours", "blower_hours", "cool_hours",
     "idu_power_cycles", "odu_power_cycles", "system_mode"}

Shown == publishField(watch, field)

-----------------------------------------------------------------------------
\* What a sensor should show for the value v that was stated for field k.
Promised(k, v) ==
    CASE k = "system_mode" -> IF v \in {0, 1, 2} THEN v ELSE Unknown
      [] k = "filter_life_used" -> 100 - v
      [] OTHER -> v

\* No sensor shows stale data as fresh, or something else as its own: what it
\* shows is the newest value stated for its field, wherever that lies in the
\* field's range, and was stated no longer ago than the horizon; whatever
\* counters, absent thermistors and other layouts units put in registers of the
\* same number, whatever arrives cut short, not finite or out of order.  A field
\* has one unit that states it, but for supply_air_temp: 000302 is decoded for
\* any owner, so the indoor unit and a zone controller with a leaving-air
\* thermistor take turns on it.  Without SAM reads nothing is stated for the
\* SAM fields, and their sensors show "None".
ShownIsStated ==
    Shown # None => /\ stated # None
                    /\ Shown = Promised(watch, stated.value)
                    /\ stated.age <= IF watch \in Accessories THEN SlowHorizon ELSE FastHorizon

\* A field that is stated at the pace of the bus, or of the hourly reads, does
\* not flicker to "None" in between.
KeptUpIsShown ==
    stated # None /\ stated.age <= (IF watch \in Accessories THEN SlowPeriod ELSE FastPeriod)
        => Shown # None

\* The sensors of which docs/MQTT-CONTRACT.md:65-69 says that they are SAM-sourced.
SamSourced == {"filter_life_used", "system_mode"}

\* Every system sensor has a source, and these two alone need SAM reads for it:
\* as long as the bus goes on, each of the others shows a value again and again
\* on a passive install too.
EverySensorReports ==
    watch \in sysEntities /\ (watch \in SamSourced => sam) ~> Shown # None
=============================================================================
