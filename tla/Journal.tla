------------------------------- MODULE Journal -------------------------------
(***************************************************************************)
(* The event journal (state/journal.go): the known-fault set, the power-   *)
(* counter reference and the gap verdict it keeps in memory, and the JSONL *)
(* file they are replayed from after a restart.  The panel's fault list    *)
(* and the equipment's power counters are the environment.                 *)
(*                                                                         *)
(* The file is modelled by what a replay of it yields.  Each operation     *)
(* holds the journal's lock, so the lines it appends are one step; a write *)
(* error or a crash may stop it after any of them.                         *)
(***************************************************************************)
EXTENDS Integers, FiniteSetsExt

CONSTANTS
    NumEntries,   \* fault entries the panel may list, in the order in which they
                  \* appear; an entry stands for its faultKey, a code and a first
                  \* time, so that no two entries share a key
    CountMod,     \* the panel's count field holds values below CountMod (2^7)
    MaxRecur,     \* MaxRecur[i]: bound on the recurrences of entry i
    MaxLosses,    \* bound on the power losses of each unit
    MaxEvents,    \* bound on the faults, recurrences and power losses together
    Tearing,      \* may a failed write leave part of a line behind?
    Missing       \* stands for a key that is not in its map

Entries == 1..NumEntries
Counters == {"idu", "odu"}

ASSUME SizeAssumption == NumEntries \in Nat
ASSUME CountAssumption ==
    CountMod \in Nat \ {0} /\ MaxRecur \in [Entries -> Nat] /\ MaxLosses \in Nat /\ MaxEvents \in Nat /\ Tearing \in BOOLEAN

FaultSet == [active : BOOLEAN, count : 0..CountMod - 1]
CounterValues == 0..MaxLosses

ASSUME MissingAssumption == Missing \notin FaultSet \cup [Counters -> CounterValues] \cup Int

VARIABLES
    \* The environment.
    list,        \* list[i]: the panel's entry i, or Missing
    recurred,    \* recurrences of each entry so far
    lost,        \* how often each unit has lost power
    power,       \* the units' power-on counters: the losses they have counted
    \* The daemon.
    up,          \* is the daemon running?
    faults,      \* Journal.faults: what is known of each entry, or Missing
    reference,   \* Journal.counters, Missing when empty
    err,         \* Journal.err, which also blocks the buffered writer for good
    seen,        \* daemon.counters
    classified,  \* daemon.classified
    \* The file.
    disk,        \* what a replay yields: [faults, reference]
    torn,        \* does the file end in part of a line?
    \* History variables, read by the properties only.
    read,        \* the list this step gave to NoteFaults, or Missing
    verdict,     \* the gap verdict this step gave, or Missing
    seenLost,    \* lost[c] when seen[c] was read
    refLost,     \* lost[c] when disk.reference[c] was read
    missed,      \* the units that had counted a loss since the reference's reading
                 \* when this run started, until the run has classified the gap
    tear         \* was a line ever lost to a torn tail?

env == <<list, recurred, lost, power>>
daemon == <<up, faults, reference, err, seen, classified>>
hist == <<seenLost, refLost, missed, tear>>
vars == <<env, daemon, disk, torn, read, verdict, hist>>

NoFaults == [i \in Entries |-> Missing]
Unread == [c \in Counters |-> Missing]
NoLosses == [c \in Counters |-> 0]

\* What has happened to the equipment stays below its bound.
SumOf(f) == MapThenSumSet(LAMBDA x : f[x], DOMAIN f)
Eventful == SumOf(recurred) + SumOf(lost) < MaxEvents

Init ==
    /\ list = NoFaults
    /\ recurred = [i \in Entries |-> 0]
    /\ lost = NoLosses
    /\ power = NoLosses
    /\ up = TRUE
    /\ faults = NoFaults
    /\ reference = Missing
    /\ err = FALSE
    /\ seen = Unread
    /\ classified = FALSE
    /\ disk = [faults |-> NoFaults, reference |-> Missing]
    /\ torn = FALSE
    /\ read = Missing
    /\ verdict = Missing
    /\ seenLost = Unread
    /\ refLost = NoLosses
    /\ missed = {}
    /\ tear = FALSE

-----------------------------------------------------------------------------
\* The panel (external): a fault appears, clears by itself, recurs, is pushed
\* off the end of the ten-entry list by newer ones, or the user resets the
\* list.
PanelSet(l) ==
    /\ list' = l
    /\ read' = Missing /\ verdict' = Missing
    /\ UNCHANGED <<lost, power, daemon, disk, torn, hist>>

FaultAppears(i) ==
    /\ Eventful
    /\ recurred[i] = 0 /\ \A j \in 1..i - 1 : recurred[j] > 0
    /\ recurred' = [recurred EXCEPT ![i] = 1]
    /\ PanelSet([list EXCEPT ![i] = [active |-> TRUE, count |-> 1 % CountMod]])

FaultClears(i) ==
    /\ list[i] # Missing /\ list[i].active
    /\ UNCHANGED recurred
    /\ PanelSet([list EXCEPT ![i].active = FALSE])

FaultRecurs(i) ==
    /\ Eventful
    /\ list[i] # Missing /\ recurred[i] < MaxRecur[i]
    /\ recurred' = [recurred EXCEPT ![i] = @ + 1]
    /\ PanelSet([list EXCEPT ![i].active = TRUE, ![i].count = (@ + 1) % CountMod])

FaultDropsOff(i) ==
    /\ list[i] # Missing /\ \E j \in Entries : j > i /\ list[j] # Missing
    /\ UNCHANGED recurred
    /\ PanelSet([list EXCEPT ![i] = Missing])

PanelReset ==
    /\ UNCHANGED recurred
    /\ PanelSet(NoFaults)

\* The equipment (external): one unit or both lose power.  The outdoor unit
\* counts it at once; the indoor unit commits its counters about once a day.
PowerLoss(units) ==
    /\ Eventful
    /\ \A c \in units : lost[c] < MaxLosses
    /\ lost' = [c \in Counters |-> IF c \in units THEN lost[c] + 1 ELSE lost[c]]
    /\ power' = [power EXCEPT !["odu"] = lost'["odu"]]
    /\ read' = Missing /\ verdict' = Missing
    /\ UNCHANGED <<list, recurred, daemon, disk, torn, hist>>

DailyRollup ==
    /\ power' = [power EXCEPT !["idu"] = lost["idu"]]
    /\ read' = Missing /\ verdict' = Missing
    /\ UNCHANGED <<list, recurred, lost, daemon, disk, torn, hist>>

-----------------------------------------------------------------------------
\* What may become of the lines an operation appends.  A line after a torn
\* tail runs into it and is lost to every later replay.  A failing write, and a
\* crash, keep some of the lines only; after a failure nothing is written
\* until the daemon restarts.
Tears == IF Tearing THEN BOOLEAN ELSE {FALSE}

append(lines) ==
    IF lines = {} \/ err
    THEN {[kept |-> {}, up |-> TRUE, err |-> err, torn |-> torn, tear |-> tear]}
    ELSE {[kept |-> IF torn THEN lines \ {x} ELSE lines,
           up |-> TRUE, err |-> FALSE, torn |-> FALSE, tear |-> tear \/ torn] : x \in lines}
         \cup
         {o \in [kept : SUBSET lines, up : BOOLEAN, err : BOOLEAN, torn : Tears,
                 tear : {tear \/ torn}] : o.kept # lines /\ o.err = o.up}

\* The daemon's memory, and the fate of its lines, after an operation: all of
\* it is gone if the operation did not survive.
Outcome(o, f, r, s, c) ==
    /\ up' = o.up
    /\ err' = (o.up /\ o.err)
    /\ torn' = o.torn
    /\ tear' = o.tear
    /\ faults' = IF o.up THEN f ELSE NoFaults
    /\ reference' = IF o.up THEN r ELSE Missing
    /\ seen' = IF o.up THEN s ELSE Unread
    /\ classified' = (o.up /\ c)
    /\ missed' = IF o.up /\ ~c THEN missed ELSE {}

-----------------------------------------------------------------------------
Changes_ActiveOnly(prev, f) == prev = Missing \/ prev.active # f.active

\* Is fault f news, given what is known of it?
Changes(prev, f) ==
    \/ prev = Missing
    \/ prev.active /\ ~f.active
    \/ f.count > prev.count

\* The known faults after a read of list l: an empty list wipes them all, any
\* other updates the ones it brings news of.
Noted(m, l) ==
    IF \A i \in Entries : l[i] = Missing THEN NoFaults
    ELSE [i \in Entries |-> IF l[i] # Missing /\ Changes(m[i], l[i]) THEN l[i] ELSE m[i]]

Journalled_SeenOnly(m, n) == {i \in Entries : m[i] = Missing /\ n[i] # Missing}

\* The entries NoteFaults appends a line for.
Journalled(m, n) == {i \in Entries : n[i] # m[i]}

\* What DecodeFaults makes of the list: a slot whose time is no time of day is
\* skipped like an empty one.
DecodeFaults(corrupt) == [i \in Entries |-> IF i \in corrupt THEN Missing ELSE list[i]]

\* A 4202 reply was decoded: NoteFaults of the entries that could be read.
NoteFaults ==
    /\ up
    /\ \E corrupt \in SUBSET {i \in Entries : list[i] # Missing} :
       LET l == DecodeFaults(corrupt)
           n == Noted(faults, l)
       IN  \E o \in append(Journalled(faults, n)) :
            /\ Outcome(o, n, reference, seen, classified)
            /\ disk' = [disk EXCEPT !.faults =
                          [i \in Entries |-> IF i \in o.kept THEN n[i] ELSE @[i]]]
            /\ read' = IF o.up THEN l ELSE Missing
            /\ seenLost' = IF o.up THEN seenLost ELSE Unread
    /\ verdict' = Missing
    /\ UNCHANGED <<env, refLost>>

-----------------------------------------------------------------------------
GapOf_AllChanged(vals) ==
    IF reference = Missing THEN "no_reference"
    ELSE IF \A c \in Counters : vals[c] # reference[c]
    THEN "hvac_power_loss" ELSE "monitoring_gap"

\* ClassifyGap: compare the first readings of this run with the reference.
GapOf(vals) ==
    IF reference = Missing THEN "no_reference"
    ELSE IF vals # reference THEN "hvac_power_loss" ELSE "monitoring_gap"

\* Does NotePowerCounters journal a new reference?
Changed(ref) == ref # reference

Both(vals) == \A c \in Counters : vals[c] # Missing

\* A counter reading was decoded: trackCounter, which classifies the gap once
\* per run, when both counters are known, and then journals a new reference.
trackCounter(c) ==
    /\ up
    /\ LET vals == [seen EXCEPT ![c] = power[c]]
           at == [seenLost EXCEPT ![c] = lost[c]]
           both == Both(vals)
           ref == IF both THEN vals ELSE reference
           lines == (IF both /\ ~classified THEN {"outage_classified"} ELSE {})
                        \cup (IF Changed(ref) THEN {"power_counters"} ELSE {})
       IN \E o \in append(lines) :
            /\ Outcome(o, faults, ref, vals, classified \/ both)
            /\ disk' = IF "power_counters" \in o.kept
                       THEN [disk EXCEPT !.reference = ref] ELSE disk
            /\ refLost' = IF "power_counters" \in o.kept THEN at ELSE refLost
            /\ verdict' = IF both /\ ~classified
                          THEN [gap |-> GapOf(vals), missed |-> missed]
                          ELSE Missing
            /\ read' = Missing
            /\ seenLost' = IF o.up THEN at ELSE Unread
    /\ UNCHANGED env

\* Any event that no replay looks at (device_lost, bus_silent, ...).
OtherEvent ==
    /\ up
    /\ \E o \in append({"event"}) :
        /\ Outcome(o, faults, reference, seen, classified)
        /\ seenLost' = IF o.up THEN seenLost ELSE Unread
    /\ read' = Missing /\ verdict' = Missing
    /\ UNCHANGED <<env, disk, refLost>>

\* The daemon is killed between two operations.
Crash ==
    /\ up
    /\ Outcome([up |-> FALSE, err |-> FALSE, torn |-> torn, tear |-> tear],
               NoFaults, Missing, Unread, FALSE)
    /\ seenLost' = Unread
    /\ read' = Missing /\ verdict' = Missing
    /\ UNCHANGED <<env, disk, refLost>>

\* OpenJournal: replay the file.
OpenJournal ==
    /\ ~up
    /\ up' = TRUE
    /\ faults' = disk.faults
    /\ reference' = disk.reference
    /\ missed' = {c \in Counters : power[c] > refLost[c]}
    /\ read' = Missing /\ verdict' = Missing
    /\ UNCHANGED <<env, err, seen, classified, disk, torn, seenLost, refLost, tear>>

Next ==
    \/ \E i \in Entries :
        FaultAppears(i) \/ FaultClears(i) \/ FaultRecurs(i) \/ FaultDropsOff(i)
    \/ PanelReset
    \/ \E units \in SUBSET Counters \ {{}} : PowerLoss(units)
    \/ DailyRollup
    \/ NoteFaults \/ OtherEvent \/ Crash \/ OpenJournal
    \/ \E c \in Counters : trackCounter(c)

Spec == Init /\ [][Next]_vars

-----------------------------------------------------------------------------
\* A restart forgets nothing: as long as no write has failed and no line ran
\* into a torn tail, a replay of the file yields exactly what the daemon knows,
\* wherever earlier runs of it were killed or had failed writes.
ReplayYieldsMemory ==
    up /\ ~err /\ ~tear => disk = [faults |-> faults, reference |-> reference]

\* After a read every fault that could be read is known as the panel shows it,
\* with its flag and count, whatever happened to it between two reads, whatever
\* of an earlier read a crash has lost, and whatever slots could not be read.
\* Once the count of a fault has wrapped, what is left of this is that a fault
\* the panel has cleared is not reported active.  After an empty read no fault
\* is known.
ListedIsKnown ==
    read # Missing =>
        /\ \A i \in Entries : read[i] # Missing =>
            /\ recurred[i] < CountMod => faults[i] = read[i]
            /\ ~read[i].active => faults[i] # Missing /\ ~faults[i].active
        /\ (\A i \in Entries : read[i] = Missing) => faults = NoFaults

\* A gap is called a monitoring_gap only if no loss that a unit had counted when
\* this run started came after the reference's reading of that unit: the outdoor
\* unit kept its power, and the indoor unit lost it since its last daily commit
\* at most, the limitation the comment on ClassifyGap documents.  It does not
\* matter which writes failed and in which order the two counters were read.
GapIsSound ==
    verdict # Missing => (verdict.gap = "monitoring_gap" => verdict.missed = {})

ActiveFaults == {i \in Entries : faults[i] # Missing /\ faults[i].active}

\* ActiveFaults "returns the currently-active known faults", and the contract's
\* last_fault is "None when no fault is active": after a read of the whole list,
\* a fault reported active is one the panel lists as active.
ActiveIsListed ==
    read = list => \A i \in ActiveFaults : list[i] # Missing /\ list[i].active
=============================================================================
