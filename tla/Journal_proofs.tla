---------------------------- MODULE Journal_proofs ----------------------------
(***************************************************************************)
(* Proofs about the event journal: what its memory and its file agree on,  *)
(* and what its verdicts are worth, for every number of fault entries, all *)
(* counts and power losses, and every crash, failed write and torn line.   *)
(***************************************************************************)
EXTENDS Journal, TLAPS

Known == [Entries -> FaultSet \cup {Missing}]
References == [Counters -> CounterValues] \cup {Missing}

\* The types of what the panel and the journal hold.
TypeInv ==
    /\ list \in Known /\ recurred \in [Entries -> Nat]
    /\ lost \in [Counters -> CounterValues] /\ power \in [Counters -> CounterValues]
    /\ up \in BOOLEAN /\ err \in BOOLEAN /\ classified \in BOOLEAN
    /\ torn \in BOOLEAN /\ tear \in BOOLEAN
    /\ faults \in Known /\ reference \in References
    /\ disk \in [faults : Known, reference : References]
    /\ seen \in [Counters -> CounterValues \cup {Missing}]
    /\ seenLost \in [Counters -> CounterValues \cup {Missing}]
    /\ refLost \in [Counters -> CounterValues] /\ missed \in SUBSET Counters

\* A daemon that is down has no memory.
DownInv == ~up => ~err /\ ~classified /\ seen = Unread

\* f was true of a fault that is now g: it has recurred since, or at most been
\* cleared.
Older(f, g) == f.count < g.count \/ (f.count = g.count /\ (f.active \/ ~g.active))

\* What memory m, or the file, says of a fault whose count has not wrapped is
\* older than what the panel says of it.
Behind(m) ==
    \A i \in Entries :
        /\ recurred[i] = 0 => m[i] = Missing
        /\ recurred[i] < CountMod /\ list[i] # Missing /\ m[i] # Missing
            => Older(m[i], list[i])

FaultInv ==
    /\ \A i \in Entries :
        /\ recurred[i] = 0 => list[i] = Missing
        /\ recurred[i] < CountMod /\ list[i] # Missing => list[i].count = recurred[i]
    /\ Behind(faults)
    /\ Behind(disk.faults)

\* A unit has counted no loss it has not had, so a reading is at most the losses
\* at its time.  Until the gap is classified the reference is the file's, and of
\* a unit that had missed a loss every reading of this run exceeds the losses at
\* the reference's.
CounterInv ==
    /\ \A c \in Counters : power[c] <= lost[c]
    /\ \A c \in Counters : seen[c] # Missing => seenLost[c] # Missing /\ seen[c] <= seenLost[c]
    /\ disk.reference # Missing => \A c \in Counters : disk.reference[c] <= refLost[c]
    /\ up /\ ~classified =>
        /\ reference = disk.reference
        /\ \A c \in missed :
            refLost[c] < power[c] /\ (seen[c] # Missing => refLost[c] < seen[c])

IInv ==
    /\ TypeInv /\ DownInv /\ FaultInv /\ CounterInv
    /\ ReplayYieldsMemory /\ ListedIsKnown /\ GapIsSound

-----------------------------------------------------------------------------
\* A fault that is no news is known exactly as it is.
LEMMA NoNews ==
    ASSUME NEW p \in FaultSet, NEW f \in FaultSet, Older(p, f), ~Changes(p, f)
    PROVE  p = f
<1>1. p.count \in Int /\ f.count \in Int /\ p.active \in BOOLEAN /\ f.active \in BOOLEAN
    BY CountAssumption DEF FaultSet
<1>2. ~(p.active /\ ~f.active) /\ ~(f.count > p.count)
    BY DEF Changes
<1>3. p.count = f.count
    BY <1>1, <1>2 DEF Older
<1>4. p.active \/ ~f.active
    BY <1>1, <1>3 DEF Older
<1>5. p.active = f.active
    BY <1>1, <1>2, <1>4
<1> QED BY <1>3, <1>5 DEF FaultSet

\* What may become of the lines of an operation: unless the journal has failed,
\* is gone, or a line ran into a torn tail, all of them are in the file.
LEMMA AppendIs ==
    ASSUME TypeInv, NEW lines, NEW o \in append(lines)
    PROVE  /\ o.kept \subseteq lines
           /\ o.up \in BOOLEAN /\ o.err \in BOOLEAN /\ o.torn \in BOOLEAN /\ o.tear \in BOOLEAN
           /\ tear => o.tear
           /\ err /\ o.up => o.err
           /\ o.up /\ ~o.err /\ ~o.tear => o.kept = lines
<1>1. err \in BOOLEAN /\ torn \in BOOLEAN /\ tear \in BOOLEAN
    BY DEF TypeInv
<1>2. CASE lines = {} \/ err
    <2>1. o = [kept |-> {}, up |-> TRUE, err |-> err, torn |-> torn, tear |-> tear]
        BY <1>2 DEF append
    <2>2. o.kept = {} /\ o.up = TRUE /\ o.err = err /\ o.torn = torn /\ o.tear = tear
        BY <2>1
    <2> QED BY <1>1, <1>2, <2>2, Zenon
<1>3. CASE ~(lines = {} \/ err)
    <2>1. CASE \E x \in lines :
                o = [kept |-> IF torn THEN lines \ {x} ELSE lines,
                     up |-> TRUE, err |-> FALSE, torn |-> FALSE, tear |-> tear \/ torn]
        <3>1. PICK x \in lines :
                o = [kept |-> IF torn THEN lines \ {x} ELSE lines,
                     up |-> TRUE, err |-> FALSE, torn |-> FALSE, tear |-> tear \/ torn]
            BY <2>1
        <3>2. /\ o.kept = IF torn THEN lines \ {x} ELSE lines
              /\ o.up = TRUE /\ o.err = FALSE /\ o.torn = FALSE /\ o.tear = (tear \/ torn)
            BY <3>1
        <3>3. o.kept \subseteq lines /\ (~torn => o.kept = lines)
            BY <3>2
        <3> QED BY <1>1, <1>3, <3>2, <3>3, Zenon
    <2>2. CASE o \in {q \in [kept : SUBSET lines, up : BOOLEAN, err : BOOLEAN, torn : Tears,
                             tear : {tear \/ torn}] : q.kept # lines /\ q.err = q.up}
        <3>1. /\ o.kept \subseteq lines /\ o.up \in BOOLEAN /\ o.err \in BOOLEAN
              /\ o.torn \in Tears /\ o.tear = (tear \/ torn) /\ o.err = o.up
            BY <2>2
        <3>2. o.torn \in BOOLEAN
            BY <3>1 DEF Tears
        <3> QED BY <1>1, <1>3, <3>1, <3>2, Zenon
    <2> QED BY <1>3, <2>1, <2>2 DEF append
<1> QED BY <1>2, <1>3

\* The daemon after an operation with outcome o.
LEMMA OutcomeIs ==
    ASSUME NEW o, o.up \in BOOLEAN, o.err \in BOOLEAN, o.torn \in BOOLEAN, o.tear \in BOOLEAN,
           NEW f \in Known, NEW r \in References,
           NEW s \in [Counters -> CounterValues \cup {Missing}], NEW c \in BOOLEAN,
           Outcome(o, f, r, s, c), missed \in SUBSET Counters
    PROVE  /\ up' \in BOOLEAN /\ err' \in BOOLEAN /\ classified' \in BOOLEAN
           /\ torn' \in BOOLEAN /\ tear' \in BOOLEAN
           /\ faults' \in Known /\ reference' \in References
           /\ seen' \in [Counters -> CounterValues \cup {Missing}]
           /\ DownInv'
           /\ up' = o.up /\ tear' = o.tear
           /\ up' => err' = o.err /\ faults' = f /\ reference' = r /\ seen' = s /\ classified' = c
           /\ ~up' => faults' = NoFaults /\ seen' = Unread
           /\ missed' \in SUBSET Counters
           /\ up' /\ ~classified' => missed' = missed
<1>1. NoFaults \in Known /\ Missing \in References
      /\ Unread \in [Counters -> CounterValues \cup {Missing}]
    BY DEF NoFaults, Known, References, Unread
<1>2. /\ up' = o.up /\ err' = (o.up /\ o.err) /\ torn' = o.torn /\ tear' = o.tear
      /\ classified' = (o.up /\ c)
    BY DEF Outcome
<1>3. /\ faults' = IF o.up THEN f ELSE NoFaults
      /\ reference' = IF o.up THEN r ELSE Missing
      /\ seen' = IF o.up THEN s ELSE Unread
      /\ missed' = IF o.up /\ ~c THEN missed ELSE {}
    BY DEF Outcome
<1>4. CASE o.up
    <2>1. up' = TRUE /\ err' = o.err /\ classified' = c
        BY <1>2, <1>4, Zenon
    <2>2. faults' = f /\ reference' = r /\ seen' = s
        BY <1>3, <1>4
    <2>3. missed' \in SUBSET Counters /\ (~classified' => missed' = missed)
        BY <1>3, <1>4, <2>1
    <2> QED BY <1>2, <1>4, <2>1, <2>2, <2>3, Zenon DEF DownInv
<1>5. CASE ~o.up
    <2>1. up' = FALSE /\ err' = FALSE /\ classified' = FALSE
        BY <1>2, <1>5, Zenon
    <2>2. faults' = NoFaults /\ reference' = Missing /\ seen' = Unread
        BY <1>3, <1>5
    <2>3. DownInv'
        BY <2>1, <2>2 DEF DownInv, Unread
    <2>4. missed' \in SUBSET Counters
        BY <1>3
    <2> QED BY <1>1, <1>2, <1>5, <2>1, <2>2, <2>3, <2>4, Zenon
<1> QED BY <1>4, <1>5

-----------------------------------------------------------------------------
\* A step that reads no list and gives no verdict says nothing wrong.
LEMMA NothingSaid ==
    ASSUME read' = Missing, verdict' = Missing
    PROVE  ListedIsKnown' /\ GapIsSound'
BY DEF ListedIsKnown, GapIsSound

\* The panel does not touch the journal.
LEMMA PanelStep ==
    ASSUME IInv, NEW l \in Known, PanelSet(l), recurred' \in [Entries -> Nat], FaultInv'
    PROVE  IInv'
<1>1. /\ list' = l /\ read' = Missing /\ verdict' = Missing
      /\ lost' = lost /\ power' = power /\ up' = up /\ faults' = faults /\ reference' = reference
      /\ err' = err /\ seen' = seen /\ classified' = classified /\ disk' = disk
      /\ torn' = torn /\ seenLost' = seenLost /\ refLost' = refLost /\ missed' = missed
      /\ tear' = tear
    BY DEF PanelSet, daemon, hist
<1>2. TypeInv'
    BY <1>1 DEF IInv, TypeInv
<1>3. DownInv'
    BY <1>1 DEF IInv, DownInv, Unread
<1>4. CounterInv'
    BY <1>1 DEF IInv, CounterInv
<1>5. ReplayYieldsMemory'
    BY <1>1 DEF IInv, ReplayYieldsMemory
<1> QED BY <1>1, <1>2, <1>3, <1>4, <1>5, NothingSaid DEF IInv

\* The panel makes g of entry i: nothing, or something younger than all that is
\* known of it.
PanelMoves(i, g, r) ==
    /\ PanelSet([list EXCEPT ![i] = g]) /\ recurred' = [recurred EXCEPT ![i] = r]
    /\ recurred[i] <= r
    /\ r = 0 => g = Missing
    /\ r < CountMod /\ g # Missing => g.count = r
    /\ \A m \in {faults, disk.faults} :
        r < CountMod /\ g # Missing /\ m[i] # Missing => Older(m[i], g)

\* Such a move keeps everything that is known older than the list.
LEMMA PanelEntry ==
    ASSUME IInv, NEW i \in Entries, NEW g \in FaultSet \cup {Missing}, NEW r \in Nat,
           PanelMoves(i, g, r)
    PROVE  IInv'
<1>0. /\ PanelSet([list EXCEPT ![i] = g]) /\ recurred' = [recurred EXCEPT ![i] = r]
      /\ list' = [list EXCEPT ![i] = g] /\ faults' = faults /\ disk' = disk
      /\ recurred[i] <= r
      /\ r = 0 => g = Missing
      /\ r < CountMod /\ g # Missing => g.count = r
      /\ \A m \in {faults, disk.faults} :
            r < CountMod /\ g # Missing /\ m[i] # Missing => Older(m[i], g)
    BY DEF PanelMoves, PanelSet, daemon
<1>1. /\ list \in Known /\ recurred \in [Entries -> Nat]
      /\ list'[i] = g /\ recurred'[i] = r
      /\ \A j \in Entries \ {i} : list'[j] = list[j] /\ recurred'[j] = recurred[j]
      /\ list' \in Known /\ recurred' \in [Entries -> Nat]
    BY <1>0 DEF IInv, TypeInv, Known
<1>2. faults' = faults /\ disk'.faults = disk.faults
    BY <1>0
<1>3. ASSUME NEW m \in {faults, disk.faults}, Behind(m)
      PROVE  \A j \in Entries :
                /\ recurred'[j] = 0 => m[j] = Missing
                /\ recurred'[j] < CountMod /\ list'[j] # Missing /\ m[j] # Missing
                    => Older(m[j], list'[j])
    <2> TAKE j \in Entries
    <2>1. CASE j # i
        BY <1>1, <1>3, <2>1 DEF Behind
    <2>2. CASE j = i
        <3>1. r = 0 => recurred[i] = 0
            BY <1>0, <1>1
        <3> QED BY <1>0, <1>1, <1>3, <2>2, <3>1 DEF Behind
    <2> QED BY <2>1, <2>2
<1>4. Behind(faults)' /\ Behind(disk.faults)'
    BY <1>2, <1>3 DEF IInv, FaultInv, Behind
<1>5. \A j \in Entries :
        /\ recurred'[j] = 0 => list'[j] = Missing
        /\ recurred'[j] < CountMod /\ list'[j] # Missing => list'[j].count = recurred'[j]
    BY <1>0, <1>1 DEF IInv, FaultInv
<1>6. FaultInv'
    BY <1>4, <1>5 DEF FaultInv
<1> QED BY <1>0, <1>1, <1>6, PanelStep

\* A fault that appears, clears, recurs or drops off.
LEMMA PanelInv ==
    ASSUME IInv, NEW i \in Entries,
           FaultAppears(i) \/ FaultClears(i) \/ FaultRecurs(i) \/ FaultDropsOff(i)
    PROVE  IInv'
<1>1. /\ list \in Known /\ recurred \in [Entries -> Nat] /\ FaultInv
      /\ faults \in Known /\ disk.faults \in Known
      /\ list[i] \in FaultSet \cup {Missing} /\ recurred[i] \in Nat
    BY DEF IInv, TypeInv, Known
<1>2. CountMod \in Nat \ {0} /\ Missing \notin FaultSet
    BY CountAssumption, MissingAssumption
<1>3. \A g \in FaultSet : g.count \in 0..CountMod - 1 /\ g.active \in BOOLEAN
    BY DEF FaultSet
<1>4. \A m \in {faults, disk.faults} :
        /\ Behind(m) /\ m[i] \in FaultSet \cup {Missing}
        /\ recurred[i] = 0 => m[i] = Missing
        /\ recurred[i] < CountMod /\ list[i] # Missing /\ m[i] # Missing
            => Older(m[i], list[i])
    BY <1>1 DEF FaultInv, Behind, Known
<1>5. CASE FaultAppears(i)
    <2> DEFINE g == [active |-> TRUE, count |-> 1 % CountMod]
    <2>1. 1 % CountMod \in 0..CountMod - 1 /\ (1 < CountMod => 1 % CountMod = 1)
        BY <1>2
    <2>2. g \in FaultSet /\ g.count = 1 % CountMod
        BY <2>1 DEF FaultSet
    <2>3. /\ recurred[i] = 0 /\ recurred' = [recurred EXCEPT ![i] = 1]
          /\ PanelSet([list EXCEPT ![i] = g])
        BY <1>5 DEF FaultAppears
    <2>4. \A m \in {faults, disk.faults} : m[i] = Missing
        BY <1>4, <2>3
    <2> HIDE DEF g
    <2>5. PanelMoves(i, g, 1)
        BY <2>1, <2>2, <2>3, <2>4 DEF PanelMoves
    <2> QED BY <2>2, <2>5, PanelEntry
<1>6. CASE FaultClears(i)
    <2> DEFINE g == [list[i] EXCEPT !.active = FALSE]
    <2>1. list[i] \in FaultSet /\ list[i].active
        BY <1>1, <1>6 DEF FaultClears
    <2>2. g \in FaultSet /\ g.count = list[i].count /\ g.active = FALSE
        BY <2>1 DEF FaultSet
    <2>3. PanelSet([list EXCEPT ![i] = g]) /\ recurred' = [recurred EXCEPT ![i] = recurred[i]]
        BY <1>1, <1>6 DEF FaultClears
    <2> HIDE DEF g
    <2>4. ASSUME NEW f \in FaultSet, Older(f, list[i]) PROVE Older(f, g)
        BY <2>2, <2>4 DEF Older
    <2>5. recurred[i] # 0 /\ (recurred[i] < CountMod => list[i].count = recurred[i])
        BY <1>1, <1>2, <2>1 DEF FaultInv
    <2>6. \A m \in {faults, disk.faults} :
            recurred[i] < CountMod /\ m[i] # Missing => Older(m[i], g)
        BY <1>2, <1>4, <2>1, <2>4
    <2>7. PanelMoves(i, g, recurred[i])
        BY <1>1, <2>2, <2>3, <2>5, <2>6 DEF PanelMoves
    <2> QED BY <1>1, <2>2, <2>7, PanelEntry
<1>7. CASE FaultRecurs(i)
    <2> DEFINE g == [[list[i] EXCEPT !.active = TRUE]
                        EXCEPT !.count = (list[i].count + 1) % CountMod]
    <2>1. list[i] \in FaultSet /\ list[i].count \in Nat
        BY <1>1, <1>2, <1>3, <1>7 DEF FaultRecurs
    <2>2. (list[i].count + 1) % CountMod \in 0..CountMod - 1
        BY <1>2, <2>1
    <2>3. g \in FaultSet /\ g.count = (list[i].count + 1) % CountMod
        BY <2>1, <2>2 DEF FaultSet
    <2>4. /\ PanelSet([list EXCEPT ![i] = g])
          /\ recurred' = [recurred EXCEPT ![i] = recurred[i] + 1]
        BY <1>1, <1>7, <2>1 DEF FaultRecurs, FaultSet, Known
    <2> HIDE DEF g
    <2>5. recurred[i] + 1 < CountMod => /\ list[i].count = recurred[i]
                                        /\ g.count = list[i].count + 1
        BY <1>1, <1>2, <2>1, <2>3 DEF FaultInv
    <2>6. ASSUME NEW m \in {faults, disk.faults}, recurred[i] + 1 < CountMod, m[i] # Missing
          PROVE  Older(m[i], g)
        <3>1. m[i] \in FaultSet /\ Older(m[i], list[i])
            BY <1>1, <1>2, <1>4, <2>1, <2>6
        <3>2. m[i].count \in Nat /\ m[i].count <= list[i].count
            BY <1>2, <1>3, <2>1, <3>1 DEF Older
        <3> QED BY <2>1, <2>5, <2>6, <3>2 DEF Older
    <2>7. PanelMoves(i, g, recurred[i] + 1)
        BY <1>1, <2>1, <2>3, <2>4, <2>5, <2>6 DEF PanelMoves
    <2> QED BY <1>1, <2>3, <2>7, PanelEntry
<1>8. CASE FaultDropsOff(i)
    <2>1. PanelSet([list EXCEPT ![i] = Missing]) /\ recurred' = [recurred EXCEPT ![i] = recurred[i]]
        BY <1>1, <1>8 DEF FaultDropsOff
    <2>2. PanelMoves(i, Missing, recurred[i])
        BY <1>1, <2>1 DEF PanelMoves
    <2> QED BY <1>1, <2>2, PanelEntry
<1> QED BY <1>5, <1>6, <1>7, <1>8

\* The user resets the panel's list.
LEMMA PanelResetInv == IInv /\ PanelReset => IInv'
<1> SUFFICES ASSUME IInv, PanelReset PROVE IInv'
    OBVIOUS
<1>1. PanelSet(NoFaults) /\ recurred' = recurred /\ NoFaults \in Known
    BY DEF PanelReset, NoFaults, Known
<1>2. list' = NoFaults /\ faults' = faults /\ disk' = disk
    BY <1>1 DEF PanelSet, daemon
<1>3. recurred' \in [Entries -> Nat]
    BY <1>1 DEF IInv, TypeInv
<1>4. \A i \in Entries : list'[i] = Missing
    BY <1>2 DEF NoFaults
<1>5. FaultInv'
    BY <1>1, <1>2, <1>4 DEF IInv, FaultInv, Behind
<1> QED BY <1>1, <1>3, <1>5, PanelStep

\* The equipment loses and counts, and touches nothing else.
LEMMA EquipmentInv ==
    ASSUME IInv, lost' \in [Counters -> CounterValues], power' \in [Counters -> CounterValues],
           \A c \in Counters : power[c] <= power'[c] /\ power'[c] <= lost'[c],
           read' = Missing, verdict' = Missing,
           UNCHANGED <<list, recurred, daemon, disk, torn, hist>>
    PROVE  IInv'
<1>1. /\ list' = list /\ recurred' = recurred /\ up' = up /\ faults' = faults
      /\ reference' = reference /\ err' = err /\ seen' = seen /\ classified' = classified
      /\ disk' = disk /\ torn' = torn /\ seenLost' = seenLost /\ refLost' = refLost
      /\ missed' = missed /\ tear' = tear
    BY DEF daemon, hist
<1>2. TypeInv'
    BY <1>1 DEF IInv, TypeInv
<1>3. DownInv'
    BY <1>1 DEF IInv, DownInv, Unread
<1>4. FaultInv'
    BY <1>1 DEF IInv, FaultInv, Behind
<1>5. CounterInv'
    <2>1. /\ missed \subseteq Counters
          /\ \A c \in Counters : refLost[c] \in Int /\ power[c] \in Int /\ power'[c] \in Int
        BY DEF IInv, TypeInv, CounterValues
    <2>2. ASSUME NEW c \in missed, refLost[c] < power[c] PROVE refLost[c] < power'[c]
        BY <2>1, <2>2
    <2> QED BY <1>1, <2>2 DEF IInv, CounterInv
<1>6. ReplayYieldsMemory'
    BY <1>1 DEF IInv, ReplayYieldsMemory
<1> QED BY <1>1, <1>2, <1>3, <1>4, <1>5, <1>6, NothingSaid DEF IInv

\* A power loss, which the outdoor unit counts at once.
LEMMA PowerLossInv == \A units \in SUBSET Counters : IInv /\ PowerLoss(units) => IInv'
<1> SUFFICES ASSUME NEW units \in SUBSET Counters, IInv, PowerLoss(units) PROVE IInv'
    OBVIOUS
<1> USE DEF Counters
<1>1. /\ \A c \in units : lost[c] < MaxLosses
      /\ lost' = [c \in Counters |-> IF c \in units THEN lost[c] + 1 ELSE lost[c]]
      /\ power' = [power EXCEPT !["odu"] = lost'["odu"]]
      /\ read' = Missing /\ verdict' = Missing
      /\ UNCHANGED <<list, recurred, daemon, disk, torn, hist>>
    BY DEF PowerLoss
<1>2. /\ lost \in [Counters -> CounterValues] /\ power \in [Counters -> CounterValues]
      /\ MaxLosses \in Nat /\ \A c \in Counters : power[c] <= lost[c]
    BY CountAssumption DEF IInv, TypeInv, CounterInv
<1>3. lost' \in [Counters -> CounterValues] /\ \A c \in Counters : lost[c] <= lost'[c]
    BY <1>1, <1>2 DEF CounterValues
<1>4. power' \in [Counters -> CounterValues]
    BY <1>1, <1>2, <1>3
<1>5. \A c \in Counters : power[c] <= power'[c] /\ power'[c] <= lost'[c]
    <2>1. power'["odu"] = lost'["odu"] /\ power'["idu"] = power["idu"]
        BY <1>1, <1>2
    <2>2. \A c \in Counters : power[c] \in Int /\ lost[c] \in Int /\ lost'[c] \in Int
        BY <1>2, <1>3 DEF CounterValues
    <2> QED BY <1>2, <1>3, <2>1, <2>2
<1> QED BY <1>1, <1>3, <1>4, <1>5, EquipmentInv

\* The indoor unit's daily commit.
LEMMA DailyRollupInv == IInv /\ DailyRollup => IInv'
<1> SUFFICES ASSUME IInv, DailyRollup PROVE IInv'
    OBVIOUS
<1> USE DEF Counters
<1>1. /\ power' = [power EXCEPT !["idu"] = lost["idu"]] /\ lost' = lost
      /\ read' = Missing /\ verdict' = Missing
      /\ UNCHANGED <<list, recurred, daemon, disk, torn, hist>>
    BY DEF DailyRollup
<1>2. /\ lost \in [Counters -> CounterValues] /\ power \in [Counters -> CounterValues]
      /\ \A c \in Counters : power[c] <= lost[c]
    BY DEF IInv, TypeInv, CounterInv
<1>3. power' \in [Counters -> CounterValues]
    BY <1>1, <1>2
<1>4. \A c \in Counters : power[c] <= power'[c] /\ power'[c] <= lost'[c]
    <2>1. power'["idu"] = lost["idu"] /\ power'["odu"] = power["odu"]
        BY <1>1, <1>2
    <2>2. \A c \in Counters : power[c] \in Int /\ lost[c] \in Int
        BY <1>2 DEF CounterValues
    <2> QED BY <1>1, <1>2, <2>1, <2>2
<1> QED BY <1>1, <1>2, <1>3, <1>4, EquipmentInv

-----------------------------------------------------------------------------
\* An operation that touches no counter.
LEMMA CountersKept ==
    ASSUME IInv, up, lost' = lost, power' = power, disk'.reference = disk.reference,
           refLost' = refLost,
           up' => /\ reference' = reference /\ seen' = seen /\ classified' = classified
                  /\ seenLost' = seenLost,
           up' /\ ~classified' => missed' = missed,
           ~up' => seen' = Unread
    PROVE  CounterInv'
<1>1. CASE up'
    BY <1>1 DEF IInv, CounterInv
<1>2. CASE ~up'
    <2>1. \A c \in Counters : seen'[c] = Missing
        BY <1>2 DEF Unread
    <2> QED BY <1>2, <2>1 DEF IInv, CounterInv
<1> QED BY <1>1, <1>2

\* What NoteFaults makes of the known faults: each is as it was, as it was read,
\* or wiped, and what was read is known unless something younger was known.
LEMMA NotedIs ==
    ASSUME NEW m \in Known, NEW l \in Known
    PROVE  /\ Noted(m, l) \in Known
           /\ \A i \in Entries :
                /\ Noted(m, l)[i] \in {m[i], Missing} \/ (l[i] # Missing /\ Noted(m, l)[i] = l[i])
                /\ l[i] # Missing =>
                    Noted(m, l)[i] = IF Changes(m[i], l[i]) THEN l[i] ELSE m[i]
           /\ (\A i \in Entries : l[i] = Missing) => Noted(m, l) = NoFaults
BY DEF Noted, Known, NoFaults

\* The list as it was read.
LEMMA DecodeIs ==
    ASSUME IInv, NEW corrupt
    PROVE  /\ DecodeFaults(corrupt) \in Known
           /\ \A i \in Entries : DecodeFaults(corrupt)[i] # Missing =>
                DecodeFaults(corrupt)[i] = list[i]
BY DEF DecodeFaults, IInv, TypeInv, Known

\* A memory that says of each fault what another one that is behind the panel
\* says, or what the panel says, is behind the panel.
LEMMA BehindPick ==
    ASSUME IInv, NEW m, Behind(m), NEW n,
           \A i \in Entries : n[i] \in {m[i], Missing} \/ (list[i] # Missing /\ n[i] = list[i])
    PROVE  Behind(n)
<1>1. \A i \in Entries : list[i] # Missing => Older(list[i], list[i])
    BY DEF Older
<1>2. \A i \in Entries : recurred[i] = 0 => list[i] = Missing
    BY DEF IInv, FaultInv
<1> QED BY <1>1, <1>2 DEF Behind

\* A read of the fault list: memory and file stay behind the panel and in step
\* with each other, and what was read is known.
LEMMA NoteFaultsInv == IInv /\ NoteFaults => IInv'
<1> SUFFICES ASSUME IInv, NoteFaults PROVE IInv'
    OBVIOUS
<1>1. PICK corrupt \in SUBSET {i \in Entries : list[i] # Missing} :
        LET l == DecodeFaults(corrupt)
            n == Noted(faults, l)
        IN  \E o \in append(Journalled(faults, n)) :
            /\ Outcome(o, n, reference, seen, classified)
            /\ disk' = [disk EXCEPT !.faults =
                          [i \in Entries |-> IF i \in o.kept THEN n[i] ELSE @[i]]]
            /\ read' = IF o.up THEN l ELSE Missing
            /\ seenLost' = IF o.up THEN seenLost ELSE Unread
    BY DEF NoteFaults
<1> DEFINE l == DecodeFaults(corrupt)
           n == Noted(faults, l)
           lines == Journalled(faults, n)
<1>2. PICK o \in append(lines) :
        /\ Outcome(o, n, reference, seen, classified)
        /\ disk' = [disk EXCEPT !.faults =
                      [i \in Entries |-> IF i \in o.kept THEN n[i] ELSE disk.faults[i]]]
        /\ read' = IF o.up THEN l ELSE Missing
        /\ seenLost' = IF o.up THEN seenLost ELSE Unread
    BY <1>1
<1>3. /\ up /\ verdict' = Missing /\ list' = list /\ recurred' = recurred /\ power' = power
      /\ lost' = lost /\ refLost' = refLost
    BY DEF NoteFaults, env
<1>4. /\ TypeInv /\ faults \in Known /\ reference \in References /\ classified \in BOOLEAN
      /\ seen \in [Counters -> CounterValues \cup {Missing}]
      /\ seenLost \in [Counters -> CounterValues \cup {Missing}]
      /\ disk \in [faults : Known, reference : References]
      /\ err \in BOOLEAN /\ tear \in BOOLEAN
      /\ lost \in [Counters -> CounterValues] /\ power \in [Counters -> CounterValues]
      /\ refLost \in [Counters -> CounterValues] /\ missed \in SUBSET Counters
    BY DEF IInv, TypeInv
<1>5. l \in Known /\ \A i \in Entries : l[i] # Missing => l[i] = list[i]
    BY DecodeIs
<1> HIDE DEF l
<1>6. /\ n \in Known
      /\ \A i \in Entries :
            /\ n[i] \in {faults[i], Missing} \/ (l[i] # Missing /\ n[i] = l[i])
            /\ l[i] # Missing => n[i] = IF Changes(faults[i], l[i]) THEN l[i] ELSE faults[i]
      /\ (\A i \in Entries : l[i] = Missing) => n = NoFaults
    BY <1>4, <1>5, NotedIs
<1>7. \A i \in Entries : i \in lines <=> n[i] # faults[i]
    BY DEF Journalled
<1> HIDE DEF n, lines
<1>8. /\ o.kept \subseteq lines
      /\ o.up \in BOOLEAN /\ o.err \in BOOLEAN /\ o.torn \in BOOLEAN /\ o.tear \in BOOLEAN
      /\ tear => o.tear
      /\ err /\ o.up => o.err
      /\ o.up /\ ~o.err /\ ~o.tear => o.kept = lines
    BY <1>4, AppendIs
<1>9. /\ up' \in BOOLEAN /\ err' \in BOOLEAN /\ classified' \in BOOLEAN
      /\ torn' \in BOOLEAN /\ tear' \in BOOLEAN
      /\ faults' \in Known /\ reference' \in References
      /\ seen' \in [Counters -> CounterValues \cup {Missing}]
      /\ DownInv'
      /\ up' = o.up /\ tear' = o.tear
      /\ up' => /\ err' = o.err /\ faults' = n /\ reference' = reference /\ seen' = seen
                /\ classified' = classified
      /\ ~up' => faults' = NoFaults /\ seen' = Unread
      /\ missed' \in SUBSET Counters
      /\ up' /\ ~classified' => missed' = missed
    BY <1>2, <1>4, <1>6, <1>8, OutcomeIs
<1> DEFINE d == [i \in Entries |-> IF i \in o.kept THEN n[i] ELSE disk.faults[i]]
<1>10. d \in Known
    BY <1>4, <1>6 DEF Known
<1>11. /\ disk' \in [faults : Known, reference : References]
       /\ disk'.faults = d /\ disk'.reference = disk.reference
    BY <1>2, <1>4, <1>10
<1>12. TypeInv'
    <2>1. seenLost' \in [Counters -> CounterValues \cup {Missing}]
        BY <1>2, <1>4 DEF Unread
    <2> QED BY <1>3, <1>4, <1>9, <1>11, <2>1 DEF TypeInv
<1>13. FaultInv'
    <2>1. Behind(n)
        BY <1>5, <1>6, BehindPick DEF IInv, FaultInv
    <2>2. Behind(d)
        BY <2>1 DEF IInv, FaultInv, Behind
    <2>3. Behind(NoFaults)
        BY DEF Behind, NoFaults
    <2>4. Behind(faults')
        BY <1>9, <2>1, <2>3
    <2> HIDE DEF d
    <2>5. Behind(faults)' /\ Behind(disk.faults)'
        BY <1>3, <1>11, <2>2, <2>4 DEF Behind
    <2> QED BY <1>3, <2>5 DEF IInv, FaultInv
<1>14. CounterInv'
    <2>1. up' => seenLost' = seenLost
        BY <1>2, <1>9
    <2> QED BY <1>3, <1>9, <1>11, <2>1, CountersKept
<1>15. ReplayYieldsMemory'
    <2> SUFFICES ASSUME up', ~err', ~tear'
                 PROVE  disk' = [faults |-> faults', reference |-> reference']
        BY DEF ReplayYieldsMemory
    <2>1. o.up /\ ~o.err /\ ~o.tear
        BY <1>9, Zenon
    <2>2. ~err /\ ~tear /\ o.kept = lines
        BY <1>8, <2>1, Zenon
    <2>3. disk = [faults |-> faults, reference |-> reference]
        BY <1>3, <2>2 DEF IInv, ReplayYieldsMemory
    <2>4. d = n
        BY <1>6, <1>7, <2>2, <2>3 DEF Known
    <2> HIDE DEF d
    <2> QED BY <1>9, <1>11, <2>3, <2>4
<1>16. ListedIsKnown'
    <2> SUFFICES ASSUME read' # Missing
                 PROVE  /\ \A i \in Entries : read'[i] # Missing =>
                            /\ recurred'[i] < CountMod => faults'[i] = read'[i]
                            /\ ~read'[i].active => faults'[i] # Missing /\ ~faults'[i].active
                        /\ (\A i \in Entries : read'[i] = Missing) => faults' = NoFaults
        BY DEF ListedIsKnown
    <2>1. read' = l /\ faults' = n
        BY <1>2, <1>9
    <2>2. ASSUME NEW i \in Entries, l[i] # Missing
          PROVE  /\ recurred[i] < CountMod => n[i] = l[i]
                 /\ ~l[i].active => n[i] # Missing /\ ~n[i].active
        <3>1. l[i] \in FaultSet /\ l[i] = list[i] /\ list[i] # Missing
            BY <1>5, <2>2 DEF Known
        <3>2. CASE Changes(faults[i], l[i])
            BY <1>6, <2>2, <3>2
        <3>3. CASE ~Changes(faults[i], l[i])
            <4>1. n[i] = faults[i] /\ faults[i] # Missing /\ faults[i] \in FaultSet
                BY <1>4, <1>6, <2>2, <3>3 DEF Changes, Known
            <4>2. ~(faults[i].active /\ ~l[i].active)
                BY <3>3 DEF Changes
            <4>3. recurred[i] < CountMod => Older(faults[i], l[i])
                BY <3>1, <4>1 DEF IInv, FaultInv, Behind
            <4>4. recurred[i] < CountMod => faults[i] = l[i]
                BY <3>1, <3>3, <4>1, <4>3, NoNews
            <4> QED BY <4>1, <4>2, <4>4
        <3> QED BY <3>2, <3>3
    <2> QED BY <1>3, <1>6, <2>1, <2>2
<1>17. GapIsSound'
    BY <1>3 DEF GapIsSound
<1> QED BY <1>9, <1>12, <1>13, <1>14, <1>15, <1>16, <1>17 DEF IInv

-----------------------------------------------------------------------------
\* An operation that reads no list keeps, forgets or replays the known faults.
LEMMA FaultsKept ==
    ASSUME IInv, list' = list, recurred' = recurred, disk'.faults = disk.faults,
           faults' \in {faults, NoFaults, disk.faults}
    PROVE  FaultInv'
<1>1. Behind(NoFaults)
    BY DEF Behind, NoFaults
<1>2. Behind(faults')
    BY <1>1 DEF IInv, FaultInv
<1>3. Behind(faults)' /\ Behind(disk.faults)'
    BY <1>2 DEF IInv, FaultInv, Behind
<1> QED BY <1>3 DEF IInv, FaultInv

\* A counter reading: a reading of this run exceeds the losses at the reference's
\* if the unit had missed one, so that equal counters show that none had.
LEMMA trackCounterInv == \A c \in Counters : IInv /\ trackCounter(c) => IInv'
<1> SUFFICES ASSUME NEW c \in Counters, IInv, trackCounter(c) PROVE IInv'
    OBVIOUS
<1> DEFINE vals == [seen EXCEPT ![c] = power[c]]
           at == [seenLost EXCEPT ![c] = lost[c]]
           both == Both(vals)
           ref == IF both THEN vals ELSE reference
           lines == (IF both /\ ~classified THEN {"outage_classified"} ELSE {})
                        \cup (IF Changed(ref) THEN {"power_counters"} ELSE {})
<1>1. PICK o \in append(lines) :
        /\ Outcome(o, faults, ref, vals, classified \/ both)
        /\ disk' = IF "power_counters" \in o.kept
                   THEN [disk EXCEPT !.reference = ref] ELSE disk
        /\ refLost' = IF "power_counters" \in o.kept THEN at ELSE refLost
        /\ verdict' = IF both /\ ~classified
                      THEN [gap |-> GapOf(vals), missed |-> missed] ELSE Missing
        /\ seenLost' = IF o.up THEN at ELSE Unread
    BY DEF trackCounter
<1>2. /\ up /\ read' = Missing /\ list' = list /\ recurred' = recurred
      /\ lost' = lost /\ power' = power
    BY DEF trackCounter, env
<1>3. /\ TypeInv /\ faults \in Known /\ reference \in References /\ classified \in BOOLEAN
      /\ seen \in [Counters -> CounterValues \cup {Missing}]
      /\ seenLost \in [Counters -> CounterValues \cup {Missing}]
      /\ disk \in [faults : Known, reference : References]
      /\ err \in BOOLEAN /\ tear \in BOOLEAN
      /\ lost \in [Counters -> CounterValues] /\ power \in [Counters -> CounterValues]
      /\ refLost \in [Counters -> CounterValues] /\ missed \in SUBSET Counters
    BY DEF IInv, TypeInv
<1>4. Missing \notin CounterValues /\ \A x \in CounterValues : x \in Int
    BY MissingAssumption DEF CounterValues
<1>5. /\ vals \in [Counters -> CounterValues \cup {Missing}]
      /\ at \in [Counters -> CounterValues \cup {Missing}]
      /\ vals[c] = power[c] /\ at[c] = lost[c]
      /\ \A d \in Counters \ {c} : vals[d] = seen[d] /\ at[d] = seenLost[d]
    BY <1>3
<1> HIDE DEF vals, at
<1>6. \A d \in Counters : vals[d] # Missing => at[d] # Missing /\ vals[d] <= at[d]
    BY <1>3, <1>4, <1>5 DEF IInv, CounterInv
<1>7. ~classified => \A d \in missed : vals[d] # Missing => refLost[d] < vals[d]
    BY <1>2, <1>3, <1>5 DEF IInv, CounterInv
<1>8. both => vals \in [Counters -> CounterValues] /\ at \in [Counters -> CounterValues]
    <2>1. both => \A d \in Counters : vals[d] # Missing
        BY DEF Both
    <2> QED BY <1>5, <1>6, <2>1
<1>9. ref \in References /\ (classified \/ both) \in BOOLEAN /\ both \in BOOLEAN
    BY <1>3, <1>8 DEF References, Both
<1>10. /\ "power_counters" \in lines => both /\ ref = vals
       /\ "power_counters" \notin lines => ref = reference
    BY DEF Changed
<1>11. ~both => ref = reference
    OBVIOUS
<1> HIDE DEF both, ref, lines
<1>12. /\ o.kept \subseteq lines
       /\ o.up \in BOOLEAN /\ o.err \in BOOLEAN /\ o.torn \in BOOLEAN /\ o.tear \in BOOLEAN
       /\ tear => o.tear
       /\ err /\ o.up => o.err
       /\ o.up /\ ~o.err /\ ~o.tear => o.kept = lines
    BY <1>3, AppendIs
<1>13. /\ up' \in BOOLEAN /\ err' \in BOOLEAN /\ classified' \in BOOLEAN
       /\ torn' \in BOOLEAN /\ tear' \in BOOLEAN
       /\ faults' \in Known /\ reference' \in References
       /\ seen' \in [Counters -> CounterValues \cup {Missing}]
       /\ DownInv'
       /\ up' = o.up /\ tear' = o.tear
       /\ up' => /\ err' = o.err /\ faults' = faults /\ reference' = ref /\ seen' = vals
                 /\ classified' = (classified \/ both)
       /\ ~up' => faults' = NoFaults /\ seen' = Unread
       /\ missed' \in SUBSET Counters
       /\ up' /\ ~classified' => missed' = missed
    BY <1>1, <1>3, <1>5, <1>9, <1>12, OutcomeIs
<1>14. /\ disk'.faults = disk.faults /\ disk' \in [faults : Known, reference : References]
       /\ disk'.reference = IF "power_counters" \in o.kept THEN ref ELSE disk.reference
    BY <1>1, <1>3, <1>9
<1>15. "power_counters" \in o.kept => both /\ ref = vals /\ refLost' = at
    BY <1>1, <1>10, <1>12
<1>16. "power_counters" \notin o.kept => refLost' = refLost
    BY <1>1
<1>17. TypeInv'
    <2>1. seenLost' \in [Counters -> CounterValues \cup {Missing}]
        BY <1>1, <1>5 DEF Unread
    <2>2. refLost' \in [Counters -> CounterValues]
        BY <1>3, <1>8, <1>15, <1>16
    <2> QED BY <1>2, <1>3, <1>13, <1>14, <2>1, <2>2 DEF TypeInv
<1>18. FaultInv'
    BY <1>2, <1>13, <1>14, FaultsKept
<1>19. CounterInv'
    <2>1. \A d \in Counters : power'[d] <= lost'[d]
        BY <1>2 DEF IInv, CounterInv
    <2>2. \A d \in Counters : seen'[d] # Missing =>
            seenLost'[d] # Missing /\ seen'[d] <= seenLost'[d]
        <3>1. CASE up'
            BY <1>1, <1>6, <1>13, <3>1
        <3>2. CASE ~up'
            BY <1>13, <3>2 DEF Unread
        <3> QED BY <3>1, <3>2
    <2>3. disk'.reference # Missing => \A d \in Counters : disk'.reference[d] <= refLost'[d]
        <3>1. CASE "power_counters" \in o.kept
            BY <1>4, <1>6, <1>8, <1>14, <1>15, <3>1
        <3>2. CASE "power_counters" \notin o.kept
            BY <1>14, <1>16, <3>2 DEF IInv, CounterInv
        <3> QED BY <3>1, <3>2
    <2>4. ASSUME up', ~classified'
          PROVE  /\ reference' = disk'.reference
                 /\ \A d \in missed' :
                    refLost'[d] < power'[d] /\ (seen'[d] # Missing => refLost'[d] < seen'[d])
        <3>1. ~classified /\ ~both
            BY <1>13, <2>4, Zenon
        <3>2. disk'.reference = disk.reference /\ refLost' = refLost
            BY <1>14, <1>15, <1>16, <3>1
        <3>3. reference = disk.reference /\ \A d \in missed : refLost[d] < power[d]
            BY <1>2, <3>1 DEF IInv, CounterInv
        <3> QED BY <1>2, <1>7, <1>11, <1>13, <2>4, <3>1, <3>2, <3>3
    <2> QED BY <2>1, <2>2, <2>3, <2>4 DEF CounterInv
<1>20. ReplayYieldsMemory'
    <2> SUFFICES ASSUME up', ~err', ~tear'
                 PROVE  disk' = [faults |-> faults', reference |-> reference']
        BY DEF ReplayYieldsMemory
    <2>1. o.up /\ ~o.err /\ ~o.tear
        BY <1>13, Zenon
    <2>2. ~err /\ ~tear /\ o.kept = lines
        BY <1>12, <2>1, Zenon
    <2>3. disk = [faults |-> faults, reference |-> reference]
        BY <1>2, <2>2 DEF IInv, ReplayYieldsMemory
    <2>4. disk'.reference = ref
        BY <1>10, <1>14, <2>2, <2>3
    <2> QED BY <1>13, <1>14, <2>3, <2>4
<1>21. GapIsSound'
    <2> SUFFICES ASSUME verdict' # Missing, verdict'.gap = "monitoring_gap"
                 PROVE  verdict'.missed = {}
        BY DEF GapIsSound
    <2>1. both /\ ~classified /\ verdict' = [gap |-> GapOf(vals), missed |-> missed]
        BY <1>1
    <2>2. GapOf(vals) = "monitoring_gap" /\ verdict'.missed = missed
        BY <2>1
    <2>3. vals = reference /\ reference # Missing
        BY <2>2 DEF GapOf
    <2>4. reference = disk.reference
        BY <1>2, <2>1 DEF IInv, CounterInv
    <2>5. ASSUME NEW d \in missed PROVE FALSE
        <3>1. d \in Counters /\ vals[d] \in CounterValues /\ refLost[d] \in CounterValues
            BY <1>3, <1>8, <2>1
        <3>2. refLost[d] < vals[d]
            BY <1>4, <1>7, <2>1, <3>1
        <3>3. vals[d] <= refLost[d]
            BY <2>3, <2>4, <3>1 DEF IInv, CounterInv
        <3> QED BY <1>4, <3>1, <3>2, <3>3
    <2> QED BY <2>2, <2>5
<1>22. ListedIsKnown'
    BY <1>2 DEF ListedIsKnown
<1> QED BY <1>13, <1>17, <1>18, <1>19, <1>20, <1>21, <1>22 DEF IInv

\* Any other event, and a crash: memory is kept or all gone.
LEMMA ForgetInv ==
    ASSUME IInv, up, NEW o, o.up \in BOOLEAN, o.err \in BOOLEAN, o.torn \in BOOLEAN,
           o.tear \in BOOLEAN, tear => o.tear, err /\ o.up => o.err,
           Outcome(o, faults, reference, seen, classified),
           seenLost' = IF o.up THEN seenLost ELSE Unread,
           read' = Missing, verdict' = Missing, UNCHANGED <<env, disk, refLost>>
    PROVE  IInv'
<1>1. /\ TypeInv /\ faults \in Known /\ reference \in References /\ classified \in BOOLEAN
      /\ seen \in [Counters -> CounterValues \cup {Missing}]
      /\ seenLost \in [Counters -> CounterValues \cup {Missing}]
      /\ err \in BOOLEAN /\ tear \in BOOLEAN
      /\ lost \in [Counters -> CounterValues] /\ power \in [Counters -> CounterValues]
      /\ refLost \in [Counters -> CounterValues] /\ missed \in SUBSET Counters
    BY DEF IInv, TypeInv
<1>2. /\ list' = list /\ recurred' = recurred /\ power' = power /\ disk' = disk
      /\ lost' = lost /\ refLost' = refLost
    BY DEF env
<1>3. /\ up' \in BOOLEAN /\ err' \in BOOLEAN /\ classified' \in BOOLEAN
      /\ torn' \in BOOLEAN /\ tear' \in BOOLEAN
      /\ faults' \in Known /\ reference' \in References
      /\ seen' \in [Counters -> CounterValues \cup {Missing}]
      /\ DownInv'
      /\ up' = o.up /\ tear' = o.tear
      /\ up' => /\ err' = o.err /\ faults' = faults /\ reference' = reference /\ seen' = seen
                /\ classified' = classified
      /\ ~up' => faults' = NoFaults /\ seen' = Unread
      /\ missed' \in SUBSET Counters
      /\ up' /\ ~classified' => missed' = missed
    BY <1>1, OutcomeIs
<1>4. TypeInv'
    <2>1. seenLost' \in [Counters -> CounterValues \cup {Missing}]
        BY <1>1 DEF Unread
    <2> QED BY <1>1, <1>2, <1>3, <2>1 DEF TypeInv
<1>5. FaultInv'
    BY <1>2, <1>3, FaultsKept
<1>6. CounterInv'
    <2>1. up' => seenLost' = seenLost
        BY <1>3
    <2> QED BY <1>2, <1>3, <2>1, CountersKept
<1>7. ReplayYieldsMemory'
    <2> SUFFICES ASSUME up', ~err', ~tear'
                 PROVE  disk' = [faults |-> faults', reference |-> reference']
        BY DEF ReplayYieldsMemory
    <2>1. ~err /\ ~tear
        BY <1>3, Zenon
    <2> QED BY <1>2, <1>3, <2>1 DEF IInv, ReplayYieldsMemory
<1> QED BY <1>3, <1>4, <1>5, <1>6, <1>7, NothingSaid DEF IInv

\* Events no replay looks at.
LEMMA OtherEventInv == IInv /\ OtherEvent => IInv'
<1> SUFFICES ASSUME IInv, OtherEvent PROVE IInv'
    OBVIOUS
<1>1. PICK o \in append({"event"}) :
        /\ Outcome(o, faults, reference, seen, classified)
        /\ seenLost' = IF o.up THEN seenLost ELSE Unread
    BY DEF OtherEvent
<1>2. /\ o.up \in BOOLEAN /\ o.err \in BOOLEAN /\ o.torn \in BOOLEAN /\ o.tear \in BOOLEAN
      /\ tear => o.tear
      /\ err /\ o.up => o.err
    BY AppendIs DEF IInv
<1> QED BY <1>1, <1>2, ForgetInv DEF OtherEvent

\* A crash between two operations.
LEMMA CrashInv == IInv /\ Crash => IInv'
<1> SUFFICES ASSUME IInv, Crash PROVE IInv'
    OBVIOUS
<1> DEFINE o == [up |-> FALSE, err |-> FALSE, torn |-> torn, tear |-> tear]
<1>1. o.up = FALSE /\ o.err = FALSE /\ o.torn = torn /\ o.tear = tear
    OBVIOUS
<1>2. Outcome(o, NoFaults, Missing, Unread, FALSE)
    BY DEF Crash
<1> HIDE DEF o
<1>3. Outcome(o, faults, reference, seen, classified)
    BY <1>1, <1>2 DEF Outcome
<1>4. /\ o.up \in BOOLEAN /\ o.err \in BOOLEAN /\ o.torn \in BOOLEAN /\ o.tear \in BOOLEAN
      /\ tear => o.tear
      /\ err /\ o.up => o.err
    BY <1>1 DEF IInv, TypeInv
<1>5. /\ up /\ read' = Missing /\ verdict' = Missing /\ UNCHANGED <<env, disk, refLost>>
      /\ seenLost' = IF o.up THEN seenLost ELSE Unread
    BY <1>1 DEF Crash
<1> QED BY <1>3, <1>4, <1>5, ForgetInv

\* A start of the daemon: a replay of the file.
LEMMA OpenJournalInv == IInv /\ OpenJournal => IInv'
<1> SUFFICES ASSUME IInv, OpenJournal PROVE IInv'
    OBVIOUS
<1>1. /\ ~up /\ up' = TRUE /\ faults' = disk.faults /\ reference' = disk.reference
      /\ read' = Missing /\ verdict' = Missing
      /\ list' = list /\ recurred' = recurred /\ lost' = lost /\ power' = power
      /\ err' = err /\ seen' = seen /\ classified' = classified /\ disk' = disk
      /\ torn' = torn /\ seenLost' = seenLost /\ refLost' = refLost /\ tear' = tear
      /\ missed' = {c \in Counters : power[c] > refLost[c]}
    BY DEF OpenJournal, env, hist
<1>2. disk \in [faults : Known, reference : References] /\ seen = Unread
    BY <1>1 DEF IInv, TypeInv, DownInv
<1>3. TypeInv'
    <2>1. up' \in BOOLEAN
        BY <1>1, Zenon
    <2>2. missed' \in SUBSET Counters
        BY <1>1
    <2> QED BY <1>1, <1>2, <2>1, <2>2 DEF IInv, TypeInv
<1>4. DownInv'
    BY <1>1 DEF DownInv
<1>5. FaultInv'
    BY <1>1, FaultsKept
<1>6. CounterInv'
    <2>1. \A c \in Counters : seen[c] = Missing
        BY <1>2 DEF Unread
    <2>2. \A c \in missed' : c \in Counters /\ refLost[c] < power[c]
        <3>1. \A c \in Counters : refLost[c] \in Int /\ power[c] \in Int
            BY DEF IInv, TypeInv, CounterValues
        <3> QED BY <1>1, <3>1
    <2> QED BY <1>1, <2>1, <2>2 DEF IInv, CounterInv
<1>7. ReplayYieldsMemory'
    BY <1>1, <1>2 DEF ReplayYieldsMemory
<1> QED BY <1>1, <1>3, <1>4, <1>5, <1>6, <1>7, NothingSaid DEF IInv

\* A daemon that starts with an empty file and a panel that lists nothing.
LEMMA InitInv == Init => IInv
<1> SUFFICES ASSUME Init PROVE IInv
    OBVIOUS
<1>1. NoFaults \in Known /\ Missing \in References
    BY DEF NoFaults, Known, References
<1>2. 0 \in CounterValues
    BY CountAssumption DEF CounterValues
<1>3. TypeInv
    <2>1. up \in BOOLEAN /\ err \in BOOLEAN /\ classified \in BOOLEAN
          /\ torn \in BOOLEAN /\ tear \in BOOLEAN
        BY Zenon DEF Init
    <2>2. /\ list \in Known /\ faults \in Known /\ reference \in References
          /\ disk \in [faults : Known, reference : References]
        BY <1>1 DEF Init
    <2>3. /\ recurred \in [Entries -> Nat] /\ power \in [Counters -> CounterValues]
          /\ seen \in [Counters -> CounterValues \cup {Missing}]
          /\ lost \in [Counters -> CounterValues] /\ refLost \in [Counters -> CounterValues]
          /\ seenLost \in [Counters -> CounterValues \cup {Missing}]
          /\ missed \in SUBSET Counters
        BY <1>2 DEF Init, Unread, NoLosses
    <2> QED BY <2>1, <2>2, <2>3 DEF TypeInv
<1>4. DownInv
    BY DEF Init, DownInv
<1>5. FaultInv
    BY DEF Init, FaultInv, Behind, NoFaults
<1>6. CounterInv
    BY DEF Init, CounterInv, Unread, NoLosses
<1>7. ReplayYieldsMemory /\ ListedIsKnown /\ GapIsSound
    BY DEF Init, ReplayYieldsMemory, ListedIsKnown, GapIsSound
<1> QED BY <1>3, <1>4, <1>5, <1>6, <1>7 DEF IInv

\* Every step of the panel, the equipment and the daemon preserves the invariant.
LEMMA NextInv == IInv /\ [Next]_vars => IInv'
<1> SUFFICES ASSUME IInv, [Next]_vars PROVE IInv'
    OBVIOUS
<1>1. CASE \E i \in Entries :
            FaultAppears(i) \/ FaultClears(i) \/ FaultRecurs(i) \/ FaultDropsOff(i)
    BY <1>1, PanelInv
<1>2. CASE \E c \in Counters : trackCounter(c)
    BY <1>2, trackCounterInv
<1>3. CASE \E units \in SUBSET Counters \ {{}} : PowerLoss(units)
    BY <1>3, PowerLossInv
<1>4. CASE UNCHANGED vars
    <2>1. /\ list' = list /\ recurred' = recurred /\ lost' = lost /\ power' = power /\ read' = read
          /\ verdict' = verdict /\ up' = up /\ faults' = faults /\ reference' = reference
          /\ err' = err /\ seen' = seen /\ classified' = classified /\ disk' = disk
          /\ torn' = torn /\ seenLost' = seenLost /\ refLost' = refLost /\ missed' = missed
      /\ tear' = tear
        BY <1>4 DEF vars, env, daemon, hist
    <2>2. TypeInv' /\ DownInv'
        BY <2>1 DEF IInv, TypeInv, DownInv, Unread
    <2>3. FaultInv' /\ CounterInv'
        BY <2>1 DEF IInv, FaultInv, Behind, CounterInv
    <2>4. ReplayYieldsMemory' /\ ListedIsKnown' /\ GapIsSound'
        BY <2>1 DEF IInv, ReplayYieldsMemory, ListedIsKnown, GapIsSound, NoFaults
    <2> QED BY <2>2, <2>3, <2>4 DEF IInv
<1> QED BY <1>1, <1>2, <1>3, <1>4, PanelResetInv, DailyRollupInv, NoteFaultsInv, OtherEventInv,
           CrashInv, OpenJournalInv DEF Next

\* The inductive invariant holds in every reachable state.
THEOREM Invariance == Spec => []IInv
BY InitInv, NextInv, PTL DEF Spec

\* As long as no write has failed and no line ran into a torn tail, a restart
\* forgets nothing, whenever it comes.
THEOREM ReplayHolds == Spec => []ReplayYieldsMemory
<1>1. IInv => ReplayYieldsMemory
    BY DEF IInv
<1> QED BY Invariance, <1>1, PTL

\* After NoteFaults every fault that could be read is known as the panel shows
\* it, until its count wraps, and a cleared one is never reported active.
THEOREM ListedIsKnownHolds == Spec => []ListedIsKnown
<1>1. IInv => ListedIsKnown
    BY DEF IInv
<1> QED BY Invariance, <1>1, PTL

\* ClassifyGap's monitoring_gap is right, up to the daily rollup: no loss that a
\* unit had counted when the daemon started came after the reference's reading.
THEOREM GapIsSoundHolds == Spec => []GapIsSound
<1>1. IInv => GapIsSound
    BY DEF IInv
<1> QED BY Invariance, <1>1, PTL
===============================================================================
