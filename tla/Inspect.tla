------------------------------ MODULE Inspect ------------------------------
(***************************************************************************)
(* The offline analysis of captured frames (inspect/inspect.go and the     *)
(* cadence table of cmd/businspect): keying, grouping, timelines and diffs *)
(* as functions of a list of records, and what they promise, stated        *)
(* without the loops they are computed by.                                 *)
(*                                                                         *)
(* Records are in the order of the file; their time stamps need not be,    *)
(* since the clock of the daemon's host may be set.                        *)
(***************************************************************************)
EXTENDS Integers, Sequences, SequencesExt, FiniteSetsExt

CONSTANT RegBytes   \* bytes of a register's name at the front of the data (3)

ASSUME RegAssumption == RegBytes \in Nat \ {0}

Byte == 0..255

Frame == [src : Nat, dst : Nat, op : STRING, data : Seq(Byte)]

\* Rec
Record == [ts : Int, src : Nat, dst : Nat, op : STRING, data : Seq(Byte)]

\* The elements of s whose places are in S, in their order.
Select(s, S) ==
    LET to[n \in 0 .. Len(s)] ==
            IF n = 0 THEN <<>>
            ELSE IF n \in S THEN Append(to[n - 1], s[n]) ELSE to[n - 1]
    IN  to[Len(s)]

-----------------------------------------------------------------------------
\* Key, and fallbackOwner for what Key cannot resolve: the device that holds
\* the register.  The register of a frame that has none ("-") is <<>>.
Keyed(r) == r.op \in {"ack06", "read", "write"} /\ Len(r.data) >= RegBytes

Owner(r) == IF r.op \in {"read", "write"} THEN r.dst ELSE r.src

GroupKey(r) == <<Owner(r), IF Keyed(r) THEN SubSeq(r.data, 1, RegBytes) ELSE <<>> >>

Payload(r) == IF Keyed(r) THEN SubSeq(r.data, RegBytes + 1, Len(r.data)) ELSE r.data

\* A sample of a register: a frame that carries its content.
IsSample(r) == Keyed(r) /\ Payload(r) # <<>>

diffOffsets_Common(a, b) == {i \in 1 .. Min({Len(a), Len(b)}) : a[i] # b[i]}

diffOffsets(a, b) ==
    LET n == Min({Len(a), Len(b)})
    IN  {i \in 1..n : a[i] # b[i]} \cup (n + 1 .. Max({Len(a), Len(b)}))

changedOffsetsAcross(payloads) ==
    UNION {diffOffsets(payloads[i], payloads[j]) : i, j \in DOMAIN payloads}

-----------------------------------------------------------------------------
\* Group: one record after the other is added to its group's statistics.
NewStats(r) == [count |-> 0, first |-> r.ts, last |-> r.ts, len |-> 0, distinct |-> <<>>]

AddTo(st, r) ==
    LET p == Payload(r)
    IN  [count |-> st.count + 1,
         first |-> Min({st.first, r.ts}),
         last |-> Max({st.last, r.ts}),
         len |-> Max({st.len, Len(p)}),
         distinct |-> IF p = <<>> \/ Contains(st.distinct, p) THEN st.distinct
                      ELSE Append(st.distinct, p)]

GroupAdd(out, r) ==
    LET k == GroupKey(r)
    IN  [x \in DOMAIN out \cup {k} |->
            IF x # k THEN out[x]
            ELSE AddTo(IF k \in DOMAIN out THEN out[k] ELSE NewStats(r), r)]

Group(recs) ==
    LET to[n \in 0 .. Len(recs)] == IF n = 0 THEN [x \in {} |-> {}] ELSE GroupAdd(to[n - 1], recs[n])
    IN  to[Len(recs)]

-----------------------------------------------------------------------------
SortStable_Not(s) == s

\* sort.SliceStable by time stamp: the place of an element is the number of
\* those that come before it.
Earlier(s, i, j) == s[i].ts < s[j].ts \/ (s[i].ts = s[j].ts /\ i < j)

Rank(s, j) == Cardinality({i \in DOMAIN s : Earlier(s, i, j)}) + 1

SortStable(s) == [n \in DOMAIN s |-> s[CHOOSE j \in DOMAIN s : Rank(s, j) = n]]

Samples(recs, k) == Select(recs, {i \in DOMAIN recs : IsSample(recs[i]) /\ GroupKey(recs[i]) = k})

\* Changes: a sample enters the timeline when it differs from the last that did.
ChangeAdd(out, r) ==
    IF out = <<>> THEN <<[ts |-> r.ts, payload |-> Payload(r), changed |-> {}]>>
    ELSE IF Last(out).payload = Payload(r) THEN out
    ELSE Append(out, [ts |-> r.ts, payload |-> Payload(r),
                      changed |-> diffOffsets(Last(out).payload, Payload(r))])

Timeline(s) ==
    LET to[n \in 0 .. Len(s)] == IF n = 0 THEN <<>> ELSE ChangeAdd(to[n - 1], s[n])
    IN  to[Len(s)]

Changes(recs, k) == Timeline(SortStable(Samples(recs, k)))

-----------------------------------------------------------------------------
\* DiffAt: the record kept for each side of the instant, by key.
InBefore(m, r, at, window) ==
    /\ IsSample(r) /\ r.ts \in at - window .. at
    /\ GroupKey(r) \in DOMAIN m => r.ts > m[GroupKey(r)].ts

InAfter(m, r, at, window) ==
    /\ IsSample(r) /\ r.ts \in at + 1 .. at + window
    /\ GroupKey(r) \in DOMAIN m => r.ts < m[GroupKey(r)].ts

Put(m, r) == [x \in DOMAIN m \cup {GroupKey(r)} |-> IF x = GroupKey(r) THEN r ELSE m[x]]

BeforeAt(recs, at, window) ==
    LET to[n \in 0 .. Len(recs)] ==
            IF n = 0 THEN [x \in {} |-> {}]
            ELSE IF InBefore(to[n - 1], recs[n], at, window) THEN Put(to[n - 1], recs[n]) ELSE to[n - 1]
    IN  to[Len(recs)]

AfterAt(recs, at, window) ==
    LET to[n \in 0 .. Len(recs)] ==
            IF n = 0 THEN [x \in {} |-> {}]
            ELSE IF InAfter(to[n - 1], recs[n], at, window) THEN Put(to[n - 1], recs[n]) ELSE to[n - 1]
    IN  to[Len(recs)]

\* The registers reported, with what they changed from and to.
DiffAt(recs, at, window) ==
    LET before == BeforeAt(recs, at, window)
        after == AfterAt(recs, at, window)
        b(k) == Payload(before[k])
        a(k) == Payload(after[k])
        shown == {k \in DOMAIN before \cap DOMAIN after : b(k) # a(k)}
    IN  [k \in shown |-> [before |-> b(k), after |-> a(k), changed |-> diffOffsets(b(k), a(k))]]

-----------------------------------------------------------------------------
\* readCadence: polls in order of time, the gaps between them summed up.
IsPoll(r) == r.op = "read" /\ Keyed(r)

Polls(recs, k) ==
    SortStable(Select(recs, {i \in DOMAIN recs : IsPoll(recs[i]) /\ GroupKey(recs[i]) = k}))

Gaps(p) ==
    LET to[n \in 0 .. Len(p)] == IF n < 2 THEN 0 ELSE to[n - 1] + (p[n].ts - p[n - 1].ts)
    IN  to[Len(p)]

readCadence(recs, k) ==
    LET p == Polls(recs, k)
    IN  [n |-> Len(p), avg |-> Gaps(p) \div (Len(p) - 1)]

-----------------------------------------------------------------------------
\* What a reader of the tables relies on, over the keys of a list of records.
Keys(recs) == {GroupKey(recs[i]) : i \in DOMAIN recs}

Members(recs, k) == {i \in DOMAIN recs : GroupKey(recs[i]) = k}

PayloadsOf(recs, S) == {Payload(recs[i]) : i \in S} \ {<<>>}

\* The byte at an offset, or none.
ByteAt(p, o) == IF o <= Len(p) THEN p[o] ELSE -1

\* Statistics: a poll and its answer are of one register; all frames of the
\* register and no others are counted, the span covers them, the payloads
\* listed are those seen, each once, and an offset is marked as changing exactly
\* when it is not the same in all of them.
GroupIsRight(recs) ==
    /\ \A i, j \in DOMAIN recs :
          LET q == recs[i] a == recs[j]
          IN  /\ q.op = "read" /\ a.op = "ack06" /\ q.dst = a.src /\ Keyed(q)
              /\ IsPrefix(SubSeq(q.data, 1, RegBytes), a.data)
              => GroupKey(q) = GroupKey(a)
    /\ DOMAIN Group(recs) = Keys(recs)
    /\ \A k \in Keys(recs) :
          LET st == Group(recs)[k]
              M == Members(recs, k)
              P == PayloadsOf(recs, M)
          IN  /\ st.count = Cardinality(M)
              /\ \A i \in M : recs[i].ts \in st.first .. st.last
              /\ {st.first, st.last} \subseteq {recs[i].ts : i \in M}
              /\ ToSet(st.distinct) = P /\ Len(st.distinct) = Cardinality(P)
              /\ \A o \in 1 .. st.len :
                    o \in changedOffsetsAcross(st.distinct) <=> \E p, q \in P : ByteAt(p, o) # ByteAt(q, o)
              /\ changedOffsetsAcross(st.distinct) \subseteq 1 .. st.len

\* The samples of a register taken up to an instant, and the last of them: by
\* time, and by place in the file among those of one time.
Until(recs, k, t) == {i \in Members(recs, k) : IsSample(recs[i]) /\ recs[i].ts <= t}

Latest(recs, S) ==
    CHOOSE i \in S : \A j \in S : recs[j].ts < recs[i].ts \/ (recs[j].ts = recs[i].ts /\ j <= i)

\* The timeline shows at every instant the payload last sampled, whatever the
\* order of the file, and each of its entries is a change.
TimelineIsRight(recs, times) ==
    \A k \in Keys(recs) :
        LET line == Changes(recs, k)
            shown(t) == {n \in DOMAIN line : line[n].ts <= t}
        IN  /\ \A t \in times :
                  LET S == Until(recs, k, t)
                  IN  /\ S = {} <=> shown(t) = {}
                      /\ S # {} => line[Max(shown(t))].payload = Payload(recs[Latest(recs, S)])
            /\ \A n \in 2 .. Len(line) :
                  /\ line[n].ts >= line[n - 1].ts
                  /\ line[n].changed # {}

\* Of registers never sampled twice at one instant, a diff reports those whose
\* last sample of the window before the instant and first one after it
\* differ, and that change is on the register's timeline.
DiffIsRight(recs, times, window) ==
    \A k \in Keys(recs) :
        LET S == {i \in Members(recs, k) : IsSample(recs[i])}
        IN  (\A i, j \in S : i # j => recs[i].ts # recs[j].ts) =>
            \A at \in times :
                LET B == {i \in S : recs[i].ts \in at - window .. at}
                    A == {i \in S : recs[i].ts \in at + 1 .. at + window}
                    b == CHOOSE i \in B : \A j \in B : recs[j].ts <= recs[i].ts
                    a == CHOOSE i \in A : \A j \in A : recs[j].ts >= recs[i].ts
                    diff == DiffAt(recs, at, window)
                IN  /\ k \in DOMAIN diff <=>
                          B # {} /\ A # {} /\ Payload(recs[b]) # Payload(recs[a])
                    /\ k \in DOMAIN diff =>
                          /\ diff[k].before = Payload(recs[b]) /\ diff[k].after = Payload(recs[a])
                          /\ \E n \in DOMAIN Changes(recs, k) :
                                /\ Changes(recs, k)[n].ts = recs[a].ts
                                /\ Changes(recs, k)[n].payload = diff[k].after
                                /\ Changes(recs, k)[n].changed = diff[k].changed

\* The cadence shown is the polls' span over the number of gaps.
CadenceIsRight(recs) ==
    \A k \in Keys(recs) :
        LET T == {recs[i].ts : i \in {j \in Members(recs, k) : IsPoll(recs[j])}}
            c == readCadence(recs, k)
        IN  Len(Polls(recs, k)) >= 2 => c.avg = (Max(T) - Min(T)) \div (c.n - 1)
=============================================================================
