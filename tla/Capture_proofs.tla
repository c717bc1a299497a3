--------------------------- MODULE Capture_proofs ---------------------------
(***************************************************************************)
(* Proofs about the capture and its inspector, for every set of frames and *)
(* readings of the clock, every cap and size of the ring, every number of  *)
(* runs, and, where the inspector is concerned, every list of records.     *)
(***************************************************************************)
EXTENDS Capture, SequenceTheorems, FiniteSetTheorems, WellFoundedInduction, TLAPS

Entry == [rec : Record, n : Nat \ {0}, run : Nat, i : Nat \ {0}]

TypeInv ==
    /\ file \in Seq(Entry) /\ ring \in Seq(Record)
    /\ up \in BOOLEAN /\ stopped \in BOOLEAN
    /\ remain \in Int
    /\ run \in Nat /\ seen \in Nat /\ received \in Nat /\ statFails \in Nat

\* Did all of the k-th write reach the file?
Whole(f, k) == f[k].n = LineLen(f[k].rec)

\* What may follow a write in the file: the next frame of the same run, if all
\* of the line was written, or the first one of a later run.
Follows(f, k) ==
    \/ f[k].run = f[k - 1].run /\ f[k].i = f[k - 1].i + 1 /\ Whole(f, k - 1)
    \/ f[k].run > f[k - 1].run /\ f[k].i = 1

FileInv ==
    /\ file # <<>> => file[1].i = 1
    /\ \A k \in 2 .. Len(file) : Follows(file, k)
    /\ \A k \in 1 .. Len(file) : file[k].run <= run /\ file[k].n <= LineLen(file[k].rec)

Capturing == up /\ ~stopped

\* While it captures, the file ends with all that the run has received, and no
\* other write in it is of this run.
RunInv ==
    Capturing =>
        /\ seen <= Len(file)
        /\ \A d \in 0 .. seen - 1 :
              LET k == Len(file) - d
              IN  file[k].run = run /\ file[k].i = seen - d /\ Whole(file, k)
        /\ \A k \in 1 .. Len(file) - seen : file[k].run < run

\* What the ring holds is the end of that.
RingInv ==
    /\ up => Len(ring) = Min({max, seen})
    /\ Capturing => \A d \in 0 .. Len(ring) - 1 : ring[Len(ring) - d] = file[Len(file) - d].rec

\* An archive is not a daemon's: nothing is ever added to it.
Archived == ~up /\ run = MaxRuns /\ received = 0

Budget == Cap * (1 + statFails)

\* The budget covers what is in the file and what may still be written.
CapInv ==
    /\ Archived \/ Size(file) <= Budget
    /\ Capturing => Size(file) + remain <= Budget

IInv == TypeInv /\ FileInv /\ RunInv /\ RingInv /\ CapInv

-----------------------------------------------------------------------------
\* Induction up to n, for a set: the numbers from 0 to n are in P.
LEMMA UpTo ==
    ASSUME NEW n \in Nat, NEW P, 0 \in P,
           \A m \in Nat : m < n /\ m \in P => m + 1 \in P
    PROVE  \A m \in 0..n : m \in P
<1> DEFINE R == OpToRel(<, Nat)
           Bad == {m \in 0..n : m \notin P}
<1> SUFFICES ASSUME Bad # {} PROVE FALSE
    OBVIOUS
<1>1. IsWellFoundedOn(R, Nat)
    BY NatLessThanWellFounded, Zenon
<1>2. Bad \subseteq Nat
    OBVIOUS
<1>3. PICK m \in Bad : \A k \in Bad : <<k, m>> \notin R
    <2> HIDE DEF R, Bad
    <2> QED BY <1>1, <1>2, WFMin
<1>4. m \in Nat /\ m # 0 /\ m - 1 \in Nat /\ m <= n /\ m \notin P
    OBVIOUS
<1>5. <<m - 1, m>> \in R
    BY <1>4 DEF OpToRel
<1>6. m - 1 \in P
  <2>1. m - 1 \notin Bad
    <3> HIDE DEF R, Bad
    <3> QED BY <1>3, <1>5
  <2> QED BY <1>4, <2>1
<1> QED BY <1>4, <1>6

Loop(f, N, base, G) == f = [n \in 0..N |-> IF n = 0 THEN base ELSE G[n][f[n - 1]]]

\* A loop over a list: there is a function that gives what the loop has computed
\* after each element, and its values are of the loop's type.
LEMMA LoopIs ==
    ASSUME NEW N \in Nat, NEW T, NEW base \in T, NEW G \in [1..N -> [T -> T]]
    PROVE  \E f \in [0..N -> T] : Loop(f, N, base, G)
<1> DEFINE Done == {m \in 0..N : \E f \in [0..m -> T] : Loop(f, m, base, G)}
<1>1. 0 \in Done
  <2>1. [n \in 0..0 |-> base] \in [0..0 -> T] /\ Loop([n \in 0..0 |-> base], 0, base, G)
    BY DEF Loop
  <2> QED BY <2>1
<1>2. ASSUME NEW m \in Nat, m < N, m \in Done PROVE m + 1 \in Done
  <2>1. PICK f \in [0..m -> T] : Loop(f, m, base, G)
    BY <1>2
  <2> DEFINE g == [n \in 0..m + 1 |-> IF n = m + 1 THEN G[m + 1][f[m]] ELSE f[n]]
  <2>2. m + 1 \in 1..N /\ m + 1 \in 0..N /\ m \in 0..m /\ (m + 1) - 1 = m
    BY <1>2
  <2>3. f[m] \in T /\ G[m + 1][f[m]] \in T
    BY <2>2
  <2>4. g \in [0..m + 1 -> T]
    BY <2>3
  <2>5. ASSUME NEW n \in 0..m + 1
        PROVE  g[n] = IF n = 0 THEN base ELSE G[n][g[n - 1]]
    <3>1. CASE n = 0
        BY <2>1, <3>1 DEF Loop
    <3>2. CASE n # 0
      <4>1. n - 1 \in 0..m /\ g[n - 1] = f[n - 1]
        BY <3>2
      <4>2. CASE n = m + 1
        BY <2>2, <3>2, <4>1, <4>2
      <4>3. CASE n # m + 1
        <5>1. n \in 0..m /\ g[n] = f[n]
            BY <4>3
        <5>2. f[n] = G[n][f[n - 1]]
            BY <2>1, <3>2, <5>1 DEF Loop
        <5> QED BY <3>2, <4>1, <5>1, <5>2
      <4> QED BY <4>2, <4>3
    <3> QED BY <3>1, <3>2
  <2>6. Loop(g, m + 1, base, G)
    BY <2>5 DEF Loop
  <2> HIDE DEF g
  <2> QED BY <2>2, <2>4, <2>6
<1>3. N \in Done
  <2>1. N \in 0..N
    OBVIOUS
  <2> HIDE DEF Done
  <2> QED BY <1>1, <1>2, <2>1, UpTo
<1> QED BY <1>3

\* The same for a function that satisfies the loop's equation in other words.
LEMMA LoopTyped ==
    ASSUME NEW N \in Nat, NEW T, NEW f, f[0] \in T,
           \A n \in 1..N : f[n - 1] \in T => f[n] \in T
    PROVE  \A n \in 0..N : f[n] \in T
<1> DEFINE P == {n \in 0..N : f[n] \in T}
<1>1. 0 \in P
    OBVIOUS
<1>2. ASSUME NEW m \in Nat, m < N, m \in P PROVE m + 1 \in P
  <2>1. m + 1 \in 1..N /\ m + 1 \in 0..N /\ (m + 1) - 1 = m
    BY <1>2
  <2> QED BY <1>2, <2>1
<1>3. \A m \in 0..N : m \in P
    <2> HIDE DEF P
    <2> QED BY <1>1, <1>2, UpTo
<1> QED BY <1>3

\* Size adds up the writes.
LEMMA SizeLoop ==
    ASSUME NEW f \in Seq(Entry)
    PROVE  \E to \in [0..Len(f) -> Nat] :
              /\ to[0] = 0
              /\ \A n \in 1..Len(f) : to[n] = to[n - 1] + f[n].n
              /\ Size(f) = to[Len(f)]
<1> DEFINE N == Len(f)
           G == [n \in 1..N |-> [x \in Nat |-> x + f[n].n]]
<1>1. N \in Nat /\ \A n \in 1..N : f[n].n \in Nat
  <2>1. N \in Nat /\ \A n \in 1..N : f[n] \in Entry
    BY ElementOfSeq, LenProperties
  <2> QED BY <2>1 DEF Entry
<1>2. G \in [1..N -> [Nat -> Nat]]
    BY <1>1
<1>3. PICK g \in [0..N -> Nat] : Loop(g, N, 0, G)
    <2> HIDE DEF G, N
    <2> QED BY <1>1, <1>2, LoopIs
<1> DEFINE to[n \in 0..Len(f)] == IF n = 0 THEN 0 ELSE to[n - 1] + f[n].n
           Is(h) == h = [n \in 0..N |-> IF n = 0 THEN 0 ELSE h[n - 1] + f[n].n]
<1>4. Is(g)
  <2>1. ASSUME NEW n \in 0..N PROVE g[n] = IF n = 0 THEN 0 ELSE g[n - 1] + f[n].n
    <3>1. g[n] = IF n = 0 THEN 0 ELSE G[n][g[n - 1]]
        BY <1>3 DEF Loop
    <3>2. n # 0 => n \in 1..N /\ n - 1 \in 0..N /\ g[n - 1] \in Nat
        BY <1>1
    <3> QED BY <3>1, <3>2
  <2>2. g = [n \in 0..N |-> g[n]]
    OBVIOUS
  <2> QED BY <2>1, <2>2
<1>5. Is(to)
    BY <1>4
<1>6. Size(f) = to[N]
    BY DEF Size
<1> HIDE DEF to
<1>7. to[0] = 0 /\ \A n \in 1..N : to[n] = to[n - 1] + f[n].n
    BY <1>1, <1>5
<1>8. \A n \in 0..N : to[n] \in Nat
  <2>1. \A n \in 1..N : to[n - 1] \in Nat => to[n] \in Nat
    BY <1>1, <1>7
  <2>2. to[0] \in Nat
    BY <1>7
  <2> HIDE DEF N
  <2> QED BY <1>1, <2>1, <2>2, LoopTyped
<1>9. to \in [0..N -> Nat]
    BY <1>5, <1>8
<1> QED BY <1>6, <1>7, <1>9

LEMMA SizeEmpty == Size(<<>>) = 0
<1>1. <<>> \in Seq(Entry) /\ Len(<<>>) = 0
    OBVIOUS
<1> QED BY <1>1, SizeLoop

LEMMA SizeIsNat ==
    ASSUME NEW f \in Seq(Entry)
    PROVE  Size(f) \in Nat
<1>1. PICK to \in [0..Len(f) -> Nat] : Size(f) = to[Len(f)]
    BY SizeLoop
<1>2. Len(f) \in 0..Len(f)
    BY LenProperties
<1> QED BY <1>1, <1>2

LEMMA SizeAppend ==
    ASSUME NEW f \in Seq(Entry), NEW e \in Entry
    PROVE  Size(f) \in Nat /\ Size(Append(f, e)) = Size(f) + e.n
<1> DEFINE N == Len(f)
           g == Append(f, e)
<1>1. N \in Nat /\ g \in Seq(Entry) /\ Len(g) = N + 1 /\ g[N + 1] = e /\ \A n \in 1..N : g[n] = f[n]
    BY AppendProperties, LenProperties
<1>2. PICK a \in [0..N -> Nat] :
        /\ a[0] = 0 /\ (\A n \in 1..N : a[n] = a[n - 1] + f[n].n) /\ Size(f) = a[N]
    BY SizeLoop
<1> HIDE DEF g
<1>3. PICK b \in [0..N + 1 -> Nat] :
        /\ b[0] = 0 /\ (\A n \in 1..N + 1 : b[n] = b[n - 1] + g[n].n) /\ Size(g) = b[N + 1]
    BY <1>1, SizeLoop
<1> HIDE DEF N
<1> DEFINE Same == {n \in 0..N : a[n] = b[n]}
<1>4. 0 \in Same
    BY <1>1, <1>2, <1>3
<1>5. ASSUME NEW m \in Nat, m < N, m \in Same PROVE m + 1 \in Same
  <2>1. m + 1 \in 1..N /\ m + 1 \in 0..N /\ m + 1 \in 1..N + 1 /\ (m + 1) - 1 = m
    BY <1>1, <1>5
  <2>2. a[m + 1] = a[m] + f[m + 1].n /\ b[m + 1] = b[m] + g[m + 1].n /\ g[m + 1] = f[m + 1]
    BY <1>1, <1>2, <1>3, <2>1
  <2> QED BY <1>5, <2>1, <2>2
<1>6. \A m \in 0..N : m \in Same
    <2> HIDE DEF Same
    <2> QED BY <1>1, <1>4, <1>5, UpTo
<1>7. N \in 0..N /\ N + 1 \in 1..N + 1 /\ (N + 1) - 1 = N
    BY <1>1
<1>8. a[N] = b[N] /\ b[N + 1] = b[N] + e.n /\ a[N] \in Nat
    BY <1>1, <1>3, <1>6, <1>7
<1> QED BY <1>2, <1>3, <1>8 DEF g

-----------------------------------------------------------------------------
SelectRun(to, s, S) ==
    /\ to[0] = <<>>
    /\ \A n \in 1..Len(s) : to[n] = IF n \in S THEN Append(to[n - 1], s[n]) ELSE to[n - 1]
    /\ Select(s, S) = to[Len(s)]

\* Select goes through the list once.
LEMMA SelectLoop ==
    ASSUME NEW E, NEW s \in Seq(E), NEW S
    PROVE  \E to \in [0..Len(s) -> Seq(E)] : SelectRun(to, s, S)
<1> DEFINE N == Len(s)
           T == Seq(E)
           Body(x, n) == IF n \in S THEN Append(x, s[n]) ELSE x
           G == [n \in 1..N |-> [x \in T |-> Body(x, n)]]
<1>1. N \in Nat /\ <<>> \in T /\ \A n \in 1..N : \A x \in T : Body(x, n) \in T
    BY ElementOfSeq, LenProperties, AppendProperties
<1>2. G \in [1..N -> [T -> T]]
    <2> HIDE DEF Body, T
    <2> QED BY <1>1
<1>3. PICK g \in [0..N -> T] : Loop(g, N, <<>>, G)
    <2> HIDE DEF G, N, T
    <2> QED BY <1>1, <1>2, LoopIs
<1> DEFINE to[n \in 0 .. Len(s)] ==
              IF n = 0 THEN <<>>
              ELSE IF n \in S THEN Append(to[n - 1], s[n]) ELSE to[n - 1]
           At(h, n) == IF n = 0 THEN <<>>
                       ELSE IF n \in S THEN Append(h[n - 1], s[n]) ELSE h[n - 1]
           Is(h) == h = [n \in 0..N |-> At(h, n)]
<1>4. Is(g)
  <2>1. ASSUME NEW n \in 0..N PROVE g[n] = At(g, n)
    <3>1. g[n] = IF n = 0 THEN <<>> ELSE G[n][g[n - 1]]
        BY <1>3 DEF Loop
    <3>2. n # 0 => n \in 1..N /\ n - 1 \in 0..N /\ g[n - 1] \in T
        BY <1>1
    <3>3. n # 0 => g[n] = Body(g[n - 1], n)
        <4> HIDE DEF Body, T
        <4> QED BY <3>1, <3>2
    <3> QED BY <3>1, <3>3
  <2>2. g = [n \in 0..N |-> g[n]]
    OBVIOUS
  <2> HIDE DEF At
  <2> QED BY <2>1, <2>2
<1>5. Is(to)
    BY <1>4
<1>6. Select(s, S) = to[N]
    BY DEF Select
<1> HIDE DEF to
<1>7. to[0] = <<>> /\ \A n \in 1..N : to[n] = Body(to[n - 1], n)
  <2>1. \A n \in 0..N : to[n] = At(to, n)
    <3> HIDE DEF At
    <3> QED BY <1>5
  <2>2. 0 \in 0..N /\ \A n \in 1..N : n \in 0..N /\ n # 0
    BY <1>1
  <2> QED BY <2>1, <2>2
<1>8. \A n \in 0..N : to[n] \in T
  <2> HIDE DEF Body, T, N
  <2>1. \A n \in 1..N : to[n - 1] \in T => to[n] \in T
    BY <1>1, <1>7
  <2>2. to[0] \in T
    BY <1>1, <1>7
  <2> QED BY <1>1, <2>1, <2>2, LoopTyped
<1>9. to \in [0..N -> T]
    BY <1>5, <1>8
<1>10. SelectRun(to, s, S)
    BY <1>6, <1>7 DEF SelectRun
<1> QED BY <1>9, <1>10

\* The elements of q are those of s at the places h, which are those of S up to m.
Places(q, s, S, m, h) ==
    /\ h \in [1..Len(q) -> S \cap (1..m)]
    /\ \A n \in 1..Len(q) : q[n] = s[h[n]]
    /\ \A a, b \in 1..Len(q) : a < b => h[a] < h[b]
    /\ \A i \in S \cap (1..m) : \E n \in 1..Len(q) : h[n] = i

LEMMA PlacesSkip ==
    ASSUME NEW q, NEW s, NEW S, NEW m \in Nat, m + 1 \notin S, NEW h, Places(q, s, S, m, h)
    PROVE  Places(q, s, S, m + 1, h)
<1>1. S \cap (1..m + 1) = S \cap (1..m)
    OBVIOUS
<1> QED BY <1>1 DEF Places

LEMMA PlacesAppend ==
    ASSUME NEW E, NEW q \in Seq(E), NEW s, NEW S, NEW m \in Nat, m + 1 \in S, s[m + 1] \in E,
           NEW h, Places(q, s, S, m, h)
    PROVE  \E g : Places(Append(q, s[m + 1]), s, S, m + 1, g)
<1> DEFINE L == Len(q)
           p == Append(q, s[m + 1])
           g == [n \in 1..L + 1 |-> IF n = L + 1 THEN m + 1 ELSE h[n]]
<1>1. L \in Nat /\ Len(p) = L + 1 /\ p[L + 1] = s[m + 1] /\ \A n \in 1..L : p[n] = q[n]
    BY AppendProperties, LenProperties
<1>2. /\ \A n \in 1..L : h[n] \in S \cap (1..m) /\ q[n] = s[h[n]]
      /\ \A a, b \in 1..L : a < b => h[a] < h[b]
      /\ \A i \in S \cap (1..m) : \E n \in 1..L : h[n] = i
    BY DEF Places
<1> HIDE DEF L, p
<1>3. g \in [1..L + 1 -> S \cap (1..m + 1)]
  <2>1. ASSUME NEW n \in 1..L + 1 PROVE g[n] \in S \cap (1..m + 1)
    <3>1. n # L + 1 => n \in 1..L
        BY <1>1
    <3> QED BY <1>2, <3>1
  <2> QED BY <2>1
<1>4. \A n \in 1..L + 1 : p[n] = s[g[n]]
  <2>1. ASSUME NEW n \in 1..L + 1 PROVE p[n] = s[g[n]]
    <3>1. n # L + 1 => n \in 1..L
        BY <1>1
    <3> QED BY <1>1, <1>2, <3>1
  <2> QED BY <2>1
<1>5. \A a, b \in 1..L + 1 : a < b => g[a] < g[b]
  <2>1. ASSUME NEW a \in 1..L + 1, NEW b \in 1..L + 1, a < b PROVE g[a] < g[b]
    <3>1. a \in 1..L /\ g[a] = h[a] /\ h[a] \in 1..m
        BY <1>1, <1>2, <2>1
    <3>2. CASE b = L + 1
        BY <3>1, <3>2
    <3>3. CASE b # L + 1
      <4>1. b \in 1..L /\ g[b] = h[b]
        BY <1>1, <3>3
      <4> QED BY <1>2, <2>1, <3>1, <4>1
    <3> QED BY <3>2, <3>3
  <2> QED BY <2>1
<1>6. \A i \in S \cap (1..m + 1) : \E n \in 1..L + 1 : g[n] = i
  <2>1. ASSUME NEW i \in S \cap (1..m + 1) PROVE \E n \in 1..L + 1 : g[n] = i
    <3>1. CASE i = m + 1
      <4>1. L + 1 \in 1..L + 1 /\ g[L + 1] = m + 1
        BY <1>1
      <4> QED BY <3>1, <4>1
    <3>2. CASE i # m + 1
      <4>1. i \in S \cap (1..m)
        BY <3>2
      <4>2. PICK n \in 1..L : h[n] = i
        BY <1>2, <4>1
      <4>3. n \in 1..L + 1 /\ g[n] = i
        BY <1>1, <4>2
      <4> QED BY <4>3
    <3> QED BY <3>1, <3>2
  <2> QED BY <2>1
<1>7. Places(p, s, S, m + 1, g)
    <2> HIDE DEF g
    <2> QED BY <1>1, <1>3, <1>4, <1>5, <1>6 DEF Places
<1> QED BY <1>7 DEF p

\* Select returns the elements whose places are in S, each once, in their order.
LEMMA SelectPlaces ==
    ASSUME NEW E, NEW s \in Seq(E), NEW S
    PROVE  Select(s, S) \in Seq(E) /\ \E h : Places(Select(s, S), s, S, Len(s), h)
<1> DEFINE N == Len(s)
<1>1. N \in Nat /\ \A n \in 1..N : s[n] \in E
    BY ElementOfSeq, LenProperties
<1>0. PICK to \in [0..N -> Seq(E)] : SelectRun(to, s, S)
    BY SelectLoop
<1>2. /\ to[0] = <<>>
      /\ \A n \in 1..N : to[n] = IF n \in S THEN Append(to[n - 1], s[n]) ELSE to[n - 1]
      /\ Select(s, S) = to[N]
    BY <1>0 DEF SelectRun
<1> HIDE DEF N
<1> DEFINE P == {m \in 0..N : \E h : Places(to[m], s, S, m, h)}
<1>3. 0 \in P
  <2>1. Places(<<>>, s, S, 0, <<>>)
    BY DEF Places
  <2> QED BY <1>1, <1>2, <2>1
<1>4. ASSUME NEW m \in Nat, m < N, m \in P PROVE m + 1 \in P
  <2>1. m \in 0..N /\ m + 1 \in 1..N /\ m + 1 \in 0..N /\ (m + 1) - 1 = m
    BY <1>1, <1>4
  <2>2. PICK h : Places(to[m], s, S, m, h)
    BY <1>4
  <2>3. to[m] \in Seq(E) /\ s[m + 1] \in E
    BY <1>1, <2>1
  <2>4. \E g : Places(to[m + 1], s, S, m + 1, g)
    <3>1. CASE m + 1 \in S
      <4>1. to[m + 1] = Append(to[m], s[m + 1])
        BY <1>2, <2>1, <3>1
      <4> QED BY <2>2, <2>3, <3>1, <4>1, PlacesAppend
    <3>2. CASE m + 1 \notin S
      <4>1. to[m + 1] = to[m]
        BY <1>2, <2>1, <3>2
      <4> QED BY <2>2, <3>2, <4>1, PlacesSkip
    <3> QED BY <3>1, <3>2
  <2> QED BY <2>1, <2>4
<1>5. \A m \in 0..N : m \in P
    <2> HIDE DEF P
    <2> QED BY <1>1, <1>3, <1>4, UpTo
<1>6. N \in 0..N
    BY <1>1
<1> QED BY <1>2, <1>5, <1>6 DEF N

\* It ends with the end of s when all places there are in S.
LEMMA SelectEnd ==
    ASSUME NEW E, NEW s \in Seq(E), NEW S, NEW m \in 0..Len(s), m + 1 .. Len(s) \subseteq S
    PROVE  /\ Select(s, S) \in Seq(E)
           /\ Len(Select(s, S)) >= Len(s) - m
           /\ \A d \in 0 .. Len(s) - m - 1 : Select(s, S)[Len(Select(s, S)) - d] = s[Len(s) - d]
<1> DEFINE N == Len(s)
<1>1. N \in Nat /\ m \in Nat /\ \A n \in 1..N : s[n] \in E
    BY ElementOfSeq, LenProperties
<1>0. PICK to \in [0..N -> Seq(E)] : SelectRun(to, s, S)
    BY SelectLoop
<1>2. /\ to[0] = <<>>
      /\ \A n \in 1..N : to[n] = IF n \in S THEN Append(to[n - 1], s[n]) ELSE to[n - 1]
      /\ Select(s, S) = to[N]
    BY <1>0 DEF SelectRun
<1> DEFINE L == Len(to[m])
           Agrees(k) == /\ Len(to[m + k]) = L + k
                        /\ \A j \in 1..k : to[m + k][L + j] = s[m + j]
           P == {k \in 0..N - m : Agrees(k)}
<1>3. N - m \in Nat /\ L \in Nat
    BY <1>1, LenProperties
<1>4. 0 \in P
    BY <1>1, <1>3
<1>5. ASSUME NEW k \in Nat, k < N - m, k \in P PROVE k + 1 \in P
  <2> DEFINE q == to[m + k]
             x == s[m + (k + 1)]
  <2>1. /\ m + k \in 0..N /\ m + (k + 1) \in 1..N /\ m + (k + 1) \in m + 1 .. N
        /\ (m + (k + 1)) - 1 = m + k /\ k + 1 \in 0..N - m
    BY <1>1, <1>3, <1>5
  <2>2. q \in Seq(E) /\ x \in E /\ to[m + (k + 1)] = Append(q, x)
    BY <1>1, <1>2, <2>1
  <2>3. Len(q) = L + k /\ \A j \in 1..k : q[L + j] = s[m + j]
    BY <1>5
  <2> HIDE DEF q, x, L, N, Agrees
  <2>4. /\ Len(Append(q, x)) = Len(q) + 1 /\ Append(q, x)[Len(q) + 1] = x
        /\ \A i \in 1..Len(q) : Append(q, x)[i] = q[i]
    BY <2>2, AppendProperties
  <2>5. ASSUME NEW j \in 1..k + 1 PROVE Append(q, x)[L + j] = s[m + j]
    <3>1. CASE j = k + 1
      <4>1. L + j = Len(q) + 1
        BY <1>3, <2>3, <3>1
      <4> QED BY <2>4, <3>1, <4>1 DEF x
    <3>2. CASE j # k + 1
      <4>1. j \in 1..k /\ L + j \in 1..Len(q)
        BY <1>3, <1>5, <2>3, <3>2
      <4> QED BY <2>3, <2>4, <4>1
    <3> QED BY <3>1, <3>2
  <2>6. Len(Append(q, x)) = L + (k + 1)
    BY <1>3, <2>3, <2>4
  <2> QED BY <2>1, <2>2, <2>5, <2>6 DEF Agrees
<1>6. N - m \in P
  <2>1. N - m \in 0..N - m
    BY <1>3
  <2> HIDE DEF P, N
  <2> QED BY <1>3, <1>4, <1>5, <2>1, UpTo
<1>7. m + (N - m) = N /\ N \in 0..N
    BY <1>1
<1>8. to[N] \in Seq(E) /\ Len(to[N]) = L + (N - m) /\ \A j \in 1..N - m : to[N][L + j] = s[m + j]
    BY <1>6, <1>7
<1>9. ASSUME NEW d \in 0 .. N - m - 1 PROVE to[N][Len(to[N]) - d] = s[N - d]
  <2>1. /\ (N - m) - d \in 1..N - m /\ L + ((N - m) - d) = Len(to[N]) - d
        /\ m + ((N - m) - d) = N - d
    BY <1>1, <1>3, <1>8
  <2> HIDE DEF L, N
  <2> QED BY <1>8, <2>1
<1> HIDE DEF L, N
<1>10. Len(to[N]) >= N - m
    BY <1>3, <1>8
<1> QED BY <1>2, <1>8, <1>9, <1>10 DEF N

-----------------------------------------------------------------------------
\* Facts about two numbers.
LEMMA MinIs ==
    ASSUME NEW a \in Int, NEW b \in Int
    PROVE  Min({a, b}) = IF a <= b THEN a ELSE b
BY DEF Min

LEMMA MaxIs ==
    ASSUME NEW a \in Int, NEW b \in Int
    PROVE  Max({a, b}) = IF a <= b THEN b ELSE a
BY DEF Max

LEMMA MaxOf ==
    ASSUME NEW X, X \subseteq Int, NEW x \in X, \A y \in X : y <= x
    PROVE  Max(X) = x
<1> DEFINE z == CHOOSE z \in X : \A y \in X : z >= y
<1>1. \A y \in X : x >= y
    OBVIOUS
<1>2. z \in X /\ \A y \in X : z >= y
    BY <1>1
<1> HIDE DEF z
<1>3. z = x
  <2>1. z >= x /\ z <= x /\ z \in Int /\ x \in Int
    BY <1>2
  <2> QED BY <2>1
<1> QED BY <1>3 DEF Max, z

LEMMA MinOf ==
    ASSUME NEW X, X \subseteq Int, NEW x \in X, \A y \in X : y >= x
    PROVE  Min(X) = x
<1> DEFINE z == CHOOSE z \in X : \A y \in X : z <= y
<1>1. \A y \in X : x <= y
    OBVIOUS
<1>2. z \in X /\ \A y \in X : z <= y
    BY <1>1
<1> HIDE DEF z
<1>3. z = x
  <2>1. z <= x /\ z >= x /\ z \in Int /\ x \in Int
    BY <1>2
  <2> QED BY <2>1
<1> QED BY <1>3 DEF Min, z

LEMMA SameEnd ==
    ASSUME NEW a \in Nat, NEW b \in Nat, 1..a = 1..b
    PROVE  a = b
<1>1. ~(a < b)
  <2>1. a < b => b \in 1..b /\ b \notin 1..a
    OBVIOUS
  <2> QED BY <2>1
<1>2. ~(b < a)
  <2>1. b < a => a \in 1..a /\ a \notin 1..b
    OBVIOUS
  <2> QED BY <2>1
<1> QED BY <1>1, <1>2

\* Facts about records and writes.
LEMMA LineLenIs ==
    ASSUME NEW r \in Record
    PROVE  LineLen(r) \in Nat /\ LineLen(r) >= 2
<1>1. r.data \in Seq(Byte)
    BY DEF Record
<1>2. Len(r.data) \in Nat
    BY <1>1, LenProperties
<1> QED BY <1>2 DEF LineLen

LEMMA RecIs ==
    ASSUME NEW f \in Frames, NEW t \in Times
    PROVE  Rec(f, t) \in Record
<1>1. f \in Frame /\ t \in Int
    BY CaptureAssumption
<1> QED BY <1>1 DEF Frame, Record, Rec

LEMMA MaxRing == max \in Nat \ {0}
BY CaptureAssumption DEF max

\* The n bytes of a line that this run writes for its next frame.
Line(r, n) == [rec |-> r, n |-> n, run |-> run, i |-> seen + 1]

LEMMA WrittenIs ==
    ASSUME TypeInv, NEW r \in Record, NEW n \in Nat
    PROVE  /\ n = 0 => Written(r, n) = file
           /\ n # 0 => Written(r, n) = Append(file, Line(r, n)) /\ Line(r, n) \in Entry
BY DEF TypeInv, Written, Line, Entry

\* What Write does: the file stays and the capture is stopped; the line is
\* written; or a part of it is, and the capture stopped.
WroteNone == file' = file /\ stopped' = TRUE

WroteAll(r) ==
    /\ stopped = FALSE /\ stopped' = FALSE /\ LineLen(r) <= remain
    /\ file' = Append(file, Line(r, LineLen(r)))
    /\ remain' = remain - LineLen(r)

WrotePart(r) ==
    /\ stopped = FALSE /\ LineLen(r) <= remain
    /\ \E n \in 1 .. LineLen(r) - 1 : file' = Append(file, Line(r, n))

LEMMA WriteIs ==
    ASSUME TypeInv, NEW r \in Record, Write(r)
    PROVE  /\ remain' \in Int
           /\ WroteNone \/ WroteAll(r) \/ (WrotePart(r) /\ stopped' = TRUE)
<1>0. remain \in Int /\ stopped \in BOOLEAN /\ LineLen(r) \in Nat /\ LineLen(r) >= 2
    BY LineLenIs DEF TypeInv
<1>1. CASE stopped /\ UNCHANGED <<file, remain, stopped>>
    BY <1>0, <1>1 DEF WroteNone
<1>2. CASE ~stopped /\ LineLen(r) > remain /\ StopAtCap /\ UNCHANGED <<file, remain>>
    BY <1>0, <1>2 DEF WroteNone, StopAtCap
<1>3. CASE /\ ~stopped /\ LineLen(r) <= remain
           /\ file' = Written(r, LineLen(r))
           /\ remain' = remain - LineLen(r)
           /\ UNCHANGED stopped
  <2>1. file' = Append(file, Line(r, LineLen(r)))
    BY <1>0, <1>3, WrittenIs
  <2>2. stopped = FALSE /\ stopped' = FALSE
    BY <1>0, <1>3
  <2>3. WroteAll(r)
    BY <1>3, <2>1, <2>2 DEF WroteAll
  <2> QED BY <1>0, <1>3, <2>3
<1>4. CASE /\ ~stopped /\ LineLen(r) <= remain
           /\ \E n \in Cuts(r) : file' = Written(r, n)
           /\ stopped' = TRUE
           /\ UNCHANGED remain
  <2>1. PICK n \in Cuts(r) : file' = Written(r, n)
    BY <1>4
  <2>2. n \in Nat /\ (n = 0 \/ n \in 1 .. LineLen(r) - 1)
    BY <1>0 DEF Cuts
  <2>3. CASE n = 0
    BY <1>0, <1>4, <2>1, <2>2, <2>3, WrittenIs DEF WroteNone
  <2>4. CASE n # 0
    <3>1. n \in 1 .. LineLen(r) - 1 /\ file' = Append(file, Line(r, n))
        BY <2>1, <2>2, <2>4, WrittenIs
    <3>2. stopped = FALSE
        BY <1>0, <1>4
    <3>3. WrotePart(r)
        BY <1>4, <3>1, <3>2 DEF WrotePart
    <3> QED BY <1>0, <1>4, <3>3
  <2> QED BY <2>3, <2>4
<1> QED BY <1>1, <1>2, <1>3, <1>4 DEF Write

LEMMA DieWritingIs ==
    ASSUME TypeInv, NEW r \in Record, DieWriting(r)
    PROVE  WrotePart(r) /\ up' = FALSE
<1>0. stopped \in BOOLEAN /\ LineLen(r) \in Nat /\ LineLen(r) >= 2
    BY LineLenIs DEF TypeInv
<1>1. PICK n \in {1, LineLen(r) - 1} : file' = Written(r, n)
    BY DEF DieWriting
<1>2. n \in Nat /\ n # 0 /\ n \in 1 .. LineLen(r) - 1
    BY <1>0
<1>3. file' = Append(file, Line(r, n))
    BY <1>1, <1>2, WrittenIs
<1>4. stopped = FALSE /\ LineLen(r) <= remain /\ up' = FALSE
    BY <1>0 DEF DieWriting
<1> QED BY <1>2, <1>3, <1>4 DEF WrotePart

\* A line that is written makes the file longer by a write of the right type.
LEMMA Wrote ==
    ASSUME TypeInv, NEW r \in Record, NEW n \in Nat \ {0}, file' = Append(file, Line(r, n))
    PROVE  /\ Line(r, n) \in Entry
           /\ file' \in Seq(Entry) /\ Len(file) \in Nat /\ Len(file') = Len(file) + 1
           /\ \A k \in 1 .. Len(file) : file'[k] = file[k]
           /\ file'[Len(file) + 1] = Line(r, n)
           /\ Size(file) \in Nat /\ Size(file') = Size(file) + n
<1>1. file \in Seq(Entry)
    BY DEF TypeInv
<1>2. Line(r, n) \in Entry /\ Line(r, n).n = n
    BY DEF TypeInv, Line, Entry
<1>3. /\ Append(file, Line(r, n)) \in Seq(Entry)
      /\ Len(Append(file, Line(r, n))) = Len(file) + 1
      /\ \A k \in 1 .. Len(file) : Append(file, Line(r, n))[k] = file[k]
      /\ Append(file, Line(r, n))[Len(file) + 1] = Line(r, n)
    BY <1>1, <1>2, AppendProperties
<1>4. Len(file) \in Nat
    BY <1>1, LenProperties
<1>5. Size(file) \in Nat /\ Size(Append(file, Line(r, n))) = Size(file) + n
    BY <1>1, <1>2, SizeAppend
<1> QED BY <1>2, <1>3, <1>4, <1>5

\* The ring keeps the last records.
LEMMA KeepIs ==
    ASSUME NEW s \in Seq(Record)
    PROVE  /\ Keep(s) \in Seq(Record)
           /\ Len(Keep(s)) = IF Len(s) > max THEN max ELSE Len(s)
           /\ \A d \in 0 .. Len(Keep(s)) - 1 : Keep(s)[Len(Keep(s)) - d] = s[Len(s) - d]
<1> DEFINE N == Len(s)
           q == SubSeq(s, N - max + 1, N)
<1>1. N \in Nat /\ max \in Nat \ {0} /\ \A i \in 1..N : s[i] \in Record
    BY LenProperties, ElementOfSeq, MaxRing
<1>2. CASE N > max
  <2>1. \A i \in N - max + 1 .. N : s[i] \in Record
    BY <1>1, <1>2
  <2>2. N - max + 1 \in Int /\ N \in Int /\ N - max + 1 <= N /\ N - (N - max + 1) + 1 = max
    BY <1>1
  <2>3. /\ q \in Seq(Record)
        /\ Len(q) = N - (N - max + 1) + 1
        /\ \A i \in 1 .. N - (N - max + 1) + 1 : q[i] = s[(N - max + 1) + i - 1]
    <3> HIDE DEF N
    <3> QED BY <2>1, <2>2, SubSeqProperties
  <2>4. Keep(s) = q
    BY <1>2 DEF Keep
  <2>5. Len(q) = max
    BY <2>2, <2>3
  <2>6. ASSUME NEW d \in 0 .. max - 1 PROVE q[max - d] = s[N - d]
    <3>1. max - d \in 1 .. N - (N - max + 1) + 1 /\ (N - max + 1) + (max - d) - 1 = N - d
        BY <1>1
    <3> HIDE DEF N, q
    <3> QED BY <2>3, <3>1
  <2> HIDE DEF N, q
  <2> QED BY <1>2, <2>3, <2>4, <2>5, <2>6 DEF N
<1>3. CASE ~(N > max)
    BY <1>1, <1>3 DEF Keep
<1> QED BY <1>2, <1>3

\* The ring after an append.
LEMMA RingIs ==
    ASSUME TypeInv, NEW r \in Record, ring' = Keep(Append(ring, r))
    PROVE  /\ Len(ring) \in Nat
           /\ ring' \in Seq(Record)
           /\ Len(ring') = IF Len(ring) + 1 > max THEN max ELSE Len(ring) + 1
           /\ ring'[Len(ring')] = r
           /\ \A d \in 1 .. Len(ring') - 1 : ring'[Len(ring') - d] = ring[Len(ring) - (d - 1)]
<1> DEFINE s == Append(ring, r)
           N == Len(ring)
           q == Keep(s)
           M == Len(q)
<1>1. ring \in Seq(Record)
    BY DEF TypeInv
<1>2. N \in Nat /\ s \in Seq(Record) /\ Len(s) = N + 1 /\ s[N + 1] = r /\ \A k \in 1..N : s[k] = ring[k]
    BY <1>1, AppendProperties, LenProperties
<1>3. max \in Nat \ {0}
    BY MaxRing
<1> HIDE DEF s
<1>4. /\ q \in Seq(Record)
      /\ M = IF N + 1 > max THEN max ELSE N + 1
      /\ \A d \in 0 .. M - 1 : q[M - d] = s[N + 1 - d]
  <2>1. /\ q \in Seq(Record)
        /\ M = IF Len(s) > max THEN max ELSE Len(s)
        /\ \A d \in 0 .. M - 1 : q[M - d] = s[Len(s) - d]
    BY <1>2, KeepIs
  <2> HIDE DEF q, M, N
  <2> QED BY <1>2, <2>1
<1> HIDE DEF q, M, N
<1>5. M \in Nat /\ M >= 1 /\ M <= N + 1
    BY <1>2, <1>3, <1>4
<1>6. q[M] = r
  <2>1. 0 \in 0 .. M - 1 /\ M - 0 = M /\ N + 1 - 0 = N + 1
    BY <1>2, <1>5
  <2> QED BY <1>2, <1>4, <2>1
<1>7. ASSUME NEW d \in 1 .. M - 1 PROVE q[M - d] = ring[N - (d - 1)]
  <2>1. d \in 0 .. M - 1 /\ N + 1 - d = N - (d - 1) /\ N - (d - 1) \in 1..N
    BY <1>2, <1>5
  <2>2. q[M - d] = s[N - (d - 1)]
    BY <1>4, <2>1
  <2> QED BY <1>2, <2>1, <2>2
<1>8. ring' = q
    BY DEF q, s
<1> QED BY <1>2, <1>4, <1>6, <1>7, <1>8 DEF M, N

-----------------------------------------------------------------------------
\* What main does with the size of the file it opens.
LEMMA OpenIs ==
    ASSUME NEW size \in Nat, Open(size)
    PROVE  remain' = Cap - size /\ remain' \in Int /\ stopped' \in BOOLEAN
<1>1. remain' = Cap - size /\ remain' \in Int
    BY CaptureAssumption DEF Open
<1>2. stopped' = (remain' <= 0)
    BY DEF Open, AtCap
<1> QED BY <1>1, <1>2

\* The types of the capture's state hold from the start.
LEMMA InitTypes == Init => TypeInv
<1> SUFFICES ASSUME Init PROVE TypeInv
    OBVIOUS
<1>1. /\ ring \in Seq(Record) /\ stopped \in BOOLEAN /\ remain \in Int
      /\ seen \in Nat /\ received \in Nat /\ statFails \in Nat
    BY CaptureAssumption DEF Init, AtCap
<1>2. CASE file = <<>> /\ up = TRUE /\ run = 1
    BY <1>1, <1>2 DEF TypeInv
<1>3. CASE /\ \E a \in Archives :
                file = [j \in DOMAIN a |-> [rec |-> a[j], n |-> LineLen(a[j]), run |-> 0, i |-> j]]
           /\ up = FALSE /\ run = MaxRuns
  <2>1. PICK a \in Archives :
            file = [j \in DOMAIN a |-> [rec |-> a[j], n |-> LineLen(a[j]), run |-> 0, i |-> j]]
    BY <1>3
  <2>2. a \in Seq(Record)
    BY CaptureAssumption
  <2>3. Len(a) \in Nat /\ DOMAIN a = 1..Len(a) /\ \A j \in 1..Len(a) : a[j] \in Record
    BY <2>2, LenProperties, ElementOfSeq
  <2>4. \A j \in 1..Len(a) : [rec |-> a[j], n |-> LineLen(a[j]), run |-> 0, i |-> j] \in Entry
    BY <2>3, LineLenIs DEF Entry
  <2>5. file \in [1..Len(a) -> Entry]
    BY <2>1, <2>3, <2>4
  <2>6. file \in Seq(Entry)
    BY <2>3, <2>5, SeqDef
  <2> QED BY <1>1, <1>3, <2>6, CaptureAssumption DEF TypeInv
<1> QED BY <1>2, <1>3 DEF Init

\* Every step keeps them.
LEMMA NextTypes == TypeInv /\ [Next]_vars => TypeInv'
<1> SUFFICES ASSUME TypeInv, [Next]_vars PROVE TypeInv'
    OBVIOUS
<1>0. /\ file \in Seq(Entry) /\ ring \in Seq(Record)
      /\ up \in BOOLEAN /\ stopped \in BOOLEAN
      /\ remain \in Int
      /\ run \in Nat /\ seen \in Nat /\ received \in Nat /\ statFails \in Nat
    BY DEF TypeInv
<1>1. ASSUME NEW f \in Frames, NEW t \in Times, Add(Rec(f, t)) PROVE TypeInv'
  <2> DEFINE r == Rec(f, t)
  <2>1. r \in Record /\ Write(r) /\ ring' = Keep(Append(ring, r))
    BY <1>1, RecIs DEF Add
  <2>2. seen' = seen + 1 /\ received' = received + 1 /\ UNCHANGED <<up, run, statFails>>
    BY <1>1 DEF Add
  <2> HIDE DEF r
  <2>3. ring' \in Seq(Record)
    BY <2>1, RingIs
  <2>4. remain' \in Int /\ (WroteNone \/ WroteAll(r) \/ (WrotePart(r) /\ stopped' = TRUE))
    BY <2>1, WriteIs
  <2>5. file' \in Seq(Entry) /\ stopped' \in BOOLEAN
    <3>1. CASE WroteNone
        BY <1>0, <3>1 DEF WroteNone
    <3>2. CASE WroteAll(r)
      <4>1. LineLen(r) \in Nat \ {0} /\ file' = Append(file, Line(r, LineLen(r))) /\ stopped' = FALSE
        BY <2>1, <3>2, LineLenIs DEF WroteAll
      <4> QED BY <2>1, <4>1, Wrote
    <3>3. CASE WrotePart(r) /\ stopped' = TRUE
      <4>1. PICK n \in 1 .. LineLen(r) - 1 : file' = Append(file, Line(r, n))
        BY <3>3 DEF WrotePart
      <4>2. n \in Nat \ {0}
        BY <2>1, LineLenIs
      <4> QED BY <2>1, <3>3, <4>1, <4>2, Wrote
    <3> QED BY <2>4, <3>1, <3>2, <3>3
  <2> QED BY <1>0, <2>2, <2>3, <2>4, <2>5 DEF TypeInv
<1>2. ASSUME NEW f \in Frames, NEW t \in Times, DieWriting(Rec(f, t)) PROVE TypeInv'
  <2> DEFINE r == Rec(f, t)
  <2>1. r \in Record /\ WrotePart(r) /\ up' = FALSE
    BY <1>2, RecIs, DieWritingIs
  <2>2. received' = received + 1 /\ UNCHANGED <<remain, stopped, ring, run, seen, statFails>>
    BY <1>2 DEF DieWriting
  <2> HIDE DEF r
  <2>3. PICK n \in 1 .. LineLen(r) - 1 : file' = Append(file, Line(r, n))
    BY <2>1 DEF WrotePart
  <2>4. n \in Nat \ {0}
    BY <2>1, LineLenIs
  <2>5. file' \in Seq(Entry)
    BY <2>1, <2>3, <2>4, Wrote
  <2>6. ring' \in Seq(Record) /\ up' \in BOOLEAN /\ stopped' \in BOOLEAN /\ remain' \in Int
    BY <1>0, <2>1, <2>2
  <2> QED BY <1>0, <2>2, <2>5, <2>6 DEF TypeInv
<1>3. CASE Die
    BY <1>0, <1>3 DEF Die, TypeInv
<1>4. CASE Restart
  <2>1. /\ up' = TRUE /\ ring' = <<>> /\ run' = run + 1 /\ seen' = 0
        /\ UNCHANGED <<file, received>>
    BY <1>4 DEF Restart
  <2>2. Size(file) \in Nat
    BY <1>0, SizeIsNat
  <2>3. remain' \in Int /\ stopped' \in BOOLEAN
    <3>1. PICK size \in Nat : Open(size)
        BY <1>4, <2>2 DEF Restart
    <3> QED BY <3>1, OpenIs
  <2>4. statFails' \in Nat
    BY <1>0, <1>4 DEF Restart
  <2> QED BY <1>0, <2>1, <2>3, <2>4 DEF TypeInv
<1>5. CASE UNCHANGED vars
    BY <1>0, <1>5 DEF vars, TypeInv
<1> QED BY <1>1, <1>2, <1>3, <1>4, <1>5 DEF Next

-----------------------------------------------------------------------------
\* The kinds of a step: a frame is received, a frame is cut short, the process
\* dies between frames, it starts again, or nothing happens.
Received(r) ==
    /\ up = TRUE /\ up' = TRUE
    /\ WroteNone \/ WroteAll(r) \/ (WrotePart(r) /\ stopped' = TRUE)
    /\ ring' = Keep(Append(ring, r))
    /\ seen' = seen + 1 /\ received' = received + 1
    /\ run' = run /\ statFails' = statFails

Cut(r) ==
    /\ up = TRUE /\ up' = FALSE
    /\ WrotePart(r)
    /\ received' = received + 1
    /\ run' = run /\ statFails' = statFails

LEMMA StepIs ==
    ASSUME TypeInv, [Next]_vars
    PROVE  \/ \E r \in Record : Received(r) \/ Cut(r)
           \/ Die \/ Restart \/ UNCHANGED vars
<1>0. up \in BOOLEAN
    BY DEF TypeInv
<1>1. ASSUME NEW f \in Frames, NEW t \in Times, Add(Rec(f, t)) PROVE \E r \in Record : Received(r)
  <2> DEFINE r == Rec(f, t)
  <2>1. r \in Record /\ Write(r)
    BY <1>1, RecIs DEF Add
  <2>2. WroteNone \/ WroteAll(r) \/ (WrotePart(r) /\ stopped' = TRUE)
    <3> HIDE DEF r
    <3> QED BY <2>1, WriteIs
  <2>3. /\ up = TRUE /\ up' = up /\ ring' = Keep(Append(ring, r))
        /\ seen' = seen + 1 /\ received' = received + 1
        /\ run' = run /\ statFails' = statFails
    BY <1>0, <1>1 DEF Add
  <2> HIDE DEF r
  <2>4. Received(r)
    BY <2>2, <2>3 DEF Received
  <2> QED BY <2>1, <2>4
<1>2. ASSUME NEW f \in Frames, NEW t \in Times, DieWriting(Rec(f, t)) PROVE \E r \in Record : Cut(r)
  <2> DEFINE r == Rec(f, t)
  <2>1. r \in Record /\ WrotePart(r) /\ up' = FALSE
    BY <1>2, RecIs, DieWritingIs
  <2>2. up = TRUE /\ received' = received + 1 /\ run' = run /\ statFails' = statFails
    BY <1>0, <1>2 DEF DieWriting
  <2> HIDE DEF r
  <2>3. Cut(r)
    BY <2>1, <2>2 DEF Cut
  <2> QED BY <2>1, <2>3
<1> QED BY <1>1, <1>2 DEF Next

LEMMA BudgetGrows ==
    ASSUME NEW n \in Nat
    PROVE  Cap * (1 + n) \in Nat /\ Cap * (1 + (n + 1)) = Cap * (1 + n) + Cap
<1>1. Cap \in Nat
    BY CaptureAssumption
<1> QED BY <1>1

\* The budget covers the file and what may still be written, at the start.
LEMMA InitCap == Init => CapInv
<1> SUFFICES ASSUME Init PROVE CapInv
    OBVIOUS
<1>1. statFails = 0 /\ remain = Cap /\ received = 0
    BY DEF Init
<1>2. Budget = Cap /\ Cap \in Nat
    BY <1>1, CaptureAssumption DEF Budget
<1>3. CASE file = <<>> /\ up = TRUE /\ run = 1
    BY <1>1, <1>2, <1>3, SizeEmpty DEF CapInv
<1>4. CASE up = FALSE /\ run = MaxRuns
    BY <1>1, <1>4 DEF CapInv, Archived, Capturing
<1> QED BY <1>3, <1>4 DEF Init

\* What a write leaves of the budget.
LEMMA WroteCap ==
    ASSUME TypeInv, CapInv, up = TRUE, NEW r \in Record,
           WroteNone \/ WroteAll(r) \/ (WrotePart(r) /\ ~Capturing'),
           statFails' = statFails
    PROVE  CapInv'
<1>0. Size(file) \in Nat /\ remain \in Int
    BY SizeIsNat DEF TypeInv
<1>1. Size(file) <= Budget /\ (stopped = FALSE => Size(file) + remain <= Budget)
    BY DEF CapInv, Archived, Capturing
<1>2. Budget' = Budget
    BY DEF Budget
<1>3. Budget \in Nat
    BY BudgetGrows DEF Budget, TypeInv
<1>4. LineLen(r) \in Nat /\ LineLen(r) >= 2
    BY LineLenIs
<1>5. CASE WroteNone
  <2>1. Size(file)' = Size(file) /\ ~Capturing'
    BY <1>5 DEF WroteNone, Capturing
  <2> QED BY <1>1, <1>2, <2>1 DEF CapInv
<1>6. CASE WroteAll(r)
  <2>1. stopped = FALSE /\ file' = Append(file, Line(r, LineLen(r))) /\ remain' = remain - LineLen(r) /\ LineLen(r) <= remain
    BY <1>6 DEF WroteAll
  <2>2. Size(file') = Size(file) + LineLen(r)
    BY <1>4, <2>1, Wrote
  <2>3. Size(file') <= Budget /\ Size(file') + remain' <= Budget
    BY <1>0, <1>1, <1>3, <1>4, <2>1, <2>2
  <2> QED BY <1>2, <2>3 DEF CapInv
<1>7. CASE WrotePart(r) /\ ~Capturing'
  <2>1. PICK n \in 1 .. LineLen(r) - 1 : file' = Append(file, Line(r, n))
    BY <1>7 DEF WrotePart
  <2>2. stopped = FALSE /\ LineLen(r) <= remain /\ n \in Nat \ {0}
    BY <1>4, <1>7 DEF WrotePart
  <2>3. Size(file') = Size(file) + n
    BY <2>1, <2>2, Wrote
  <2>4. Size(file') <= Budget
    BY <1>0, <1>1, <1>3, <1>4, <2>2, <2>3
  <2> QED BY <1>2, <1>7, <2>4 DEF CapInv
<1> QED BY <1>5, <1>6, <1>7

LEMMA NextCap == TypeInv /\ CapInv /\ [Next]_vars => CapInv'
<1> SUFFICES ASSUME TypeInv, CapInv, [Next]_vars PROVE CapInv'
    OBVIOUS
<1>1. ASSUME NEW r \in Record, Received(r) PROVE CapInv'
  <2>1. stopped' = TRUE => ~Capturing'
    BY DEF Capturing
  <2> QED BY <1>1, <2>1, WroteCap DEF Received
<1>2. ASSUME NEW r \in Record, Cut(r) PROVE CapInv'
  <2>1. ~Capturing'
    BY <1>2 DEF Cut, Capturing
  <2> QED BY <1>2, <2>1, WroteCap DEF Cut
<1>3. CASE Die
  <2>1. UNCHANGED <<file, run, received, statFails>> /\ up' = FALSE /\ up
    BY <1>3 DEF Die
  <2> QED BY <2>1 DEF CapInv, Archived, Capturing, Budget
<1>4. CASE Restart
  <2>1. up = FALSE /\ run < MaxRuns /\ file' = file
    BY <1>4 DEF Restart, TypeInv
  <2>2. Size(file) <= Budget /\ Size(file) \in Nat /\ Cap \in Nat
    BY <2>1, SizeIsNat, CaptureAssumption DEF CapInv, Archived, TypeInv
  <2>3. Size(file)' = Size(file)
    BY <2>1
  <2>4. Budget \in Nat /\ Cap <= Budget
    <3>1. statFails \in Nat
        BY DEF TypeInv
    <3>2. statFails = 0 \/ (statFails - 1 \in Nat /\ statFails = (statFails - 1) + 1)
        BY <3>1
    <3>3. Cap * (1 + 0) = Cap
        BY <2>2
    <3> QED BY <2>2, <3>1, <3>2, <3>3, BudgetGrows DEF Budget
  <2>5. CASE Open(Size(file)) /\ UNCHANGED statFails
    <3>1. remain' = Cap - Size(file) /\ Budget' = Budget
        BY <2>2, <2>5, OpenIs DEF Budget
    <3>2. Size(file) + remain' <= Budget
        BY <2>2, <2>4, <3>1
    <3> QED BY <2>2, <2>3, <3>1, <3>2 DEF CapInv
  <2>6. CASE Open(0) /\ statFails' = statFails + 1
    <3>1. remain' = Cap
        BY <2>2, <2>6, OpenIs
    <3>2. Budget' = Budget + Cap
        BY <2>6, BudgetGrows DEF Budget, TypeInv
    <3>3. Size(file) <= Budget' /\ Size(file) + remain' <= Budget'
        BY <2>2, <2>4, <3>1, <3>2
    <3> QED BY <2>3, <3>3 DEF CapInv
  <2> QED BY <1>4, <2>5, <2>6 DEF Restart
<1>5. CASE UNCHANGED vars
    BY <1>5 DEF vars, CapInv, Archived, Capturing, Budget
<1> QED BY <1>1, <1>2, <1>3, <1>4, <1>5, StepIs

-----------------------------------------------------------------------------
\* The writes of an archive or of a daemon that has just started are in order.
LEMMA InitFile == Init => FileInv /\ RunInv /\ RingInv
<1> SUFFICES ASSUME Init PROVE FileInv /\ RunInv /\ RingInv
    OBVIOUS
<1>0. ring = <<>> /\ seen = 0 /\ Len(ring) = 0 /\ max \in Nat \ {0}
    BY MaxRing DEF Init
<1>1. RingInv
  <2>1. Min({max, seen}) = 0
    BY <1>0, MinIs
  <2> QED BY <1>0, <2>1 DEF RingInv
<1>2. CASE file = <<>> /\ up = TRUE /\ run = 1
  <2>1. Len(file) = 0
    BY <1>2
  <2> QED BY <1>0, <1>1, <1>2, <2>1 DEF FileInv, RunInv
<1>3. CASE /\ \E a \in Archives :
                file = [j \in DOMAIN a |-> [rec |-> a[j], n |-> LineLen(a[j]), run |-> 0, i |-> j]]
           /\ up = FALSE /\ run = MaxRuns
  <2>1. PICK a \in Archives :
            file = [j \in DOMAIN a |-> [rec |-> a[j], n |-> LineLen(a[j]), run |-> 0, i |-> j]]
    BY <1>3
  <2>2. a \in Seq(Record)
    BY CaptureAssumption
  <2>3. Len(a) \in Nat /\ DOMAIN a = 1..Len(a)
    BY <2>2, LenProperties
  <2>4. file \in Seq(Entry)
    BY InitTypes DEF TypeInv
  <2>5. Len(file) = Len(a)
    <3>1. DOMAIN file = 1..Len(file) /\ Len(file) \in Nat
        BY <2>4, LenProperties
    <3>2. DOMAIN file = 1..Len(a)
        BY <2>1, <2>3
    <3> QED BY <2>3, <3>1, <3>2, SameEnd
  <2>6. \A k \in 1..Len(file) : file[k].i = k /\ file[k].run = 0 /\ file[k].n = LineLen(a[k]) /\ file[k].rec = a[k]
    BY <2>1, <2>3, <2>5
  <2>7. \A k \in 2..Len(file) : Follows(file, k)
    <3>1. ASSUME NEW k \in 2..Len(file) PROVE Follows(file, k)
      <4>1. k \in 1..Len(file) /\ k - 1 \in 1..Len(file) /\ k = (k - 1) + 1
        BY <2>3, <2>5
      <4>2. file[k].run = 0 /\ file[k - 1].run = 0 /\ file[k].i = k /\ file[k - 1].i = k - 1
        BY <2>6, <4>1
      <4>3. Whole(file, k - 1)
        BY <2>6, <4>1 DEF Whole
      <4>4. file[k].i = file[k - 1].i + 1
        BY <4>1, <4>2
      <4> QED BY <4>2, <4>3, <4>4 DEF Follows
    <3> QED BY <3>1
  <2>8. file # <<>> => 1 \in 1..Len(file)
    BY <2>4, EmptySeq
  <2>9. \A k \in 1..Len(file) : file[k].run <= run /\ file[k].n <= LineLen(file[k].rec)
    <3>1. \A k \in 1..Len(file) : LineLen(a[k]) \in Nat
        BY <2>2, <2>5, ElementOfSeq, LineLenIs
    <3>2. \A k \in 1..Len(file) : file[k].n = LineLen(file[k].rec) /\ LineLen(file[k].rec) \in Nat
        BY <2>6, <3>1
    <3>3. 0 <= run
        BY <1>3, CaptureAssumption
    <3> QED BY <2>6, <3>2, <3>3
  <2>10. FileInv
    BY <2>6, <2>7, <2>8, <2>9 DEF FileInv
  <2> QED BY <1>1, <1>3, <2>10 DEF RunInv, Capturing
<1> QED BY <1>2, <1>3 DEF Init

\* The fields of a write.
LEMMA EntryIs ==
    ASSUME TypeInv
    PROVE  /\ Len(file) \in Nat
           /\ \A k \in 1..Len(file) :
                /\ file[k].rec \in Record /\ file[k].n \in Nat \ {0}
                /\ file[k].run \in Nat /\ file[k].i \in Nat \ {0}
<1>1. file \in Seq(Entry)
    BY DEF TypeInv
<1>2. Len(file) \in Nat /\ \A k \in 1..Len(file) : file[k] \in Entry
    BY <1>1, LenProperties, ElementOfSeq
<1> QED BY <1>2 DEF Entry

\* A line that is written, whole or not, comes after those of its run.
LEMMA WroteFile ==
    ASSUME TypeInv, FileInv, RunInv, Capturing, NEW r \in Record, NEW n \in 1 .. LineLen(r),
           file' = Append(file, Line(r, n)), run' = run
    PROVE  FileInv'
<1> DEFINE N == Len(file)
           g == file'
<1>0. LineLen(r) \in Nat /\ n \in Nat \ {0}
    BY LineLenIs
<1>1. /\ N \in Nat /\ Len(g) = N + 1 /\ g[N + 1] = Line(r, n) /\ g # <<>>
      /\ \A k \in 1..N : g[k] = file[k]
    BY <1>0, Wrote, EmptySeq
<1>2. /\ Line(r, n).run = run /\ Line(r, n).i = seen + 1
      /\ Line(r, n).n = n /\ Line(r, n).rec = r
    BY DEF Line
<1>3. seen \in Nat /\ run \in Nat
    BY DEF TypeInv
<1>4. /\ seen <= N
      /\ \A d \in 0 .. seen - 1 : file[N - d].run = run /\ file[N - d].i = seen - d /\ Whole(file, N - d)
      /\ \A k \in 1 .. N - seen : file[k].run < run
    BY DEF RunInv
<1>5. /\ file # <<>> => file[1].i = 1
      /\ \A k \in 2..N : Follows(file, k)
      /\ \A k \in 1..N : file[k].run <= run /\ file[k].n <= LineLen(file[k].rec)
    BY DEF FileInv
<1> HIDE DEF N, g
<1>6. g[1].i = 1
  <2>1. CASE N = 0
    BY <1>1, <1>2, <1>3, <1>4, <2>1
  <2>2. CASE N # 0
    <3>1. 1 \in 1..N /\ file # <<>>
        BY <1>1, <2>2 DEF N
    <3> QED BY <1>1, <1>5, <3>1
  <2> QED BY <2>1, <2>2
<1>7. ASSUME NEW k \in 2 .. N + 1 PROVE Follows(g, k)
  <2>1. CASE k # N + 1
    <3>1. k \in 2..N /\ k \in 1..N /\ k - 1 \in 1..N
        BY <1>1, <2>1
    <3>2. g[k] = file[k] /\ g[k - 1] = file[k - 1] /\ Follows(file, k)
        BY <1>1, <1>5, <3>1
    <3> QED BY <3>2 DEF Follows, Whole
  <2>2. CASE k = N + 1
    <3>1. k - 1 = N /\ N \in 1..N
        BY <1>1, <2>2
    <3>2. g[k] = Line(r, n) /\ g[k - 1] = file[N]
        BY <1>1, <2>2, <3>1
    <3>3. CASE seen = 0
      <4>1. N \in 1 .. N - seen
        BY <1>1, <3>1, <3>3
      <4> QED BY <1>2, <1>4, <3>2, <3>3, <4>1, EntryIs DEF Follows
    <3>4. CASE seen # 0
      <4>1. 0 \in 0 .. seen - 1 /\ N - 0 = N /\ seen - 0 = seen
        BY <1>1, <1>3, <3>4
      <4>2. file[N].run = run /\ file[N].i = seen /\ Whole(file, N)
        BY <1>4, <4>1
      <4> QED BY <1>2, <3>1, <3>2, <4>2 DEF Follows, Whole
    <3> QED BY <3>3, <3>4
  <2> QED BY <2>1, <2>2
<1>8. ASSUME NEW k \in 1 .. N + 1 PROVE g[k].run <= run /\ g[k].n <= LineLen(g[k].rec)
  <2>1. CASE k = N + 1
    BY <1>0, <1>1, <1>2, <1>3, <2>1
  <2>2. CASE k # N + 1
    <3>1. k \in 1..N
        BY <1>1, <2>2
    <3> QED BY <1>1, <1>5, <3>1
  <2> QED BY <2>1, <2>2
<1> QED BY <1>1, <1>6, <1>7, <1>8 DEF FileInv, g

\* A whole line leaves the file ending with what the run has received.
LEMMA WroteRun ==
    ASSUME TypeInv, RunInv, Capturing, NEW r \in Record,
           file' = Append(file, Line(r, LineLen(r))), run' = run, seen' = seen + 1
    PROVE  RunInv'
<1> DEFINE N == Len(file)
           g == file'
           e == Line(r, LineLen(r))
<1>0. LineLen(r) \in Nat \ {0}
    BY LineLenIs
<1>1. N \in Nat /\ Len(g) = N + 1 /\ g[N + 1] = e /\ \A k \in 1..N : g[k] = file[k]
    BY <1>0, Wrote
<1>2. e.run = run /\ e.i = seen + 1 /\ e.n = LineLen(e.rec)
    BY DEF Line
<1>3. seen \in Nat /\ run \in Nat
    BY DEF TypeInv
<1>4. /\ seen <= N
      /\ \A d \in 0 .. seen - 1 : file[N - d].run = run /\ file[N - d].i = seen - d /\ Whole(file, N - d)
      /\ \A k \in 1 .. N - seen : file[k].run < run
    BY DEF RunInv
<1> HIDE DEF N, g, e
<1>5. ASSUME NEW d \in 0 .. (seen + 1) - 1
      PROVE  LET k == (N + 1) - d
             IN  g[k].run = run /\ g[k].i = (seen + 1) - d /\ Whole(g, k)
  <2>1. CASE d = 0
    <3>1. (N + 1) - d = N + 1 /\ (seen + 1) - d = seen + 1
        BY <1>1, <1>3, <2>1
    <3> QED BY <1>1, <1>2, <3>1 DEF Whole
  <2>2. CASE d # 0
    <3>1. /\ d - 1 \in 0 .. seen - 1 /\ (N + 1) - d = N - (d - 1)
          /\ (seen + 1) - d = seen - (d - 1) /\ N - (d - 1) \in 1..N
        BY <1>1, <1>3, <1>4, <2>2
    <3>2. /\ g[N - (d - 1)] = file[N - (d - 1)]
          /\ file[N - (d - 1)].run = run /\ file[N - (d - 1)].i = seen - (d - 1) /\ Whole(file, N - (d - 1))
        BY <1>1, <1>4, <3>1
    <3> QED BY <3>1, <3>2 DEF Whole
  <2> QED BY <2>1, <2>2
<1>6. ASSUME NEW k \in 1 .. (N + 1) - (seen + 1) PROVE g[k].run < run
  <2>1. k \in 1 .. N - seen /\ k \in 1..N
    BY <1>1, <1>3
  <2> QED BY <1>1, <1>4, <2>1
<1>7. seen + 1 <= N + 1
    BY <1>1, <1>3, <1>4
<1> QED BY <1>1, <1>5, <1>6, <1>7 DEF RunInv, g

\* The ring follows the frames that are received, and the file when a line is
\* written.
LEMMA ReceivedRing ==
    ASSUME TypeInv, RunInv, RingInv, NEW r \in Record, Received(r)
    PROVE  RingInv'
<1> DEFINE N == Len(file)
           L == Len(ring)
           M == Len(ring')
<1>1. /\ L \in Nat /\ M = IF L + 1 > max THEN max ELSE L + 1
      /\ ring'[M] = r
      /\ \A d \in 1 .. M - 1 : ring'[M - d] = ring[L - (d - 1)]
    BY RingIs DEF Received
<1>2. max \in Nat \ {0} /\ seen \in Nat /\ seen' = seen + 1 /\ up = TRUE
    BY MaxRing DEF TypeInv, Received
<1>3. L = IF max <= seen THEN max ELSE seen
    BY <1>2, MinIs DEF RingInv
<1>4. Min({max', seen'}) = IF max <= seen + 1 THEN max ELSE seen + 1
  <2>1. max' = max
    BY DEF max
  <2>2. Min({max, seen + 1}) = IF max <= seen + 1 THEN max ELSE seen + 1
    BY <1>2, MinIs
  <2> QED BY <1>2, <2>1, <2>2
<1>5. M = Min({max', seen'})
    BY <1>1, <1>2, <1>3, <1>4
<1>6. ASSUME Capturing'
      PROVE  \A d \in 0 .. M - 1 : ring'[M - d] = file'[Len(file') - d].rec
  <2>1. WroteAll(r)
    BY <1>6 DEF Received, WroteNone, Capturing
  <2>2. Capturing /\ file' = Append(file, Line(r, LineLen(r)))
    BY <1>2, <2>1 DEF WroteAll, Capturing
  <2>3. N \in Nat /\ Len(file') = N + 1 /\ file'[N + 1].rec = r /\ \A k \in 1..N : file'[k] = file[k]
    <3>1. LineLen(r) \in Nat \ {0}
        BY LineLenIs
    <3>2. /\ N \in Nat /\ Len(file') = N + 1 /\ file'[N + 1] = Line(r, LineLen(r))
          /\ \A k \in 1..N : file'[k] = file[k]
        BY <2>2, <3>1, Wrote
    <3> QED BY <3>2 DEF Line
  <2>4. seen <= N /\ \A d \in 0 .. L - 1 : ring[L - d] = file[N - d].rec
    BY <2>2 DEF RunInv, RingInv
  <2> HIDE DEF N, L, M
  <2>5. ASSUME NEW d \in 0 .. M - 1 PROVE ring'[M - d] = file'[N + 1 - d].rec
    <3>1. CASE d = 0
      <4>1. M - d = M /\ N + 1 - d = N + 1
        BY <1>1, <1>2, <2>3, <3>1
      <4> QED BY <1>1, <2>3, <4>1
    <3>2. CASE d # 0
      <4>1. d \in 1 .. M - 1 /\ d - 1 \in 0 .. L - 1 /\ N + 1 - d = N - (d - 1) /\ N - (d - 1) \in 1..N
        BY <1>1, <1>2, <1>3, <2>3, <2>4, <3>2
      <4>2. ring'[M - d] = file[N - (d - 1)].rec
        BY <1>1, <2>4, <4>1
      <4> QED BY <2>3, <4>1, <4>2
    <3> QED BY <3>1, <3>2
  <2> QED BY <2>3, <2>5
<1> QED BY <1>5, <1>6 DEF RingInv

\* The order of the writes is kept by every step, and so is what the end of the
\* file and the ring have in common.
LEMMA NextFile ==
    TypeInv /\ FileInv /\ RunInv /\ RingInv /\ [Next]_vars => FileInv' /\ RunInv' /\ RingInv'
<1> SUFFICES ASSUME TypeInv, FileInv, RunInv, RingInv, [Next]_vars PROVE FileInv' /\ RunInv' /\ RingInv'
    OBVIOUS
<1>1. ASSUME NEW r \in Record, WrotePart(r), up = TRUE, run' = run PROVE FileInv'
  <2>1. PICK n \in 1 .. LineLen(r) - 1 : file' = Append(file, Line(r, n))
    BY <1>1 DEF WrotePart
  <2>2. n \in 1 .. LineLen(r) /\ Capturing
    BY <1>1, LineLenIs DEF WrotePart, Capturing
  <2> QED BY <1>1, <2>1, <2>2, WroteFile
<1>2. ASSUME NEW r \in Record, Received(r) PROVE FileInv' /\ RunInv' /\ RingInv'
  <2>1. RingInv'
    BY <1>2, ReceivedRing
  <2>2. CASE WroteNone
    <3>1. file' = file /\ run' = run /\ ~Capturing'
        BY <1>2, <2>2 DEF Received, WroteNone, Capturing
    <3> QED BY <2>1, <3>1 DEF FileInv, RunInv, Follows, Whole
  <2>3. CASE WroteAll(r)
    <3>1. /\ Capturing /\ file' = Append(file, Line(r, LineLen(r)))
          /\ run' = run /\ seen' = seen + 1 /\ LineLen(r) \in 1 .. LineLen(r)
        BY <1>2, <2>3, LineLenIs DEF Received, WroteAll, Capturing
    <3> QED BY <2>1, <3>1, WroteFile, WroteRun
  <2>4. CASE WrotePart(r) /\ stopped' = TRUE
    <3>1. ~Capturing' /\ up = TRUE /\ run' = run
        BY <1>2, <2>4 DEF Capturing, Received
    <3> QED BY <1>1, <2>1, <2>4, <3>1 DEF RunInv
  <2> QED BY <1>2, <2>2, <2>3, <2>4 DEF Received
<1>3. ASSUME NEW r \in Record, Cut(r) PROVE FileInv' /\ RunInv' /\ RingInv'
  <2>1. ~Capturing' /\ ~up' /\ up = TRUE /\ run' = run /\ WrotePart(r)
    BY <1>3 DEF Capturing, Cut
  <2> QED BY <1>1, <2>1 DEF RunInv, RingInv
<1>4. CASE Die
  <2>1. file' = file /\ run' = run /\ ~Capturing' /\ ~up'
    BY <1>4 DEF Die, Capturing
  <2> QED BY <2>1 DEF FileInv, RunInv, RingInv, Follows, Whole
<1>5. CASE Restart
  <2>1. file' = file /\ run' = run + 1 /\ seen' = 0 /\ ring' = <<>> /\ run \in Nat /\ Len(<<>>) = 0
    BY <1>5 DEF Restart, TypeInv
  <2>2. Len(file) \in Nat /\ \A k \in 1 .. Len(file) : file[k].run \in Nat /\ file[k].run <= run
    BY EntryIs DEF FileInv
  <2>3. FileInv'
    BY <2>1, <2>2 DEF FileInv, Follows, Whole
  <2>4. RunInv'
    BY <2>1, <2>2 DEF RunInv
  <2>5. Min({max', seen'}) = 0
    <3>1. max' = max
        BY DEF max
    <3>2. Min({max, 0}) = 0
        BY MaxRing, MinIs
    <3> QED BY <2>1, <3>1, <3>2
  <2>6. RingInv'
    BY <2>1, <2>5 DEF RingInv
  <2> QED BY <2>3, <2>4, <2>6
<1>6. CASE UNCHANGED vars
    BY <1>6 DEF vars, FileInv, RunInv, RingInv, Follows, Whole, Capturing, max
<1> QED BY <1>2, <1>3, <1>4, <1>5, <1>6, StepIs

\* Whatever is received, written, cut or lost, the budget of cappedWriter, the
\* order of the writes and the recorder's ring stay as IInv says.
THEOREM Invariance == Spec => []IInv
<1>1. Init => IInv
    BY InitTypes, InitCap, InitFile DEF IInv
<1>2. IInv /\ [Next]_vars => IInv'
    BY NextTypes, NextCap, NextFile DEF IInv
<1> QED BY <1>1, <1>2, PTL DEF Spec

\* For every cap, the capture keeps within it, once more for each restart that
\* could not learn the file's size: across failed writes, deaths and restarts.
THEOREM WithinCapHolds == Spec => []WithinCap
<1>1. IInv => WithinCap
    BY SizeIsNat DEF IInv, CapInv, Archived, Budget, WithinCap, TypeInv
<1> QED BY <1>1, Invariance, PTL

-----------------------------------------------------------------------------
\* The places of the writes that are read back.
Good == {k \in DOMAIN file : Parses(file, k)}

LEMMA ParseAllIs ==
    ASSUME TypeInv
    PROVE  /\ ParseAll(file) \in Seq(Entry)
           /\ {<<ParseAll(file)[n].run, ParseAll(file)[n].i>> : n \in DOMAIN ParseAll(file)}
                = {<<file[k].run, file[k].i>> : k \in Good}
<1> DEFINE q == ParseAll(file)
           N == Len(file)
<1>1. file \in Seq(Entry) /\ q = Select(file, Good)
    BY DEF TypeInv, ParseAll, Good
<1>2. DOMAIN file = 1..N
    BY <1>1, LenProperties
<1> HIDE DEF q
<1>3. q \in Seq(Entry) /\ \E h : Places(q, file, Good, N, h)
    BY <1>1, SelectPlaces
<1>4. PICK h : Places(q, file, Good, N, h)
    BY <1>3
<1>5. DOMAIN q = 1..Len(q)
    BY <1>3, LenProperties
<1>6. Good \cap (1..N) = Good
    BY <1>2 DEF Good
<1>7. /\ \A n \in DOMAIN q : h[n] \in Good /\ q[n] = file[h[n]]
      /\ \A k \in Good : \E n \in DOMAIN q : h[n] = k
    <2> HIDE DEF N
    <2> QED BY <1>4, <1>5, <1>6 DEF Places
<1>8. {<<q[n].run, q[n].i>> : n \in DOMAIN q} = {<<file[k].run, file[k].i>> : k \in Good}
    BY <1>7
<1> QED BY <1>3, <1>8 DEF q

\* The frames of a run that were received before that of a write are right
\* before it in the file, and whole.
LEMMA Chain ==
    ASSUME TypeInv, FileInv, NEW k \in 1 .. Len(file)
    PROVE  \A d \in 0 .. file[k].i - 1 :
              /\ k - d \in 1 .. Len(file)
              /\ file[k - d].run = file[k].run /\ file[k - d].i = file[k].i - d
              /\ d # 0 => Whole(file, k - d)
<1> DEFINE N == Len(file)
           Ok(d) == /\ k - d \in 1..N
                    /\ file[k - d].run = file[k].run /\ file[k - d].i = file[k].i - d
                    /\ d # 0 => Whole(file, k - d)
           P == {d \in 0 .. file[k].i - 1 : Ok(d)}
           top == file[k].i - 1
<1>1. N \in Nat /\ \A j \in 1..N : file[j].run \in Nat /\ file[j].i \in Nat \ {0}
    BY EntryIs
<1>2. top \in Nat
    BY <1>1
<1>3. 0 \in P
  <2>1. k - 0 = k /\ 0 \in 0 .. file[k].i - 1 /\ file[k].i - 0 = file[k].i
    BY <1>1
  <2> QED BY <2>1
<1>4. ASSUME NEW d \in Nat, d < top, d \in P PROVE d + 1 \in P
  <2>1. /\ k - d \in 1..N /\ file[k - d].run = file[k].run /\ file[k - d].i = file[k].i - d
    BY <1>4
  <2>2. d + 1 \in 0 .. file[k].i - 1 /\ file[k].i - d > 1
    BY <1>1, <1>4
  <2>3. k - d # 1
    <3>1. file # <<>>
        BY <1>1
    <3>2. file[1].i = 1
        BY <3>1 DEF FileInv
    <3> QED BY <2>1, <2>2, <3>2
  <2>4. k - d \in 2..N /\ k - (d + 1) = (k - d) - 1 /\ (k - d) - 1 \in 1..N
    BY <1>1, <2>1, <2>3
  <2>5. Follows(file, k - d)
    BY <2>4 DEF FileInv
  <2>6. /\ file[k - d].run = file[(k - d) - 1].run /\ file[k - d].i = file[(k - d) - 1].i + 1
        /\ Whole(file, (k - d) - 1)
    BY <2>1, <2>2, <2>5 DEF Follows
  <2>7. file[(k - d) - 1].i = file[k].i - (d + 1)
    <3>1. file[(k - d) - 1].i \in Nat /\ file[k].i \in Nat
        BY <1>1, <2>4
    <3>2. file[k].i - d = file[(k - d) - 1].i + 1
        BY <2>1, <2>6
    <3> DEFINE u == file[(k - d) - 1].i
               v == file[k].i
    <3>3. u \in Nat /\ v \in Nat /\ v - d = u + 1
        BY <3>1, <3>2
    <3> HIDE DEF u, v
    <3>4. u = v - (d + 1)
        BY <3>3
    <3> QED BY <3>4 DEF u, v
  <2> HIDE DEF N
  <2>8. Ok(d + 1)
    BY <2>1, <2>4, <2>6, <2>7
  <2> QED BY <2>2, <2>8
<1>5. \A d \in 0..top : d \in P
    <2> HIDE DEF P, top
    <2> QED BY <1>2, <1>3, <1>4, UpTo
<1> HIDE DEF N
<1> QED BY <1>5 DEF N

\* A whole line is read back unless it ran into a line that was cut.
LEMMA WholeParses ==
    ASSUME TypeInv, NEW p \in 1 .. Len(file), Whole(file, p), p = 1 \/ Whole(file, p - 1)
    PROVE  p \in Good
<1>1. file[p].n \in Nat /\ DOMAIN file = 1..Len(file)
    BY EntryIs, LenProperties DEF TypeInv
<1>2. Ends(file, p) /\ Alone(file, p)
    BY DEF Ends, Alone, Whole
<1>3. file[p].n >= LineLen(file[p].rec) - 1
    BY <1>1 DEF Whole
<1> QED BY <1>1, <1>2, <1>3 DEF Good, Parses

\* The first line of a run is read back too, or an earlier run tore it.
LEMMA FirstParses ==
    ASSUME TypeInv, FileInv, NEW p \in 1 .. Len(file), file[p].i = 1, Whole(file, p)
    PROVE  p \in Good \/ TornBefore(file[p].run)
<1> SUFFICES ASSUME p \notin Good PROVE TornBefore(file[p].run)
    OBVIOUS
<1>1. p # 1 /\ ~Whole(file, p - 1)
    BY WholeParses
<1>2. /\ Len(file) \in Nat /\ p \in 2 .. Len(file)
      /\ p - 1 \in 1 .. Len(file) /\ p - 1 \in 1 .. Len(file) - 1 /\ (p - 1) + 1 = p
    BY <1>1, EntryIs
<1>3. file[p - 1].n \in Nat /\ file[p - 1].i \in Nat \ {0} /\ file[p - 1].rec \in Record
    BY <1>2, EntryIs
<1>4. Follows(file, p)
    BY <1>2 DEF FileInv
<1>5. file[p - 1].run < file[p].run
  <2>1. file[p - 1].run \in Nat /\ file[p].run \in Nat
    BY <1>2, EntryIs
  <2> QED BY <1>1, <1>4, <2>1 DEF Follows
<1>6. file[p - 1].n < LineLen(file[p - 1].rec)
  <2>1. file[p - 1].n <= LineLen(file[p - 1].rec) /\ LineLen(file[p - 1].rec) \in Nat
    BY <1>2, <1>3, LineLenIs DEF FileInv
  <2> QED BY <1>1, <1>3, <2>1 DEF Whole
<1> QED BY <1>2, <1>5, <1>6 DEF TornBefore

\* Whatever failed, died and was started again, what is read back of a run has no
\* holes but for a first frame lost to a line that an earlier run left cut.
THEOREM NoHolesHolds == Spec => []NoHoles
<1>1. ASSUME TypeInv, FileInv PROVE NoHoles
  <2> DEFINE back == {<<ParseAll(file)[n].run, ParseAll(file)[n].i>> : n \in DOMAIN ParseAll(file)}
  <2>1. back = {<<file[k].run, file[k].i>> : k \in Good}
    BY <1>1, ParseAllIs
  <2>2. DOMAIN file = 1 .. Len(file)
    BY <1>1, LenProperties DEF TypeInv
  <2> HIDE DEF back
  <2>3. ASSUME NEW x \in back, NEW j \in 1 .. x[2] - 1
        PROVE  <<x[1], j>> \in back \/ (j = 1 /\ TornBefore(x[1]))
    <3>1. PICK k \in Good : x = <<file[k].run, file[k].i>>
        BY <2>1
    <3>2. k \in 1 .. Len(file)
        BY <2>2 DEF Good
    <3>3. x[1] = file[k].run /\ x[2] = file[k].i
        BY <3>1
    <3> DEFINE i == file[k].i
               d == i - j
               p == k - d
    <3>4. i \in Nat /\ j \in 1 .. i - 1 /\ k \in Nat
        BY <1>1, <3>2, <3>3, EntryIs
    <3>5. d \in 0 .. i - 1 /\ d # 0 /\ i - d = j /\ p - 1 = k - (d + 1)
        BY <3>4
    <3>6. p \in 1 .. Len(file) /\ file[p].run = x[1] /\ file[p].i = j /\ Whole(file, p)
        BY <1>1, <3>2, <3>3, <3>5, Chain
    <3>7. CASE j # 1
      <4>1. d + 1 \in 0 .. i - 1 /\ d + 1 # 0
        BY <3>4, <3>7
      <4>2. Whole(file, p - 1)
        BY <1>1, <3>2, <3>5, <4>1, Chain
      <4>3. p \in Good
        BY <1>1, <3>6, <4>2, WholeParses
      <4> QED BY <2>1, <3>6, <4>3
    <3>8. CASE j = 1
      <4>1. p \in Good \/ TornBefore(file[p].run)
        <5> HIDE DEF p
        <5> QED BY <1>1, <3>6, <3>8, FirstParses
      <4> QED BY <2>1, <3>6, <3>8, <4>1
    <3> QED BY <3>7, <3>8
  <2> QED BY <2>3 DEF NoHoles, back
<1>2. IInv => NoHoles
    BY <1>1 DEF IInv
<1> QED BY <1>2, Invariance, PTL

\* A sequence that agrees with the end of another is its suffix.
LEMMA SuffixIs ==
    ASSUME NEW E, NEW s \in Seq(E), NEW t \in Seq(E), Len(s) <= Len(t),
           \A d \in 0 .. Len(s) - 1 : s[Len(s) - d] = t[Len(t) - d]
    PROVE  IsSuffix(s, t)
<1> DEFINE L == Len(s)
           N == Len(t)
           a == Reverse(s)
           b == Reverse(t)
           u == SubSeq(a, 1, L)
           v == SubSeq(b, 1, L)
<1>1. L \in Nat /\ N \in Nat /\ (\A i \in 1..L : s[i] \in E) /\ (\A i \in 1..N : t[i] \in E)
    BY LenProperties, ElementOfSeq
<1>2. a = [i \in 1..L |-> s[(L - i) + 1]] /\ b = [i \in 1..N |-> t[(N - i) + 1]]
    BY DEF Reverse
<1>3. Len(a) = L /\ Len(b) = N
    <2> HIDE DEF L, N, a, b
    <2> QED BY <1>1, <1>2
<1>4. \A i \in 1..L : a[i] \in E /\ a[i] = b[i] /\ b[i] \in E
  <2>1. ASSUME NEW i \in 1..L PROVE a[i] \in E /\ a[i] = b[i] /\ b[i] \in E
    <3>1. /\ i - 1 \in 0 .. L - 1 /\ L - (i - 1) = (L - i) + 1 /\ N - (i - 1) = (N - i) + 1
          /\ i \in 1..N /\ (L - i) + 1 \in 1..L
        BY <1>1
    <3>2. a[i] = s[(L - i) + 1] /\ b[i] = t[(N - i) + 1]
        <4> HIDE DEF a, b, L, N
        <4> QED BY <1>2, <3>1
    <3> HIDE DEF a, b
    <3> QED BY <1>1, <3>1, <3>2
  <2> QED BY <2>1
<1> HIDE DEF a, b
<1>5. /\ u \in Seq(E) /\ v \in Seq(E)
      /\ Len(u) = (IF 1 <= L THEN L - 1 + 1 ELSE 0) /\ Len(v) = (IF 1 <= L THEN L - 1 + 1 ELSE 0)
      /\ \A i \in 1 .. L - 1 + 1 : u[i] = a[1 + i - 1] /\ v[i] = b[1 + i - 1]
    <2> HIDE DEF L
    <2> QED BY <1>1, <1>4, SubSeqProperties
<1>6. Len(u) = L /\ Len(v) = L /\ \A i \in 1..L : u[i] = v[i]
  <2>1. L - 1 + 1 = L /\ (1 <= L \/ L = 0) /\ \A i \in 1..L : 1 + i - 1 = i
    BY <1>1
  <2> HIDE DEF L, u, v
  <2> QED BY <1>4, <1>5, <2>1
<1>7. u = v
    <2> HIDE DEF L, u, v
    <2> QED BY <1>5, <1>6, SeqEqual
<1> QED BY <1>3, <1>7 DEF IsSuffix, IsPrefix, a, b

\* Lines at the end of the file that are all read back end what is read back.
LEMMA BackEnd ==
    ASSUME TypeInv, NEW m \in 0 .. Len(file), m + 1 .. Len(file) \subseteq Good
    PROVE  /\ ReadBack \in Seq(Record) /\ Len(ReadBack) >= Len(file) - m
           /\ \A d \in 0 .. Len(file) - m - 1 : ReadBack[Len(ReadBack) - d] = file[Len(file) - d].rec
<1> DEFINE q == ParseAll(file)
           N == Len(file)
           b == ReadBack
<1>1. file \in Seq(Entry) /\ q = Select(file, Good) /\ N \in Nat
    BY LenProperties DEF TypeInv, ParseAll, Good
<1> HIDE DEF q
<1>2. /\ q \in Seq(Entry) /\ Len(q) >= N - m
      /\ \A d \in 0 .. N - m - 1 : q[Len(q) - d] = file[N - d]
    BY <1>1, SelectEnd
<1>3. Len(q) \in Nat /\ DOMAIN q = 1 .. Len(q) /\ \A n \in 1 .. Len(q) : q[n] \in Entry
    BY <1>2, LenProperties, ElementOfSeq
<1>4. b = [n \in 1 .. Len(q) |-> q[n].rec]
    BY <1>3 DEF ReadBack, q
<1>5. \A n \in 1 .. Len(q) : q[n].rec \in Record
    BY <1>3 DEF Entry
<1> HIDE DEF b, N
<1>6. b \in [1 .. Len(q) -> Record]
    BY <1>4, <1>5
<1>7. b \in Seq(Record)
    BY <1>3, <1>6, SeqDef
<1>8. Len(b) = Len(q)
    BY <1>3, <1>4
<1>9. ASSUME NEW d \in 0 .. N - m - 1 PROVE b[Len(b) - d] = file[N - d].rec
  <2>1. Len(q) - d \in 1 .. Len(q)
    BY <1>1, <1>2, <1>3
  <2> QED BY <1>2, <1>4, <1>8, <2>1
<1> QED BY <1>2, <1>7, <1>8, <1>9 DEF b, N

\* What is read back is a list of records.
LEMMA ReadBackIs ==
    ASSUME TypeInv
    PROVE  ReadBack \in Seq(Record)
<1>1. Len(file) \in 0 .. Len(file) /\ Len(file) + 1 .. Len(file) = {}
    BY EntryIs
<1> QED BY <1>1, BackEnd

\* While the capture goes on, the end of the file that is read back is what the
\* ring holds, or all of it but the first.
LEMMA RingEnds ==
    ASSUME TypeInv, FileInv, RunInv, RingInv, Capturing
    PROVE  \/ IsSuffix(ring, ReadBack)
           \/ TornBefore(run) /\ Len(ring) = seen /\ IsSuffix(Tail(ring), ReadBack)
<1> DEFINE N == Len(file)
           L == Len(ring)
           b == ReadBack
<1>1. N \in Nat /\ seen \in Nat /\ seen <= N
    BY EntryIs DEF TypeInv, RunInv
<1>2. ring \in Seq(Record) /\ L \in Nat
    BY LenProperties DEF TypeInv
<1>3. L <= seen
  <2>1. L = IF max <= seen THEN max ELSE seen
    BY <1>1, MaxRing, MinIs DEF RingInv, Capturing
  <2> QED BY <1>1, <2>1, MaxRing
<1>4. \A d \in 0 .. L - 1 : ring[L - d] = file[N - d].rec
    BY DEF RingInv
<1>5. \A d \in 0 .. seen - 1 : file[N - d].run = run /\ file[N - d].i = seen - d /\ Whole(file, N - d)
    BY DEF RunInv
<1>6. ASSUME NEW p \in N - seen + 2 .. N PROVE p \in Good
  <2>1. N - p \in 0 .. seen - 1 /\ N - p + 1 \in 0 .. seen - 1 /\ N - (N - p) = p /\ N - (N - p + 1) = p - 1
    BY <1>1
  <2>2. Whole(file, p) /\ Whole(file, p - 1) /\ p \in 1..N
    <3>1. Whole(file, N - (N - p)) /\ Whole(file, N - (N - p + 1))
        BY <1>5, <2>1
    <3>2. p \in 1..N
        BY <1>1
    <3> HIDE DEF N
    <3> QED BY <2>1, <3>1, <3>2
  <2> QED BY <2>2, WholeParses
<1>7. ASSUME NEW m \in 0..N, m + 1 .. N \subseteq Good
      PROVE  b \in Seq(Record) /\ Len(b) >= N - m /\ \A d \in 0 .. N - m - 1 : b[Len(b) - d] = file[N - d].rec
    BY <1>7, BackEnd
<1> HIDE DEF N, L, b
<1>8. ASSUME N - L + 1 .. N \subseteq Good PROVE IsSuffix(ring, b)
  <2>1. N - L \in 0..N /\ N - (N - L) = L
    BY <1>1, <1>2, <1>3
  <2>2. b \in Seq(Record) /\ Len(b) >= L /\ \A d \in 0 .. L - 1 : b[Len(b) - d] = file[N - d].rec
    BY <1>7, <1>8, <2>1
  <2>3. L <= Len(b)
    BY <1>2, <2>2, LenProperties
  <2>4. \A d \in 0 .. Len(ring) - 1 : ring[Len(ring) - d] = b[Len(b) - d]
    BY <1>4, <2>2 DEF L
  <2> QED BY <1>2, <2>2, <2>3, <2>4, SuffixIs DEF L
<1>9. CASE L < seen
  <2>1. \A p \in N - L + 1 .. N : p \in N - seen + 2 .. N
    BY <1>1, <1>2, <1>9
  <2> QED BY <1>6, <1>8, <2>1 DEF b
<1>10. CASE seen = 0
  <2>1. L = 0 /\ N - L + 1 .. N = {}
    BY <1>1, <1>2, <1>3, <1>10
  <2> QED BY <1>8, <2>1 DEF b
<1>11. CASE L = seen /\ seen # 0
  <2> DEFINE p == N - (seen - 1)
  <2>1. p \in 1..N /\ seen - 1 \in 0 .. seen - 1 /\ seen - (seen - 1) = 1 /\ p = N - L + 1
    BY <1>1, <1>11
  <2>2. file[p].run = run /\ file[p].i = 1 /\ Whole(file, p)
    BY <1>5, <2>1
  <2>3. CASE p \in Good
    <3>1. \A j \in N - L + 1 .. N : j = p \/ j \in N - seen + 2 .. N
        BY <1>1, <1>2, <1>11
    <3> QED BY <1>6, <1>8, <2>3, <3>1 DEF b
  <2>4. CASE p \notin Good
    <3>1. TornBefore(run)
        <4> HIDE DEF p
        <4> QED BY <2>1, <2>2, <2>4, FirstParses DEF N
    <3>2. /\ N - (L - 1) \in 0..N /\ N - (N - (L - 1)) = L - 1
          /\ \A j \in N - (L - 1) + 1 .. N : j \in N - seen + 2 .. N
        BY <1>1, <1>2, <1>11
    <3>3. b \in Seq(Record) /\ Len(b) >= L - 1 /\ \A d \in 0 .. (L - 1) - 1 : b[Len(b) - d] = file[N - d].rec
        BY <1>6, <1>7, <3>2
    <3> DEFINE q == Tail(ring)
    <3>4. ring # <<>>
        BY <1>11, <1>1 DEF L
    <3>5. q \in Seq(Record) /\ Len(q) = L - 1 /\ \A i \in 1 .. Len(q) : q[i] = ring[i + 1]
        BY <1>2, <3>4, HeadTailProperties DEF L
    <3> HIDE DEF q
    <3>6. ASSUME NEW d \in 0 .. (L - 1) - 1 PROVE q[(L - 1) - d] = b[Len(b) - d]
      <4>1. (L - 1) - d \in 1 .. Len(q) /\ ((L - 1) - d) + 1 = L - d /\ d \in 0 .. L - 1
        BY <1>2, <3>5
      <4>2. q[(L - 1) - d] = ring[L - d]
        BY <3>5, <4>1
      <4> QED BY <1>4, <3>3, <4>1, <4>2
    <3>7. Len(q) <= Len(b)
        BY <1>2, <3>3, <3>5, LenProperties
    <3>8. IsSuffix(q, b)
        BY <3>3, <3>5, <3>6, <3>7, SuffixIs
    <3> QED BY <1>11, <3>1, <3>8 DEF q, b, L
  <2> QED BY <2>3, <2>4
<1> QED BY <1>1, <1>2, <1>3, <1>9, <1>10, <1>11

\* For every size of the ring, it holds the last frames of the run, and while the
\* capture goes on the REST surface shows the end of what the file yields.
THEOREM RingAgreesHolds == Spec => []RingAgrees
<1>1. IInv => RingAgrees
  <2> SUFFICES ASSUME IInv PROVE RingAgrees
    OBVIOUS
  <2>1. up => Len(ring) = Min({max, seen})
    BY DEF IInv, RingInv
  <2>2. ASSUME up /\ ~stopped
        PROVE  \/ IsSuffix(ring, ReadBack)
               \/ TornBefore(run) /\ Len(ring) = seen /\ IsSuffix(Tail(ring), ReadBack)
    BY <2>2, RingEnds DEF IInv, Capturing
  <2> QED BY <2>1, <2>2 DEF RingAgrees
<1> QED BY <1>1, Invariance, PTL

-----------------------------------------------------------------------------
\* The stable sort.  Earlier is a total order on the places of a list.
LEMMA RecordsIs ==
    ASSUME NEW s \in Seq(Record)
    PROVE  /\ Len(s) \in Nat /\ DOMAIN s = 1..Len(s)
           /\ \A i \in 1..Len(s) : s[i] \in Record /\ s[i].ts \in Int
<1>1. Len(s) \in Nat /\ DOMAIN s = 1..Len(s) /\ \A i \in 1..Len(s) : s[i] \in Record
    BY LenProperties, ElementOfSeq
<1> QED BY <1>1 DEF Record

LEMMA EarlierIs ==
    ASSUME NEW s \in Seq(Record), NEW i \in 1..Len(s), NEW j \in 1..Len(s)
    PROVE  /\ ~Earlier(s, i, i)
           /\ i # j => Earlier(s, i, j) \/ Earlier(s, j, i)
           /\ \A x \in 1..Len(s) : Earlier(s, x, i) /\ Earlier(s, i, j) => Earlier(s, x, j)
<1>1. s[i].ts \in Int /\ s[j].ts \in Int /\ Len(s) \in Nat /\ \A x \in 1..Len(s) : s[x].ts \in Int
    BY RecordsIs
<1> QED BY <1>1 DEF Earlier

\* The rank follows the order, so that each place from 1 on is the rank of one.
LEMMA RankIs ==
    ASSUME NEW s \in Seq(Record)
    PROVE  /\ \A j \in 1..Len(s) : Rank(s, j) \in 1..Len(s)
           /\ \A i, j \in 1..Len(s) : Earlier(s, i, j) => Rank(s, i) < Rank(s, j)
           /\ \A n \in 1..Len(s) : \E j \in 1..Len(s) : Rank(s, j) = n
<1> DEFINE N == Len(s)
           D == 1..N
           Below(j) == {i \in D : Earlier(s, i, j)}
           rank == [j \in D |-> Rank(s, j)]
<1>1. N \in Nat /\ DOMAIN s = D
    BY RecordsIs
<1>2. IsFiniteSet(D) /\ Cardinality(D) = N
    BY <1>1, FS_Interval
<1>3. \A j \in D : Rank(s, j) = Cardinality(Below(j)) + 1
    BY <1>1 DEF Rank
<1>4. ASSUME NEW j \in D
      PROVE  IsFiniteSet(Below(j)) /\ Cardinality(Below(j)) \in Nat /\ Cardinality(Below(j)) < N
  <2>1. Below(j) \in SUBSET D /\ j \notin Below(j)
    BY EarlierIs
  <2> HIDE DEF Below, D
  <2>2. /\ IsFiniteSet(Below(j)) /\ Cardinality(Below(j)) <= Cardinality(D)
        /\ Cardinality(D) = Cardinality(Below(j)) => D = Below(j)
    BY <1>2, <2>1, FS_Subset
  <2>3. Cardinality(Below(j)) \in Nat
    BY <2>2, FS_CardinalityType
  <2>4. Cardinality(Below(j)) # N
    BY <1>2, <1>4, <2>1, <2>2
  <2> QED BY <1>1, <1>2, <2>2, <2>3, <2>4
<1>5. \A j \in D : Rank(s, j) \in D
    <2> HIDE DEF Below, N
    <2> QED BY <1>1, <1>3, <1>4
<1>6. ASSUME NEW i \in D, NEW j \in D, Earlier(s, i, j) PROVE Rank(s, i) < Rank(s, j)
  <2>1. \A x \in D : Earlier(s, x, i) => Earlier(s, x, j)
    BY <1>6, EarlierIs
  <2>2. ~Earlier(s, i, i)
    BY EarlierIs
  <2>3. Below(i) \in SUBSET Below(j) /\ i \in Below(j) /\ i \notin Below(i)
    BY <1>6, <2>1, <2>2
  <2>4. /\ IsFiniteSet(Below(j)) /\ Cardinality(Below(j)) \in Nat /\ Cardinality(Below(i)) \in Nat
    BY <1>4
  <2> HIDE DEF Below
  <2>5. Cardinality(Below(i)) <= Cardinality(Below(j)) /\ (Cardinality(Below(j)) = Cardinality(Below(i)) => Below(j) = Below(i))
    BY <2>3, <2>4, FS_Subset
  <2>6. Cardinality(Below(i)) < Cardinality(Below(j))
    BY <2>3, <2>4, <2>5
  <2> QED BY <1>3, <2>4, <2>6
<1>7. rank \in Injection(D, D)
  <2>1. rank \in [D -> D]
    BY <1>5
  <2>2. ASSUME NEW i \in D, NEW j \in D, rank[i] = rank[j] PROVE i = j
    <3>1. Rank(s, i) = Rank(s, j) /\ Rank(s, i) \in D /\ Rank(s, j) \in D
        BY <1>5, <2>2
    <3>2. ~Earlier(s, i, j) /\ ~Earlier(s, j, i)
        BY <1>1, <1>6, <3>1
    <3> QED BY <3>2, EarlierIs
  <2> HIDE DEF rank, D
  <2> QED BY <2>1, <2>2 DEF Injection, IsInjective
<1>8. rank \in Surjection(D, D)
    <2> HIDE DEF rank, D
    <2> QED BY <1>2, <1>7, FS_Injection
<1>9. \A n \in D : \E j \in D : rank[j] = n
    <2> HIDE DEF rank, D
    <2> QED BY <1>8 DEF Surjection
<1>10. \A n \in D : \E j \in D : Rank(s, j) = n
    BY <1>9
<1> QED BY <1>5, <1>6, <1>10

\* t is s, put in order by the places pi.
Sorting(t, s, pi) ==
    /\ t \in Seq(Record) /\ Len(t) = Len(s)
    /\ pi \in [1..Len(s) -> 1..Len(s)]
    /\ \A n \in 1..Len(s) : t[n] = s[pi[n]]
    /\ \A a, b \in 1..Len(s) : a < b => Earlier(s, pi[a], pi[b])
    /\ \A j \in 1..Len(s) : \E n \in 1..Len(s) : pi[n] = j

\* SortStable puts a list in the order of its time stamps, and what has the same
\* stamp in the order of the list; nothing is lost.
LEMMA SortIs ==
    ASSUME NEW s \in Seq(Record)
    PROVE  \E pi : Sorting(SortStable(s), s, pi)
<1> DEFINE N == Len(s)
           D == 1..N
           pi == [n \in D |-> CHOOSE j \in D : Rank(s, j) = n]
           t == SortStable(s)
<1>1. N \in Nat /\ DOMAIN s = D /\ \A i \in D : s[i] \in Record
    BY RecordsIs
<1>2. \A n \in D : pi[n] \in D /\ Rank(s, pi[n]) = n
  <2>1. \A n \in D : \E j \in D : Rank(s, j) = n
    BY RankIs
  <2> QED BY <2>1
<1>3. t = [n \in D |-> s[pi[n]]]
    BY <1>1 DEF SortStable
<1>4. pi \in [D -> D]
    BY <1>2
<1> HIDE DEF pi, t, D
<1>5. t \in Seq(Record) /\ Len(t) = N
  <2>1. t \in [D -> Record]
    BY <1>1, <1>2, <1>3
  <2>2. t \in [1..N -> Record]
    BY <2>1 DEF D
  <2>3. t \in Seq(Record)
    BY <1>1, <2>2, SeqDef
  <2>4. Len(t) \in Nat /\ DOMAIN t = 1..Len(t)
    BY <2>3, LenProperties
  <2>5. DOMAIN t = 1..N
    BY <2>2
  <2> QED BY <1>1, <2>3, <2>4, <2>5, SameEnd
<1>6. ASSUME NEW a \in D, NEW b \in D, a < b PROVE Earlier(s, pi[a], pi[b])
  <2>1. pi[a] \in D /\ pi[b] \in D /\ Rank(s, pi[a]) = a /\ Rank(s, pi[b]) = b
    BY <1>2
  <2>2. a \in Int /\ b \in Int
    BY <1>1 DEF D
  <2>3. ~Earlier(s, pi[b], pi[a])
    <3>1. Earlier(s, pi[b], pi[a]) => Rank(s, pi[b]) < Rank(s, pi[a])
        BY <2>1, RankIs DEF D
    <3>2. ~(b < a)
        BY <1>6, <2>2
    <3> QED BY <2>1, <3>1, <3>2
  <2>4. pi[a] # pi[b]
    BY <1>6, <2>1, <2>2
  <2> QED BY <2>1, <2>3, <2>4, EarlierIs DEF D
<1>7. ASSUME NEW j \in D PROVE \E n \in D : pi[n] = j
  <2> DEFINE n == Rank(s, j)
  <2>1. n \in D
    BY RankIs DEF D
  <2>2. pi[n] \in D /\ Rank(s, pi[n]) = n
    BY <1>2, <2>1
  <2>3. n \in Int
    BY <1>1, <2>1 DEF D
  <2>4. ~Earlier(s, pi[n], j) /\ ~Earlier(s, j, pi[n])
    <3>1. /\ Earlier(s, pi[n], j) => Rank(s, pi[n]) < n
          /\ Earlier(s, j, pi[n]) => n < Rank(s, pi[n])
        BY <2>2, RankIs DEF D
    <3>2. ~(n < n)
        BY <2>3
    <3> HIDE DEF n
    <3> QED BY <2>2, <3>1, <3>2
  <2>5. pi[n] = j
    BY <2>2, <2>4, EarlierIs DEF D
  <2> QED BY <2>1, <2>5
<1>8. Sorting(t, s, pi)
    BY <1>3, <1>4, <1>5, <1>6, <1>7 DEF Sorting, D
<1> QED BY <1>8 DEF t

\* p lists the records at the places S, by the places g, in order of time, and
\* of the file among those of one time.
Ordered(p, recs, S, g) ==
    /\ p \in Seq(Record)
    /\ g \in [1..Len(p) -> S]
    /\ \A n \in 1..Len(p) : p[n] = recs[g[n]]
    /\ \A a, b \in 1..Len(p) : a < b => Earlier(recs, g[a], g[b])
    /\ \A i \in S : \E n \in 1..Len(p) : g[n] = i

\* What Changes and readCadence go through: matching records, sorted.
LEMMA SortedSelect ==
    ASSUME NEW recs \in Seq(Record), NEW S, S \subseteq 1..Len(recs)
    PROVE  \E g : Ordered(SortStable(Select(recs, S)), recs, S, g)
<1> DEFINE q == Select(recs, S)
           L == Len(q)
           p == SortStable(q)
<1>1. q \in Seq(Record) /\ \E h : Places(q, recs, S, Len(recs), h)
    BY SelectPlaces
<1>2. PICK h : Places(q, recs, S, Len(recs), h)
    BY <1>1
<1> HIDE DEF q
<1>3. PICK pi : Sorting(p, q, pi)
    BY <1>1, SortIs
<1> HIDE DEF p
<1>4. S \cap (1..Len(recs)) = S
    OBVIOUS
<1>5. /\ \A n \in 1..L : h[n] \in S /\ q[n] = recs[h[n]]
      /\ \A a, b \in 1..L : a < b => h[a] < h[b]
      /\ \A i \in S : \E n \in 1..L : h[n] = i
    BY <1>2, <1>4 DEF Places
<1>6. /\ p \in Seq(Record) /\ Len(p) = L
      /\ \A n \in 1..L : pi[n] \in 1..L /\ p[n] = q[pi[n]]
      /\ \A a, b \in 1..L : a < b => Earlier(q, pi[a], pi[b])
      /\ \A j \in 1..L : \E n \in 1..L : pi[n] = j
    BY <1>3 DEF Sorting
<1> DEFINE g == [n \in 1..L |-> h[pi[n]]]
<1> HIDE DEF L
<1>7. g \in [1..L -> S]
    BY <1>5, <1>6
<1>8. \A n \in 1..L : p[n] = recs[g[n]]
    BY <1>5, <1>6
<1>9. ASSUME NEW a \in 1..L, NEW b \in 1..L, a < b PROVE Earlier(recs, g[a], g[b])
  <2>1. pi[a] \in 1..L /\ pi[b] \in 1..L /\ Earlier(q, pi[a], pi[b])
    BY <1>6, <1>9
  <2>2. q[pi[a]] = recs[g[a]] /\ q[pi[b]] = recs[g[b]]
    BY <1>5, <2>1
  <2>3. pi[a] < pi[b] => g[a] < g[b]
    BY <1>5, <2>1
  <2> HIDE DEF g
  <2> QED BY <2>1, <2>2, <2>3 DEF Earlier
<1>10. ASSUME NEW i \in S PROVE \E n \in 1..L : g[n] = i
  <2>1. PICK j \in 1..L : h[j] = i
    BY <1>5
  <2>2. PICK n \in 1..L : pi[n] = j
    BY <1>6
  <2>3. g[n] = i
    BY <2>1, <2>2
  <2> QED BY <2>3
<1>11. Ordered(p, recs, S, g)
    <2> HIDE DEF g
    <2> QED BY <1>6, <1>7, <1>8, <1>9, <1>10 DEF Ordered
<1> QED BY <1>11 DEF p, q

\* The gaps between polls add up to the time from the first to the last.
LEMMA GapsIs ==
    ASSUME NEW p \in Seq(Record), Len(p) >= 1
    PROVE  Gaps(p) = p[Len(p)].ts - p[1].ts
<1> DEFINE N == Len(p)
           gap(n) == p[n].ts - p[n - 1].ts
           Body(x, n) == IF n < 2 THEN 0 ELSE x + gap(n)
           G == [n \in 1..N |-> [x \in Int |-> Body(x, n)]]
<1>1. N \in Nat /\ \A n \in 1..N : p[n].ts \in Int
    BY RecordsIs
<1>2. \A n \in 2..N : gap(n) \in Int /\ n \in 1..N /\ n - 1 \in 1..N
    BY <1>1
<1>3. \A n \in 1..N : \A x \in Int : Body(x, n) \in Int
    BY <1>1, <1>2
<1>4. G \in [1..N -> [Int -> Int]]
    <2> HIDE DEF Body, N
    <2> QED BY <1>3
<1>5. PICK g \in [0..N -> Int] : Loop(g, N, 0, G)
  <2> DEFINE T == Int
  <2>1. 0 \in T /\ G \in [1..N -> [T -> T]]
    BY <1>4
  <2> HIDE DEF G, N, T
  <2>2. \E g \in [0..N -> T] : Loop(g, N, 0, G)
    BY <1>1, <2>1, LoopIs
  <2> QED BY <2>2 DEF T
<1> DEFINE to[n \in 0 .. Len(p)] == IF n < 2 THEN 0 ELSE to[n - 1] + (p[n].ts - p[n - 1].ts)
           At(f, n) == IF n < 2 THEN 0 ELSE f[n - 1] + (p[n].ts - p[n - 1].ts)
           Is(f) == f = [n \in 0..N |-> At(f, n)]
<1>6. Is(g)
  <2>1. ASSUME NEW n \in 0..N PROVE g[n] = At(g, n)
    <3>1. g[n] = IF n = 0 THEN 0 ELSE G[n][g[n - 1]]
        BY <1>5 DEF Loop
    <3>2. n # 0 => n \in 1..N /\ n - 1 \in 0..N /\ g[n - 1] \in Int
        BY <1>1
    <3>3. n # 0 => g[n] = Body(g[n - 1], n)
        <4> HIDE DEF Body
        <4> QED BY <3>1, <3>2
    <3> QED BY <3>1, <3>3
  <2>2. g = [n \in 0..N |-> g[n]]
    OBVIOUS
  <2> HIDE DEF At
  <2> QED BY <2>1, <2>2
<1>7. Is(to)
    BY <1>6
<1>8. Gaps(p) = to[N]
    BY DEF Gaps
<1> HIDE DEF to
<1>9. \A n \in 0..N : to[n] = At(to, n)
    <2> HIDE DEF At
    <2> QED BY <1>7
<1> DEFINE P == {m \in 0 .. N - 1 : to[m + 1] = p[m + 1].ts - p[1].ts}
<1>10. 0 \in P
  <2>1. 1 \in 0..N /\ 1 \in 1..N /\ 0 + 1 = 1 /\ 0 \in 0 .. N - 1
    BY <1>1
  <2>2. to[1] = 0 /\ p[1].ts - p[1].ts = 0
    BY <1>1, <1>9, <2>1
  <2> QED BY <2>1, <2>2
<1>11. ASSUME NEW m \in Nat, m < N - 1, m \in P PROVE m + 1 \in P
  <2>1. /\ (m + 1) + 1 \in 0..N /\ ~((m + 1) + 1 < 2) /\ ((m + 1) + 1) - 1 = m + 1
        /\ m + 1 \in 0 .. N - 1 /\ m + 1 \in 1..N /\ (m + 1) + 1 \in 1..N /\ 1 \in 1..N
    BY <1>1, <1>11
  <2>2. to[(m + 1) + 1] = to[m + 1] + (p[(m + 1) + 1].ts - p[m + 1].ts)
    BY <1>9, <2>1
  <2>3. p[m + 1].ts \in Int /\ p[(m + 1) + 1].ts \in Int /\ p[1].ts \in Int
    BY <1>1, <2>1
  <2>4. to[(m + 1) + 1] = p[(m + 1) + 1].ts - p[1].ts
    BY <1>11, <2>2, <2>3
  <2> QED BY <2>1, <2>4
<1>12. N - 1 \in P
  <2>1. N - 1 \in Nat /\ N - 1 \in 0 .. N - 1
    BY <1>1
  <2> HIDE DEF P, N
  <2> QED BY <1>10, <1>11, <2>1, UpTo
<1>13. (N - 1) + 1 = N
    BY <1>1
<1> QED BY <1>8, <1>12, <1>13

\* The cadence of every register polled is the polls' span over their gaps, for
\* every list of records, whatever the order of their time stamps.
LEMMA CadenceRight ==
    ASSUME NEW recs \in Seq(Record)
    PROVE  CadenceIsRight(recs)
<1> SUFFICES ASSUME NEW k \in Keys(recs), Len(Polls(recs, k)) >= 2
             PROVE  LET T == {recs[i].ts : i \in {j \in Members(recs, k) : IsPoll(recs[j])}}
                        c == readCadence(recs, k)
                    IN  c.avg = (Max(T) - Min(T)) \div (c.n - 1)
    BY DEF CadenceIsRight
<1> DEFINE S == {i \in DOMAIN recs : IsPoll(recs[i]) /\ GroupKey(recs[i]) = k}
           p == Polls(recs, k)
           N == Len(p)
           T == {recs[i].ts : i \in {j \in Members(recs, k) : IsPoll(recs[j])}}
<1>1. DOMAIN recs = 1..Len(recs) /\ \A i \in 1..Len(recs) : recs[i].ts \in Int
    BY RecordsIs
<1>2. p = SortStable(Select(recs, S))
    BY DEF Polls
<1>3. S \subseteq 1..Len(recs)
    BY <1>1
<1>4. T = {recs[i].ts : i \in S}
    BY DEF Members
<1> HIDE DEF p, S, T
<1>5. PICK g : Ordered(p, recs, S, g)
    BY <1>2, <1>3, SortedSelect
<1>6. /\ p \in Seq(Record)
      /\ \A n \in 1..N : g[n] \in S /\ p[n] = recs[g[n]]
      /\ \A a, b \in 1..N : a < b => Earlier(recs, g[a], g[b])
      /\ \A i \in S : \E n \in 1..N : g[n] = i
    BY <1>5 DEF Ordered
<1>7. N \in Nat /\ N >= 2 /\ 1 \in 1..N /\ N \in 1..N /\ \A n \in 1..N : p[n].ts \in Int
  <2>1. N \in Nat /\ N >= 2 /\ \A n \in 1..N : p[n].ts \in Int
    BY <1>6, RecordsIs DEF p
  <2> QED BY <2>1
<1> HIDE DEF N
<1>8. T = {p[n].ts : n \in 1..N}
    BY <1>4, <1>6
<1>9. \A a, b \in 1..N : a <= b => p[a].ts <= p[b].ts
  <2>1. ASSUME NEW a \in 1..N, NEW b \in 1..N, a <= b PROVE p[a].ts <= p[b].ts
    <3>1. CASE a = b
        BY <1>7, <3>1
    <3>2. CASE a < b
      <4>1. Earlier(recs, g[a], g[b]) /\ p[a] = recs[g[a]] /\ p[b] = recs[g[b]]
        BY <1>6, <3>2
      <4>2. p[a].ts \in Int /\ p[b].ts \in Int
        BY <1>7
      <4> QED BY <4>1, <4>2 DEF Earlier
    <3> QED BY <1>7, <2>1, <3>1, <3>2
  <2> QED BY <2>1
<1>10. T \subseteq Int /\ p[1].ts \in T /\ p[N].ts \in T
    BY <1>7, <1>8
<1>11. \A x \in T : p[1].ts <= x /\ x <= p[N].ts
  <2>1. \A n \in 1..N : 1 <= n /\ n <= N
    BY <1>7
  <2>2. \A n \in 1..N : p[1].ts <= p[n].ts /\ p[n].ts <= p[N].ts
    BY <1>7, <1>9, <2>1
  <2> QED BY <1>8, <2>2
<1>12. Max(T) = p[N].ts /\ Min(T) = p[1].ts
  <2> DEFINE first == p[1].ts
             last == p[N].ts
  <2>1. T \subseteq Int /\ first \in T /\ last \in T
    BY <1>10
  <2>2. (\A x \in T : x <= last) /\ (\A x \in T : x >= first)
    BY <1>10, <1>11
  <2> HIDE DEF first, last, T
  <2>3. Max(T) = last
    BY <2>1, <2>2, MaxOf
  <2>4. Min(T) = first
    BY <2>1, <2>2, MinOf
  <2> QED BY <2>3, <2>4 DEF first, last
<1>13. Gaps(p) = p[N].ts - p[1].ts
    BY <1>6, <1>7, GapsIs DEF N
<1>14. readCadence(recs, k).n = N /\ readCadence(recs, k).avg = Gaps(p) \div (N - 1)
    BY DEF readCadence, p, N
<1>15. readCadence(recs, k).avg = (Max(T) - Min(T)) \div (readCadence(recs, k).n - 1)
    BY <1>12, <1>13, <1>14
<1> QED BY <1>15 DEF T

-----------------------------------------------------------------------------
\* The grouping of records by register.
Bytes == Seq(Byte)

KeySet == Nat \X Bytes

Stats == [count : Nat, first : Int, last : Int, len : Nat, distinct : Seq(Bytes)]

Tables == UNION {[D -> Stats] : D \in SUBSET KeySet}

LEMMA KeyIs ==
    ASSUME NEW r \in Record
    PROVE  GroupKey(r) \in KeySet /\ Payload(r) \in Bytes
<1>1. r.data \in Bytes /\ r.src \in Nat /\ r.dst \in Nat
    BY DEF Record, Bytes
<1> DEFINE N == Len(r.data)
<1>2. N \in Nat /\ \A i \in 1..N : r.data[i] \in Byte
    BY <1>1, LenProperties, ElementOfSeq DEF Bytes
<1>3. RegBytes \in Nat \ {0}
    BY RegAssumption
<1>4. Keyed(r) => N >= RegBytes
    BY DEF Keyed
<1>5. Owner(r) \in Nat
    BY <1>1 DEF Owner
<1> HIDE DEF N
<1>6. <<>> \in Bytes
    BY DEF Bytes
<1>7. Keyed(r) => SubSeq(r.data, 1, RegBytes) \in Bytes
  <2>1. Keyed(r) => \A i \in 1..RegBytes : r.data[i] \in Byte
    BY <1>2, <1>3, <1>4
  <2> QED BY <1>3, <2>1, SubSeqProperties DEF Bytes
<1>8. SubSeq(r.data, RegBytes + 1, N) \in Bytes
  <2>1. \A i \in RegBytes + 1 .. N : r.data[i] \in Byte
    BY <1>2, <1>3
  <2>2. RegBytes + 1 \in Int /\ N \in Int
    BY <1>2, <1>3
  <2> QED BY <2>1, <2>2, SubSeqProperties DEF Bytes
<1>9. GroupKey(r) \in KeySet
    BY <1>5, <1>6, <1>7 DEF GroupKey, KeySet
<1>10. Payload(r) \in Bytes
    BY <1>1, <1>8 DEF Payload, N
<1> QED BY <1>9, <1>10

LEMMA AddToIs ==
    ASSUME NEW r \in Record
    PROVE  /\ NewStats(r) \in Stats
           /\ \A st \in Stats : AddTo(st, r) \in Stats
<1>1. r.ts \in Int /\ Payload(r) \in Bytes
    BY KeyIs DEF Record
<1>2. <<>> \in Seq(Bytes)
    OBVIOUS
<1>3. NewStats(r) \in Stats
    BY <1>1, <1>2 DEF NewStats, Stats
<1>4. ASSUME NEW st \in Stats PROVE AddTo(st, r) \in Stats
  <2> DEFINE p == Payload(r)
             d == IF p = <<>> \/ Contains(st.distinct, p) THEN st.distinct ELSE Append(st.distinct, p)
  <2>1. st.count \in Nat /\ st.first \in Int /\ st.last \in Int /\ st.len \in Nat /\ st.distinct \in Seq(Bytes)
    BY DEF Stats
  <2>2. Len(p) \in Nat
    BY <1>1, LenProperties DEF Bytes
  <2>3. Min({st.first, r.ts}) \in Int /\ Max({st.last, r.ts}) \in Int /\ Max({st.len, Len(p)}) \in Nat
    <3> HIDE DEF p
    <3>1. Min({st.first, r.ts}) = IF st.first <= r.ts THEN st.first ELSE r.ts
        BY <1>1, <2>1, MinIs
    <3>2. Max({st.last, r.ts}) = IF st.last <= r.ts THEN r.ts ELSE st.last
        BY <1>1, <2>1, MaxIs
    <3>3. Max({st.len, Len(p)}) = IF st.len <= Len(p) THEN Len(p) ELSE st.len
        BY <2>1, <2>2, MaxIs
    <3> QED BY <1>1, <2>1, <2>2, <3>1, <3>2, <3>3
  <2>4. d \in Seq(Bytes)
    BY <1>1, <2>1, AppendProperties
  <2>5. AddTo(st, r) = [count |-> st.count + 1, first |-> Min({st.first, r.ts}),
                        last |-> Max({st.last, r.ts}), len |-> Max({st.len, Len(p)}), distinct |-> d]
    BY DEF AddTo
  <2>6. st.count + 1 \in Nat
    BY <2>1
  <2> HIDE DEF d, p
  <2> QED BY <2>3, <2>4, <2>5, <2>6 DEF Stats
<1> QED BY <1>3, <1>4

\* What Group does with a record, of the groups so far.
LEMMA GroupAddIs ==
    ASSUME NEW out \in Tables, NEW r \in Record
    PROVE  /\ GroupAdd(out, r) \in Tables
           /\ DOMAIN GroupAdd(out, r) = DOMAIN out \cup {GroupKey(r)}
           /\ \A x \in DOMAIN out \ {GroupKey(r)} : GroupAdd(out, r)[x] = out[x]
           /\ GroupAdd(out, r)[GroupKey(r)] =
                AddTo(IF GroupKey(r) \in DOMAIN out THEN out[GroupKey(r)] ELSE NewStats(r), r)
<1> DEFINE k == GroupKey(r)
           new == AddTo(IF k \in DOMAIN out THEN out[k] ELSE NewStats(r), r)
           D == DOMAIN out \cup {k}
           g == GroupAdd(out, r)
<1>1. DOMAIN out \in SUBSET KeySet /\ \A x \in DOMAIN out : out[x] \in Stats
    BY DEF Tables
<1>2. k \in KeySet
    BY KeyIs
<1>3. new \in Stats
    BY <1>1, AddToIs
<1>4. g = [x \in D |-> IF x # k THEN out[x] ELSE new]
    BY DEF GroupAdd
<1> HIDE DEF new, k, g
<1>5. g \in [D -> Stats]
    BY <1>1, <1>3, <1>4
<1>6. D \in SUBSET KeySet
    BY <1>1, <1>2
<1>7. g \in Tables
    <2> HIDE DEF D
    <2> QED BY <1>5, <1>6 DEF Tables
<1> QED BY <1>4, <1>7 DEF new, k, g

GroupRun(to, recs) ==
    /\ to[0] = [x \in {} |-> {}]
    /\ \A n \in 1..Len(recs) : to[n] = GroupAdd(to[n - 1], recs[n])
    /\ Group(recs) = to[Len(recs)]

\* Group goes through the records once.
LEMMA GroupLoop ==
    ASSUME NEW recs \in Seq(Record)
    PROVE  \E to \in [0..Len(recs) -> Tables] : GroupRun(to, recs)
<1> DEFINE N == Len(recs)
           none == [x \in {} |-> {}]
           G == [n \in 1..N |-> [x \in Tables |-> GroupAdd(x, recs[n])]]
<1>1. N \in Nat /\ \A n \in 1..N : recs[n] \in Record
    BY RecordsIs
<1>2. none \in Tables
  <2>1. none \in [{} -> Stats] /\ {} \in SUBSET KeySet
    OBVIOUS
  <2> QED BY <2>1 DEF Tables
<1>3. \A n \in 1..N : \A x \in Tables : GroupAdd(x, recs[n]) \in Tables
    BY <1>1, GroupAddIs
<1>4. G \in [1..N -> [Tables -> Tables]]
    <2> HIDE DEF N
    <2> QED BY <1>3
<1>5. PICK g \in [0..N -> Tables] : Loop(g, N, none, G)
    <2> HIDE DEF G, N, none
    <2> QED BY <1>1, <1>2, <1>4, LoopIs
<1> DEFINE to[n \in 0 .. Len(recs)] == IF n = 0 THEN [x \in {} |-> {}] ELSE GroupAdd(to[n - 1], recs[n])
           At(f, n) == IF n = 0 THEN [x \in {} |-> {}] ELSE GroupAdd(f[n - 1], recs[n])
           Is(f) == f = [n \in 0..N |-> At(f, n)]
<1>6. Is(g)
  <2>1. ASSUME NEW n \in 0..N PROVE g[n] = At(g, n)
    <3>1. g[n] = IF n = 0 THEN none ELSE G[n][g[n - 1]]
        BY <1>5 DEF Loop
    <3>2. n # 0 => n \in 1..N /\ n - 1 \in 0..N /\ g[n - 1] \in Tables
        BY <1>1
    <3>3. n # 0 => g[n] = GroupAdd(g[n - 1], recs[n])
        BY <3>1, <3>2
    <3> QED BY <3>1, <3>3
  <2>2. g = [n \in 0..N |-> g[n]]
    OBVIOUS
  <2> HIDE DEF At
  <2> QED BY <2>1, <2>2
<1>7. Is(to)
    BY <1>6
<1>8. Group(recs) = to[N]
    BY DEF Group
<1> HIDE DEF to
<1>9. to[0] = none /\ \A n \in 1..N : to[n] = GroupAdd(to[n - 1], recs[n])
  <2>1. \A n \in 0..N : to[n] = At(to, n)
    <3> HIDE DEF At
    <3> QED BY <1>7
  <2>2. 0 \in 0..N /\ \A n \in 1..N : n \in 0..N /\ n # 0
    BY <1>1
  <2> QED BY <2>1, <2>2
<1>10. \A n \in 0..N : to[n] \in Tables
  <2>1. \A n \in 1..N : to[n - 1] \in Tables => to[n] \in Tables
    BY <1>3, <1>9
  <2>2. to[0] \in Tables
    BY <1>2, <1>9
  <2> HIDE DEF N
  <2> QED BY <1>1, <2>1, <2>2, LoopTyped
<1>11. to \in [0..N -> Tables]
    BY <1>7, <1>10
<1>12. GroupRun(to, recs)
    BY <1>8, <1>9 DEF GroupRun
<1> QED BY <1>11, <1>12

\* d lists the payloads of the records at M, each once.
Listed(d, recs, M) ==
    /\ \A i \in M : Payload(recs[i]) # <<>> => \E n \in 1..Len(d) : d[n] = Payload(recs[i])
    /\ \A n \in 1..Len(d) : d[n] # <<>> /\ \E i \in M : d[n] = Payload(recs[i])
    /\ \A a, b \in 1..Len(d) : a # b => d[a] # d[b]

\* st are the statistics of the records at M; its span is of stamps at X.
StatIs(st, recs, M, X) ==
    /\ st \in Stats
    /\ IsFiniteSet(M) /\ st.count = Cardinality(M)
    /\ \A i \in M : st.first <= recs[i].ts /\ recs[i].ts <= st.last
    /\ \E i \in X : st.first = recs[i].ts
    /\ \E i \in X : st.last = recs[i].ts
    /\ \A i \in M : Len(Payload(recs[i])) <= st.len
    /\ Listed(st.distinct, recs, M)

LEMMA ListedAdd ==
    ASSUME NEW recs, NEW M, NEW j, NEW d \in Seq(Bytes), Listed(d, recs, M),
           Payload(recs[j]) \in Bytes
    PROVE  LET p == Payload(recs[j])
           IN  Listed(IF p = <<>> \/ Contains(d, p) THEN d ELSE Append(d, p), recs, M \cup {j})
<1> DEFINE p == Payload(recs[j])
           L == Len(d)
           e == Append(d, p)
           X == M \cup {j}
<1>1. /\ \A i \in M : Payload(recs[i]) # <<>> => \E n \in 1..L : d[n] = Payload(recs[i])
      /\ \A n \in 1..L : d[n] # <<>> /\ \E i \in M : d[n] = Payload(recs[i])
      /\ \A a, b \in 1..L : a # b => d[a] # d[b]
    BY DEF Listed
<1>2. CASE p = <<>> \/ Contains(d, p)
  <2>1. p # <<>> => \E n \in 1..L : d[n] = p
    BY <1>2 DEF Contains
  <2>2. \A i \in X : Payload(recs[i]) # <<>> => \E n \in 1..L : d[n] = Payload(recs[i])
    BY <1>1, <2>1
  <2>3. \A n \in 1..L : d[n] # <<>> /\ \E i \in X : d[n] = Payload(recs[i])
    BY <1>1
  <2>4. Listed(d, recs, X)
    <3> HIDE DEF X
    <3> QED BY <1>1, <2>2, <2>3 DEF Listed
  <2> QED BY <1>2, <2>4
<1>3. CASE ~(p = <<>> \/ Contains(d, p))
  <2>1. p # <<>> /\ \A n \in 1..L : d[n] # p
    BY <1>3 DEF Contains
  <2>2. L \in Nat /\ Len(e) = L + 1 /\ e[L + 1] = p /\ \A n \in 1..L : e[n] = d[n]
    BY AppendProperties, LenProperties
  <2>3. L + 1 \in 1..L + 1 /\ (\A n \in 1..L : n \in 1..L + 1) /\ \A n \in 1..L + 1 : n = L + 1 \/ n \in 1..L
    BY <2>2
  <2> HIDE DEF L, e
  <2>4. ASSUME NEW i \in X, Payload(recs[i]) # <<>> PROVE \E n \in 1..L + 1 : e[n] = Payload(recs[i])
    <3>1. CASE i = j
        BY <2>2, <2>3, <3>1
    <3>2. CASE i \in M
      <4>1. PICK n \in 1..L : d[n] = Payload(recs[i])
        BY <1>1, <2>4, <3>2
      <4> QED BY <2>2, <2>3, <4>1
    <3> QED BY <3>1, <3>2
  <2>5. ASSUME NEW n \in 1..L + 1 PROVE e[n] # <<>> /\ \E i \in X : e[n] = Payload(recs[i])
    <3>1. CASE n = L + 1
        BY <2>1, <2>2, <3>1
    <3>2. CASE n \in 1..L
        BY <1>1, <2>2, <3>2
    <3> QED BY <2>3, <3>1, <3>2
  <2>6. ASSUME NEW a \in 1..L + 1, NEW b \in 1..L + 1, a # b PROVE e[a] # e[b]
    <3> HIDE DEF p
    <3> QED BY <1>1, <2>1, <2>2, <2>3, <2>6
  <2>7. Listed(e, recs, X)
    <3> HIDE DEF X
    <3> QED BY <2>2, <2>4, <2>5, <2>6 DEF Listed
  <2> QED BY <1>3, <2>7 DEF e
<1> QED BY <1>2, <1>3

LEMMA StatAdd ==
    ASSUME NEW recs \in Seq(Record), NEW j \in 1..Len(recs), NEW M, M \subseteq 1..Len(recs), j \notin M,
           NEW st, StatIs(st, recs, M, M \cup {j})
    PROVE  StatIs(AddTo(st, recs[j]), recs, M \cup {j}, M \cup {j})
<1> DEFINE r == recs[j]
           p == Payload(r)
           X == M \cup {j}
           new == AddTo(st, r)
           d == IF p = <<>> \/ Contains(st.distinct, p) THEN st.distinct ELSE Append(st.distinct, p)
<1>1. r \in Record /\ \A i \in X : recs[i].ts \in Int /\ recs[i] \in Record
    BY RecordsIs
<1>2. st \in Stats /\ p \in Bytes /\ new \in Stats
    BY <1>1, KeyIs, AddToIs DEF StatIs
<1>3. st.count \in Nat /\ st.first \in Int /\ st.last \in Int /\ st.len \in Nat /\ st.distinct \in Seq(Bytes)
    BY <1>2 DEF Stats
<1>4. Len(p) \in Nat /\ \A i \in X : Len(Payload(recs[i])) \in Nat
    BY <1>1, KeyIs, LenProperties DEF Bytes
<1>5. /\ new.count = st.count + 1
      /\ new.first = Min({st.first, r.ts}) /\ new.last = Max({st.last, r.ts})
      /\ new.len = Max({st.len, Len(p)}) /\ new.distinct = d
    BY DEF AddTo
<1>6. /\ new.first = (IF st.first <= r.ts THEN st.first ELSE r.ts)
      /\ new.last = (IF st.last <= r.ts THEN r.ts ELSE st.last)
      /\ new.len = (IF st.len <= Len(p) THEN Len(p) ELSE st.len)
  <2>1. r.ts \in Int
    BY <1>1
  <2> HIDE DEF p, r, new
  <2>2. Min({st.first, r.ts}) = IF st.first <= r.ts THEN st.first ELSE r.ts
    BY <1>3, <2>1, MinIs
  <2>3. Max({st.last, r.ts}) = IF st.last <= r.ts THEN r.ts ELSE st.last
    BY <1>3, <2>1, MaxIs
  <2>4. Max({st.len, Len(p)}) = IF st.len <= Len(p) THEN Len(p) ELSE st.len
    BY <1>3, <1>4, MaxIs
  <2> QED BY <1>5, <2>2, <2>3, <2>4
<1>7. IsFiniteSet(X) /\ new.count = Cardinality(X)
  <2>1. IsFiniteSet(M) /\ st.count = Cardinality(M)
    BY DEF StatIs
  <2>2. IsFiniteSet(X) /\ Cardinality(X) = Cardinality(M) + 1
    BY <2>1, FS_AddElement
  <2> QED BY <1>5, <2>1, <2>2
<1>8. /\ \A i \in M : st.first <= recs[i].ts /\ recs[i].ts <= st.last /\ Len(Payload(recs[i])) <= st.len
      /\ \E i \in X : st.first = recs[i].ts
      /\ \E i \in X : st.last = recs[i].ts
      /\ Listed(st.distinct, recs, M)
    BY DEF StatIs
<1>9. Listed(new.distinct, recs, X)
  <2>1. Listed(d, recs, X)
    BY <1>2, <1>3, <1>8, ListedAdd
  <2> HIDE DEF d, X, new
  <2> QED BY <1>5, <2>1
<1> HIDE DEF new
<1>10. \A i \in X : new.first <= recs[i].ts /\ recs[i].ts <= new.last
  <2>1. ASSUME NEW i \in X PROVE new.first <= recs[i].ts /\ recs[i].ts <= new.last
    <3>1. i = j \/ (st.first <= recs[i].ts /\ recs[i].ts <= st.last)
        BY <1>8
    <3>2. recs[i].ts \in Int /\ r.ts \in Int /\ j \in X
        BY <1>1
    <3> HIDE DEF X
    <3> QED BY <1>3, <1>6, <3>1, <3>2
  <2> QED BY <2>1
<1>11. (\E i \in X : new.first = recs[i].ts) /\ (\E i \in X : new.last = recs[i].ts)
    BY <1>6, <1>8
<1>12. \A i \in X : Len(Payload(recs[i])) <= new.len
  <2>1. ASSUME NEW i \in X PROVE Len(Payload(recs[i])) <= new.len
    <3>1. i = j \/ Len(Payload(recs[i])) <= st.len
        BY <1>8
    <3> QED BY <1>3, <1>4, <1>6, <3>1
  <2> QED BY <2>1
<1> HIDE DEF X
<1>13. StatIs(new, recs, X, X)
    BY <1>2, <1>7, <1>9, <1>10, <1>11, <1>12 DEF StatIs
<1> QED BY <1>13 DEF new, X

\* The places of the records of a register among the first m.
Mem(recs, m, k) == {i \in 1..m : GroupKey(recs[i]) = k}

GroupInv(out, recs, m) ==
    /\ out \in Tables
    /\ DOMAIN out = {GroupKey(recs[i]) : i \in 1..m}
    /\ \A k \in DOMAIN out : StatIs(out[k], recs, Mem(recs, m, k), Mem(recs, m, k))

LEMMA GroupStep ==
    ASSUME NEW recs \in Seq(Record), NEW m \in Nat, m < Len(recs),
           NEW out, GroupInv(out, recs, m)
    PROVE  GroupInv(GroupAdd(out, recs[m + 1]), recs, m + 1)
<1> DEFINE j == m + 1
           r == recs[j]
           k == GroupKey(r)
           new == GroupAdd(out, r)
           M == Mem(recs, m, k)
<1>1. Len(recs) \in Nat /\ j \in 1..Len(recs) /\ r \in Record /\ r.ts \in Int
    BY RecordsIs
<1>2. /\ out \in Tables /\ DOMAIN out = {GroupKey(recs[i]) : i \in 1..m}
      /\ \A x \in DOMAIN out : StatIs(out[x], recs, Mem(recs, m, x), Mem(recs, m, x))
    BY DEF GroupInv
<1>3. /\ new \in Tables /\ DOMAIN new = DOMAIN out \cup {k}
      /\ \A x \in DOMAIN out \ {k} : new[x] = out[x]
      /\ new[k] = AddTo(IF k \in DOMAIN out THEN out[k] ELSE NewStats(r), r)
    BY <1>1, <1>2, GroupAddIs
<1>4. 1..j = (1..m) \cup {j} /\ j \notin 1..m
    OBVIOUS
<1>5. DOMAIN new = {GroupKey(recs[i]) : i \in 1..j}
  <2> HIDE DEF j, new
  <2> QED BY <1>2, <1>3, <1>4
<1>6. Mem(recs, j, k) = M \cup {j} /\ j \notin M /\ M \subseteq 1..Len(recs)
    BY <1>1, <1>4 DEF Mem
<1>7. \A x : x # k => Mem(recs, j, x) = Mem(recs, m, x)
    BY <1>4 DEF Mem
<1> HIDE DEF new, M, k
<1>8. StatIs(new[k], recs, M \cup {j}, M \cup {j})
  <2>1. CASE k \in DOMAIN out
    <3>1. StatIs(out[k], recs, M, M \cup {j})
        BY <1>2, <2>1 DEF StatIs, M
    <3>2. new[k] = AddTo(out[k], r)
        BY <1>3, <2>1
    <3> HIDE DEF j
    <3> QED BY <1>1, <1>6, <3>1, <3>2, StatAdd
  <2>2. CASE k \notin DOMAIN out
    <3>1. M = {}
        BY <1>2, <2>2 DEF M, Mem
    <3> DEFINE st == NewStats(r)
    <3>2. /\ st \in Stats /\ st.count = 0 /\ st.first = r.ts /\ st.last = r.ts /\ st.distinct = <<>>
        BY <1>1, AddToIs DEF NewStats
    <3> HIDE DEF st
    <3>3. Listed(st.distinct, recs, {})
        BY <3>2 DEF Listed
    <3>4. StatIs(st, recs, {}, {j})
        BY <3>2, <3>3, FS_EmptySet DEF StatIs
    <3>5. StatIs(st, recs, M, M \cup {j})
      <4>1. M \cup {j} = {j}
        BY <3>1
      <4> QED BY <3>1, <3>4, <4>1
    <3>6. new[k] = AddTo(st, r)
        BY <1>3, <2>2 DEF st
    <3> HIDE DEF j
    <3> QED BY <1>1, <1>6, <3>5, <3>6, StatAdd
  <2> QED BY <2>1, <2>2
<1>9. ASSUME NEW x \in DOMAIN new PROVE StatIs(new[x], recs, Mem(recs, j, x), Mem(recs, j, x))
  <2>1. CASE x = k
    BY <1>6, <1>8, <2>1
  <2>2. CASE x # k
    <3>1. x \in DOMAIN out /\ new[x] = out[x] /\ Mem(recs, j, x) = Mem(recs, m, x)
        BY <1>3, <1>7, <2>2
    <3> QED BY <1>2, <3>1
  <2> QED BY <2>1, <2>2
<1>10. GroupInv(new, recs, j)
    BY <1>3, <1>5, <1>9 DEF GroupInv
<1> QED BY <1>10 DEF new

\* The statistics of each register are those of all its records.
LEMMA GroupIs ==
    ASSUME NEW recs \in Seq(Record)
    PROVE  GroupInv(Group(recs), recs, Len(recs))
<1> DEFINE N == Len(recs)
<1>1. N \in Nat
    BY RecordsIs
<1>2. PICK to \in [0..N -> Tables] : GroupRun(to, recs)
    BY GroupLoop
<1>3. /\ to[0] = [x \in {} |-> {}]
      /\ \A n \in 1..N : to[n] = GroupAdd(to[n - 1], recs[n])
      /\ Group(recs) = to[N]
    BY <1>2 DEF GroupRun
<1> DEFINE P == {m \in 0..N : GroupInv(to[m], recs, m)}
<1>4. 0 \in P
  <2>1. 0 \in 0..N /\ to[0] \in Tables
    BY <1>1
  <2>2. DOMAIN to[0] = {} /\ {GroupKey(recs[i]) : i \in 1..0} = {}
    BY <1>3
  <2> HIDE DEF N
  <2> QED BY <2>1, <2>2 DEF GroupInv
<1>5. ASSUME NEW m \in Nat, m < N, m \in P PROVE m + 1 \in P
  <2>1. m + 1 \in 0..N /\ m + 1 \in 1..N /\ (m + 1) - 1 = m
    BY <1>1, <1>5
  <2>2. to[m + 1] = GroupAdd(to[m], recs[m + 1])
    BY <1>3, <2>1
  <2>3. GroupInv(to[m + 1], recs, m + 1)
    BY <1>5, <2>2, GroupStep
  <2> QED BY <2>1, <2>3
<1>6. N \in P
  <2>1. N \in 0..N
    BY <1>1
  <2> HIDE DEF P, N
  <2> QED BY <1>1, <1>4, <1>5, <2>1, UpTo
<1> QED BY <1>3, <1>6

LEMMA Beyond ==
    ASSUME NEW m \in Nat, NEW n \in Nat
    PROVE  \A o \in m + 1 .. n : o \in 1..n /\ ~(o <= m)
OBVIOUS

\* diffOffsets finds the offsets where two payloads are not the same.
LEMMA DiffOffsetsIs ==
    ASSUME NEW a \in Bytes, NEW b \in Bytes
    PROVE  diffOffsets(a, b) =
              {o \in 1 .. (IF Len(a) <= Len(b) THEN Len(b) ELSE Len(a)) : ByteAt(a, o) # ByteAt(b, o)}
<1>1. Len(a) \in Nat /\ Len(b) \in Nat
    BY LenProperties DEF Bytes
<1>2. (\A i \in 1..Len(a) : a[i] \in Byte) /\ (\A i \in 1..Len(b) : b[i] \in Byte)
  <2>1. a \in Seq(Byte) /\ b \in Seq(Byte)
    BY DEF Bytes
  <2>2. ASSUME NEW i \in 1..Len(a) PROVE a[i] \in Byte
    BY <2>1, ElementOfSeq
  <2>3. ASSUME NEW i \in 1..Len(b) PROVE b[i] \in Byte
    BY <2>1, ElementOfSeq
  <2> QED BY <2>2, <2>3
<1>3. (\A i \in 1..Len(a) : a[i] # -1) /\ (\A i \in 1..Len(b) : b[i] # -1)
  <2>1. -1 \notin Byte
    BY DEF Byte
  <2> QED BY <1>2, <2>1
<1> DEFINE n == IF Len(a) <= Len(b) THEN Len(a) ELSE Len(b)
           x == IF Len(a) <= Len(b) THEN Len(b) ELSE Len(a)
<1>4. Min({Len(a), Len(b)}) = n /\ Max({Len(a), Len(b)}) = x
  <2>1. Min({Len(a), Len(b)}) = n
    BY <1>1, MinIs
  <2>2. Max({Len(a), Len(b)}) = x
    BY <1>1, MaxIs
  <2> QED BY <2>1, <2>2
<1>5. diffOffsets(a, b) = {i \in 1..n : a[i] # b[i]} \cup (n + 1 .. x)
    BY <1>4 DEF diffOffsets
<1>6. \A o \in 1..n : o <= Len(a) /\ o <= Len(b) /\ o \in 1..x
    BY <1>1
<1>7. \A o \in n + 1 .. x :
        o \in 1..x /\ ((o \in 1..Len(a) /\ ~(o <= Len(b))) \/ (o \in 1..Len(b) /\ ~(o <= Len(a))))
  <2>1. CASE Len(a) <= Len(b)
    <3>1. n = Len(a) /\ x = Len(b)
        BY <2>1
    <3>2. \A o \in n + 1 .. x : o \in 1..x /\ ~(o <= n)
        <4> HIDE DEF n, x
        <4> QED BY <1>1, <3>1, Beyond
    <3> HIDE DEF n, x
    <3> QED BY <3>1, <3>2
  <2>2. CASE ~(Len(a) <= Len(b))
    <3>1. n = Len(b) /\ x = Len(a)
        BY <2>2
    <3>2. \A o \in n + 1 .. x : o \in 1..x /\ ~(o <= n)
        <4> HIDE DEF n, x
        <4> QED BY <1>1, <3>1, Beyond
    <3> HIDE DEF n, x
    <3> QED BY <3>1, <3>2
  <2> QED BY <2>1, <2>2
<1>8. \A o \in 1..x : o \in 1..n \/ o \in n + 1 .. x
    BY <1>1
<1> HIDE DEF n, x
<1>9. \A o \in 1..n : ByteAt(a, o) # ByteAt(b, o) <=> a[o] # b[o]
    BY <1>6 DEF ByteAt
<1>10. \A o \in n + 1 .. x : ByteAt(a, o) # ByteAt(b, o)
  <2>1. ASSUME NEW o \in n + 1 .. x PROVE ByteAt(a, o) # ByteAt(b, o)
    <3>1. CASE o \in 1..Len(a) /\ ~(o <= Len(b))
      <4>1. o <= Len(a)
        BY <1>1, <3>1
      <4>2. ByteAt(a, o) = a[o] /\ ByteAt(b, o) = -1
        BY <3>1, <4>1 DEF ByteAt
      <4> QED BY <1>3, <3>1, <4>2
    <3>2. CASE o \in 1..Len(b) /\ ~(o <= Len(a))
      <4>1. o <= Len(b)
        BY <1>1, <3>2
      <4>2. ByteAt(b, o) = b[o] /\ ByteAt(a, o) = -1
        BY <3>2, <4>1 DEF ByteAt
      <4> QED BY <1>3, <3>2, <4>2
    <3> QED BY <1>7, <3>1, <3>2
  <2> QED BY <2>1
<1>11. {i \in 1..n : a[i] # b[i]} \cup (n + 1 .. x) = {o \in 1..x : ByteAt(a, o) # ByteAt(b, o)}
    BY <1>6, <1>7, <1>8, <1>9, <1>10
<1> QED BY <1>5, <1>11 DEF x

\* A payload list without repetitions has as many entries as there are payloads.
LEMMA ListedIs ==
    ASSUME NEW recs \in Seq(Record), NEW M, M \subseteq 1..Len(recs),
           NEW d \in Seq(Bytes), Listed(d, recs, M)
    PROVE  ToSet(d) = PayloadsOf(recs, M) /\ Len(d) = Cardinality(PayloadsOf(recs, M))
<1> DEFINE L == Len(d)
           P == PayloadsOf(recs, M)
<1>1. L \in Nat /\ DOMAIN d = 1..L
    BY LenProperties
<1>2. /\ \A i \in M : Payload(recs[i]) # <<>> => \E n \in 1..L : d[n] = Payload(recs[i])
      /\ \A n \in 1..L : d[n] # <<>> /\ \E i \in M : d[n] = Payload(recs[i])
      /\ \A a, b \in 1..L : a # b => d[a] # d[b]
    BY DEF Listed
<1>3. \A n \in 1..L : d[n] \in P
    BY <1>2 DEF PayloadsOf
<1>4. \A x \in P : \E n \in 1..L : d[n] = x
    BY <1>2 DEF PayloadsOf
<1> HIDE DEF P
<1>5. ToSet(d) = P
  <2>1. ToSet(d) = {d[n] : n \in 1..L}
    BY <1>1 DEF ToSet
  <2> QED BY <1>3, <1>4, <2>1
<1> DEFINE f == [n \in 1..L |-> d[n]]
<1>6. f \in [1..L -> P]
    BY <1>3
<1>7. \A a, b \in 1..L : f[a] = f[b] => a = b
    BY <1>2
<1>8. \A x \in P : \E n \in 1..L : f[n] = x
    BY <1>4
<1> HIDE DEF f, L
<1>9. f \in Injection(1..L, P)
    BY <1>6, <1>7 DEF Injection, IsInjective
<1>10. f \in Surjection(1..L, P)
    BY <1>6, <1>8 DEF Surjection
<1>11. ExistsBijection(1..L, P)
    BY <1>9, <1>10 DEF ExistsBijection, Bijection
<1>12. Cardinality(P) = L
    BY <1>1, <1>11, FS_CountingElements
<1> QED BY <1>5, <1>12 DEF P, L

\* A poll and its answer are of one register.
LEMMA PollAndAnswer ==
    ASSUME NEW q \in Record, NEW a \in Record, q.op = "read", a.op = "ack06", q.dst = a.src, Keyed(q),
           IsPrefix(SubSeq(q.data, 1, RegBytes), a.data)
    PROVE  GroupKey(q) = GroupKey(a)
<1> DEFINE s == SubSeq(q.data, 1, RegBytes)
<1>1. RegBytes \in Nat \ {0} /\ RegBytes <= Len(q.data) /\ q.data \in Seq(Byte)
    BY RegAssumption DEF Keyed, Record
<1>2. Len(q.data) \in Nat /\ \A i \in 1..Len(q.data) : q.data[i] \in Byte
    BY <1>1, LenProperties, ElementOfSeq
<1>3. \A i \in 1..RegBytes : q.data[i] \in Byte
    BY <1>1, <1>2
<1>4. s \in Seq(Byte) /\ Len(s) = RegBytes
  <2>1. s \in Seq(Byte) /\ Len(s) = IF 1 <= RegBytes THEN RegBytes - 1 + 1 ELSE 0
    BY <1>1, <1>3, SubSeqProperties
  <2> QED BY <1>1, <2>1
<1> HIDE DEF s
<1>5. RegBytes <= Len(a.data) /\ SubSeq(s, 1, RegBytes) = SubSeq(a.data, 1, RegBytes)
    BY <1>4 DEF IsPrefix, s
<1>6. SubSeq(s, 1, RegBytes) = s
    BY <1>4, SubSeqFull
<1>7. Keyed(a)
  <2>1. a.data \in Seq(Byte)
    BY DEF Record
  <2>2. Len(a.data) \in Nat
    BY <2>1, LenProperties
  <2> QED BY <1>1, <1>5, <2>2 DEF Keyed
<1>8. Owner(q) = Owner(a)
    BY DEF Owner
<1> QED BY <1>5, <1>6, <1>7, <1>8 DEF GroupKey, s

\* The offsets marked in a list of payloads are those that are not the same in
\* all of them, and lie within the longest.
LEMMA ChangedIs ==
    ASSUME NEW d \in Seq(Bytes), NEW P, ToSet(d) = P, NEW len \in Nat, \A p \in P : Len(p) <= len
    PROVE  /\ \A o \in 1..len :
                o \in changedOffsetsAcross(d) <=> \E p, q \in P : ByteAt(p, o) # ByteAt(q, o)
           /\ changedOffsetsAcross(d) \subseteq 1..len
<1> DEFINE top(a, b) == IF Len(a) <= Len(b) THEN Len(b) ELSE Len(a)
           C == changedOffsetsAcross(d)
<1>1. \A p \in P : p \in Bytes /\ Len(p) \in Nat
  <2>1. ASSUME NEW n \in DOMAIN d PROVE d[n] \in Bytes /\ Len(d[n]) \in Nat
    <3>1. n \in 1..Len(d)
        BY LenProperties
    <3>2. d[n] \in Bytes
        BY <3>1, ElementOfSeq
    <3> QED BY <3>2, LenProperties DEF Bytes
  <2> QED BY <2>1 DEF ToSet
<1>2. C = UNION {diffOffsets(p, q) : p, q \in P}
    BY DEF changedOffsetsAcross, ToSet
<1>3. \A p, q \in P : diffOffsets(p, q) = {o \in 1..top(p, q) : ByteAt(p, o) # ByteAt(q, o)}
    BY <1>1, DiffOffsetsIs
<1>4. \A p, q \in P : top(p, q) \in Nat /\ top(p, q) <= len
    BY <1>1
<1>5. \A p, q \in P : \A o \in 1..len : ByteAt(p, o) # ByteAt(q, o) => o \in 1..top(p, q)
    BY <1>1 DEF ByteAt
<1> HIDE DEF top, C
<1>6. ASSUME NEW o \in 1..len PROVE o \in C <=> \E p, q \in P : ByteAt(p, o) # ByteAt(q, o)
    BY <1>2, <1>3, <1>5
<1>7. C \subseteq 1..len
  <2>1. ASSUME NEW o \in C PROVE o \in 1..len
    <3>1. PICK p \in P, q \in P : o \in diffOffsets(p, q)
        BY <1>2
    <3>2. o \in 1..top(p, q)
        BY <1>3, <3>1
    <3> QED BY <1>4, <3>2
  <2> QED BY <2>1
<1> QED BY <1>6, <1>7 DEF C

\* The statistics table is right for every list of records.
LEMMA GroupRight ==
    ASSUME NEW recs \in Seq(Record)
    PROVE  GroupIsRight(recs)
<1> DEFINE N == Len(recs)
           out == Group(recs)
<1>1. N \in Nat /\ DOMAIN recs = 1..N /\ \A i \in 1..N : recs[i] \in Record /\ recs[i].ts \in Int
    BY RecordsIs
<1>2. /\ DOMAIN out = {GroupKey(recs[i]) : i \in 1..N}
      /\ \A k \in DOMAIN out : StatIs(out[k], recs, Mem(recs, N, k), Mem(recs, N, k))
    BY GroupIs DEF GroupInv
<1>3. \A i, j \in DOMAIN recs :
          LET q == recs[i] a == recs[j]
          IN  /\ q.op = "read" /\ a.op = "ack06" /\ q.dst = a.src /\ Keyed(q)
              /\ IsPrefix(SubSeq(q.data, 1, RegBytes), a.data)
              => GroupKey(q) = GroupKey(a)
    BY <1>1, PollAndAnswer
<1>4. DOMAIN out = Keys(recs)
    BY <1>1, <1>2 DEF Keys
<1>5. ASSUME NEW k \in Keys(recs)
      PROVE  LET st == out[k]
                 M == Members(recs, k)
                 P == PayloadsOf(recs, M)
             IN  /\ st.count = Cardinality(M)
                 /\ \A i \in M : recs[i].ts \in st.first .. st.last
                 /\ {st.first, st.last} \subseteq {recs[i].ts : i \in M}
                 /\ ToSet(st.distinct) = P /\ Len(st.distinct) = Cardinality(P)
                 /\ \A o \in 1 .. st.len :
                       o \in changedOffsetsAcross(st.distinct) <=> \E p, q \in P : ByteAt(p, o) # ByteAt(q, o)
                 /\ changedOffsetsAcross(st.distinct) \subseteq 1 .. st.len
  <2> DEFINE st == out[k]
             M == Members(recs, k)
             P == PayloadsOf(recs, M)
  <2>1. M = Mem(recs, N, k) /\ M \subseteq 1..N
    BY <1>1 DEF Members, Mem
  <2>2. StatIs(st, recs, M, M)
    BY <1>2, <1>4, <2>1
  <2> HIDE DEF out, st, M, N
  <2>3. st.first \in Int /\ st.last \in Int /\ st.len \in Nat /\ st.distinct \in Seq(Bytes)
    BY <2>2 DEF StatIs, Stats
  <2>4. st.count = Cardinality(M) /\ Listed(st.distinct, recs, M)
    BY <2>2 DEF StatIs
  <2>5. \A i \in M : recs[i].ts \in st.first .. st.last
    <3>1. \A i \in M : st.first <= recs[i].ts /\ recs[i].ts <= st.last
        BY <2>2 DEF StatIs
    <3> QED BY <1>1, <2>1, <2>3, <3>1
  <2>6. {st.first, st.last} \subseteq {recs[i].ts : i \in M}
    BY <2>2 DEF StatIs
  <2>7. ToSet(st.distinct) = P /\ Len(st.distinct) = Cardinality(P)
    BY <2>1, <2>3, <2>4, ListedIs DEF N
  <2>8. \A p \in P : Len(p) <= st.len
    BY <2>2 DEF StatIs, PayloadsOf
  <2> HIDE DEF P
  <2>9. /\ \A o \in 1 .. st.len :
              o \in changedOffsetsAcross(st.distinct) <=> \E p, q \in P : ByteAt(p, o) # ByteAt(q, o)
        /\ changedOffsetsAcross(st.distinct) \subseteq 1 .. st.len
    BY <2>3, <2>7, <2>8, ChangedIs
  <2> QED BY <2>4, <2>5, <2>6, <2>7, <2>9 DEF st, P, M
<1> QED BY <1>3, <1>4, <1>5 DEF GroupIsRight

\* Whatever the daemon left behind, the tables of businspect are right.
THEOREM TablesAreRightHolds == Spec => []TablesAreRight
<1>1. IInv => TablesAreRight
    BY ReadBackIs, GroupRight, CadenceRight DEF IInv, TablesAreRight
<1> QED BY <1>1, Invariance, PTL

-----------------------------------------------------------------------------
\* The timeline of a register.
Change == [ts : Int, payload : Bytes, changed : SUBSET Nat]

LEMMA LastIs ==
    ASSUME NEW E, NEW s \in Seq(E), s # <<>>
    PROVE  Len(s) \in Nat /\ Len(s) >= 1 /\ Last(s) = s[Len(s)] /\ Last(s) \in E
<1>1. Len(s) \in Nat /\ Len(s) >= 1
  <2>1. Len(s) \in Nat /\ Len(s) # 0
    BY EmptySeq, LenProperties
  <2> QED BY <2>1
<1>2. Last(s) = s[Len(s)]
    BY DEF Last
<1>3. Len(s) \in 1..Len(s)
    BY <1>1
<1>4. s[Len(s)] \in E
    BY <1>3, ElementOfSeq
<1> QED BY <1>1, <1>2, <1>4

\* Payloads that are not the same differ at some offset.
LEMMA DiffersSomewhere ==
    ASSUME NEW a \in Bytes, NEW b \in Bytes
    PROVE  /\ diffOffsets(a, b) \subseteq Nat
           /\ a # b => diffOffsets(a, b) # {}
<1>1. Len(a) \in Nat /\ Len(b) \in Nat
    BY LenProperties DEF Bytes
<1> DEFINE x == IF Len(a) <= Len(b) THEN Len(b) ELSE Len(a)
           D == {o \in 1..x : ByteAt(a, o) # ByteAt(b, o)}
<1>2. diffOffsets(a, b) = D
    BY DiffOffsetsIs
<1>3. D \subseteq Nat
    BY <1>1
<1>4. ASSUME D = {} PROVE a = b
  <2>1. (\A i \in 1..Len(a) : a[i] \in Byte) /\ (\A i \in 1..Len(b) : b[i] \in Byte)
    <3>1. a \in Seq(Byte) /\ b \in Seq(Byte)
        BY DEF Bytes
    <3>2. \A i \in 1..Len(a) : a[i] \in Byte
        BY <3>1, ElementOfSeq
    <3>3. \A i \in 1..Len(b) : b[i] \in Byte
        BY <3>1, ElementOfSeq
    <3> QED BY <3>2, <3>3
  <2>2. -1 \notin Byte
    BY DEF Byte
  <2>3. \A o \in 1..x : ByteAt(a, o) = ByteAt(b, o)
    BY <1>4
  <2>4. ~(Len(a) < Len(b))
    <3> SUFFICES ASSUME Len(a) < Len(b) PROVE FALSE
        OBVIOUS
    <3>1. Len(b) \in 1..x /\ Len(b) \in 1..Len(b) /\ ~(Len(b) <= Len(a)) /\ Len(b) <= Len(b)
        BY <1>1
    <3>2. ByteAt(a, Len(b)) = -1 /\ ByteAt(b, Len(b)) = b[Len(b)]
        BY <3>1 DEF ByteAt
    <3> HIDE DEF x
    <3> QED BY <2>1, <2>2, <2>3, <3>1, <3>2
  <2>5. ~(Len(b) < Len(a))
    <3> SUFFICES ASSUME Len(b) < Len(a) PROVE FALSE
        OBVIOUS
    <3>1. Len(a) \in 1..x /\ Len(a) \in 1..Len(a) /\ ~(Len(a) <= Len(b)) /\ Len(a) <= Len(a)
        BY <1>1
    <3>2. ByteAt(b, Len(a)) = -1 /\ ByteAt(a, Len(a)) = a[Len(a)]
        BY <3>1 DEF ByteAt
    <3> HIDE DEF x
    <3> QED BY <2>1, <2>2, <2>3, <3>1, <3>2
  <2>6. Len(a) = Len(b) /\ x = Len(a)
    BY <1>1, <2>4, <2>5
  <2>7. \A o \in 1..Len(a) : a[o] = b[o]
    <3>1. \A o \in 1..Len(a) : o <= Len(a) /\ o <= Len(b) /\ o \in 1..x
        BY <1>1, <2>6
    <3> HIDE DEF x
    <3> QED BY <2>3, <3>1 DEF ByteAt
  <2> QED BY <2>6, <2>7, SeqEqual DEF Bytes
<1> QED BY <1>2, <1>3, <1>4

LEMMA ChangeAddIs ==
    ASSUME NEW out \in Seq(Change), NEW r \in Record
    PROVE  ChangeAdd(out, r) \in Seq(Change)
<1>1. r.ts \in Int /\ Payload(r) \in Bytes
    BY KeyIs DEF Record
<1>2. CASE out = <<>>
  <2> DEFINE x == [ts |-> r.ts, payload |-> Payload(r), changed |-> {}]
  <2>1. x \in Change
    BY <1>1 DEF Change
  <2>2. ChangeAdd(out, r) = <<x>>
    BY <1>2 DEF ChangeAdd
  <2> HIDE DEF x
  <2> QED BY <2>1, <2>2
<1>3. CASE out # <<>>
  <2>1. Last(out) \in Change
    BY <1>3, LastIs
  <2>2. Last(out).payload \in Bytes
    BY <2>1 DEF Change
  <2> DEFINE d == diffOffsets(Last(out).payload, Payload(r))
             x == [ts |-> r.ts, payload |-> Payload(r), changed |-> d]
  <2>3. d \in SUBSET Nat
    BY <1>1, <2>2, DiffersSomewhere
  <2>4. ChangeAdd(out, r) = IF Last(out).payload = Payload(r) THEN out ELSE Append(out, x)
    BY <1>3 DEF ChangeAdd
  <2> HIDE DEF d
  <2>5. x \in Change
    BY <1>1, <2>3 DEF Change
  <2> HIDE DEF x
  <2> QED BY <2>4, <2>5, AppendProperties
<1> QED BY <1>2, <1>3

TimelineRun(to, p) ==
    /\ to[0] = <<>>
    /\ \A n \in 1..Len(p) : to[n] = ChangeAdd(to[n - 1], p[n])
    /\ Timeline(p) = to[Len(p)]

\* Changes goes through the samples once.
LEMMA TimelineLoop ==
    ASSUME NEW p \in Seq(Record)
    PROVE  \E to \in [0..Len(p) -> Seq(Change)] : TimelineRun(to, p)
<1> DEFINE N == Len(p)
           T == Seq(Change)
           G == [n \in 1..N |-> [x \in T |-> ChangeAdd(x, p[n])]]
<1>1. N \in Nat /\ \A n \in 1..N : p[n] \in Record
    BY RecordsIs
<1>2. <<>> \in T
    OBVIOUS
<1>3. \A n \in 1..N : \A x \in T : ChangeAdd(x, p[n]) \in T
    BY <1>1, ChangeAddIs
<1>4. G \in [1..N -> [T -> T]]
    <2> HIDE DEF N, T
    <2> QED BY <1>3
<1>5. PICK g \in [0..N -> T] : Loop(g, N, <<>>, G)
    <2> HIDE DEF G, N, T
    <2> QED BY <1>1, <1>2, <1>4, LoopIs
<1> DEFINE to[n \in 0 .. Len(p)] == IF n = 0 THEN <<>> ELSE ChangeAdd(to[n - 1], p[n])
           At(f, n) == IF n = 0 THEN <<>> ELSE ChangeAdd(f[n - 1], p[n])
           Is(f) == f = [n \in 0..N |-> At(f, n)]
<1>6. Is(g)
  <2>1. ASSUME NEW n \in 0..N PROVE g[n] = At(g, n)
    <3>1. g[n] = IF n = 0 THEN <<>> ELSE G[n][g[n - 1]]
        BY <1>5 DEF Loop
    <3>2. n # 0 => n \in 1..N /\ n - 1 \in 0..N /\ g[n - 1] \in T
        BY <1>1
    <3>3. n # 0 => g[n] = ChangeAdd(g[n - 1], p[n])
        <4> HIDE DEF T
        <4> QED BY <3>1, <3>2
    <3> QED BY <3>1, <3>3
  <2>2. g = [n \in 0..N |-> g[n]]
    OBVIOUS
  <2> HIDE DEF At
  <2> QED BY <2>1, <2>2
<1>7. Is(to)
    BY <1>6
<1>8. Timeline(p) = to[N]
    BY DEF Timeline
<1> HIDE DEF to
<1>9. to[0] = <<>> /\ \A n \in 1..N : to[n] = ChangeAdd(to[n - 1], p[n])
  <2>1. \A n \in 0..N : to[n] = At(to, n)
    <3> HIDE DEF At
    <3> QED BY <1>7
  <2>2. 0 \in 0..N /\ \A n \in 1..N : n \in 0..N /\ n # 0
    BY <1>1
  <2> QED BY <2>1, <2>2
<1>10. \A n \in 0..N : to[n] \in T
  <2> HIDE DEF T
  <2>1. \A n \in 1..N : to[n - 1] \in T => to[n] \in T
    BY <1>3, <1>9
  <2>2. to[0] \in T
    BY <1>2, <1>9
  <2> HIDE DEF N
  <2> QED BY <1>1, <2>1, <2>2, LoopTyped
<1>11. to \in [0..N -> T]
    BY <1>7, <1>10
<1>12. TimelineRun(to, p)
    BY <1>8, <1>9 DEF TimelineRun
<1> QED BY <1>11, <1>12

InTime(p) == \A a, b \in 1..Len(p) : a < b => p[a].ts <= p[b].ts

\* The n-th entry of a timeline is there for the c-th sample.
Enters(line, p, e, n, c) ==
    /\ e[c] = n /\ line[n].ts = p[c].ts
    /\ n >= 2 => /\ c >= 2 /\ e[c - 1] = n - 1
                 /\ Payload(p[c - 1]) # Payload(p[c])
                 /\ line[n].changed = diffOffsets(Payload(p[c - 1]), Payload(p[c]))

\* After m samples: e gives for each the entry that shows its payload.
Shows(line, p, m, e) ==
    /\ e \in [1..m -> 1..Len(line)]
    /\ \A c \in 1..m : line[e[c]].payload = Payload(p[c]) /\ line[e[c]].ts <= p[c].ts
    /\ \A a, b \in 1..m : a < b => e[a] <= e[b]
    /\ \A n \in 1..Len(line) : \E c \in 1..m : Enters(line, p, e, n, c)
    /\ m > 0 => e[m] = Len(line)

\* The same after at least one sample.
ShowsFacts(line, p, m, e) ==
    /\ \A c \in 1..m :
          e[c] \in 1..Len(line) /\ line[e[c]].payload = Payload(p[c]) /\ line[e[c]].ts <= p[c].ts
    /\ \A a, b \in 1..m : a < b => e[a] <= e[b]
    /\ \A n \in 1..Len(line) : \E c \in 1..m : Enters(line, p, e, n, c)
    /\ e[m] = Len(line)

LEMMA ShowsIs ==
    ASSUME NEW line, NEW p, NEW m \in Nat \ {0}, NEW e, Shows(line, p, m, e)
    PROVE  ShowsFacts(line, p, m, e)
<1>1. m > 0
    OBVIOUS
<1> QED BY <1>1 DEF Shows, ShowsFacts

LEMMA ShowsFirst ==
    ASSUME NEW p \in Seq(Record), Len(p) >= 1, NEW m \in Nat, m = 0
    PROVE  \E e : Shows(ChangeAdd(<<>>, p[m + 1]), p, m + 1, e)
<1> DEFINE r == p[1]
           x == [ts |-> r.ts, payload |-> Payload(r), changed |-> {}]
           line == <<x>>
           e == [c \in 1..1 |-> 1]
<1>1. m + 1 = 1 /\ ChangeAdd(<<>>, p[m + 1]) = line
  <2>1. m + 1 = 1
    OBVIOUS
  <2>2. ChangeAdd(<<>>, r) = line
    BY DEF ChangeAdd
  <2> HIDE DEF line
  <2> QED BY <2>1, <2>2
<1>2. Len(line) = 1 /\ line[1] = x
    OBVIOUS
<1>3. x.payload = Payload(r) /\ x.ts = r.ts /\ r.ts \in Int
  <2>1. Len(p) \in Nat /\ 1 \in 1..Len(p)
    BY RecordsIs
  <2>2. r.ts \in Int
    BY <2>1, RecordsIs
  <2> QED BY <2>2
<1>4. e \in [1..1 -> 1..1] /\ e[1] = 1
    OBVIOUS
<1> HIDE DEF line, x, e
<1>5. \A c \in 1..1 : c = 1
    OBVIOUS
<1>6. Enters(line, p, e, 1, 1)
    BY <1>2, <1>3, <1>4 DEF Enters
<1>7. e[1] = Len(line) /\ x.ts <= r.ts
    BY <1>2, <1>3, <1>4
<1>8. Shows(line, p, 1, e)
    BY <1>2, <1>3, <1>4, <1>5, <1>6, <1>7 DEF Shows
<1> HIDE DEF r
<1> QED BY <1>1, <1>8

\* A sample that is shown already adds nothing.
LEMMA ShowsAgain ==
    ASSUME NEW p \in Seq(Record), InTime(p), NEW m \in Nat \ {0}, m < Len(p),
           NEW line \in Seq(Change), NEW e, Shows(line, p, m, e),
           line[Len(line)].payload = Payload(p[m + 1])
    PROVE  \E g : Shows(line, p, m + 1, g)
<1> DEFINE L == Len(line)
           g == [c \in 1..m + 1 |-> IF c = m + 1 THEN L ELSE e[c]]
<1>1. /\ \A c \in 1..m : e[c] \in 1..L /\ line[e[c]].payload = Payload(p[c]) /\ line[e[c]].ts <= p[c].ts
      /\ \A a, b \in 1..m : a < b => e[a] <= e[b]
      /\ \A n \in 1..L : \E c \in 1..m : Enters(line, p, e, n, c)
      /\ e[m] = L
  <2>1. ShowsFacts(line, p, m, e)
    BY ShowsIs
  <2> QED BY <2>1 DEF ShowsFacts
<1>2. L \in Nat /\ L >= 1 /\ L \in 1..L
  <2>1. L \in Nat /\ m \in 1..m
    BY LenProperties
  <2>2. e[m] \in 1..L
    BY <1>1, <2>1
  <2> QED BY <1>1, <2>1, <2>2
<1>3. Len(p) \in Nat /\ m \in 1..Len(p) /\ m + 1 \in 1..Len(p) /\ m < m + 1 /\ m \in 1..m
    BY RecordsIs
<1>4. line[L].ts \in Int
  <2>1. line[L] \in Change
    BY <1>2, ElementOfSeq
  <2> QED BY <2>1 DEF Change
<1>5. p[m].ts \in Int /\ p[m + 1].ts \in Int /\ p[m].ts <= p[m + 1].ts
    BY <1>3, RecordsIs DEF InTime
<1>6. line[L].ts <= p[m + 1].ts
  <2>1. line[L].ts <= p[m].ts
    BY <1>1, <1>3
  <2> QED BY <1>4, <1>5, <2>1
<1>7. \A c \in 1..m + 1 : c \in 1..m \/ c = m + 1
    OBVIOUS
<1>8. \A c \in 1..m : c \in 1..m + 1 /\ c # m + 1
    OBVIOUS
<1>9. g[m + 1] = L /\ \A c \in 1..m : g[c] = e[c]
  <2>1. m + 1 \in 1..m + 1
    OBVIOUS
  <2> QED BY <1>8, <2>1
<1>10. g \in [1..m + 1 -> 1..L]
    BY <1>1, <1>2, <1>7
<1> HIDE DEF g, L
<1>11. \A c \in 1..m + 1 : line[g[c]].payload = Payload(p[c]) /\ line[g[c]].ts <= p[c].ts
    BY <1>1, <1>6, <1>7, <1>9 DEF L
<1>12. ASSUME NEW a \in 1..m + 1, NEW b \in 1..m + 1, a < b PROVE g[a] <= g[b]
  <2>1. a \in 1..m
    BY <1>12
  <2>2. g[a] = e[a] /\ e[a] \in 1..L
    BY <1>1, <1>9, <2>1
  <2>3. CASE b = m + 1
    BY <1>2, <1>9, <2>2, <2>3
  <2>4. CASE b \in 1..m
    BY <1>1, <1>9, <1>12, <2>1, <2>4
  <2> QED BY <1>7, <2>3, <2>4
<1>13. ASSUME NEW n \in 1..L PROVE \E c \in 1..m + 1 : Enters(line, p, g, n, c)
  <2>1. PICK c \in 1..m : Enters(line, p, e, n, c)
    BY <1>1
  <2>2. c \in 1..m + 1 /\ g[c] = e[c] /\ (c >= 2 => c - 1 \in 1..m)
    BY <1>8, <1>9
  <2>3. c >= 2 => g[c - 1] = e[c - 1]
    BY <1>9, <2>2
  <2>4. Enters(line, p, g, n, c)
    BY <2>1, <2>2, <2>3 DEF Enters
  <2> QED BY <2>2, <2>4
<1>14. Shows(line, p, m + 1, g)
    BY <1>9, <1>10, <1>11, <1>12, <1>13 DEF Shows, L
<1> QED BY <1>14

\* x is the entry for the sample after the m-th, which differs from it.
EntryFor(x, p, m) ==
    /\ Payload(p[m]) # Payload(p[m + 1])
    /\ x.ts = p[m + 1].ts /\ x.payload = Payload(p[m + 1])
    /\ x.changed = diffOffsets(Payload(p[m]), Payload(p[m + 1]))

\* A sample that differs is appended, with what changed.
LEMMA ShowsNew ==
    ASSUME NEW p \in Seq(Record), NEW m \in Nat \ {0}, m < Len(p),
           NEW line \in Seq(Change), NEW e, Shows(line, p, m, e),
           NEW x \in Change, EntryFor(x, p, m)
    PROVE  \E g : Shows(Append(line, x), p, m + 1, g)
<1> DEFINE L == Len(line)
           new == Append(line, x)
           g == [c \in 1..m + 1 |-> IF c = m + 1 THEN L + 1 ELSE e[c]]
<1>1. /\ \A c \in 1..m : e[c] \in 1..L /\ line[e[c]].payload = Payload(p[c]) /\ line[e[c]].ts <= p[c].ts
      /\ \A a, b \in 1..m : a < b => e[a] <= e[b]
      /\ \A n \in 1..L : \E c \in 1..m : Enters(line, p, e, n, c)
      /\ e[m] = L
  <2>1. ShowsFacts(line, p, m, e)
    BY ShowsIs
  <2> QED BY <2>1 DEF ShowsFacts
<1>2. L \in Nat /\ Len(new) = L + 1 /\ new[L + 1] = x /\ \A n \in 1..L : new[n] = line[n]
    BY AppendProperties, LenProperties
<1>3. x.ts \in Int
    BY DEF Change
<1> HIDE DEF new
<1>7. \A c \in 1..m + 1 : c \in 1..m \/ c = m + 1
    OBVIOUS
<1>8. \A c \in 1..m : c \in 1..m + 1 /\ c # m + 1
    OBVIOUS
<1>9. g[m + 1] = L + 1 /\ \A c \in 1..m : g[c] = e[c]
  <2>1. m + 1 \in 1..m + 1
    OBVIOUS
  <2> QED BY <1>8, <2>1
<1> HIDE DEF L
<1>10. g \in [1..m + 1 -> 1..L + 1]
  <2>1. L + 1 \in 1..L + 1 /\ 1..L \subseteq 1..L + 1
    BY <1>2
  <2> QED BY <1>1, <1>7, <2>1
<1> HIDE DEF g
<1>11. \A c \in 1..m + 1 : new[g[c]].payload = Payload(p[c]) /\ new[g[c]].ts <= p[c].ts
  <2>1. x.ts <= p[m + 1].ts /\ x.payload = Payload(p[m + 1])
    BY <1>3 DEF EntryFor
  <2>2. new[g[m + 1]].payload = Payload(p[m + 1]) /\ new[g[m + 1]].ts <= p[m + 1].ts
    BY <1>2, <1>9, <2>1
  <2>3. ASSUME NEW c \in 1..m PROVE new[g[c]].payload = Payload(p[c]) /\ new[g[c]].ts <= p[c].ts
    <3>1. new[g[c]] = line[e[c]]
        BY <1>1, <1>2, <1>9
    <3> QED BY <1>1, <3>1
  <2> QED BY <1>7, <2>2, <2>3
<1>12. ASSUME NEW a \in 1..m + 1, NEW b \in 1..m + 1, a < b PROVE g[a] <= g[b]
  <2>1. a \in 1..m
    BY <1>12
  <2>2. g[a] = e[a] /\ e[a] \in 1..L
    BY <1>1, <1>9, <2>1
  <2>3. CASE b = m + 1
    BY <1>2, <1>9, <2>2, <2>3
  <2>4. CASE b \in 1..m
    BY <1>1, <1>9, <1>12, <2>1, <2>4
  <2> QED BY <1>7, <2>3, <2>4
<1>13. ASSUME NEW n \in 1..L PROVE \E c \in 1..m + 1 : Enters(new, p, g, n, c)
  <2>1. PICK c \in 1..m : Enters(line, p, e, n, c)
    BY <1>1
  <2>2. c \in 1..m + 1 /\ g[c] = e[c] /\ (c >= 2 => c - 1 \in 1..m)
    BY <1>8, <1>9
  <2>3. c >= 2 => g[c - 1] = e[c - 1]
    BY <1>9, <2>2
  <2>4. new[n].ts = line[n].ts /\ new[n].changed = line[n].changed
    BY <1>2
  <2>5. Enters(new, p, g, n, c)
    <3>1. g[c] = n /\ new[n].ts = p[c].ts
        BY <2>1, <2>2, <2>4 DEF Enters
    <3>2. ASSUME n >= 2
          PROVE  /\ c >= 2 /\ g[c - 1] = n - 1
                 /\ Payload(p[c - 1]) # Payload(p[c])
                 /\ new[n].changed = diffOffsets(Payload(p[c - 1]), Payload(p[c]))
      <4>1. /\ c >= 2 /\ e[c - 1] = n - 1
            /\ Payload(p[c - 1]) # Payload(p[c])
            /\ line[n].changed = diffOffsets(Payload(p[c - 1]), Payload(p[c]))
        BY <2>1, <3>2 DEF Enters
      <4> QED BY <2>3, <2>4, <4>1
    <3> QED BY <3>1, <3>2 DEF Enters
  <2> QED BY <2>2, <2>5
<1>14. Enters(new, p, g, L + 1, m + 1)
  <2>1. (m + 1) - 1 = m /\ m + 1 >= 2 /\ (L + 1) - 1 = L /\ m \in 1..m
    <3>1. L \in Int
        BY <1>2
    <3>2. (m + 1) - 1 = m /\ m + 1 >= 2 /\ m \in 1..m
        OBVIOUS
    <3> QED BY <3>1, <3>2
  <2>2. g[m] = L
    BY <1>1, <1>9, <2>1
  <2> QED BY <1>2, <1>9, <2>1, <2>2 DEF Enters, EntryFor
<1>15. \A n \in 1..L + 1 : \E c \in 1..m + 1 : Enters(new, p, g, n, c)
  <2>1. \A n \in 1..L + 1 : n \in 1..L \/ n = L + 1
    BY <1>2
  <2>2. m + 1 \in 1..m + 1
    OBVIOUS
  <2> QED BY <1>13, <1>14, <2>1, <2>2
<1>16. Shows(new, p, m + 1, g)
    BY <1>2, <1>9, <1>10, <1>11, <1>12, <1>15 DEF Shows
<1> QED BY <1>16 DEF new

LEMMA ShowsStep ==
    ASSUME NEW p \in Seq(Record), InTime(p), NEW m \in Nat, m < Len(p),
           NEW line \in Seq(Change), NEW e, Shows(line, p, m, e)
    PROVE  \E g : Shows(ChangeAdd(line, p[m + 1]), p, m + 1, g)
<1> DEFINE r == p[m + 1]
<1>1. Len(p) \in Nat /\ m + 1 \in 1..Len(p) /\ r \in Record /\ r.ts \in Int
    BY RecordsIs
<1>2. Payload(r) \in Bytes
    BY <1>1, KeyIs
<1>3. CASE m = 0
  <2>1. line = <<>>
    <3>1. \A n \in 1..Len(line) : \E c \in 1..m : TRUE
        BY DEF Shows
    <3>2. Len(line) = 0
      <4>1. Len(line) \in Nat
        BY LenProperties
      <4>2. Len(line) >= 1 => 1 \in 1..Len(line)
        BY <4>1
      <4> QED BY <1>3, <3>1, <4>1, <4>2
    <3> QED BY <3>2, EmptySeq
  <2> QED BY <1>1, <1>3, <2>1, ShowsFirst
<1>4. CASE m # 0
  <2>1. m \in Nat \ {0} /\ m \in 1..m /\ m \in 1..Len(p)
    BY <1>1, <1>4
  <2>2. e[m] = Len(line) /\ e[m] \in 1..Len(line) /\ line[e[m]].payload = Payload(p[m])
    BY <2>1 DEF Shows
  <2>3. line # <<>>
    BY <2>2
  <2>4. Last(line) = line[Len(line)] /\ Last(line).payload = Payload(p[m])
    BY <2>2, <2>3, LastIs
  <2>5. CASE Last(line).payload = Payload(r)
    <3>1. ChangeAdd(line, r) = line
        BY <2>3, <2>5 DEF ChangeAdd
    <3>2. \E g : Shows(line, p, m + 1, g)
        BY <2>1, <2>4, <2>5, ShowsAgain
    <3> QED BY <3>1, <3>2
  <2>6. CASE Last(line).payload # Payload(r)
    <3> DEFINE d == diffOffsets(Payload(p[m]), Payload(r))
               x == [ts |-> r.ts, payload |-> Payload(r), changed |-> d]
    <3>1. ChangeAdd(line, r) = Append(line, x)
        BY <2>3, <2>4, <2>6 DEF ChangeAdd
    <3>2. Payload(p[m]) \in Bytes
        BY <2>1, RecordsIs, KeyIs
    <3>3. d \in SUBSET Nat
        BY <1>2, <3>2, DiffersSomewhere
    <3> HIDE DEF d
    <3>4. x \in Change /\ x.ts = r.ts /\ x.payload = Payload(r) /\ x.changed = d
        BY <1>1, <1>2, <3>3 DEF Change
    <3> HIDE DEF x
    <3>5. \E g : Shows(Append(line, x), p, m + 1, g)
      <4>1. EntryFor(x, p, m)
        BY <2>4, <2>6, <3>4 DEF EntryFor, d
      <4> QED BY <2>1, <3>4, <4>1, ShowsNew
    <3> QED BY <3>1, <3>5
  <2> QED BY <2>5, <2>6
<1> QED BY <1>3, <1>4

\* The timeline of samples in order of time shows each of them.
LEMMA TimelineIs ==
    ASSUME NEW p \in Seq(Record), InTime(p)
    PROVE  Timeline(p) \in Seq(Change) /\ \E e : Shows(Timeline(p), p, Len(p), e)
<1> DEFINE N == Len(p)
<1>1. N \in Nat
    BY RecordsIs
<1>2. PICK to \in [0..N -> Seq(Change)] : TimelineRun(to, p)
    BY TimelineLoop
<1>3. to[0] = <<>> /\ (\A n \in 1..N : to[n] = ChangeAdd(to[n - 1], p[n])) /\ Timeline(p) = to[N]
    BY <1>2 DEF TimelineRun
<1> DEFINE P == {m \in 0..N : \E e : Shows(to[m], p, m, e)}
<1>4. 0 \in P
  <2>1. Shows(<<>>, p, 0, <<>>)
    BY DEF Shows
  <2>2. 0 \in 0..N
    BY <1>1
  <2> HIDE DEF N
  <2> QED BY <1>3, <2>1, <2>2
<1>5. ASSUME NEW m \in Nat, m < N, m \in P PROVE m + 1 \in P
  <2>1. m \in 0..N /\ m + 1 \in 0..N /\ m + 1 \in 1..N /\ (m + 1) - 1 = m
    BY <1>1, <1>5
  <2>2. to[m] \in Seq(Change) /\ to[m + 1] = ChangeAdd(to[m], p[m + 1])
    BY <1>3, <2>1
  <2>3. PICK e : Shows(to[m], p, m, e)
    BY <1>5
  <2>4. \E g : Shows(to[m + 1], p, m + 1, g)
    BY <1>5, <2>2, <2>3, ShowsStep
  <2> QED BY <2>1, <2>4
<1>6. N \in P
  <2>1. N \in 0..N
    BY <1>1
  <2> HIDE DEF P, N
  <2> QED BY <1>1, <1>4, <1>5, <2>1, UpTo
<1>7. to[N] \in Seq(Change)
  <2>1. N \in 0..N
    BY <1>1
  <2> HIDE DEF N
  <2> QED BY <2>1
<1> QED BY <1>3, <1>6, <1>7

\* A set of numbers up to N that is not empty has a greatest one.
LEMMA Greatest ==
    ASSUME NEW N \in Nat, NEW X, X \subseteq 1..N, X # {}
    PROVE  \E x \in X : \A y \in X : y <= x
<1> SUFFICES ASSUME \A x \in X : \E y \in X : ~(y <= x) PROVE FALSE
    OBVIOUS
<1> DEFINE P == {m \in 0 .. N + 1 : \E x \in X : x >= m}
<1>1. 0 \in P
  <2>1. PICK x \in X : TRUE
    OBVIOUS
  <2>2. x >= 0 /\ 0 \in 0 .. N + 1
    OBVIOUS
  <2> QED BY <2>2
<1>2. ASSUME NEW m \in Nat, m < N + 1, m \in P PROVE m + 1 \in P
  <2>1. PICK x \in X : x >= m
    BY <1>2
  <2>2. PICK y \in X : ~(y <= x)
    OBVIOUS
  <2>3. x \in Int /\ y \in Int
    OBVIOUS
  <2>4. y >= m + 1 /\ m + 1 \in 0 .. N + 1
    BY <1>2, <2>1, <2>2, <2>3
  <2> QED BY <2>4
<1>3. N + 1 \in P
  <2>1. N + 1 \in Nat /\ N + 1 \in 0 .. N + 1
    OBVIOUS
  <2> HIDE DEF P
  <2> QED BY <1>1, <1>2, <2>1, UpTo
<1> QED BY <1>3

\* What Changes makes of the samples S: they are put in order as p, and line
\* shows them.
Lined(line, recs, S, p, g, e) ==
    /\ Ordered(p, recs, S, g) /\ InTime(p)
    /\ line \in Seq(Change) /\ Shows(line, p, Len(p), e)

SamplesOf(recs, k) == {i \in Members(recs, k) : IsSample(recs[i])}

LEMMA ChangesIs ==
    ASSUME NEW recs \in Seq(Record), NEW k
    PROVE  \E p, g, e : Lined(Changes(recs, k), recs, SamplesOf(recs, k), p, g, e)
<1> DEFINE S == {i \in DOMAIN recs : IsSample(recs[i]) /\ GroupKey(recs[i]) = k}
           p == SortStable(Select(recs, S))
<1>1. Len(recs) \in Nat /\ DOMAIN recs = 1..Len(recs) /\ \A i \in 1..Len(recs) : recs[i].ts \in Int
    BY RecordsIs
<1>2. S = SamplesOf(recs, k) /\ S \subseteq 1..Len(recs)
    BY <1>1 DEF SamplesOf, Members
<1>3. Changes(recs, k) = Timeline(p)
    BY DEF Changes, Samples
<1> HIDE DEF S
<1>4. PICK g : Ordered(p, recs, S, g)
    BY <1>2, SortedSelect
<1> HIDE DEF p
<1>5. /\ p \in Seq(Record)
      /\ \A n \in 1..Len(p) : g[n] \in S /\ p[n] = recs[g[n]]
      /\ \A a, b \in 1..Len(p) : a < b => Earlier(recs, g[a], g[b])
    BY <1>4 DEF Ordered
<1>6. InTime(p)
  <2>1. ASSUME NEW a \in 1..Len(p), NEW b \in 1..Len(p), a < b PROVE p[a].ts <= p[b].ts
    <3>1. recs[g[a]].ts < recs[g[b]].ts \/ recs[g[a]].ts = recs[g[b]].ts
        BY <1>5, <2>1 DEF Earlier
    <3>2. recs[g[a]].ts \in Int /\ recs[g[b]].ts \in Int
        BY <1>1, <1>2, <1>5
    <3>3. recs[g[a]].ts <= recs[g[b]].ts
        BY <3>1, <3>2
    <3> QED BY <1>5, <3>3
  <2> QED BY <2>1 DEF InTime
<1>7. Timeline(p) \in Seq(Change) /\ \E e : Shows(Timeline(p), p, Len(p), e)
    BY <1>5, <1>6, TimelineIs
<1>8. PICK e : Shows(Timeline(p), p, Len(p), e)
    BY <1>7
<1>9. Lined(Changes(recs, k), recs, S, p, g, e)
    BY <1>3, <1>4, <1>6, <1>7, <1>8 DEF Lined
<1> QED BY <1>2, <1>9

\* What that says of places, times, payloads and entries.
LineFacts(line, recs, S, p, g, e) ==
    /\ Len(p) \in Nat /\ Len(line) \in Nat /\ DOMAIN line = 1..Len(line)
    /\ \A c \in 1..Len(p) : g[c] \in S /\ p[c] = recs[g[c]] /\ p[c].ts \in Int
    /\ \A i \in S : \E c \in 1..Len(p) : g[c] = i
    /\ \A a, b \in 1..Len(p) : a < b => Earlier(recs, g[a], g[b]) /\ p[a].ts <= p[b].ts
    /\ \A n \in 1..Len(line) : line[n].ts \in Int
    /\ \A c \in 1..Len(p) :
          e[c] \in 1..Len(line) /\ line[e[c]].payload = Payload(p[c]) /\ line[e[c]].ts <= p[c].ts
    /\ \A a, b \in 1..Len(p) : a < b => e[a] <= e[b]
    /\ \A n \in 1..Len(line) : \E c \in 1..Len(p) : Enters(line, p, e, n, c)

LEMMA LinedIs ==
    ASSUME NEW recs \in Seq(Record), NEW S, S \subseteq 1..Len(recs),
           NEW line, NEW p, NEW g, NEW e, Lined(line, recs, S, p, g, e)
    PROVE  LineFacts(line, recs, S, p, g, e)
<1>1. Ordered(p, recs, S, g) /\ InTime(p) /\ line \in Seq(Change) /\ Shows(line, p, Len(p), e)
    BY DEF Lined
<1>2. p \in Seq(Record)
    BY <1>1 DEF Ordered
<1>3. Len(p) \in Nat /\ \A c \in 1..Len(p) : p[c].ts \in Int
    BY <1>2, RecordsIs
<1>4. Len(line) \in Nat /\ DOMAIN line = 1..Len(line)
    BY <1>1, LenProperties
<1>5. \A n \in 1..Len(line) : line[n].ts \in Int
  <2>1. \A n \in 1..Len(line) : line[n] \in Change
    BY <1>1, ElementOfSeq
  <2> QED BY <2>1 DEF Change
<1>6. /\ \A c \in 1..Len(p) : g[c] \in S /\ p[c] = recs[g[c]]
      /\ \A i \in S : \E c \in 1..Len(p) : g[c] = i
      /\ \A a, b \in 1..Len(p) : a < b => Earlier(recs, g[a], g[b])
    BY <1>1 DEF Ordered
<1>7. \A a, b \in 1..Len(p) : a < b => p[a].ts <= p[b].ts
    BY <1>1 DEF InTime
<1>8. /\ \A c \in 1..Len(p) :
            e[c] \in 1..Len(line) /\ line[e[c]].payload = Payload(p[c]) /\ line[e[c]].ts <= p[c].ts
      /\ \A a, b \in 1..Len(p) : a < b => e[a] <= e[b]
      /\ \A n \in 1..Len(line) : \E c \in 1..Len(p) : Enters(line, p, e, n, c)
    BY <1>1 DEF Shows
<1> QED BY <1>3, <1>4, <1>5, <1>6, <1>7, <1>8 DEF LineFacts

\* The last of the samples up to an instant, in the order of the timeline, is
\* the latest of them.
LEMMA LatestIs ==
    ASSUME NEW recs \in Seq(Record), NEW U, U \subseteq 1..Len(recs), NEW i \in U,
           \A j \in U : j = i \/ Earlier(recs, j, i)
    PROVE  Latest(recs, U) = i
<1> DEFINE Top(x) == \A j \in U : recs[j].ts < recs[x].ts \/ (recs[j].ts = recs[x].ts /\ j <= x)
           z == CHOOSE x \in U : Top(x)
<1>1. Len(recs) \in Nat /\ \A j \in U : j \in Int /\ recs[j].ts \in Int
    BY RecordsIs
<1>2. Top(i)
  <2>1. ASSUME NEW j \in U PROVE recs[j].ts < recs[i].ts \/ (recs[j].ts = recs[i].ts /\ j <= i)
    <3>1. CASE j = i
        BY <1>1, <3>1
    <3>2. CASE Earlier(recs, j, i)
        BY <1>1, <3>2 DEF Earlier
    <3> QED BY <3>1, <3>2
  <2> QED BY <2>1
<1>3. z \in U /\ Top(z)
    <2> HIDE DEF Top
    <2> QED BY <1>2
<1>4. z = i
  <2> HIDE DEF z
  <2>1. recs[i].ts < recs[z].ts \/ (recs[i].ts = recs[z].ts /\ i <= z)
    BY <1>3
  <2>2. recs[z].ts < recs[i].ts \/ (recs[z].ts = recs[i].ts /\ z <= i)
    BY <1>2, <1>3
  <2>3. z \in Int /\ i \in Int /\ recs[z].ts \in Int /\ recs[i].ts \in Int
    BY <1>1, <1>3
  <2> QED BY <2>1, <2>2, <2>3
<1> QED BY <1>4 DEF Latest, z

ShownRight(line, recs, U, shown) ==
    /\ U = {} <=> shown = {}
    /\ U # {} => line[Max(shown)].payload = Payload(recs[Latest(recs, U)])

\* The entry a timeline shows at an instant is that of the last sample.
LEMMA ShownIs ==
    ASSUME NEW recs \in Seq(Record), NEW S, S \subseteq 1..Len(recs),
           NEW line, NEW p, NEW g, NEW e, Lined(line, recs, S, p, g, e), NEW t \in Int
    PROVE  ShownRight(line, recs, {i \in S : recs[i].ts <= t}, {n \in DOMAIN line : line[n].ts <= t})
<1> DEFINE U == {i \in S : recs[i].ts <= t}
           shown == {n \in DOMAIN line : line[n].ts <= t}
           N == Len(p)
           C == {c \in 1..N : p[c].ts <= t}
<1>1. /\ N \in Nat /\ Len(line) \in Nat /\ DOMAIN line = 1..Len(line)
      /\ \A c \in 1..N : g[c] \in S /\ p[c] = recs[g[c]] /\ p[c].ts \in Int
      /\ \A i \in S : \E c \in 1..N : g[c] = i
      /\ \A a, b \in 1..N : a < b => Earlier(recs, g[a], g[b]) /\ p[a].ts <= p[b].ts
      /\ \A n \in 1..Len(line) : line[n].ts \in Int
      /\ \A c \in 1..N :
            e[c] \in 1..Len(line) /\ line[e[c]].payload = Payload(p[c]) /\ line[e[c]].ts <= p[c].ts
      /\ \A a, b \in 1..N : a < b => e[a] <= e[b]
      /\ \A n \in 1..Len(line) : \E c \in 1..N : Enters(line, p, e, n, c)
    BY LinedIs DEF LineFacts
<1> HIDE DEF N
<1>2. ASSUME NEW i \in U PROVE \E c \in C : g[c] = i
  <2>1. PICK c \in 1..N : g[c] = i
    BY <1>1
  <2>2. p[c].ts <= t
    BY <1>1, <2>1
  <2> QED BY <2>1, <2>2
<1>3. ASSUME NEW n \in shown PROVE \E c \in C : e[c] = n
  <2>1. n \in 1..Len(line) /\ line[n].ts <= t
    BY <1>1
  <2>2. PICK c \in 1..N : Enters(line, p, e, n, c)
    BY <1>1, <2>1
  <2>3. e[c] = n /\ line[n].ts = p[c].ts
    BY <2>2 DEF Enters
  <2> QED BY <2>1, <2>3
<1>4. ASSUME NEW c \in C PROVE g[c] \in U /\ e[c] \in shown
  <2>1. c \in 1..N /\ p[c].ts <= t
    OBVIOUS
  <2>2. e[c] \in 1..Len(line) /\ line[e[c]].ts <= p[c].ts /\ p[c].ts \in Int /\ line[e[c]].ts \in Int
    BY <1>1, <2>1
  <2>3. line[e[c]].ts <= t
    BY <2>1, <2>2
  <2>4. g[c] \in S /\ recs[g[c]].ts <= t
    BY <1>1, <2>1
  <2> QED BY <1>1, <2>2, <2>3, <2>4
<1>5. C \subseteq 1..N /\ \A c \in C : p[c].ts <= t
    OBVIOUS
<1>6. U \subseteq 1..Len(recs) /\ shown \subseteq Int
  <2>1. shown \subseteq 1..Len(line)
    BY <1>1
  <2>2. Len(line) \in Nat
    BY <1>1
  <2> HIDE DEF shown
  <2>3. shown \subseteq Int
    BY <2>1, <2>2
  <2>4. U \subseteq 1..Len(recs)
    OBVIOUS
  <2> QED BY <2>3, <2>4
<1> HIDE DEF C, U, shown
<1>7. U = {} <=> shown = {}
    BY <1>2, <1>3, <1>4
<1>8. ASSUME U # {} PROVE line[Max(shown)].payload = Payload(recs[Latest(recs, U)])
  <2>1. C # {}
    BY <1>2, <1>8
  <2>2. PICK c \in C : \A d \in C : d <= c
    BY <1>1, <1>5, <2>1, Greatest
  <2>3. c \in 1..N /\ g[c] \in U /\ e[c] \in shown
    BY <1>4, <1>5
  <2>4. \A d \in C : d = c \/ (d \in 1..N /\ d < c)
    <3>1. N \in Nat
        BY <1>1
    <3>2. \A d \in C : d \in 1..N
        BY <1>5
    <3> QED BY <2>2, <2>3, <3>1, <3>2
  <2>5. Max(shown) = e[c]
    <3>1. ASSUME NEW n \in shown PROVE n <= e[c]
      <4>1. PICK d \in C : e[d] = n
        BY <1>3
      <4>2. e[c] \in Int
        BY <1>6, <2>3
      <4>3. d # c => e[d] <= e[c]
        BY <1>1, <2>3, <2>4
      <4> QED BY <4>1, <4>2, <4>3
    <3> QED BY <1>6, <2>3, <3>1, MaxOf
  <2>6. Latest(recs, U) = g[c]
    <3>1. ASSUME NEW j \in U PROVE j = g[c] \/ Earlier(recs, j, g[c])
      <4>1. PICK d \in C : g[d] = j
        BY <1>2
      <4>2. d # c => Earlier(recs, g[d], g[c])
        BY <1>1, <2>3, <2>4
      <4> QED BY <4>1, <4>2
    <3> QED BY <1>6, <2>3, <3>1, LatestIs
  <2>7. line[e[c]].payload = Payload(recs[g[c]])
    BY <1>1, <2>3
  <2> QED BY <2>5, <2>6, <2>7
<1>9. ShownRight(line, recs, U, shown)
    BY <1>7, <1>8 DEF ShownRight
<1> QED BY <1>9 DEF U, shown

\* Timelines are right for every list of records and all instants.
LEMMA TimelineRight ==
    ASSUME NEW recs \in Seq(Record), NEW times, times \subseteq Int
    PROVE  TimelineIsRight(recs, times)
<1> SUFFICES ASSUME NEW k \in Keys(recs)
             PROVE  LET line == Changes(recs, k)
                        shown(t) == {n \in DOMAIN line : line[n].ts <= t}
                    IN  /\ \A t \in times :
                              LET S == Until(recs, k, t)
                              IN  /\ S = {} <=> shown(t) = {}
                                  /\ S # {} => line[Max(shown(t))].payload = Payload(recs[Latest(recs, S)])
                        /\ \A n \in 2 .. Len(line) :
                              /\ line[n].ts >= line[n - 1].ts
                              /\ line[n].changed # {}
    BY DEF TimelineIsRight
<1> DEFINE line == Changes(recs, k)
           shown(t) == {n \in DOMAIN line : line[n].ts <= t}
           S == SamplesOf(recs, k)
<1>1. Len(recs) \in Nat /\ DOMAIN recs = 1..Len(recs)
    BY RecordsIs
<1>2. S \subseteq 1..Len(recs)
    BY <1>1 DEF SamplesOf, Members
<1>3. PICK p, g, e : Lined(line, recs, S, p, g, e)
    BY ChangesIs
<1> HIDE DEF line
<1>4. ASSUME NEW t \in times
      PROVE  LET U == Until(recs, k, t)
             IN  /\ U = {} <=> shown(t) = {}
                 /\ U # {} => line[Max(shown(t))].payload = Payload(recs[Latest(recs, U)])
  <2>1. Until(recs, k, t) = {i \in S : recs[i].ts <= t}
    BY DEF Until, SamplesOf
  <2>2. t \in Int
    OBVIOUS
  <2> HIDE DEF S
  <2>3. ShownRight(line, recs, {i \in S : recs[i].ts <= t}, {n \in DOMAIN line : line[n].ts <= t})
    BY <1>2, <1>3, <2>2, ShownIs
  <2>4. ShownRight(line, recs, Until(recs, k, t), shown(t))
    BY <2>1, <2>3
  <2> HIDE DEF shown
  <2> QED BY <2>4 DEF ShownRight
<1> HIDE DEF S
<1>0. LineFacts(line, recs, S, p, g, e)
    BY <1>2, <1>3, LinedIs
<1>5. ASSUME NEW n \in 2 .. Len(line) PROVE line[n].ts >= line[n - 1].ts /\ line[n].changed # {}
  <2>1. Len(line) \in Nat
    BY <1>0 DEF LineFacts
  <2>2. n \in 1..Len(line) /\ n >= 2 /\ n - 1 \in 1..Len(line)
    BY <2>1
  <2>3. PICK c \in 1..Len(p) : Enters(line, p, e, n, c)
    BY <1>0, <2>2 DEF LineFacts
  <2>4. /\ line[n].ts = p[c].ts /\ c >= 2 /\ e[c - 1] = n - 1
        /\ Payload(p[c - 1]) # Payload(p[c])
        /\ line[n].changed = diffOffsets(Payload(p[c - 1]), Payload(p[c]))
    BY <2>2, <2>3 DEF Enters
  <2>5. Len(p) \in Nat
    BY <1>0 DEF LineFacts
  <2>6. c - 1 \in 1..Len(p) /\ c - 1 < c
    BY <2>4, <2>5
  <2>7. /\ line[n - 1].ts <= p[c - 1].ts /\ p[c - 1].ts <= p[c].ts
        /\ line[n - 1].ts \in Int /\ p[c - 1].ts \in Int /\ p[c].ts \in Int
    <3>1. p[c - 1].ts <= p[c].ts
        BY <1>0, <2>6 DEF LineFacts
    <3>2. line[e[c - 1]].ts <= p[c - 1].ts
        BY <1>0, <2>6 DEF LineFacts
    <3>3. p[c - 1].ts \in Int /\ p[c].ts \in Int
        BY <1>0, <2>6 DEF LineFacts
    <3>4. line[n - 1].ts \in Int
        BY <1>0, <2>2 DEF LineFacts
    <3> QED BY <2>4, <3>1, <3>2, <3>3, <3>4
  <2>8. line[n].ts >= line[n - 1].ts
    BY <2>4, <2>7
  <2>9. p \in Seq(Record)
    BY <1>3 DEF Lined, Ordered
  <2>10. Payload(p[c - 1]) \in Bytes /\ Payload(p[c]) \in Bytes
    BY <2>6, <2>9, RecordsIs, KeyIs
  <2>11. line[n].changed # {}
    BY <2>4, <2>10, DiffersSomewhere
  <2> QED BY <2>8, <2>11
<1> QED BY <1>4, <1>5 DEF line

-----------------------------------------------------------------------------
\* The diff around an instant.  Of the records at W one is kept for each
\* register: the one of the latest time stamp, or, going back, of the earliest.
Kept == UNION {[D -> Record] : D \in SUBSET KeySet}

Val(r, back) == IF back THEN -r.ts ELSE r.ts

Takes(m, recs, n, W, back) ==
    /\ n \in W
    /\ GroupKey(recs[n]) \in DOMAIN m => Val(recs[n], back) > Val(m[GroupKey(recs[n])], back)

SideAt(m, recs, n, W, back) == IF Takes(m, recs, n, W, back) THEN Put(m, recs[n]) ELSE m

SideRun(to, recs, W, back) ==
    /\ to[0] = [x \in {} |-> {}]
    /\ \A n \in 1..Len(recs) : to[n] = SideAt(to[n - 1], recs, n, W, back)

LEMMA PutIs ==
    ASSUME NEW m \in Kept, NEW r \in Record
    PROVE  /\ Put(m, r) \in Kept
           /\ DOMAIN Put(m, r) = DOMAIN m \cup {GroupKey(r)}
           /\ Put(m, r)[GroupKey(r)] = r
           /\ \A x \in DOMAIN m \ {GroupKey(r)} : Put(m, r)[x] = m[x]
<1> DEFINE k == GroupKey(r)
           D == DOMAIN m \cup {k}
           g == Put(m, r)
<1>1. DOMAIN m \in SUBSET KeySet /\ \A x \in DOMAIN m : m[x] \in Record
    BY DEF Kept
<1>2. k \in KeySet
    BY KeyIs
<1>3. g = [x \in D |-> IF x = k THEN r ELSE m[x]]
    BY DEF Put
<1> HIDE DEF k, g
<1>4. g \in [D -> Record]
    BY <1>1, <1>3
<1>5. D \in SUBSET KeySet
    BY <1>1, <1>2
<1>6. g \in Kept
    <2> HIDE DEF D
    <2> QED BY <1>4, <1>5 DEF Kept
<1> QED BY <1>3, <1>6 DEF g, k

LEMMA SideAtIs ==
    ASSUME NEW recs \in Seq(Record), NEW n \in 1..Len(recs), NEW m \in Kept, NEW W, NEW back
    PROVE  SideAt(m, recs, n, W, back) \in Kept
<1>1. recs[n] \in Record
    BY RecordsIs
<1> QED BY <1>1, PutIs DEF SideAt

LEMMA NoneKept == [x \in {} |-> {}] \in Kept
<1>1. [x \in {} |-> {}] \in [{} -> Record] /\ {} \in SUBSET KeySet
    OBVIOUS
<1> QED BY <1>1 DEF Kept

LEMMA SideLoop ==
    ASSUME NEW recs \in Seq(Record), NEW W, NEW back
    PROVE  \E f \in [0..Len(recs) -> Kept] : SideRun(f, recs, W, back)
<1> DEFINE N == Len(recs)
           none == [x \in {} |-> {}]
           G == [n \in 1..N |-> [x \in Kept |-> SideAt(x, recs, n, W, back)]]
<1>1. N \in Nat /\ none \in Kept
    BY RecordsIs, NoneKept
<1>2. \A n \in 1..N : \A x \in Kept : SideAt(x, recs, n, W, back) \in Kept
    BY SideAtIs
<1>3. G \in [1..N -> [Kept -> Kept]]
    <2> HIDE DEF N
    <2> QED BY <1>2
<1>4. PICK f \in [0..N -> Kept] : Loop(f, N, none, G)
    <2> HIDE DEF G, N, none
    <2> QED BY <1>1, <1>3, LoopIs
<1>5. f[0] = none
  <2>1. 0 \in 0..N
    BY <1>1
  <2> HIDE DEF none, N, G
  <2> QED BY <1>4, <2>1 DEF Loop
<1>6. ASSUME NEW n \in 1..N PROVE f[n] = SideAt(f[n - 1], recs, n, W, back)
  <2>1. n \in 0..N /\ n # 0 /\ n - 1 \in 0..N
    BY <1>1
  <2>2. f[n] = G[n][f[n - 1]] /\ f[n - 1] \in Kept
    <3> HIDE DEF none, N, G
    <3> QED BY <1>4, <2>1 DEF Loop
  <2> QED BY <2>2
<1>7. SideRun(f, recs, W, back)
    BY <1>5, <1>6 DEF SideRun
<1> QED BY <1>7

WindowBefore(recs, at, window) == {i \in 1..Len(recs) : IsSample(recs[i]) /\ recs[i].ts \in at - window .. at}

LEMMA InBeforeIs ==
    ASSUME NEW recs \in Seq(Record), NEW at \in Int, NEW window \in Nat,
           NEW n \in 1..Len(recs), NEW m \in Kept
    PROVE  InBefore(m, recs[n], at, window) <=> Takes(m, recs, n, WindowBefore(recs, at, window), FALSE)
<1> DEFINE r == recs[n]
           k == GroupKey(r)
<1>1. n \in WindowBefore(recs, at, window) <=> IsSample(r) /\ r.ts \in at - window .. at
    BY DEF WindowBefore
<1>2. r.ts \in Int
    BY RecordsIs
<1>3. k \in DOMAIN m => m[k].ts \in Int
    BY DEF Kept, Record
<1>4. k \in DOMAIN m => (r.ts > m[k].ts <=> Val(r, FALSE) > Val(m[k], FALSE))
    <2> HIDE DEF k, r
    <2> QED BY <1>2, <1>3 DEF Val
<1> QED BY <1>1, <1>4 DEF InBefore, Takes

LEMMA BeforeLoop ==
    ASSUME NEW recs \in Seq(Record), NEW at \in Int, NEW window \in Nat
    PROVE  \E to \in [0..Len(recs) -> Kept] :
              /\ SideRun(to, recs, WindowBefore(recs, at, window), FALSE)
              /\ BeforeAt(recs, at, window) = to[Len(recs)]
<1> DEFINE N == Len(recs)
           W == WindowBefore(recs, at, window)
           to[n \in 0 .. Len(recs)] ==
              IF n = 0 THEN [x \in {} |-> {}]
              ELSE IF InBefore(to[n - 1], recs[n], at, window) THEN Put(to[n - 1], recs[n]) ELSE to[n - 1]
           At(h, n) ==
              IF n = 0 THEN [x \in {} |-> {}]
              ELSE IF InBefore(h[n - 1], recs[n], at, window) THEN Put(h[n - 1], recs[n]) ELSE h[n - 1]
           Is(h) == h = [n \in 0..N |-> At(h, n)]
<1>1. N \in Nat
    BY RecordsIs
<1>2. PICK f \in [0..N -> Kept] : SideRun(f, recs, W, FALSE)
    <2> HIDE DEF W
    <2> QED BY SideLoop
<1>3. ASSUME NEW m \in Kept, NEW n \in 1..N
      PROVE  SideAt(m, recs, n, W, FALSE) = IF InBefore(m, recs[n], at, window) THEN Put(m, recs[n]) ELSE m
    BY InBeforeIs DEF SideAt
<1> HIDE DEF W
<1>4. Is(f)
  <2>1. ASSUME NEW n \in 0..N PROVE f[n] = At(f, n)
    <3>1. CASE n = 0
        BY <1>2, <3>1 DEF SideRun
    <3>2. CASE n # 0
      <4>1. n \in 1..N /\ n - 1 \in 0..N
        BY <1>1, <3>2
      <4>2. f[n] = SideAt(f[n - 1], recs, n, W, FALSE) /\ f[n - 1] \in Kept
        BY <1>2, <4>1 DEF SideRun
      <4> QED BY <1>3, <3>2, <4>1, <4>2
    <3> QED BY <3>1, <3>2
  <2>2. f = [n \in 0..N |-> f[n]]
    OBVIOUS
  <2> HIDE DEF At
  <2> QED BY <2>1, <2>2
<1>5. Is(to)
    BY <1>4
<1>6. BeforeAt(recs, at, window) = to[N]
    BY DEF BeforeAt
<1> HIDE DEF to
<1> DEFINE Body(x, n) == IF InBefore(x, recs[n], at, window) THEN Put(x, recs[n]) ELSE x
<1>7. to[0] = [x \in {} |-> {}] /\ \A n \in 1..N : to[n] = Body(to[n - 1], n)
  <2>1. \A n \in 0..N : to[n] = At(to, n)
    <3> HIDE DEF At
    <3> QED BY <1>5
  <2>2. 0 \in 0..N /\ \A n \in 1..N : n \in 0..N /\ n # 0
    BY <1>1
  <2> QED BY <2>1, <2>2
<1>8. \A n \in 0..N : to[n] \in Kept
  <2>1. \A n \in 1..N : to[n - 1] \in Kept => to[n] \in Kept
    <3>1. ASSUME NEW n \in 1..N, to[n - 1] \in Kept PROVE to[n] \in Kept
      <4>1. recs[n] \in Record
        BY RecordsIs
      <4> QED BY <1>7, <3>1, <4>1, PutIs
    <3> QED BY <3>1
  <2>2. to[0] \in Kept
    BY <1>7, NoneKept
  <2> HIDE DEF N
  <2> QED BY <1>1, <2>1, <2>2, LoopTyped
<1>9. to \in [0..N -> Kept]
    BY <1>5, <1>8
<1>10. ASSUME NEW n \in 1..N PROVE to[n] = SideAt(to[n - 1], recs, n, W, FALSE)
  <2>1. n - 1 \in 0..N
    BY <1>1
  <2>2. to[n - 1] \in Kept
    BY <1>8, <2>1
  <2> QED BY <1>3, <1>7, <2>2
<1>11. SideRun(to, recs, W, FALSE)
    BY <1>7, <1>10 DEF SideRun
<1> QED BY <1>6, <1>9, <1>11 DEF W

WindowAfter(recs, at, window) == {i \in 1..Len(recs) : IsSample(recs[i]) /\ recs[i].ts \in at + 1 .. at + window}

LEMMA InAfterIs ==
    ASSUME NEW recs \in Seq(Record), NEW at \in Int, NEW window \in Nat,
           NEW n \in 1..Len(recs), NEW m \in Kept
    PROVE  InAfter(m, recs[n], at, window) <=> Takes(m, recs, n, WindowAfter(recs, at, window), TRUE)
<1> DEFINE r == recs[n]
           k == GroupKey(r)
<1>1. n \in WindowAfter(recs, at, window) <=> IsSample(r) /\ r.ts \in at + 1 .. at + window
    BY DEF WindowAfter
<1>2. r.ts \in Int
    BY RecordsIs
<1>3. k \in DOMAIN m => m[k].ts \in Int
    BY DEF Kept, Record
<1>4. k \in DOMAIN m => (r.ts < m[k].ts <=> Val(r, TRUE) > Val(m[k], TRUE))
    <2> HIDE DEF k, r
    <2> QED BY <1>2, <1>3 DEF Val
<1> QED BY <1>1, <1>4 DEF InAfter, Takes

LEMMA AfterLoop ==
    ASSUME NEW recs \in Seq(Record), NEW at \in Int, NEW window \in Nat
    PROVE  \E to \in [0..Len(recs) -> Kept] :
              /\ SideRun(to, recs, WindowAfter(recs, at, window), TRUE)
              /\ AfterAt(recs, at, window) = to[Len(recs)]
<1> DEFINE N == Len(recs)
           W == WindowAfter(recs, at, window)
           to[n \in 0 .. Len(recs)] ==
              IF n = 0 THEN [x \in {} |-> {}]
              ELSE IF InAfter(to[n - 1], recs[n], at, window) THEN Put(to[n - 1], recs[n]) ELSE to[n - 1]
           At(h, n) ==
              IF n = 0 THEN [x \in {} |-> {}]
              ELSE IF InAfter(h[n - 1], recs[n], at, window) THEN Put(h[n - 1], recs[n]) ELSE h[n - 1]
           Is(h) == h = [n \in 0..N |-> At(h, n)]
<1>1. N \in Nat
    BY RecordsIs
<1>2. PICK f \in [0..N -> Kept] : SideRun(f, recs, W, TRUE)
    <2> HIDE DEF W
    <2> QED BY SideLoop
<1>3. ASSUME NEW m \in Kept, NEW n \in 1..N
      PROVE  SideAt(m, recs, n, W, TRUE) = IF InAfter(m, recs[n], at, window) THEN Put(m, recs[n]) ELSE m
    BY InAfterIs DEF SideAt
<1> HIDE DEF W
<1>4. Is(f)
  <2>1. ASSUME NEW n \in 0..N PROVE f[n] = At(f, n)
    <3>1. CASE n = 0
        BY <1>2, <3>1 DEF SideRun
    <3>2. CASE n # 0
      <4>1. n \in 1..N /\ n - 1 \in 0..N
        BY <1>1, <3>2
      <4>2. f[n] = SideAt(f[n - 1], recs, n, W, TRUE) /\ f[n - 1] \in Kept
        BY <1>2, <4>1 DEF SideRun
      <4> QED BY <1>3, <3>2, <4>1, <4>2
    <3> QED BY <3>1, <3>2
  <2>2. f = [n \in 0..N |-> f[n]]
    OBVIOUS
  <2> HIDE DEF At
  <2> QED BY <2>1, <2>2
<1>5. Is(to)
    BY <1>4
<1>6. AfterAt(recs, at, window) = to[N]
    BY DEF AfterAt
<1> HIDE DEF to
<1> DEFINE Body(x, n) == IF InAfter(x, recs[n], at, window) THEN Put(x, recs[n]) ELSE x
<1>7. to[0] = [x \in {} |-> {}] /\ \A n \in 1..N : to[n] = Body(to[n - 1], n)
  <2>1. \A n \in 0..N : to[n] = At(to, n)
    <3> HIDE DEF At
    <3> QED BY <1>5
  <2>2. 0 \in 0..N /\ \A n \in 1..N : n \in 0..N /\ n # 0
    BY <1>1
  <2> QED BY <2>1, <2>2
<1>8. \A n \in 0..N : to[n] \in Kept
  <2>1. \A n \in 1..N : to[n - 1] \in Kept => to[n] \in Kept
    <3>1. ASSUME NEW n \in 1..N, to[n - 1] \in Kept PROVE to[n] \in Kept
      <4>1. recs[n] \in Record
        BY RecordsIs
      <4> QED BY <1>7, <3>1, <4>1, PutIs
    <3> QED BY <3>1
  <2>2. to[0] \in Kept
    BY <1>7, NoneKept
  <2> HIDE DEF N
  <2> QED BY <1>1, <2>1, <2>2, LoopTyped
<1>9. to \in [0..N -> Kept]
    BY <1>5, <1>8
<1>10. ASSUME NEW n \in 1..N PROVE to[n] = SideAt(to[n - 1], recs, n, W, TRUE)
  <2>1. n - 1 \in 0..N
    BY <1>1
  <2>2. to[n - 1] \in Kept
    BY <1>8, <2>1
  <2> QED BY <1>3, <1>7, <2>2
<1>11. SideRun(to, recs, W, TRUE)
    BY <1>7, <1>10 DEF SideRun
<1> QED BY <1>6, <1>9, <1>11 DEF W

\* The i-th record is the one kept of those of its register among W.
Picks(side, recs, W, back, k, i) ==
    /\ i \in W /\ GroupKey(recs[i]) = k /\ side[k] = recs[i]
    /\ \A j \in W : GroupKey(recs[j]) = k => Val(recs[j], back) <= Val(recs[i], back)

Sided(side, recs, W, back) ==
    /\ \A k : k \in DOMAIN side <=> \E i \in W : GroupKey(recs[i]) = k
    /\ \A k \in DOMAIN side : \E i \in W : Picks(side, recs, W, back, k, i)

LEMMA ValIs ==
    ASSUME NEW recs \in Seq(Record), NEW i \in 1..Len(recs), NEW back
    PROVE  Val(recs[i], back) \in Int
<1>1. recs[i].ts \in Int
    BY RecordsIs
<1> QED BY <1>1 DEF Val

LEMMA SideStep ==
    ASSUME NEW recs \in Seq(Record), NEW n \in 1..Len(recs), NEW m \in Kept, NEW W, NEW back,
           NEW V, V \subseteq 1..Len(recs), Sided(m, recs, V, back)
    PROVE  Sided(SideAt(m, recs, n, W, back), recs, V \cup (W \cap {n}), back)
<1> DEFINE r == recs[n]
           key == GroupKey(r)
           new == SideAt(m, recs, n, W, back)
           X == V \cup (W \cap {n})
<1>1. r \in Record
    BY RecordsIs
<1>2. /\ \A k : k \in DOMAIN m <=> \E i \in V : GroupKey(recs[i]) = k
      /\ \A k \in DOMAIN m : \E i \in V : Picks(m, recs, V, back, k, i)
    BY DEF Sided
<1>3. Val(r, back) \in Int /\ \A i \in V : Val(recs[i], back) \in Int
    BY ValIs
<1>4. CASE n \notin W
  <2>1. new = m /\ X = V
    BY <1>4 DEF SideAt, Takes
  <2> HIDE DEF new, X
  <2> QED BY <2>1 DEF new, X
<1>5. CASE n \in W /\ ~Takes(m, recs, n, W, back)
  <2>1. new = m /\ X = V \cup {n}
    BY <1>5 DEF SideAt
  <2>2. key \in DOMAIN m /\ ~(Val(r, back) > Val(m[key], back))
    BY <1>5 DEF Takes
  <2> HIDE DEF X
  <2>3. \A k : k \in DOMAIN m <=> \E i \in X : GroupKey(recs[i]) = k
    BY <1>2, <2>1, <2>2
  <2>4. ASSUME NEW k \in DOMAIN m PROVE \E i \in X : Picks(m, recs, X, back, k, i)
    <3>1. PICK i \in V : Picks(m, recs, V, back, k, i)
        BY <1>2
    <3>2. /\ i \in X /\ GroupKey(recs[i]) = k /\ m[k] = recs[i]
          /\ \A j \in V : GroupKey(recs[j]) = k => Val(recs[j], back) <= Val(recs[i], back)
        BY <2>1, <3>1 DEF Picks
    <3>3. key = k => Val(r, back) <= Val(recs[i], back)
        BY <1>3, <2>2, <3>2
    <3>4. \A j \in X : GroupKey(recs[j]) = k => Val(recs[j], back) <= Val(recs[i], back)
        BY <2>1, <3>2, <3>3
    <3>5. Picks(m, recs, X, back, k, i)
        BY <3>2, <3>4 DEF Picks
    <3> QED BY <3>2, <3>5
  <2>5. Sided(m, recs, X, back)
    BY <2>3, <2>4 DEF Sided
  <2> HIDE DEF new
  <2> QED BY <2>1, <2>5 DEF X, new
<1>6. CASE n \in W /\ Takes(m, recs, n, W, back)
  <2>1. new = Put(m, r) /\ X = V \cup {n}
    BY <1>6 DEF SideAt
  <2>2. key \in DOMAIN m => Val(r, back) > Val(m[key], back)
    BY <1>6 DEF Takes
  <2>3. /\ DOMAIN new = DOMAIN m \cup {key} /\ new[key] = r
        /\ \A x \in DOMAIN m \ {key} : new[x] = m[x]
    <3> HIDE DEF X, new, r
    <3>1. /\ DOMAIN Put(m, r) = DOMAIN m \cup {GroupKey(r)} /\ Put(m, r)[GroupKey(r)] = r
          /\ \A x \in DOMAIN m \ {GroupKey(r)} : Put(m, r)[x] = m[x]
        BY <1>1, PutIs
    <3> QED BY <2>1, <3>1
  <2> HIDE DEF X, new
  <2>4. \A k : k \in DOMAIN new <=> \E i \in X : GroupKey(recs[i]) = k
    BY <1>2, <2>1, <2>3
  <2>5. Picks(new, recs, X, back, key, n)
    <3>1. ASSUME NEW j \in V, GroupKey(recs[j]) = key PROVE Val(recs[j], back) <= Val(r, back)
      <4>1. key \in DOMAIN m
        BY <1>2, <3>1
      <4>2. PICK i \in V : Picks(m, recs, V, back, key, i)
        BY <1>2, <4>1
      <4>3. m[key] = recs[i] /\ Val(recs[j], back) <= Val(recs[i], back)
        BY <3>1, <4>2 DEF Picks
      <4>4. Val(r, back) > Val(recs[i], back)
        BY <2>2, <4>1, <4>3
      <4>5. Val(r, back) \in Int /\ Val(recs[i], back) \in Int /\ Val(recs[j], back) \in Int
        BY <1>3
      <4> QED BY <4>3, <4>4, <4>5
    <3>2. Val(r, back) <= Val(r, back)
        BY <1>3
    <3>3. \A j \in X : GroupKey(recs[j]) = key => Val(recs[j], back) <= Val(r, back)
        BY <2>1, <3>1, <3>2
    <3> QED BY <2>1, <2>3, <3>3 DEF Picks
  <2>6. ASSUME NEW k \in DOMAIN new PROVE \E i \in X : Picks(new, recs, X, back, k, i)
    <3>1. CASE k = key
        BY <2>1, <2>5, <3>1
    <3>2. CASE k # key
      <4>1. k \in DOMAIN m /\ new[k] = m[k]
        BY <2>3, <3>2
      <4>2. PICK i \in V : Picks(m, recs, V, back, k, i)
        BY <1>2, <4>1
      <4>3. Picks(new, recs, X, back, k, i)
        BY <2>1, <3>2, <4>1, <4>2 DEF Picks
      <4> QED BY <2>1, <4>3
    <3> QED BY <3>1, <3>2
  <2>7. Sided(new, recs, X, back)
    BY <2>4, <2>6 DEF Sided
  <2> QED BY <2>7 DEF X, new
<1> QED BY <1>4, <1>5, <1>6

LEMMA SideIs ==
    ASSUME NEW recs \in Seq(Record), NEW W, W \subseteq 1..Len(recs), NEW back,
           NEW to \in [0..Len(recs) -> Kept], SideRun(to, recs, W, back)
    PROVE  Sided(to[Len(recs)], recs, W, back)
<1> DEFINE N == Len(recs)
           P == {m \in 0..N : Sided(to[m], recs, W \cap (1..m), back)}
<1>1. N \in Nat
    BY RecordsIs
<1>2. to[0] = [x \in {} |-> {}] /\ \A n \in 1..N : to[n] = SideAt(to[n - 1], recs, n, W, back)
    BY DEF SideRun
<1>3. 0 \in P
  <2>1. DOMAIN to[0] = {} /\ W \cap (1..0) = {} /\ 0 \in 0..N
    BY <1>1, <1>2
  <2> HIDE DEF N
  <2>2. Sided(to[0], recs, W \cap (1..0), back)
    BY <2>1 DEF Sided
  <2> QED BY <2>1, <2>2
<1>4. ASSUME NEW m \in Nat, m < N, m \in P PROVE m + 1 \in P
  <2> DEFINE V == W \cap (1..m)
  <2>1. m \in 0..N /\ m + 1 \in 0..N /\ m + 1 \in 1..N /\ (m + 1) - 1 = m
    BY <1>1, <1>4
  <2>2. to[m + 1] = SideAt(to[m], recs, m + 1, W, back) /\ to[m] \in Kept
    BY <1>2, <2>1
  <2>3. V \subseteq 1..N /\ Sided(to[m], recs, V, back)
    BY <1>4
  <2>4. V \cup (W \cap {m + 1}) = W \cap (1..m + 1)
    OBVIOUS
  <2> HIDE DEF V
  <2>5. Sided(to[m + 1], recs, V \cup (W \cap {m + 1}), back)
    BY <2>1, <2>2, <2>3, SideStep
  <2> QED BY <2>1, <2>4, <2>5
<1>5. N \in P
  <2>1. N \in 0..N
    BY <1>1
  <2> HIDE DEF P, N
  <2> QED BY <1>1, <1>3, <1>4, <2>1, UpTo
<1>6. W \cap (1..N) = W
    OBVIOUS
<1> QED BY <1>5, <1>6

LEMMA BeforeIs ==
    ASSUME NEW recs \in Seq(Record), NEW at \in Int, NEW window \in Nat
    PROVE  Sided(BeforeAt(recs, at, window), recs, WindowBefore(recs, at, window), FALSE)
<1> DEFINE W == WindowBefore(recs, at, window)
<1>1. PICK to \in [0..Len(recs) -> Kept] :
        SideRun(to, recs, W, FALSE) /\ BeforeAt(recs, at, window) = to[Len(recs)]
    BY BeforeLoop
<1>2. W \subseteq 1..Len(recs)
    BY DEF WindowBefore
<1> HIDE DEF W
<1>3. Sided(to[Len(recs)], recs, W, FALSE)
    BY <1>1, <1>2, SideIs
<1> QED BY <1>1, <1>3 DEF W

LEMMA AfterIs ==
    ASSUME NEW recs \in Seq(Record), NEW at \in Int, NEW window \in Nat
    PROVE  Sided(AfterAt(recs, at, window), recs, WindowAfter(recs, at, window), TRUE)
<1> DEFINE W == WindowAfter(recs, at, window)
<1>1. PICK to \in [0..Len(recs) -> Kept] :
        SideRun(to, recs, W, TRUE) /\ AfterAt(recs, at, window) = to[Len(recs)]
    BY AfterLoop
<1>2. W \subseteq 1..Len(recs)
    BY DEF WindowAfter
<1> HIDE DEF W
<1>3. Sided(to[Len(recs)], recs, W, TRUE)
    BY <1>1, <1>2, SideIs
<1> QED BY <1>1, <1>3 DEF W

\* The change from one sample to the other is on the timeline.
HasChange(line, q, r) ==
    \E n \in DOMAIN line :
        /\ line[n].ts = r.ts /\ line[n].payload = Payload(r)
        /\ line[n].changed = diffOffsets(Payload(q), Payload(r))

\* Where two samples that follow each other differ, the timeline has the change.
LEMMA ChangeShown ==
    ASSUME NEW recs \in Seq(Record), NEW S, S \subseteq 1..Len(recs),
           NEW line, NEW p, NEW g, NEW e, Lined(line, recs, S, p, g, e),
           NEW c \in 1..Len(p), c >= 2, Payload(p[c - 1]) # Payload(p[c])
    PROVE  HasChange(line, p[c - 1], p[c])
<1> DEFINE N == Len(p)
           n == e[c]
<1>1. /\ N \in Nat /\ Len(line) \in Nat /\ DOMAIN line = 1..Len(line)
      /\ \A x \in 1..N : e[x] \in 1..Len(line) /\ line[e[x]].payload = Payload(p[x])
      /\ \A a, b \in 1..N : a < b => e[a] <= e[b]
      /\ \A x \in 1..Len(line) : \E y \in 1..N : Enters(line, p, e, x, y)
  <2>1. LineFacts(line, recs, S, p, g, e)
    BY LinedIs
  <2> QED BY <2>1 DEF LineFacts
<1> HIDE DEF N
<1>2. c \in 1..N /\ c - 1 \in 1..N /\ c - 1 < c
  <2>1. N \in Nat
    BY <1>1
  <2>2. c \in 1..N
    BY DEF N
  <2> QED BY <2>1, <2>2
<1>3. n \in 1..Len(line) /\ e[c - 1] \in 1..Len(line)
    BY <1>1, <1>2
<1>4. n # e[c - 1]
    BY <1>1, <1>2
<1>5. e[c - 1] <= n
    BY <1>1, <1>2
<1>6. n \in Int /\ e[c - 1] \in Int /\ n >= 2 /\ e[c - 1] < n
  <2>1. Len(line) \in Nat
    BY <1>1
  <2> HIDE DEF n
  <2> QED BY <1>3, <1>4, <1>5, <2>1
<1>7. PICK d \in 1..N : Enters(line, p, e, n, d)
    BY <1>1, <1>3
<1>8. /\ e[d] = n /\ line[n].ts = p[d].ts
      /\ d >= 2 /\ e[d - 1] = n - 1
      /\ line[n].changed = diffOffsets(Payload(p[d - 1]), Payload(p[d]))
    BY <1>6, <1>7 DEF Enters
<1>9. d = c
  <2>1. N \in Nat
    BY <1>1
  <2>2. d \in Int /\ c \in Int /\ d - 1 \in 1..N
    BY <1>2, <1>8, <2>1
  <2>3. ~(d < c)
    <3> SUFFICES ASSUME d < c PROVE FALSE
        OBVIOUS
    <3>1. d = c - 1 \/ d < c - 1
        BY <2>2
    <3>2. e[d] <= e[c - 1]
      <4>1. d < c - 1 => e[d] <= e[c - 1]
        BY <1>1, <1>2
      <4>2. d = c - 1 => e[d] <= e[c - 1]
        BY <1>6
      <4> QED BY <3>1, <4>1, <4>2
    <3> QED BY <1>6, <1>8, <3>2
  <2>4. ~(c < d)
    <3> SUFFICES ASSUME c < d PROVE FALSE
        OBVIOUS
    <3>1. c = d - 1 \/ c < d - 1
        BY <2>2
    <3>2. c < d - 1 => e[c] <= e[d - 1]
        BY <1>1, <1>2, <2>2
    <3>3. e[d - 1] = n - 1
        BY <1>8
    <3> QED BY <1>6, <3>1, <3>2, <3>3
  <2> QED BY <2>2, <2>3, <2>4
<1>10. line[n].payload = Payload(p[c])
    BY <1>1, <1>2
<1>11. n \in DOMAIN line
    BY <1>1, <1>3
<1> QED BY <1>8, <1>9, <1>10, <1>11 DEF HasChange

Apart(recs, S) == \A i, j \in S : i # j => recs[i].ts # recs[j].ts

\* b is the last sample of the window before an instant, a the first after it.
Nearest(recs, S, at, window, b, a) ==
    /\ b \in S /\ a \in S
    /\ recs[b].ts \in at - window .. at /\ recs[a].ts \in at + 1 .. at + window
    /\ \A j \in S : recs[j].ts \in at - window .. at => recs[j].ts <= recs[b].ts
    /\ \A j \in S : recs[j].ts \in at + 1 .. at + window => recs[j].ts >= recs[a].ts

Adjacent(p, q, r) == \E c \in 1..Len(p) : c >= 2 /\ p[c] = r /\ p[c - 1] = q

\* With time stamps that differ, the last sample before an instant and the first
\* one after it follow each other.
LEMMA NextTo ==
    ASSUME NEW recs \in Seq(Record), NEW S, S \subseteq 1..Len(recs),
           NEW line, NEW p, NEW g, NEW e, Lined(line, recs, S, p, g, e),
           Apart(recs, S), NEW at \in Int, NEW window \in Nat,
           NEW b, NEW a, Nearest(recs, S, at, window, b, a)
    PROVE  Adjacent(p, recs[b], recs[a])
<1> DEFINE N == Len(p)
<1>0. /\ \A i, j \in S : i # j => recs[i].ts # recs[j].ts
      /\ b \in S /\ a \in S
      /\ recs[b].ts \in at - window .. at /\ recs[a].ts \in at + 1 .. at + window
      /\ \A j \in S : recs[j].ts \in at - window .. at => recs[j].ts <= recs[b].ts
      /\ \A j \in S : recs[j].ts \in at + 1 .. at + window => recs[j].ts >= recs[a].ts
    BY DEF Apart, Nearest
<1>1. /\ N \in Nat
      /\ \A c \in 1..N : g[c] \in S /\ p[c] = recs[g[c]] /\ p[c].ts \in Int
      /\ \A i \in S : \E c \in 1..N : g[c] = i
      /\ \A x, y \in 1..N : x < y => Earlier(recs, g[x], g[y]) /\ p[x].ts <= p[y].ts
  <2>1. LineFacts(line, recs, S, p, g, e)
    BY LinedIs
  <2> QED BY <2>1 DEF LineFacts
<1>2. PICK x \in 1..N : g[x] = b
    BY <1>0, <1>1
<1>3. PICK y \in 1..N : g[y] = a
    BY <1>0, <1>1
<1>4. N \in Nat /\ p[x] = recs[b] /\ p[y] = recs[a] /\ p[x].ts \in Int /\ p[y].ts \in Int
    BY <1>1, <1>2, <1>3
<1> HIDE DEF N
<1>5. \A u, v \in 1..N : u < v => p[u].ts < p[v].ts
  <2>1. ASSUME NEW u \in 1..N, NEW v \in 1..N, u < v PROVE p[u].ts < p[v].ts
    <3>1. Earlier(recs, g[u], g[v]) /\ p[u].ts <= p[v].ts /\ p[u].ts \in Int /\ p[v].ts \in Int
        BY <1>1, <2>1
    <3>2. g[u] \in S /\ g[v] \in S /\ p[u] = recs[g[u]] /\ p[v] = recs[g[v]]
        BY <1>1
    <3>3. g[u] # g[v]
      <4>1. ~Earlier(recs, g[u], g[u])
        BY <3>2, EarlierIs
      <4> QED BY <3>1, <4>1
    <3>4. p[u].ts # p[v].ts
        BY <1>0, <3>2, <3>3
    <3> QED BY <3>1, <3>4
  <2> QED BY <2>1
<1>6. /\ p[x].ts >= at - window /\ p[x].ts <= at
      /\ p[y].ts >= at + 1 /\ p[y].ts <= at + window
    BY <1>0, <1>4
<1>7. x < y
  <2>1. ~(y < x)
    <3>1. y < x => p[y].ts < p[x].ts
        BY <1>5
    <3> QED BY <1>4, <1>6, <3>1
  <2>2. x # y
    BY <1>4, <1>6
  <2> QED BY <1>4, <2>1, <2>2
<1>8. y = x + 1
  <2> SUFFICES ASSUME y # x + 1 PROVE FALSE
    OBVIOUS
  <2> DEFINE d == x + 1
  <2>1. d \in 1..N /\ x < d /\ d < y
    BY <1>4, <1>7
  <2> HIDE DEF d
  <2>2. p[x].ts < p[d].ts /\ p[d].ts < p[y].ts
    BY <1>5, <2>1
  <2>3. g[d] \in S /\ p[d] = recs[g[d]] /\ p[d].ts \in Int
    BY <1>1, <2>1
  <2>4. p[d].ts \in at - window .. at => p[d].ts <= p[x].ts
    BY <1>0, <1>4, <2>3
  <2>5. p[d].ts \in at + 1 .. at + window => p[d].ts >= p[y].ts
    BY <1>0, <1>4, <2>3
  <2>6. p[d].ts \in at - window .. at \/ p[d].ts \in at + 1 .. at + window
    <3> DEFINE s == p[d].ts
               u == p[x].ts
               v == p[y].ts
    <3>1. s \in Int /\ u \in Int /\ v \in Int /\ u < s /\ s < v
        BY <1>4, <2>2, <2>3
    <3>2. u >= at - window /\ v <= at + window
        BY <1>6
    <3> HIDE DEF s, u, v
    <3>3. s \in at - window .. at \/ s \in at + 1 .. at + window
        BY <3>1, <3>2
    <3> QED BY <3>3 DEF s
  <2> QED BY <1>4, <2>2, <2>3, <2>4, <2>5, <2>6
<1>9. y \in 1..N /\ y >= 2 /\ y - 1 = x
    BY <1>4, <1>8
<1> QED BY <1>4, <1>9 DEF N, Adjacent

\* Of samples at different times there is one last and one first.
LEMMA OneLast ==
    ASSUME NEW recs \in Seq(Record), NEW B, B \subseteq 1..Len(recs),
           \A i, j \in B : i # j => recs[i].ts # recs[j].ts,
           NEW i \in B, \A j \in B : recs[j].ts <= recs[i].ts
    PROVE  (CHOOSE x \in B : \A j \in B : recs[j].ts <= recs[x].ts) = i
<1> DEFINE z == CHOOSE x \in B : \A j \in B : recs[j].ts <= recs[x].ts
<1>1. z \in B /\ \A j \in B : recs[j].ts <= recs[z].ts
    OBVIOUS
<1> HIDE DEF z
<1>2. recs[z].ts <= recs[i].ts /\ recs[i].ts <= recs[z].ts /\ recs[z].ts \in Int /\ recs[i].ts \in Int
    BY <1>1, RecordsIs
<1>3. recs[z].ts = recs[i].ts
    BY <1>2
<1> QED BY <1>1, <1>3 DEF z

LEMMA OneFirst ==
    ASSUME NEW recs \in Seq(Record), NEW A, A \subseteq 1..Len(recs),
           \A i, j \in A : i # j => recs[i].ts # recs[j].ts,
           NEW i \in A, \A j \in A : recs[j].ts >= recs[i].ts
    PROVE  (CHOOSE x \in A : \A j \in A : recs[j].ts >= recs[x].ts) = i
<1> DEFINE z == CHOOSE x \in A : \A j \in A : recs[j].ts >= recs[x].ts
<1>1. z \in A /\ \A j \in A : recs[j].ts >= recs[z].ts
    OBVIOUS
<1> HIDE DEF z
<1>2. recs[z].ts >= recs[i].ts /\ recs[i].ts >= recs[z].ts /\ recs[z].ts \in Int /\ recs[i].ts \in Int
    BY <1>1, RecordsIs
<1>3. recs[z].ts = recs[i].ts
    BY <1>2
<1> QED BY <1>1, <1>3 DEF z

LastOf(recs, B) == CHOOSE i \in B : \A j \in B : recs[j].ts <= recs[i].ts

FirstOf(recs, A) == CHOOSE i \in A : \A j \in A : recs[j].ts >= recs[i].ts

\* The record kept for a register on each side is its last or first sample there.
BeforeRight(side, recs, k, B, b) ==
    /\ k \in DOMAIN side <=> B # {}
    /\ B # {} => b \in B /\ side[k] = recs[b] /\ \A j \in B : recs[j].ts <= recs[b].ts

AfterRight(side, recs, k, A, a) ==
    /\ k \in DOMAIN side <=> A # {}
    /\ A # {} => a \in A /\ side[k] = recs[a] /\ \A j \in A : recs[j].ts >= recs[a].ts

LEMMA BeforeOf ==
    ASSUME NEW recs \in Seq(Record), NEW k, Apart(recs, SamplesOf(recs, k)),
           NEW at \in Int, NEW window \in Nat,
           NEW B, B = {i \in SamplesOf(recs, k) : recs[i].ts \in at - window .. at}
    PROVE  BeforeRight(BeforeAt(recs, at, window), recs, k, B, LastOf(recs, B))
<1> DEFINE side == BeforeAt(recs, at, window)
           W == WindowBefore(recs, at, window)
<1>1. Len(recs) \in Nat /\ DOMAIN recs = 1..Len(recs) /\ \A i \in 1..Len(recs) : recs[i].ts \in Int
    BY RecordsIs
<1>2. B = {i \in W : GroupKey(recs[i]) = k} /\ B \subseteq 1..Len(recs)
    BY <1>1 DEF WindowBefore, SamplesOf, Members
<1>3. \A i, j \in B : i # j => recs[i].ts # recs[j].ts
    BY DEF Apart
<1>4. /\ \A x : x \in DOMAIN side <=> \E i \in W : GroupKey(recs[i]) = x
      /\ \A x \in DOMAIN side : \E i \in W : Picks(side, recs, W, FALSE, x, i)
    BY BeforeIs DEF Sided
<1> HIDE DEF side, W
<1>5. k \in DOMAIN side <=> B # {}
    BY <1>2, <1>4
<1>6. ASSUME B # {}
      PROVE  /\ LastOf(recs, B) \in B /\ side[k] = recs[LastOf(recs, B)]
             /\ \A j \in B : recs[j].ts <= recs[LastOf(recs, B)].ts
  <2>1. PICK i \in W : Picks(side, recs, W, FALSE, k, i)
    BY <1>4, <1>5, <1>6
  <2>2. i \in B /\ side[k] = recs[i] /\ \A j \in B : Val(recs[j], FALSE) <= Val(recs[i], FALSE)
    BY <1>2, <2>1 DEF Picks
  <2>3. \A j \in B : recs[j].ts <= recs[i].ts
    BY <2>2 DEF Val
  <2>4. LastOf(recs, B) = i
    BY <1>2, <1>3, <2>2, <2>3, OneLast DEF LastOf
  <2> QED BY <2>2, <2>3, <2>4
<1> QED BY <1>5, <1>6 DEF BeforeRight, side

LEMMA AfterOf ==
    ASSUME NEW recs \in Seq(Record), NEW k, Apart(recs, SamplesOf(recs, k)),
           NEW at \in Int, NEW window \in Nat,
           NEW A, A = {i \in SamplesOf(recs, k) : recs[i].ts \in at + 1 .. at + window}
    PROVE  AfterRight(AfterAt(recs, at, window), recs, k, A, FirstOf(recs, A))
<1> DEFINE side == AfterAt(recs, at, window)
           W == WindowAfter(recs, at, window)
<1>1. Len(recs) \in Nat /\ DOMAIN recs = 1..Len(recs) /\ \A i \in 1..Len(recs) : recs[i].ts \in Int
    BY RecordsIs
<1>2. A = {i \in W : GroupKey(recs[i]) = k} /\ A \subseteq 1..Len(recs)
    BY <1>1 DEF WindowAfter, SamplesOf, Members
<1>3. \A i, j \in A : i # j => recs[i].ts # recs[j].ts
    BY DEF Apart
<1>4. /\ \A x : x \in DOMAIN side <=> \E i \in W : GroupKey(recs[i]) = x
      /\ \A x \in DOMAIN side : \E i \in W : Picks(side, recs, W, TRUE, x, i)
    BY AfterIs DEF Sided
<1> HIDE DEF side, W
<1>5. k \in DOMAIN side <=> A # {}
    BY <1>2, <1>4
<1>6. ASSUME A # {}
      PROVE  /\ FirstOf(recs, A) \in A /\ side[k] = recs[FirstOf(recs, A)]
             /\ \A j \in A : recs[j].ts >= recs[FirstOf(recs, A)].ts
  <2>1. PICK i \in W : Picks(side, recs, W, TRUE, k, i)
    BY <1>4, <1>5, <1>6
  <2>2. i \in A /\ side[k] = recs[i] /\ \A j \in A : Val(recs[j], TRUE) <= Val(recs[i], TRUE)
    BY <1>2, <2>1 DEF Picks
  <2>3. \A j \in A : recs[j].ts >= recs[i].ts
    <3>1. ASSUME NEW j \in A PROVE recs[j].ts >= recs[i].ts
      <4>1. recs[j].ts \in Int /\ recs[i].ts \in Int
        BY <1>1, <1>2, <2>2
      <4>2. -recs[j].ts <= -recs[i].ts
        BY <2>2 DEF Val
      <4> QED BY <4>1, <4>2
    <3> QED BY <3>1
  <2>4. FirstOf(recs, A) = i
    BY <1>2, <1>3, <2>2, <2>3, OneFirst DEF FirstOf
  <2> QED BY <2>2, <2>3, <2>4
<1> QED BY <1>5, <1>6 DEF AfterRight, side

\* What a diff says of one register.
DiffOf(diff, recs, k, B, A, b, a) ==
    /\ k \in DOMAIN diff <=> B # {} /\ A # {} /\ Payload(recs[b]) # Payload(recs[a])
    /\ k \in DOMAIN diff =>
          /\ diff[k].before = Payload(recs[b]) /\ diff[k].after = Payload(recs[a])
          /\ diff[k].changed = diffOffsets(Payload(recs[b]), Payload(recs[a]))

LEMMA DiffAtIs ==
    ASSUME NEW recs, NEW k, NEW at, NEW window, NEW B, NEW A, NEW b, NEW a,
           BeforeRight(BeforeAt(recs, at, window), recs, k, B, b),
           AfterRight(AfterAt(recs, at, window), recs, k, A, a)
    PROVE  DiffOf(DiffAt(recs, at, window), recs, k, B, A, b, a)
<1> DEFINE before == BeforeAt(recs, at, window)
           after == AfterAt(recs, at, window)
           P(x) == Payload(before[x])
           Q(x) == Payload(after[x])
           shown == {x \in DOMAIN before \cap DOMAIN after : P(x) # Q(x)}
           diff == DiffAt(recs, at, window)
<1>1. diff = [x \in shown |-> [before |-> P(x), after |-> Q(x), changed |-> diffOffsets(P(x), Q(x))]]
    BY DEF DiffAt
<1>2. /\ k \in DOMAIN before <=> B # {}
      /\ B # {} => before[k] = recs[b]
    BY DEF BeforeRight
<1>3. /\ k \in DOMAIN after <=> A # {}
      /\ A # {} => after[k] = recs[a]
    BY DEF AfterRight
<1> HIDE DEF before, after, diff
<1>4. k \in DOMAIN diff <=> k \in shown
    BY <1>1
<1>5. k \in shown <=> B # {} /\ A # {} /\ Payload(recs[b]) # Payload(recs[a])
    BY <1>2, <1>3
<1>6. ASSUME k \in shown
      PROVE  /\ diff[k].before = Payload(recs[b]) /\ diff[k].after = Payload(recs[a])
             /\ diff[k].changed = diffOffsets(Payload(recs[b]), Payload(recs[a]))
  <2>1. P(k) = Payload(recs[b]) /\ Q(k) = Payload(recs[a])
    BY <1>2, <1>3, <1>5, <1>6
  <2>2. diff[k] = [before |-> P(k), after |-> Q(k), changed |-> diffOffsets(P(k), Q(k))]
    BY <1>1, <1>6
  <2> HIDE DEF P, Q
  <2> QED BY <2>1, <2>2
<1> QED BY <1>4, <1>5, <1>6 DEF DiffOf, diff

\* Diffs are right, and agree with the timelines, for every list of records,
\* all instants and every window.
LEMMA DiffRight ==
    ASSUME NEW recs \in Seq(Record), NEW times, times \subseteq Int, NEW window \in Nat
    PROVE  DiffIsRight(recs, times, window)
<1> SUFFICES ASSUME NEW k \in Keys(recs), Apart(recs, SamplesOf(recs, k)), NEW at \in times
             PROVE  LET S == SamplesOf(recs, k)
                        B == {i \in S : recs[i].ts \in at - window .. at}
                        A == {i \in S : recs[i].ts \in at + 1 .. at + window}
                        b == LastOf(recs, B)
                        a == FirstOf(recs, A)
                        diff == DiffAt(recs, at, window)
                    IN  /\ k \in DOMAIN diff <=>
                              B # {} /\ A # {} /\ Payload(recs[b]) # Payload(recs[a])
                        /\ k \in DOMAIN diff =>
                              /\ diff[k].before = Payload(recs[b]) /\ diff[k].after = Payload(recs[a])
                              /\ \E n \in DOMAIN Changes(recs, k) :
                                    /\ Changes(recs, k)[n].ts = recs[a].ts
                                    /\ Changes(recs, k)[n].payload = diff[k].after
                                    /\ Changes(recs, k)[n].changed = diff[k].changed
    BY DEF DiffIsRight, LastOf, FirstOf, Apart, SamplesOf
<1> DEFINE S == SamplesOf(recs, k)
           B == {i \in S : recs[i].ts \in at - window .. at}
           A == {i \in S : recs[i].ts \in at + 1 .. at + window}
           b == LastOf(recs, B)
           a == FirstOf(recs, A)
           diff == DiffAt(recs, at, window)
           line == Changes(recs, k)
<1>1. at \in Int
    OBVIOUS
<1>2. BeforeRight(BeforeAt(recs, at, window), recs, k, B, b)
    <2> HIDE DEF b
    <2> QED BY <1>1, BeforeOf DEF b
<1>3. AfterRight(AfterAt(recs, at, window), recs, k, A, a)
    <2> HIDE DEF a
    <2> QED BY <1>1, AfterOf DEF a
<1>4. S \subseteq 1..Len(recs)
    BY RecordsIs DEF SamplesOf, Members
<1>5. PICK p, g, e : Lined(line, recs, S, p, g, e)
    BY ChangesIs
<1>6. \A i \in B : i \in S /\ recs[i].ts \in at - window .. at
    OBVIOUS
<1>7. \A i \in A : i \in S /\ recs[i].ts \in at + 1 .. at + window
    OBVIOUS
<1>8. /\ \A i \in S : recs[i].ts \in at - window .. at => i \in B
      /\ \A i \in S : recs[i].ts \in at + 1 .. at + window => i \in A
    OBVIOUS
<1> HIDE DEF line, S, B, A, a, b
<1>9. DiffOf(diff, recs, k, B, A, b, a)
    BY <1>2, <1>3, DiffAtIs
<1> HIDE DEF diff
<1>10. ASSUME k \in DOMAIN diff
       PROVE  \E n \in DOMAIN line :
                 /\ line[n].ts = recs[a].ts
                 /\ line[n].payload = diff[k].after
                 /\ line[n].changed = diff[k].changed
  <2>1. /\ B # {} /\ A # {} /\ Payload(recs[b]) # Payload(recs[a])
        /\ diff[k].after = Payload(recs[a])
        /\ diff[k].changed = diffOffsets(Payload(recs[b]), Payload(recs[a]))
    BY <1>9, <1>10 DEF DiffOf
  <2>2. b \in B /\ \A j \in B : recs[j].ts <= recs[b].ts
    BY <1>2, <2>1 DEF BeforeRight
  <2>3. a \in A /\ \A j \in A : recs[j].ts >= recs[a].ts
    BY <1>3, <2>1 DEF AfterRight
  <2>4. /\ b \in S /\ recs[b].ts \in at - window .. at
        /\ \A j \in S : recs[j].ts \in at - window .. at => recs[j].ts <= recs[b].ts
    BY <1>6, <1>8, <2>2
  <2>5. /\ a \in S /\ recs[a].ts \in at + 1 .. at + window
        /\ \A j \in S : recs[j].ts \in at + 1 .. at + window => recs[j].ts >= recs[a].ts
    BY <1>7, <1>8, <2>3
  <2>6. Apart(recs, S) /\ Nearest(recs, S, at, window, b, a)
    BY <2>4, <2>5 DEF Nearest, S
  <2>7. Adjacent(p, recs[b], recs[a])
    BY <1>1, <1>4, <1>5, <2>6, NextTo
  <2>8. PICK c \in 1..Len(p) : c >= 2 /\ p[c] = recs[a] /\ p[c - 1] = recs[b]
    BY <2>7 DEF Adjacent
  <2>9. Payload(p[c - 1]) # Payload(p[c])
    BY <2>1, <2>8
  <2>10. HasChange(line, p[c - 1], p[c])
    BY <1>4, <1>5, <2>8, <2>9, ChangeShown
  <2> QED BY <2>1, <2>8, <2>10 DEF HasChange
<1>11. /\ k \in DOMAIN diff <=> B # {} /\ A # {} /\ Payload(recs[b]) # Payload(recs[a])
       /\ k \in DOMAIN diff => diff[k].before = Payload(recs[b]) /\ diff[k].after = Payload(recs[a])
    BY <1>9 DEF DiffOf
<1> QED BY <1>10, <1>11 DEF S, B, A, b, a, diff, line

\* Whatever the daemon left behind, and although the clock may have been set
\* back, the timelines of businspect are right and its diffs agree with them.
THEOREM TimelinesAreRightHolds == Spec => []TimelinesAreRight
<1>1. IInv => TimelinesAreRight
  <2> SUFFICES ASSUME IInv PROVE TimelinesAreRight
    OBVIOUS
  <2>1. ReadBack \in Seq(Record)
    BY ReadBackIs DEF IInv
  <2>2. Instants \subseteq Int /\ Windows \subseteq Nat
    BY CaptureAssumption
  <2>3. TimelineIsRight(ReadBack, Instants)
    BY <2>1, <2>2, TimelineRight
  <2>4. ASSUME NEW w \in Windows PROVE DiffIsRight(ReadBack, Instants, w)
    BY <2>1, <2>2, DiffRight
  <2> QED BY <2>3, <2>4 DEF TimelinesAreRight
<1> QED BY <1>1, Invariance, PTL
=============================================================================
