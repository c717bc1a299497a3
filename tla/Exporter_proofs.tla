--------------------------- MODULE Exporter_proofs ---------------------------
(***************************************************************************)
(* Proofs about the exporter's change detection, for every set of topics   *)
(* and payloads, every heartbeat, and any number of changes, lost          *)
(* connections, restarts and timeouts.                                     *)
(***************************************************************************)
EXTENDS Exporter, TLAPS

Payloads == Values \cup Vitals \cup {NoneText, "config", "online", "offline"}
Messages == [topic : Topics, payload : Payloads]
Snaps == [field : [Fields -> Statuses], health : [Healths -> Vitals], online : BOOLEAN,
          beat : BOOLEAN]

\* The types of the source, the snapshot, the wire and the memory.
TypeInv ==
    /\ field \in [Fields -> Statuses] /\ health \in [Healths -> Vitals]
    /\ online \in BOOLEAN
    /\ phase # "idle" => snap \in Snaps
    /\ wire \in Seq(Messages)
    /\ DOMAIN retained = Topics
    /\ discovered \subseteq Configs
    /\ DOMAIN last = Fields /\ DOMAIN lastHealth = Healths

\* The broker holds p for topic t, or is about to: the last message on the wire
\* for t carries p, or there is none and p is retained.
Holds(t, p) ==
    \/ (\A i \in 1..Len(wire) : wire[i].topic # t) /\ retained[t] = p
    \/ \E i \in 1..Len(wire) :
        /\ wire[i].topic = t /\ wire[i].payload = p
        /\ \A j \in 1..Len(wire) : wire[j].topic = t => j <= i

\* What the exporter remembers of each topic is what the broker holds.
Honest ==
    /\ \A t \in Fields : last[t] # Nothing => Holds(t, last[t])
    /\ \A t \in Healths : lastHealth[t] # Nothing => Holds(t, lastHealth[t])
    /\ \A t \in discovered : Holds(t, "config")

\* Nothing was lost that the exporter has not been told of.
Told == conn /\ ~handler /\ ~signal /\ ~stalled

IInv == TypeInv /\ (Told => Honest)

\* Holds says what Settled computes.
LEMMA HoldsIsSettled ==
    ASSUME TypeInv, NEW t, NEW p, Holds(t, p)
    PROVE  Settled(t) = p
<1> DEFINE S == {i \in 1..Len(wire) : wire[i].topic = t}
<1>1. Len(wire) \in Nat
    BY DEF TypeInv
<1>2. CASE (\A i \in 1..Len(wire) : wire[i].topic # t) /\ retained[t] = p
    BY <1>2 DEF Settled
<1>3. CASE \E i \in 1..Len(wire) :
            /\ wire[i].topic = t /\ wire[i].payload = p
            /\ \A j \in 1..Len(wire) : wire[j].topic = t => j <= i
    <2>1. PICK i \in 1..Len(wire) :
            /\ wire[i].topic = t /\ wire[i].payload = p
            /\ \A j \in 1..Len(wire) : wire[j].topic = t => j <= i
        BY <1>3
    <2>2. i \in S /\ \A j \in S : j <= i /\ j \in Int
        BY <1>1, <2>1
    <2> HIDE DEF S
    <2> DEFINE k == Max(S)
    <2>3. k \in S /\ \A j \in S : k >= j
        <3>1. \E x \in S : \A y \in S : x >= y
            BY <2>2
        <3> QED BY <3>1 DEF Max
    <2> HIDE DEF k
    <2>4. k = i
        <3>1. k \in Int /\ i \in Int /\ k <= i /\ k >= i
            BY <2>2, <2>3
        <3> QED BY <3>1
    <2> QED BY <2>1, <2>2, <2>4 DEF Settled, S, k
<1> QED BY <1>2, <1>3 DEF Holds

\* Publishing p on topic u: the broker is about to hold p for u, and what it
\* holds for any other topic stays.
LEMMA AppendHolds ==
    ASSUME TypeInv, NEW u \in Topics, NEW p \in Payloads,
           wire' = Append(wire, [topic |-> u, payload |-> p]), retained' = retained
    PROVE  /\ wire' \in Seq(Messages)
           /\ Holds(u, p)'
           /\ \A t, q : t # u /\ Holds(t, q) => Holds(t, q)'
<1> DEFINE m == [topic |-> u, payload |-> p]
           n == Len(wire) + 1
<1>1. m \in Messages /\ m.topic = u /\ m.payload = p
    BY DEF Messages
<1> HIDE DEF m
<1>2. /\ wire' \in Seq(Messages) /\ Len(wire) \in Nat /\ Len(wire') = n /\ wire'[n] = m
      /\ \A i \in 1..Len(wire) : wire'[i] = wire[i]
    <2> HIDE DEF Messages
    <2>1. wire \in Seq(Messages) /\ wire' = Append(wire, m)
        BY DEF TypeInv, m
    <2> QED BY <1>1, <2>1
<1>3. Holds(u, p)'
    BY <1>1, <1>2 DEF Holds
<1>4. ASSUME NEW t, NEW q, t # u, Holds(t, q) PROVE Holds(t, q)'
    <2>1. CASE (\A i \in 1..Len(wire) : wire[i].topic # t) /\ retained[t] = q
        BY <1>1, <1>2, <1>4, <2>1 DEF Holds
    <2>2. ASSUME NEW i \in 1..Len(wire), wire[i].topic = t, wire[i].payload = q,
                 \A j \in 1..Len(wire) : wire[j].topic = t => j <= i
          PROVE  Holds(t, q)'
        <3>1. i \in 1..Len(wire') /\ wire'[i].topic = t /\ wire'[i].payload = q
            BY <1>2, <2>2
        <3>2. ASSUME NEW j \in 1..Len(wire'), wire'[j].topic = t PROVE j <= i
            BY <1>1, <1>2, <1>4, <2>2, <3>2
        <3> QED BY <3>1, <3>2 DEF Holds
    <2> QED BY <1>4, <2>1, <2>2 DEF Holds
<1> QED BY <1>2, <1>3, <1>4

\* A message that arrives is what the broker was about to hold.
LEMMA DeliverHolds ==
    ASSUME TypeInv, Deliver
    PROVE  /\ wire' \in Seq(Messages) /\ DOMAIN retained' = Topics
           /\ \A t \in Topics : \A q : Holds(t, q) => Holds(t, q)'
<1> DEFINE u == Head(wire).topic
<1>1. /\ wire # <<>> /\ wire' = Tail(wire) /\ wire \in Seq(Messages)
      /\ retained' = [retained EXCEPT ![u] = Head(wire).payload]
    BY DEF Deliver, TypeInv
<1>2. /\ wire' \in Seq(Messages) /\ Len(wire) \in Nat /\ Len(wire) > 0
      /\ Len(wire') = Len(wire) - 1 /\ Head(wire) = wire[1]
      /\ \A i \in 1..Len(wire) - 1 : wire'[i] = wire[i + 1]
    <2> HIDE DEF Messages
    <2> QED BY <1>1
<1>3. /\ DOMAIN retained' = Topics
      /\ \A t \in Topics : retained'[t] = IF t = u THEN wire[1].payload ELSE retained[t]
    BY <1>1, <1>2 DEF TypeInv
<1>4. ASSUME NEW t \in Topics, NEW q, Holds(t, q) PROVE Holds(t, q)'
    <2>1. CASE (\A i \in 1..Len(wire) : wire[i].topic # t) /\ retained[t] = q
        <3>1. t # u /\ \A i \in 1..Len(wire') : wire'[i].topic # t
            BY <1>2, <2>1
        <3> QED BY <1>3, <2>1, <3>1 DEF Holds
    <2>2. ASSUME NEW i \in 1..Len(wire), wire[i].topic = t, wire[i].payload = q,
                 \A j \in 1..Len(wire) : wire[j].topic = t => j <= i
          PROVE  Holds(t, q)'
        <3>1. CASE i = 1
            <4>1. \A j \in 1..Len(wire') : wire'[j].topic # t
                BY <1>2, <2>2, <3>1
            <4>2. retained'[t] = q
                BY <1>2, <1>3, <2>2, <3>1
            <4> QED BY <4>1, <4>2 DEF Holds
        <3>2. CASE i # 1
            <4>1. i - 1 \in 1..Len(wire') /\ wire'[i - 1] = wire[i]
                BY <1>2, <3>2
            <4>2. ASSUME NEW j \in 1..Len(wire'), wire'[j].topic = t PROVE j <= i - 1
                BY <1>2, <2>2, <4>2
            <4> QED BY <2>2, <4>1, <4>2 DEF Holds
        <3> QED BY <3>1, <3>2
    <2> QED BY <1>4, <2>1, <2>2 DEF Holds
<1> QED BY <1>2, <1>3, <1>4

-----------------------------------------------------------------------------
\* A step that only moves the loop along, or only the environment, keeps what is
\* remembered and what the broker holds.
LEMMA SameHonest ==
    ASSUME IInv, wire' = wire, UNCHANGED <<last, lastHealth, discovered>>,
           \A t \in Topics \ {Availability} : retained'[t] = retained[t],
           Told' => Told
    PROVE  Told' => Honest'
<1>1. \A t \in Topics \ {Availability} : \A q : Holds(t, q) => Holds(t, q)'
    BY DEF Holds
<1>2. /\ Fields \subseteq Topics \ {Availability} /\ Healths \subseteq Topics \ {Availability}
      /\ discovered \subseteq Topics \ {Availability}
    BY TopicsAssumption DEF Topics, IInv, TypeInv
<1> QED BY <1>1, <1>2 DEF IInv, Honest

\* A publish: unless it is taken for a failure and delivered anyway, or goes to
\* a connection that is down, it reaches the broker's queue.
LEMMA PublishIs ==
    ASSUME IInv, NEW t \in Topics, NEW p \in Payloads, NEW ok \in BOOLEAN, SendOne(t, p, ok)
    PROVE  /\ wire' \in Seq(Messages)
           /\ Told' => /\ Told /\ ok /\ Holds(t, p)'
                       /\ \A u, q : u # t /\ Holds(u, q) => Holds(u, q)'
<1>1. /\ Publish(t, p, ok) /\ retained' = retained /\ conn' = conn /\ handler' = handler
      /\ signal' = signal
    BY DEF SendOne
<1>2. CASE conn /\ ok /\ wire' = Append(wire, [topic |-> t, payload |-> p]) /\ stalled' = stalled
    <2>1. /\ wire' \in Seq(Messages) /\ Holds(t, p)'
          /\ \A u, q : u # t /\ Holds(u, q) => Holds(u, q)'
        BY <1>1, <1>2, AppendHolds DEF IInv
    <2>2. Told' => Told
        BY <1>1, <1>2, Zenon DEF Told
    <2> QED BY <1>2, <2>1, <2>2
<1>3. CASE ~conn /\ wire' = wire
    BY <1>1, <1>3 DEF Told, IInv, TypeInv
<1>4. CASE wire' = Append(wire, [topic |-> t, payload |-> p]) /\ stalled' = TRUE
    <2>1. wire' \in Seq(Messages)
        BY <1>1, <1>4, AppendHolds DEF IInv
    <2>2. ~Told'
        BY <1>4, Zenon DEF Told
    <2> QED BY <2>1, <2>2
<1> QED BY <1>1, <1>2, <1>3, <1>4 DEF Publish

\* The parts of the types that a send leaves alone.
LEMMA SendType ==
    ASSUME IInv, NEW t, NEW p, NEW ok, SendOne(t, p, ok), wire' \in Seq(Messages),
           discovered' \subseteq Configs, DOMAIN last' = Fields, DOMAIN lastHealth' = Healths
    PROVE  TypeInv'
<1>1. /\ field' = field /\ health' = health /\ online' = online /\ phase' = phase
      /\ snap' = snap /\ retained' = retained
    BY DEF SendOne, source
<1> QED BY <1>1 DEF IInv, TypeInv

\* What a cycle sends are payloads.
LEMMA SnapType ==
    ASSUME IInv, phase # "idle"
    PROVE  /\ \A t \in Fields : Payload(snap.field[t]) \in Payloads
           /\ \A t \in Healths : snap.health[t] \in Payloads
           /\ NoneText \in Payloads /\ "config" \in Payloads
           /\ (IF snap.online THEN "online" ELSE "offline") \in Payloads
<1>1. snap \in Snaps
    BY DEF IInv, TypeInv
<1>2. \A t \in Fields : snap.field[t] \in Statuses
    BY <1>1 DEF Snaps
<1>3. \A t \in Healths : snap.health[t] \in Vitals
    BY <1>1 DEF Snaps
<1> QED BY <1>2, <1>3 DEF Payloads, Payload, Statuses

\* A send of the loop records a payload only if the broker is about to hold it.
LEMMA SendInv ==
    ASSUME IInv,
           \/ PublishAvailability
           \/ \E t \in Configs : publishConfig(t)
           \/ \E t \in Fields : publishField(t) \/ retractField(t)
           \/ \E t \in Healths : publishHealth(t)
    PROVE  IInv'
<1>1. /\ Fields \subseteq Topics /\ Healths \subseteq Topics /\ Configs \subseteq Topics
      /\ Availability \in Topics
    BY DEF Topics
<1>2. /\ discovered \subseteq Configs /\ DOMAIN last = Fields /\ DOMAIN lastHealth = Healths
    BY DEF IInv, TypeInv
<1>3. CASE PublishAvailability
    <2> DEFINE p == IF snap.online THEN "online" ELSE "offline"
    <2>1. /\ phase # "idle" /\ UNCHANGED <<discovered, last, lastHealth>>
          /\ \E ok \in BOOLEAN : SendOne(Availability, p, ok)
        BY <1>3 DEF PublishAvailability
    <2>2. p \in Payloads
        BY <2>1, SnapType
    <2> HIDE DEF p
    <2>3. PICK ok \in BOOLEAN : SendOne(Availability, p, ok)
        BY <2>1
    <2>4. /\ wire' \in Seq(Messages)
          /\ Told' => /\ Told
                      /\ \A u, q : u # Availability /\ Holds(u, q) => Holds(u, q)'
        BY <1>1, <2>2, <2>3, PublishIs
    <2>5. TypeInv'
        BY <1>2, <2>1, <2>3, <2>4, SendType
    <2>6. Told' => Honest'
        BY <1>2, <2>1, <2>4, TopicsAssumption DEF IInv, Honest
    <2> QED BY <2>5, <2>6 DEF IInv
<1>4. ASSUME NEW t \in Configs, publishConfig(t) PROVE IInv'
    <2>1. PICK ok \in BOOLEAN :
            /\ SendOne(t, "config", ok)
            /\ discovered' = IF ok THEN discovered \cup {t} ELSE discovered
        BY <1>4 DEF publishConfig
    <2>2. phase # "idle" /\ UNCHANGED <<last, lastHealth>>
        BY <1>4 DEF publishConfig
    <2>3. /\ wire' \in Seq(Messages)
          /\ Told' => /\ Told /\ ok /\ Holds(t, "config")'
                      /\ \A u, q : u # t /\ Holds(u, q) => Holds(u, q)'
        BY <1>1, <2>1, <2>2, SnapType, PublishIs
    <2>4. TypeInv'
        BY <1>2, <2>1, <2>2, <2>3, SendType
    <2>5. Told' => Honest'
        BY <1>2, <2>1, <2>2, <2>3, TopicsAssumption DEF IInv, Honest
    <2> QED BY <2>4, <2>5 DEF IInv
<1>5. ASSUME NEW t \in Fields, publishField(t) PROVE IInv'
    <2>1. phase # "idle" /\ UNCHANGED <<discovered, lastHealth>>
        BY <1>5 DEF publishField
    <2>2. PICK p \in Payloads : p = Payload(snap.field[t])
        BY <2>1, SnapType
    <2>3. PICK ok \in BOOLEAN :
            /\ SendOne(t, p, ok)
            /\ last' = IF ok THEN [last EXCEPT ![t] = p] ELSE last
        BY <1>5, <2>2 DEF publishField
    <2>4. /\ wire' \in Seq(Messages)
          /\ Told' => /\ Told /\ ok /\ Holds(t, p)'
                      /\ \A u, q : u # t /\ Holds(u, q) => Holds(u, q)'
        BY <1>1, <2>3, PublishIs
    <2>5. TypeInv'
        BY <1>2, <2>1, <2>3, <2>4, SendType
    <2>6. Told' => Honest'
        BY <1>2, <2>1, <2>3, <2>4, TopicsAssumption DEF IInv, Honest
    <2> QED BY <2>5, <2>6 DEF IInv
<1>6. ASSUME NEW t \in Fields, retractField(t) PROVE IInv'
    <2>1. PICK ok \in BOOLEAN :
            /\ SendOne(t, NoneText, ok)
            /\ last' = IF ok THEN [last EXCEPT ![t] = Nothing] ELSE last
        BY <1>6 DEF retractField
    <2>2. phase # "idle" /\ UNCHANGED <<discovered, lastHealth>>
        BY <1>6 DEF retractField
    <2>3. /\ wire' \in Seq(Messages)
          /\ Told' => /\ Told /\ ok
                      /\ \A u, q : u # t /\ Holds(u, q) => Holds(u, q)'
        BY <1>1, <2>1, <2>2, SnapType, PublishIs
    <2>4. TypeInv'
        BY <1>2, <2>1, <2>2, <2>3, SendType
    <2>5. Told' => Honest'
        BY <1>2, <2>1, <2>2, <2>3, TopicsAssumption DEF IInv, Honest
    <2> QED BY <2>4, <2>5 DEF IInv
<1>7. ASSUME NEW t \in Healths, publishHealth(t) PROVE IInv'
    <2>1. phase # "idle" /\ UNCHANGED <<discovered, last>>
        BY <1>7 DEF publishHealth
    <2>2. PICK p \in Payloads : p = snap.health[t]
        BY <2>1, SnapType
    <2>3. PICK ok \in BOOLEAN :
            /\ SendOne(t, p, ok)
            /\ lastHealth' = IF ok THEN [lastHealth EXCEPT ![t] = p] ELSE lastHealth
        BY <1>7, <2>2 DEF publishHealth
    <2>4. /\ wire' \in Seq(Messages)
          /\ Told' => /\ Told /\ ok /\ Holds(t, p)'
                      /\ \A u, q : u # t /\ Holds(u, q) => Holds(u, q)'
        BY <1>1, <2>3, PublishIs
    <2>5. TypeInv'
        BY <1>2, <2>1, <2>3, <2>4, SendType
    <2>6. Told' => Honest'
        BY <1>2, <2>1, <2>3, <2>4, TopicsAssumption DEF IInv, Honest
    <2> QED BY <2>5, <2>6 DEF IInv
<1> QED BY <1>3, <1>4, <1>5, <1>6, <1>7

-----------------------------------------------------------------------------
\* The steps of the loop that send nothing.  A cycle that notices a reconnect
\* forgets everything first.
LEMMA LoopInv ==
    ASSUME IInv,
           BeginCycle \/ BeginState \/ BeginRetract \/ BeginAvailability \/ BeginHealth \/ EndCycle
    PROVE  IInv'
<1>1. CASE BeginCycle
    <2>1. /\ field' = field /\ health' = health /\ online' = online /\ conn' = conn
          /\ handler' = handler /\ wire' = wire /\ retained' = retained /\ stalled' = stalled
          /\ signal' = FALSE
          /\ snap' = [field |-> field, health |-> health, online |-> online, beat |-> FALSE]
        BY <1>1 DEF BeginCycle, source, budgets
    <2>2. snap' \in Snaps
        <3>1. FALSE \in BOOLEAN /\ online \in BOOLEAN
            BY DEF IInv, TypeInv
        <3> QED BY <2>1, <3>1 DEF IInv, TypeInv, Snaps
    <2>3. CASE signal
        <3>1. /\ discovered' = {} /\ last' = [t \in Fields |-> Nothing]
              /\ lastHealth' = [t \in Healths |-> Nothing]
            BY <1>1, <2>3 DEF BeginCycle, Reassert
        <3>2. Honest'
            BY <3>1 DEF Honest
        <3>3. TypeInv'
            BY <2>1, <2>2, <3>1 DEF IInv, TypeInv
        <3> QED BY <3>2, <3>3 DEF IInv
    <2>4. CASE ~signal
        <3>1. UNCHANGED <<discovered, last, lastHealth>>
            BY <1>1, <2>4 DEF BeginCycle, memory
        <3>2. Told' => Told
            BY <2>1, <2>4, Zenon DEF Told
        <3>3. Told' => Honest'
            BY <2>1, <3>1, <3>2, SameHonest
        <3>4. TypeInv'
            BY <2>1, <2>2, <3>1 DEF IInv, TypeInv
        <3> QED BY <3>3, <3>4 DEF IInv
    <2> QED BY <2>3, <2>4
<1>2. CASE BeginState \/ BeginRetract \/ BeginAvailability \/ BeginHealth \/ EndCycle
    <2>1. /\ field' = field /\ health' = health /\ online' = online /\ conn' = conn
          /\ handler' = handler /\ signal' = signal /\ wire' = wire /\ retained' = retained
          /\ stalled' = stalled /\ UNCHANGED <<discovered, last, lastHealth>>
        BY <1>2 DEF BeginState, BeginRetract, BeginAvailability, BeginHealth, EndCycle,
                    source, broker, memory, budgets
    <2>2. phase' # "idle" => snap' \in Snaps
        <3>1. CASE BeginState
            <4>1. phase # "idle" /\ snap' = [snap EXCEPT !.beat = (age = Beat)]
                BY <3>1 DEF BeginState
            <4>2. (age = Beat) \in BOOLEAN /\ snap \in Snaps
                BY <4>1 DEF IInv, TypeInv
            <4> QED BY <4>1, <4>2 DEF Snaps
        <3>2. CASE BeginRetract \/ BeginAvailability \/ BeginHealth
            BY <3>2 DEF BeginRetract, BeginAvailability, BeginHealth, IInv, TypeInv
        <3>3. CASE EndCycle
            BY <3>3 DEF EndCycle
        <3> QED BY <1>2, <3>1, <3>2, <3>3
    <2>3. Told' => Told
        BY <2>1 DEF Told
    <2>4. Told' => Honest'
        BY <2>1, <2>3, SameHonest
    <2>5. TypeInv'
        BY <2>1, <2>2 DEF IInv, TypeInv
    <2> QED BY <2>4, <2>5 DEF IInv
<1> QED BY <1>1, <1>2

\* The steps of the state, the broker, the client and the daemon's restarts.
LEMMA EnvironmentInv ==
    ASSUME IInv, Deliver \/ Drop \/ Will \/ Reconnect \/ OnConnect \/ Change \/ Restart
    PROVE  IInv'
<1>1. CASE Deliver
    <2>1. /\ wire' \in Seq(Messages) /\ DOMAIN retained' = Topics
          /\ \A t \in Topics : \A q : Holds(t, q) => Holds(t, q)'
        BY <1>1, DeliverHolds DEF IInv
    <2>2. /\ field' = field /\ health' = health /\ online' = online /\ conn' = conn
          /\ handler' = handler /\ signal' = signal /\ stalled' = stalled /\ phase' = phase
          /\ snap' = snap /\ UNCHANGED <<discovered, last, lastHealth>>
        BY <1>1 DEF Deliver, source, memory, loop, budgets
    <2>3. Told' => Told
        BY <2>2 DEF Told
    <2>4. Fields \subseteq Topics /\ Healths \subseteq Topics /\ discovered \subseteq Topics
        BY DEF Topics, IInv, TypeInv
    <2>5. Told' => Honest'
        BY <2>1, <2>2, <2>3, <2>4 DEF IInv, Honest
    <2>6. TypeInv'
        BY <2>1, <2>2 DEF IInv, TypeInv
    <2> QED BY <2>5, <2>6 DEF IInv
<1>2. CASE Drop
    <2>1. /\ field' = field /\ health' = health /\ online' = online /\ phase' = phase
          /\ snap' = snap /\ UNCHANGED <<discovered, last, lastHealth>>
          /\ wire' = <<>> /\ retained' \in {retained, [t \in Topics |-> Nothing]}
        BY <1>2 DEF Drop, source, memory, loop
    <2>2. ~Told'
        BY <1>2, Zenon DEF Drop, Told
    <2>3. TypeInv'
        BY <2>1 DEF IInv, TypeInv
    <2> QED BY <2>2, <2>3 DEF IInv
<1>3. CASE Will \/ Reconnect \/ OnConnect
    <2>1. /\ field' = field /\ health' = health /\ online' = online /\ phase' = phase
          /\ snap' = snap /\ UNCHANGED <<discovered, last, lastHealth>> /\ wire' = wire
          /\ \/ retained' = retained
             \/ retained' = [retained EXCEPT ![Availability] = "offline"]
        BY <1>3 DEF Will, Reconnect, OnConnect, source, memory, loop
    <2>2. DOMAIN retained' = Topics /\ \A t \in Topics \ {Availability} : retained'[t] = retained[t]
        BY <2>1 DEF IInv, TypeInv
    <2>3. Told' => Told
        BY <1>3, Zenon DEF Will, Reconnect, OnConnect, Told, budgets
    <2>4. Told' => Honest'
        BY <2>1, <2>2, <2>3, SameHonest
    <2>5. TypeInv'
        BY <2>1, <2>2 DEF IInv, TypeInv
    <2> QED BY <2>4, <2>5 DEF IInv
<1>4. CASE Change
    <2>1. /\ conn' = conn /\ handler' = handler /\ signal' = signal /\ stalled' = stalled
          /\ wire' = wire /\ retained' = retained /\ phase' = phase
          /\ snap' = snap /\ UNCHANGED <<discovered, last, lastHealth>>
        BY <1>4 DEF Change, broker, memory, loop
    <2>2. field' \in [Fields -> Statuses] /\ health' \in [Healths -> Vitals]
        BY <1>4 DEF Change, IInv, TypeInv
    <2>3. online' \in BOOLEAN
        BY <1>4, Zenon DEF Change, IInv, TypeInv
    <2>4. Told' => Told
        BY <2>1 DEF Told
    <2>5. Told' => Honest'
        BY <2>1, <2>4, SameHonest
    <2>6. TypeInv'
        BY <2>1, <2>2, <2>3 DEF IInv, TypeInv
    <2> QED BY <2>5, <2>6 DEF IInv
<1>5. CASE Restart
    <2>1. /\ field' = [t \in Fields |-> "absent"] /\ online' = FALSE /\ conn' = FALSE
          /\ wire' = <<>> /\ phase' = "idle" /\ health' = health /\ retained' = retained
          /\ discovered' = {} /\ last' = [t \in Fields |-> Nothing]
          /\ lastHealth' = [t \in Healths |-> Nothing]
        BY <1>5 DEF Restart, Reassert
    <2>2. online' \in BOOLEAN /\ ~Told'
        BY <2>1, Zenon DEF Told
    <2>3. TypeInv'
        BY <2>1, <2>2 DEF IInv, TypeInv, Statuses
    <2> QED BY <2>2, <2>3 DEF IInv
<1> QED BY <1>1, <1>2, <1>3, <1>4, <1>5

\* The exporter starts with an empty memory.
LEMMA InitInv == Init => IInv
<1> SUFFICES ASSUME Init PROVE IInv
    OBVIOUS
<1>1. online \in BOOLEAN /\ ~Told
    BY Zenon DEF Init, Told
<1>2. /\ field = [t \in Fields |-> "absent"] /\ health \in [Healths -> Vitals]
      /\ phase = "idle" /\ wire = <<>> /\ retained = [t \in Topics |-> Nothing]
      /\ discovered = {} /\ last = [t \in Fields |-> Nothing]
      /\ lastHealth = [t \in Healths |-> Nothing]
    BY DEF Init
<1>3. TypeInv
    BY <1>1, <1>2 DEF TypeInv, Statuses
<1> QED BY <1>1, <1>3 DEF IInv

\* Every step preserves the invariant.
LEMMA NextInv == IInv /\ [Next]_vars => IInv'
<1> SUFFICES ASSUME IInv, [Next]_vars PROVE IInv'
    OBVIOUS
<1>1. CASE UNCHANGED vars
    <2>1. /\ field' = field /\ health' = health /\ online' = online /\ conn' = conn
          /\ handler' = handler /\ signal' = signal /\ stalled' = stalled /\ phase' = phase
          /\ snap' = snap /\ wire' = wire /\ retained' = retained
          /\ UNCHANGED <<discovered, last, lastHealth>>
        BY <1>1 DEF vars, source, broker, memory, loop, budgets
    <2>2. Told' => Told
        BY <2>1 DEF Told
    <2>3. Told' => Honest'
        BY <2>1, <2>2, SameHonest
    <2>4. TypeInv'
        BY <2>1 DEF IInv, TypeInv
    <2> QED BY <2>3, <2>4 DEF IInv
<1> QED BY <1>1, SendInv, LoopInv, EnvironmentInv DEF Next, LoopStep

\* The inductive invariant holds in every reachable state.
THEOREM Invariance == Spec => []IInv
BY InitInv, NextInv, PTL DEF Spec

\* While the exporter has been told of every reconnect and no publish has
\* timed out and arrived anyway, whatever it remembers sending is what the
\* broker holds or is about to hold: change detection never suppresses a
\* payload the broker does not have.
THEOREM MemoryIsHonestHolds == Spec => []MemoryIsHonest
<1>1. IInv => MemoryIsHonest
    <2> SUFFICES ASSUME IInv, Told
                 PROVE  /\ \A t \in Fields : last[t] # Nothing => Settled(t) = last[t]
                        /\ \A t \in Healths : lastHealth[t] # Nothing => Settled(t) = lastHealth[t]
                        /\ \A t \in discovered : Settled(t) = "config"
        BY DEF MemoryIsHonest, Told
    <2> QED BY HoldsIsSettled DEF IInv, Honest
<1> QED BY Invariance, <1>1, PTL
===============================================================================
