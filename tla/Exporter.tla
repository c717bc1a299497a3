------------------------------ MODULE Exporter ------------------------------
(***************************************************************************)
(* The MQTT exporter (mqtt/exporter.go), the paho client under it          *)
(* (mqtt/client.go) and the publish loop that drives both                  *)
(* (cmd/infinid/main.go, publishLoop), against a broker that keeps         *)
(* retained messages.  The loop is one goroutine, but the connection drops *)
(* and comes back, and messages arrive at the broker, between any two of   *)
(* its publishes.                                                          *)
(***************************************************************************)
EXTENDS Integers, Sequences, FiniteSetsExt

CONSTANTS
    Fields,       \* state topics, one per entity of a present zone or the hub
    Healths,      \* health topics
    Configs,      \* discovery topics
    Values,       \* payloads of a fresh field
    Vitals,       \* payloads of a health entity
    MaxWire,      \* bound on the messages in flight; a publish waits for room
    Beat,         \* cycles between two heartbeats (60)
    MaxChanges,   \* bound on the changes of what is to be published
    MaxMishaps,   \* bound on lost connections, daemon restarts, and publishes
                  \* that time out and are delivered anyway
    Nothing       \* no record in a map, no retained message

Availability == "availability"
Topics == Fields \cup Healths \cup Configs \cup {Availability}
NoneText == "None"

ASSUME BeatAssumption == Beat \in Nat \ {0}
ASSUME BudgetAssumption ==
    MaxWire \in Nat \ {0} /\ MaxChanges \in Nat /\ MaxMishaps \in Nat
ASSUME TopicsAssumption ==
    /\ Fields \cap Healths = {} /\ Fields \cap Configs = {} /\ Healths \cap Configs = {}
    /\ Availability \notin Fields \cup Healths \cup Configs
    /\ NoneText \notin Values /\ Nothing \notin Values \cup Vitals \cup {NoneText}

VARIABLES
    \* What is to be published: the assembled state, the daemon's vitals and
    \* whether the bus is heard.
    field, health, online,
    \* The paho client and the broker.
    conn,         \* is the connection open?
    handler,      \* is an OnConnect handler still to run?
    signal,       \* reconnects # seen
    wire,         \* publishes on their way to the broker
    will,         \* will the broker still publish the last will?
    retained,     \* the broker's retained messages
    \* The exporter and the publish loop.
    discovered, last, lastHealth,
    age,          \* cycles since lastBeat, at most Beat; the zero time is Beat
    healthAge,    \* the same for lastHealthBeat
    phase,        \* where the loop is: idle, config, field, retract,
                  \* availability or health
    snap,         \* what this cycle publishes; Nothing between cycles
    left,         \* topics this phase still has to send
    \* Budgets.
    changes, mishaps,
    \* History variable, read by the properties only.
    stalled       \* did a publish time out and get delivered anyway?

source == <<field, health, online>>
broker == <<conn, handler, signal, wire, will, retained>>
memory == <<discovered, last, lastHealth, age, healthAge>>
loop == <<phase, snap, left>>
budgets == <<changes, mishaps, stalled>>
vars == <<source, broker, memory, loop, budgets>>

\* A field is fresh with a value, stale, or absent from the state.
Statuses == Values \cup {"stale", "absent"}

\* The payload of a field with status s: stale and absent read as None.
Payload(s) == IF s \in {"stale", "absent"} THEN NoneText ELSE s

Init ==
    /\ field = [t \in Fields |-> "absent"]
    /\ health \in [Healths -> Vitals]
    /\ online = FALSE
    /\ conn = FALSE /\ handler = FALSE /\ signal = FALSE
    /\ wire = <<>> /\ will = FALSE
    /\ retained = [t \in Topics |-> Nothing]
    /\ discovered = {}
    /\ last = [t \in Fields |-> Nothing]
    /\ lastHealth = [t \in Healths |-> Nothing]
    /\ age = Beat /\ healthAge = Beat
    /\ phase = "idle"
    /\ snap = Nothing
    /\ left = {}
    /\ changes = MaxChanges /\ mishaps = MaxMishaps /\ stalled = FALSE

-----------------------------------------------------------------------------
\* What is to be published changes (the read loop applies readings, fields age
\* past their horizon, holds end, the bus falls silent or comes back).
Change ==
    /\ changes > 0
    /\ changes' = changes - 1
    /\ \/ /\ \E t \in Fields, s \in Statuses : field' = [field EXCEPT ![t] = s]
          /\ UNCHANGED <<health, online>>
       \/ /\ \E t \in Healths, v \in Vitals : health' = [health EXCEPT ![t] = v]
          /\ UNCHANGED <<field, online>>
       \/ /\ online' = ~online
          /\ UNCHANGED <<field, health>>
    /\ UNCHANGED <<broker, memory, loop, mishaps, stalled>>

-----------------------------------------------------------------------------
\* The broker (external) and paho (external).
Deliver ==
    /\ wire # <<>>
    /\ retained' = [retained EXCEPT ![Head(wire).topic] = Head(wire).payload]
    /\ wire' = Tail(wire)
    /\ UNCHANGED <<source, conn, handler, signal, will, memory, loop, budgets>>

\* The connection is lost with everything on it.  A broker that restarts may
\* have lost its retained messages.
Drop ==
    /\ conn /\ mishaps > 0
    /\ mishaps' = mishaps - 1
    /\ conn' = FALSE
    /\ wire' = <<>>
    /\ will' = TRUE
    /\ retained' \in {retained, [t \in Topics |-> Nothing]}
    /\ UNCHANGED <<source, handler, signal, memory, loop, changes, stalled>>

\* The broker publishes the last will of a lost connection.
Will ==
    /\ will
    /\ will' = FALSE
    /\ retained' = [retained EXCEPT ![Availability] = "offline"]
    /\ UNCHANGED <<source, conn, handler, signal, wire, memory, loop, budgets>>

\* Auto-reconnect, with the same client id: a broker that has not noticed the
\* loss closes the old session, last will included, before it accepts the new
\* one.  The handler runs later, on a goroutine of paho's.
Reconnect ==
    /\ ~conn /\ ~will
    /\ conn' = TRUE
    /\ handler' = TRUE
    /\ UNCHANGED <<source, signal, wire, will, retained, memory, loop, budgets>>

OnConnect ==
    /\ handler
    /\ handler' = FALSE
    /\ signal' = TRUE
    /\ UNCHANGED <<source, conn, wire, will, retained, memory, loop, budgets>>

\* PahoPublisher.Publish.  ok stands for a nil error: the message was handed to
\* the connection, or the connection was lost after the IsConnectionOpen check
\* and paho dropped the message silently.  An error is a closed connection, or
\* a timeout after which paho still delivers the message.
Publish(t, p, ok) ==
    \/ /\ conn /\ ok /\ Len(wire) < MaxWire
       /\ wire' = Append(wire, [topic |-> t, payload |-> p])
       /\ UNCHANGED <<mishaps, stalled>>
    \/ /\ ~conn
       /\ UNCHANGED <<wire, mishaps, stalled>>
    \/ /\ conn /\ ~ok /\ Len(wire) < MaxWire /\ mishaps > 0
       /\ wire' = Append(wire, [topic |-> t, payload |-> p])
       /\ mishaps' = mishaps - 1
       /\ stalled' = TRUE

-----------------------------------------------------------------------------
Reassert_DiscoveryOnly ==
    /\ discovered' = {}
    /\ UNCHANGED <<last, lastHealth, age, healthAge>>

Reassert ==
    /\ discovered' = {}
    /\ last' = [t \in Fields |-> Nothing]
    /\ lastHealth' = [t \in Healths |-> Nothing]
    /\ age' = Beat /\ healthAge' = Beat

\* A cycle of the publish loop begins: it consumes the reconnect signal, takes
\* the snapshot and starts with the discovery configs not yet sent.
BeginCycle ==
    /\ phase = "idle"
    /\ IF signal THEN Reassert ELSE UNCHANGED memory
    /\ signal' = FALSE
    /\ snap' = [field |-> field, health |-> health, online |-> online, beat |-> FALSE]
    /\ phase' = "config"
    /\ left' = Configs \ discovered'
    /\ UNCHANGED <<source, conn, handler, wire, will, retained, budgets>>

Present == {t \in Fields : snap.field[t] # "absent"}

AbsentToSend_Never(beat) == {}

\* On a beat, absent fields are published as None, once.
AbsentToSend(beat) ==
    {t \in Fields \ Present : beat /\ last[t] # NoneText}

\* The fields PublishState sends: changed ones, and present ones on a beat.
FieldsToSend(beat) ==
    {t \in Present : beat \/ last[t] # Payload(snap.field[t])} \cup AbsentToSend(beat)

\* Topics that were published before, are absent now and do not read None.
\* (On a beat the absent ones count as produced.)
FieldsToRetract(beat) ==
    IF beat THEN {} ELSE {t \in Fields \ Present : last[t] \notin {Nothing, NoneText}}

HealthsToSend(beat) == {t \in Healths : beat \/ lastHealth[t] # snap.health[t]}

NextAge(a) == IF a = Beat THEN 1 ELSE a + 1

\* PublishDiscovery is done; PublishState begins, which decides on a beat.
BeginState ==
    /\ phase = "config" /\ left = {}
    /\ phase' = "field"
    /\ left' = FieldsToSend(age = Beat)
    /\ snap' = [snap EXCEPT !.beat = (age = Beat)]
    /\ age' = NextAge(age)
    /\ UNCHANGED <<source, broker, discovered, last, lastHealth, healthAge, budgets>>

BeginRetract ==
    /\ phase = "field" /\ left = {}
    /\ phase' = "retract"
    /\ left' = FieldsToRetract(snap.beat)
    /\ UNCHANGED <<source, broker, memory, snap, budgets>>

BeginAvailability ==
    /\ phase = "retract" /\ left = {}
    /\ phase' = "availability"
    /\ left' = {Availability}
    /\ UNCHANGED <<source, broker, memory, snap, budgets>>

\* PublishHealth begins, with a beat of its own.
BeginHealth ==
    /\ phase = "availability" /\ left = {}
    /\ phase' = "health"
    /\ left' = HealthsToSend(healthAge = Beat)
    /\ healthAge' = NextAge(healthAge)
    /\ UNCHANGED <<source, broker, discovered, last, lastHealth, age, snap, budgets>>

EndCycle ==
    /\ phase = "health" /\ left = {}
    /\ phase' = "idle"
    /\ snap' = Nothing
    /\ UNCHANGED <<source, broker, memory, left, budgets>>

\* Send topic t of the current phase; record it if the publish succeeded.
SendOne(t, p, ok) ==
    /\ Publish(t, p, ok)
    /\ left' = left \ {t}
    /\ UNCHANGED <<source, conn, handler, signal, will, retained, age, healthAge,
                   phase, snap, changes>>

publishConfig(t) ==
    /\ phase = "config" /\ t \in left
    /\ \E ok \in BOOLEAN :
        /\ SendOne(t, "config", ok)
        /\ discovered' = IF ok THEN discovered \cup {t} ELSE discovered
    /\ UNCHANGED <<last, lastHealth>>

publishField(t) ==
    /\ phase = "field" /\ t \in left
    /\ LET p == Payload(snap.field[t]) IN
       \E ok \in BOOLEAN :
        /\ SendOne(t, p, ok)
        /\ last' = IF ok THEN [last EXCEPT ![t] = p] ELSE last
    /\ UNCHANGED <<discovered, lastHealth>>

\* A retraction that succeeds drops the record.
retractField(t) ==
    /\ phase = "retract" /\ t \in left
    /\ \E ok \in BOOLEAN :
        /\ SendOne(t, NoneText, ok)
        /\ last' = IF ok THEN [last EXCEPT ![t] = Nothing] ELSE last
    /\ UNCHANGED <<discovered, lastHealth>>

PublishAvailability ==
    /\ phase = "availability" /\ left # {}
    /\ \E ok \in BOOLEAN :
        SendOne(Availability, IF snap.online THEN "online" ELSE "offline", ok)
    /\ UNCHANGED <<discovered, last, lastHealth>>

publishHealth(t) ==
    /\ phase = "health" /\ t \in left
    /\ \E ok \in BOOLEAN :
        /\ SendOne(t, snap.health[t], ok)
        /\ lastHealth' = IF ok THEN [lastHealth EXCEPT ![t] = snap.health[t]] ELSE lastHealth
    /\ UNCHANGED <<discovered, last>>

\* The daemon restarts: its state, its memory and its connection are gone, the
\* broker's messages are not.
Restart ==
    /\ mishaps > 0
    /\ mishaps' = mishaps - 1
    /\ field' = [t \in Fields |-> "absent"]
    /\ online' = FALSE
    /\ conn' = FALSE /\ handler' = FALSE /\ signal' = FALSE
    /\ wire' = <<>>
    /\ will' = (will \/ conn)
    /\ Reassert
    /\ phase' = "idle"
    /\ left' = {}
    /\ snap' = Nothing
    /\ UNCHANGED <<health, retained, changes, stalled>>

LoopStep ==
    \/ BeginCycle \/ BeginState \/ BeginRetract \/ BeginAvailability \/ BeginHealth
    \/ EndCycle \/ PublishAvailability
    \/ \E t \in Configs : publishConfig(t)
    \/ \E t \in Fields : publishField(t) \/ retractField(t)
    \/ \E t \in Healths : publishHealth(t)

Next == LoopStep \/ Deliver \/ Drop \/ Will \/ Reconnect \/ OnConnect \/ Change \/ Restart

\* The publish loop runs every second, paho reconnects until it succeeds and
\* runs its handler, and what is on the wire arrives.  Nothing is assumed of
\* changes, drops, restarts and timeouts but that they are finitely many.
Fairness ==
    WF_vars(LoopStep) /\ WF_vars(Deliver) /\ WF_vars(Will)
        /\ WF_vars(Reconnect) /\ WF_vars(OnConnect)

Spec == Init /\ [][Next]_vars /\ Fairness

-----------------------------------------------------------------------------
\* What the broker will hold for topic t once the wire has drained.
Settled(t) ==
    LET sent == {i \in 1..Len(wire) : wire[i].topic = t}
    IN  IF sent = {} THEN retained[t] ELSE wire[Max(sent)].payload

\* Change detection is honest: while the connection is open and no reconnect
\* waits to be noticed, every payload the exporter remembers sending is what
\* the broker holds or is about to hold, whatever was lost before with earlier
\* connections or with the broker's retained store.
MemoryIsHonest ==
    conn /\ ~handler /\ ~signal /\ ~stalled =>
        /\ \A t \in Fields : last[t] # Nothing => Settled(t) = last[t]
        /\ \A t \in Healths : lastHealth[t] # Nothing => Settled(t) = lastHealth[t]
        /\ \A t \in discovered : Settled(t) = "config"

\* The broker holds what is to be published on every topic but those of absent
\* fields.
PresentConverged ==
    /\ \A t \in Fields : field[t] # "absent" => retained[t] = Payload(field[t])
    /\ \A t \in Healths : retained[t] = health[t]
    /\ \A t \in Configs : retained[t] = "config"
    /\ retained[Availability] = IF online THEN "online" ELSE "offline"

\* Once things stop changing, the broker converges to what is to be published:
\* fields to their value or, when stale, to None, health, discovery and
\* availability, through drops, lost messages, wiped retained stores, daemon
\* restarts, and timeouts that leave the exporter's memory wrong.  Topics of
\* absent fields converge to None unless such a timeout occurred.
Converges ==
    <>[](PresentConverged /\ (stalled \/ \A t \in Fields : retained[t] = Payload(field[t])))
=============================================================================
