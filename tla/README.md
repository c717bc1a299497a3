# A TLA+ verification project for infinid

infinid is a daemon that listens to a Carrier/Bryant ABCD serial bus, decodes
its frames, polls the wall control as a SAM (System Access Module), assembles
the state of the system, journals what happens to it and publishes everything
to MQTT. This directory models the parts of it where a test hardly reaches
what can go wrong: goroutines that share a scheduler, replies that come too
late, a broker that forgets, a journal cut inside a line, a zone set that
depends on weeks of frames.

Every definition is translated from the Go source; `PROJECT.json` maps each to
its lines, lists the runs and the mutants that show each property can fail,
the findings, the hazards and the theorems.

    tlc -workers 2 -config SamBus.cfg MCSamBus
    tlapm Sam_proofs.tla

## 1. Inventory

| Component | State | Operations | Hard behaviour | Correct when |
|---|---|---|---|---|
| Frame codec and decoder (`bus/frame.go`, `bus/decoder.go`) | pending bytes, resync count | `Next`, `Encode`, `Decode` | garbage whose length byte asks for bytes that belong to real frames; reads of any size; read errors that pass or stay | frames come out as they were sent, once and in order; none is lost to a resync, none waits longer than the longest frame, a read error costs no frame that had arrived |
| Serial port (`bus/serial.go`) | an OS device | open, read, write, close | used by two goroutines | never written after it was closed |
| SAM scheduler (`sam/scheduler.go`) | due times, backoffs, the pending request, last send, failures | `Tick`, `NoteFrame` | two callers with stamps older than the lock they wait for; late replies; failing writes; reconnects | requests are spaced, accounted for, given up in time, shared fairly, and replies are credited to the register they answer |
| Daemon (`cmd/infinid/main.go`) | counters under `mu`, scheduler under `schedMu`, one decoder and one scheduler per run | `run`, its ticker goroutine, `trackCounter`, `publishLoop`, `statusMap` | the ticker outlives the read loop's error; deltas of per-run counters are folded into totals by two goroutines | no write after close, exact and monotone totals, the bus is read again after every error |
| Protocol decoders (`protocol/*.go`) | none | `Decode`, `DecodeFaults` | registers of one number on several units, signs, short payloads, values that are not finite; order of the readings of one frame | each frame yields what its sender meant, for its own unit |
| State assembler (`state/state.go`) | system and zone fields with stamps, `maskOnly` | `Apply`, `Snapshot` | three kinds of evidence for a zone, in any order; snapshots between two readings of a frame; replays out of order | the zone set is exactly the one the evidence supports; a countdown is shown only during its hold; nothing newer is overwritten; nothing stale is shown as fresh |
| Event journal (`state/journal.go`) | last frame per device, lost set, known faults, counter reference, a JSONL file | `NoteDevice`, `CheckLiveness`, `NoteFaults`, `NotePowerCounters`, `ClassifyGap`, `append`, `OpenJournal` | crashes and failing writes between two lines; hourly reads of a list that changes in between; outages that overlap | outages are reported when they happen and only then; a restart forgets nothing; a gap verdict is sound |
| MQTT exporter and client (`mqtt/exporter.go`, `mqtt/client.go`) | what was sent on each topic, beats, reconnect signal | `PublishDiscovery`, `PublishState`, `PublishAvailability`, `PublishHealth`, `Reassert`, `Connect`, `Publish` | lost connections and late deliveries between any two publishes; a broker that lost its retained store; restarts | what the exporter remembers is what the broker holds, and the broker converges |
| Entity tables (`mqtt/entities.go`) | none | – | a sensor whose field no decoder yields | every sensor has a source |
| Capture recorder (`capture/recorder.go`, `cappedWriter` in `main.go`) | a ring, a file with a size cap | `Add`, `Write`, `Recent` | failed writes, deaths inside a line, restarts that append to what is there | the cap holds; what is read back has no holes and agrees with the ring |
| REST surface (`rest/server.go`) | none | read-only handlers | reads while the loops write | it shows what the loops keep |
| Bus inspector (`inspect/`, `cmd/businspect`) | none, offline | `ParseAll`, `Group`, `Changes`, `DiffAt`, `readCadence` | captures with torn lines and clocks that were set back | tables, timelines and diffs are what their readers take them for |
| Add-on packaging (`deploy/`) | none | – | – | – |

How they interact: `run` owns a port, a decoder and a scheduler. Its read loop
takes frames from `Decoder.Next`, writes them to the capture, notes the sender
in the journal, applies the decoded readings to the state one by one, and gives
the frame to the scheduler (`NoteFrame`, then `Tick`) under `schedMu`. A ticker
goroutine of the same run calls `Tick` once a second under the same lock, so
that polling survives a silent bus. `publishLoop` runs once a second beside
both: it checks liveness, takes a snapshot and hands it to the exporter. paho
runs the connection and calls back on every reconnect. When `Next` fails, `run`
stops and joins the ticker, closes the port and returns; `main` sleeps five
seconds and starts it again.

## 2. Modules

| Module | Models | Uses |
|---|---|---|
| `FrameStream` | what a frame splitter promises | – |
| `FrameDecoder` | `Decoder.Next` on a wire with garbage | implements `FrameStream` |
| `FrameDecoder_proofs` | its theorems | `FrameDecoder` |
| `FrameBytes` | `Encode`, `Decode`, the header and the CRC on bytes | `FrameDecoder` |
| `SamScheduler` | `Scheduler` and the two callers in `run` | – |
| `SamBus` | the scheduler composed with the wall control and the receive path | `SamScheduler` |
| `Sam_proofs` | the theorems of both | `SamBus` |
| `DaemonRun` | the goroutines, locks and counters of `run` | – |
| `DaemonRun_proofs` | its theorems | `DaemonRun` |
| `ZoneState` | zone decoders and `State.Apply` | – |
| `ZoneState_proofs` | its theorems | `ZoneState` |
| `Sensors` | dispatch, equipment decoders, `Apply` and staleness of system fields, system sensors | – |
| `BusLiveness` | `NoteDevice`, `CheckLiveness` | – |
| `BusLiveness_proofs` | its theorems | `BusLiveness` |
| `Journal` | faults, power counters and the file | – |
| `Journal_proofs` | its theorems | `Journal` |
| `Exporter` | publish loop, exporter, paho client and broker | – |
| `Exporter_proofs` | its theorems | `Exporter` |
| `Inspect` | the algorithms of the bus inspector, and what they promise | – |
| `Capture` | ring, capped file, restarts, and the inspector on what they leave | `Inspect` |
| `Capture_proofs` | the theorems of both | `Capture` |
| `MC*` | constants for TLC that a `.cfg` cannot write | the module named |

Definitions keep the names of the functions they model. A definition named
`X_Something` before `X` is a mutant of `X` (a plausible bug), used only to show
that a property would notice it.

### FrameDecoder, FrameStream, FrameBytes
In `FrameDecoder` a byte is known by what the decoder would make of a frame that
starts there: whether the header gate (bytes 5 and 6 zero) passes, and how long
the frame would be. Real frames sit at `starts`, pass the gate and do not
overlap; everything else is garbage, also garbage that passes the gate and
carries a length reaching into real frames. `Reject`, `Return` and `Wait` are
the three ways through the inner loop, `ReadBytes`, `ReadIdle` and `ReadError`
the three results of `Read`. An error may pass: `Next` then slides over the first
byte of a frame whose rest comes later, which the code accepts and counts in
`resyncs`. The history variable `cut` records those frames, so that the
properties can say that nothing else is lost.

`FrameStream` is the abstract specification: the frames sent are delivered once
and in order, or given up, and none before those ahead of it.

`FrameBytes` puts real bytes under the same decoder: pieces of traffic (frames
encoded by `Encode`, frames damaged in one byte, noise) are laid on the wire, and
`gate`, `len` and `starts` are computed from them with the header layout and the
CRC-16 of the code. `ImplementsDecoder` says that every such wire is one the
theorems about `FrameDecoder` speak of: what the CRC accepts does not overlap.
`CrcByte` is the bit loop on a byte, split by its linearity into a table of 256
values (computed with that loop) and a shift; an assumption compares it with the
published check value, which is also in `bus/frame_test.go`.

### SamScheduler, SamBus
Time is in seconds. `Tick` and `NoteFrame` are operators on the scheduler
record; `Ticker` and `ReadLoop` are the two critical sections of `run`, each
with a stamp up to `MaxLag` older than the clock, since the read loop takes it
before the capture write, the journal writes and the lock, and the ticker's
waits in its channel. A write of a request succeeds or fails. `Clock` does not
pass a second in which the ticker was not served: the ticker goroutine takes
only locks that are held briefly. `Reopen` is a new run, at least `RetryDelay`
after the last. `SamBus` puts the requests on a bus: the wall control answers,
refuses or ignores each, and the reply waits until the read loop gets to it,
possibly after the request has timed out and another one is pending. `late`
records whether a reply was read when its request might have timed out.

### DaemonRun
One program counter per goroutine; a step is what a goroutine does between two
lock operations. The reader blocks in `Next`, counts under `mu`, runs the
scheduler under `schedMu` and folds its failures in under `mu`; the ticker does
the last two. On an error the reader folds the resyncs of the failed `Next` in,
closes `stop`, waits for the ticker, closes the port and starts over.
Observers are `publishLoop` and `statusMap`. `failed` and `skipped` are what
really happened over all runs.

### ZoneState
A frame is decoded into readings, which are applied one step at a time.
One field stands for all fields a decoder treats alike. The history variables
record which zones were heard, by sensor traffic or at all. A bare
`active_zones` reading, which no frame carries but the state tests apply, is
part of the replays.

### Sensors
The environment states values: a register table gives, for every decoded
register, which unit states it, with which operation and which fields. A
payload is the sequence of its words, unsigned as on the wire; `Word` and
`Payload` encode what is meant, and the decoders are checked against it.
Statements arrive whole or a word short, now or late, among frames of other
units with the same register numbers. A field is stored without regard to the
others, so each behaviour follows one field, `watch`, chosen in `Init`. Stored is
the age of the reading instead of its stamp; ages beyond every horizon are one.

Register 000302 is decoded for any owner, so a zone controller with a leaving-air
thermistor of its own takes turns with the indoor unit on `supply_air_temp`; both
state it here, and the sensor shows whichever spoke last. `sam` says whether the
daemon was started with `-sam`: without it, registers 3B02 and 3B05 are never
asked for (`Asked`).

### BusLiveness, Journal
`BusLiveness` has the two operations that detect outages, with checks up to
`MaxStall` apart (the publish loop also waits for the broker) and lagging
stamps. `Journal` keeps the fault list and the power counters as environment;
an entry of the list stands for its key, and memory maps entries to what is known
of them. A power loss (`lost`) meets one unit or both. The outdoor unit counts it at
once, the indoor unit with its next `DailyRollup`; `power` is what the counters
say. The file is what a replay of it yields, plus whether it ends inside a line.
`DecodeFaults` may find some slots half corrupt and skips them. An
append is written, fails and leaves nothing, or fails and leaves part of a
line; the daemon may die between any two lines.

### Capture, Inspect
The file is a sequence of writes, each a record and the number of bytes of its
line that got out; a line ends at a newline, so a write after a cut one runs
into it. `Add` is the recorder with its writer, `Die` and `DieWriting` end the
process, `Restart` opens the file for append and takes its size off the budget,
or starts with a full budget if the size cannot be learnt. The inspector's
functions are operators on what `ParseAll` yields, recursive functions of the
place in the list where the code loops, next to predicates that say without
loops what they should yield. Besides the files a daemon leaves, the run reads
archives: every list of up to three records of any kind, and of four about one
register.

### Exporter
The loop's phases (discovery, fields, retraction, availability, health) publish
one topic a step. Between any two, the connection may drop with what is on the
wire, the broker may publish the last will and lose its retained store, paho
may reconnect and run its handler, the state may change, and the daemon may
restart. A publish finds the connection closed and fails, is put on the wire,
is dropped while reported as sent, or times out and is delivered all the same.
The broker publishes the will before it accepts the same client again.

## 3. What the runs show

All passing runs are exhaustive for their bounds.

| Run | Shows | Bounds, and why they are enough |
|---|---|---|
| `frame_decoder` | `NoneLost`, `DelayBounded`, `AllSalvaged`, `ArrivedNeverCut`, and `ImplementsStream`: it implements `FrameStream` | every wire of 6 bytes with frames of 2 to 4: two frames, garbage before, between and after them, false candidates that reach over both, errors that pass or stay at any point |
| `frame_bytes` | `Transparent`: what is returned is what was sent; `ImplementsDecoder` | the code's own sizes; a request with every byte damaged in nine ways, a refusal likewise, noise before, between and after intact frames, and runs of 1, 2, 4 and 7 zeros right before a request, a refusal and the acknowledgement of a write, the shortest frames of the bus; reads of every size |
| `sam_bus` | `TypeOK` with the range of a backoff, `Accounting`, `RequestSpacing`, `PendingBounded`, `NoStarvation`; `CreditIsEarned`: a reply is never credited to a register that was not served; `BlameIsEarnedInTime`: while no reply is late, no register is blamed for another's refusal | two targets, 11 seconds, one second of stamp lag, backoffs of 4 and then 7 seconds, the clamp: timeouts, both targets due at once, a reply read after its timeout, with the next request pending, and after a reconnect. The scheduler's own properties are checked on this composition, and proved for every sequence of frames |
| `daemon_run` | `NoWriteAfterClose`, `TotalsExact`, `ObservedNeverFalls`, and under fairness `ReadsAgain`: a bus error never wedges the daemon | any number of runs, two failures and two skips spread over them, two observers: a failure counted by each goroutine, or one in each of two runs |
| `zone_state` | `ZonePresence`, `NeverOlder`, `CountdownOnlyWhileHeld` | two zones (zone 1 is special, zone 2 is not), three time stamps, frames up to two old, any number of them |
| `bus_liveness` | `SilenceIsReal`, `SilenceDetected`, `LossIsReal`, `LossDetected` | two devices, three minutes in steps of ten seconds: an outage, a recovery and another outage; one device silent while the other talks, and both |
| `sensors` | `ShownIsStated`: a sensor shows the newest word stated for it, and only while it is fresh; `KeptUpIsShown`: no flicker at the pace of the bus; under fairness `EverySensorReports` | every system field, with SAM reads and without, at the edges of its range; two horizons, 2 and 5 units long, with repeats within them and beyond |
| `journal` | `ReplayYieldsMemory`, `ListedIsKnown`, `GapIsSound` | two faults that appear, clear and drop off, one of which recurs until its count (below 3) wraps; up to two power losses of each unit, of which the outdoor one counts them at once and the indoor one late; three of these events together (`MaxEvents`), which is a wrap, or a second fault after a recurrence, or losses before, between and after the readings of a run; any number of unreadable slots, crashes, restarts and failed writes |
| `capture` | `WithinCap`, `NoHoles`, `RingAgrees`; on every file and archive `TablesAreRight`, and `TimelinesAreRight` for timelines and diffs | three runs of the daemon, four frames of three lengths, a cap that two to four of them reach, a ring of two; 35,000 archives of up to four records with stamps in any order |
| `exporter` | `MemoryIsHonest`, `Converges` | a topic of each kind, two changes, one drop, restart or late delivery after a timeout, a heartbeat every second cycle |

`CountdownOnlyWhileHeld` has an exception for replays. `hold=0` deletes the
countdown with its stamp, so a countdown older than the end of the hold is
accepted again; the property says that this is the only one that can be shown,
and that on the live bus, where frames carry the clock's stamp, none is.
`GapIsSound` speaks of the losses a unit had counted when the run started. The
comment on `ClassifyGap` admits that the indoor unit commits its counter about
once a day, so a loss of that unit since its last commit may be called a
`monitoring_gap`; of the outdoor unit none is. `LossDetected` speaks of devices
that are silent while another is heard, as the comment on `CheckLiveness` does.
`EverySensorReports` asks nothing of `filter_life` and `system_mode` without SAM
reads, as the MQTT contract says; all other sensors report on a passive install.
`Transparent` speaks of frames that carry data. `ListedIsKnown` is
weaker once a count has wrapped: the recurrence that wraps it is not an increase
and is not journalled. `WithinCap` allows the cap once more for each restart
that could not learn the size of the file, which the code then takes for empty.
What is said of diffs leaves out registers sampled twice at one instant, see below.

### Where the code and its documentation differ

Two runs expect TLC to violate what comments and the MQTT contract say; the
quotations are in `PROJECT.json`.

* `journal_active`, `ActiveIsListed`: a fault pushed off a full list while others
  stay on it is never noted again and is reported active for ever.
* `zone_retraction`, `MaskRetracts`: a mask is said to retract the zones it
  established itself. The 3B02 frame that carries a mask carries a reading of each
  of its zones too, which makes them permanent, so on the live bus a zone that was
  only ever in masks stays when a later one leaves it out. TLC's trace is a read
  with zone 2 and one without. `LiveZonesStayHolds` proves that no zone is ever
  retracted there, for any number of zones.

These differences came up while modelling, and the properties of the passing runs
are stated so as to hold beside them:

* `sam/scheduler.go:127-130` takes any NACK for the pending request, "because
  only one request is ever outstanding". A NACK read after its request timed out
  backs off the next register (`BlameIsEarnedInTime` needs `~late`).
* `state/journal.go:57-58` opens the journal "replaying existing events to recover
  the last power counters and known-fault set". The first line after a torn tail runs into it and is lost to every replay, while `Err()` is nil
  (`ReplayYieldsMemory` needs `~tear`; `NoHoles` has the same exception for the
  capture).
* `docs/MQTT-CONTRACT.md:109-112` says that the topic of a field that disappears
  "receives a retained `None` rather than freezing at the last value". A publish
  that timed out (`mqtt/client.go:101-103`) and was delivered all the same is not
  remembered: if the field then disappears and the last payload recorded was
  "None", nothing is sent and the topic keeps the late value (`Converges` leaves
  this case out).
* `bus/decoder.go:31-34` has the header gate "so garbage can't stall delivery of a
  valid frame sitting one byte later". The CRC starts at 0 and does not
  notice leading zeros: a zero byte right before a frame without data makes an
  eleven-byte candidate that is accepted with shifted fields, and the frame is
  lost. Every frame whose length `docs/protocol-tables.md:66-71` gives carries
  data, the acknowledgement of a write and a refusal one byte, and only such frames are in the traffic
  of `frame_bytes`, after zeros too; `Encode` itself also makes frames without.
* `protocol/sam.go:178` skips half-corrupt slots. A list in which every slot is
  one decodes as an empty list, which `NoteFaults` takes for a reset
  (`ListedIsKnown` speaks of the list as read).
* `protocol/sam.go:187`: the count has seven bits; the step from 127 to 0 is
  never journalled.
* `inspect/inspect.go:57-60` says blank lines count as skipped; the code does
  not count them.
* `DiffAt` takes the first of several samples at the last instant of the window,
  `Changes` ends on the last, so for equal stamps the diff and the timeline may
  disagree.
* `sam/scheduler.go:21` calls `interSendGap` the "minimum spacing between any
  two requests". It is measured between stamps; on the wire it holds less the
  lag of a stamp (`RequestSpacing`).
* `state/journal.go:160-161` reports single devices as lost "while others talk",
  and `:194` calls individual losses in a whole-bus outage "meaningless". Between
  30 and 60 seconds of such an outage every device is reported lost, before the
  bus is reported silent. `LossDetected` asks for a report only while another
  device is heard, and `LossIsReal` says of the others only that they are true.
* `state/journal.go:243-246` says a changed counter means that the HVAC "lost power
  during the gap". A loss before the gap that the indoor unit committed only in it
  also changes the counter (`GapIsSound` says nothing of `hvac_power_loss`).
* `state/journal.go:53` documents the fault key as "code/source/first-time";
  `faultKey` leaves the source out, so two units' faults with the same code and
  minute are taken for one. In `Journal` an entry of the panel's list stands for
  its key, so what is checked and proved there is about faults with distinct keys.

### Fairness

Safety properties are checked without using it. The modules with liveness
properties assume:

* `Sensors`: weak fairness of a whole, finite statement of the followed field:
  the thermostat reads and writes the registers of its equipment in turn for as
  long as it has power. The SAM registers are stated only if `sam` holds, that is
  with `-sam`, and then because the scheduler polls each again and again
  (`NoStarvation`). Nothing is assumed about what else is on the bus.
* `Exporter`: weak fairness of the loop (a `time.Tick` loop with bounded waits,
  since `Publish` gives up after five seconds), of delivery and the will (the
  broker and TCP), of reconnection (paho's `AutoReconnect` and `ConnectRetry`)
  and of the handler goroutine. Changes, drops, restarts and timeouts are not
  fair, only finitely many: convergence means nothing while they go on.
* `DaemonRun`: weak fairness of a goroutine that can run; strong fairness of
  waiting for a lock, because Go's mutex turns to handing over in order once a
  waiter starves, and of the ticker's `select` on the closed `stop` channel,
  because `select` chooses at random among the ready cases. Nothing is assumed of
  the bus (`Next` may block or fail for ever). That the port can be opened
  again is assumed in `ReadsAgain`.

## 4. What is proved

TLAPS checks these for every value of the constants that satisfies the named
assumptions. An inductive invariant was first checked by TLC, as an invariant of
the component's run, and then proved; in each proof module it is `IInv`, a
conjunction of the parts named below, and `Invariance` says that it always holds.

| Module | Theorems, for the properties of the runs |
|---|---|
| `Sam_proofs` | `TypeCorrect`, `AccountingHolds`, `SpacingHolds`, `PendingBoundHolds`, `NoStarvationHolds`, `BusImplementsScheduler`, `CreditIsEarnedHolds`, `BlameIsEarnedHolds` |
| `DaemonRun_proofs` | `NoWriteAfterCloseHolds`, `TotalsExactHolds`, `ObservedNeverFallsHolds` |
| `ZoneState_proofs` | `ZonePresenceHolds`, `CountdownHolds`, `LiveZonesStayHolds`, `NeverOlderHolds` |
| `BusLiveness_proofs` | `SilenceIsRealHolds`, `SilenceDetectedHolds`, `LossIsRealHolds`, `LossDetectedHolds` |
| `Journal_proofs` | `ReplayHolds`, `ListedIsKnownHolds`, `GapIsSoundHolds` |
| `Exporter_proofs` | `MemoryIsHonestHolds` |
| `Capture_proofs` | `WithinCapHolds`, `NoHolesHolds`, `RingAgreesHolds`, `TablesAreRightHolds`, `TimelinesAreRightHolds` |
| `FrameDecoder_proofs` | `TypeCorrect`, `NoneLostHolds`, `DelayBoundHolds`, `AllSalvagedHolds`, `ArrivedNeverCutHolds`, `Refinement` |

### SamScheduler

For every number of targets, every choice of intervals and timings (from
`SizeAssumption`, `IntervalAssumption`, `TimingAssumption`, `LagAssumption`,
`RetryAssumption` and, for `NoStarvationHolds` only, `ShortLagAssumption`).

`RetryAssumption` says that `main`'s sleep between two runs is not shorter than
`interSendGap` (5 s and 2 s in the code): a new scheduler does not know when the
old one sent, so without it spacing fails across a reconnect. The inductive
invariant adds to the properties what relates the scheduler's stamps to the
clock. `SpacingInv`: the last request of this scheduler was written at most
`MaxLag` after the stamp in `lastSend`, and a scheduler that has sent nothing
was built at least `RetryDelay` after the last request of its predecessor.
`PendingInv`: the pending request's stamp is not in the future, and it is over
its timeout by no more than the lag while the ticker has not been served in
this second. `PickIsDue` shows that the scan for the most overdue target finds
one whenever a target is due, from the well-ordering of the naturals.

`NoStarvation` needs an argument of its own, `FairInv`. `Timely`: after the last
request, or after a target fell due if that was later, a slot does not pass
without another request, since within it the pending one times out, the gap is
over and the ticker is served. `Ranked`: of the N - 1 targets that may be served
before x, those still preferred to x have not used their slot yet; whoever is
served is due again only later than the clock, so it never gets ahead of a
target that was passed over. That last point needs `ShortLagAssumption`: with a
stamp older than a backoff (4 s) or the shortest interval (5 s), a target just
served could be due again in the past.

### SamBus

`BusImplementsScheduler` is the composition theorem: every behaviour on the bus
is one of `SamScheduler`'s `Spec`, so its five theorems hold there. `CreditInv`
counts the answers still in the receive path with those credited. `BlameInv`
says that while no reply was late there is at most one request that is sure to
be pending still, on the bus or answered, that it is the pending one, and that
its refusal has not been counted yet. The proof showed what "in time" has to
mean: a request is timed from a stamp that may be older than the moment it was
written, so a reply is surely read in time only within `PendingTimeout - MaxLag`
of its request, not within `PendingTimeout`; `late` is defined so. `SleepAssumption` (`main` sleeps
5 s, a request waits 2 s) keeps the requests of one run apart from the next.

### DaemonRun

For any set of observers (`ThreadAssumption`: goroutines are different) and any
number of runs. `LockInv`: a goroutine is in a critical section exactly when it
holds the lock. `RunInv`: the ticker is gone before the reader gets to close the
port. `SchedInv`: a failure is in the total or in the delta of whoever holds
`schedMu`; `DecoderInv`: a skipped byte is in the total or the reader is on its
way to count it. Between runs both are exact, so a fresh count from zero neither
loses nor repeats any.

### ZoneState

For every number of zones, every clock and every feed of frames. `PresenceInv`:
the zones only a mask knows are those that are neither zone 1 nor heard.
`StampInv`: no stamp is ahead of the clock, and on the live bus none is ahead of
the frame being applied. `HoldInv`: a countdown still to be applied follows its
hold. `LiveInv`: on the live bus a zone that only the mask knows has a reading
still to come from the same frame, which is why masks never retract one there
(`LiveZonesStayHolds`), and why `MaskRetracts` fails.

### BusLiveness

For every non-empty set of devices (`DeviceAssumption`) and all horizons,
stalls and lags (`HorizonAssumption`: a device is lost no later than the bus is
silent, 30 s and 60 s in the code). `ClockInv` relates what the journal remembers of a device to when it
was heard. `LossInv` and `SilenceInv` say what the last check left behind:
whoever was quiet for the horizon then is reported. Detection follows since the
next check is at most `MaxStall` later, and since a bus on which some device was
heard lately is not reported silent (`SilenceIsReal`).

### Journal

For any number of faults, counts below any `CountMod` and any number of power
losses of each unit; `MaxEvents` is only a bound in guards. `FaultInv`: what memory and file say of a fault is older than what the
panel says, as long as its count has not wrapped; a difference is then always
news, and what is no news is known exactly. `CounterInv`: a counter, and what was
read of it, is at most the number of losses by then; until the gap is classified
the reference is the file's, and of a unit that had counted a loss since the
reference's reading, every reading of this run is above the losses at that
reading, and so above the reference.

### Exporter

For all sets of topics, values and any length of the wire. The invariant is that
while the exporter has been told of everything (`Told`: connected, no handler or
signal outstanding, no publish late) its memory is `Honest`: for each topic it
remembers, the last message on the wire carries that payload, or there is none
and the broker retains it.

### FrameDecoder

For every wire, every range of frame lengths and every way of cutting it into
reads (from `LengthAssumption`). `Refinement` says that `FrameDecoder` implements
`FrameStream`.

The invariant has three parts. `WireInv`: the frames do not overlap and the
decoder is between the start and what was read. `PassedInv`: the frames it has
passed are those delivered or cut, and it stands inside no other; a step of one
byte keeps this because only the byte at the head can be a frame's first, and a
return keeps it because frames do not overlap. `WaitInv`: the decoder waits only
for a short buffer or an incomplete candidate, and stops on an error only with a
short buffer; the delay bound, salvage and `ArrivedNeverCut` rest on it. For the
refinement, `HeadIsNext` shows that a frame at the head is the next one the
abstract stream has to deal with: all frames before it have been passed.
`TypeCorrect` adds the counters (`CountInv`).

### Capture, Inspect

For every set of frames and clock readings, every cap and ring size, any number
of runs, and every archive, instant and window; `CaptureAssumption` and
`RegAssumption` only give the constants their types.

Of the capture, `CapInv` says that the file and the budget left fit into the cap,
taken once more for each restart that could not learn the size. A write that
fails or is cut by a death leaves no more than the line that still fitted, and
nothing is written after it until a restart has taken off what is really there. `FileInv` is about neighbours in
the file (`Follows`): a write of the same run is of the next frame and follows a
whole line, a write of a later run is of that run's first frame. By induction
along the file (`Chain`) a frame that is read back has all its predecessors
before it, as whole lines, of which only the first can have run into a cut line:
that is `NoHoles`. `RunInv` says that while the capture goes on the file ends
with everything the run received, `RingInv` that the ring is the end of that, so
the ring is the end of what is read back.

The inspector's theorems hold for every list of records, not only for those a
daemon leaves. `LoopIs` gives a loop's value at each place from the one before,
and `UpTo` is induction over a set of places, which the provers can use. On them
rest: `SelectPlaces`, that filtering keeps order and loses nothing; `RankIs`,
that ranks are a bijection, so that `SortStable` sorts and keeps the file's order
among equal stamps; `GapsIs`, that the gaps of sorted polls add up to their
span; `GroupIs`, the invariant of the grouping loop, register by register. For a
timeline, `Shows` names for each sample the entry that shows it, and carries that
through the loop of `Changes`. For a diff, `SideIs` says which record the loops of
`DiffAt` keep on each side of the instant; with distinct stamps these two are
neighbours in the sorted samples (`NextTo`), so that the second enters the
timeline with exactly the offsets the diff reports (`ChangeShown`).

### Only model-checked

* `Converges`, `ReadsAgain`, `EverySensorReports`: liveness under fairness is out
  of the prover's reach.
* `Transparent` and `ImplementsDecoder` of `FrameBytes`: the CRC is written with
  `Bitwise`, which cannot be used in a module with proofs, and both are about a
  given set of damages, not about every one.
* `ShownIsStated` and `KeptUpIsShown` of `Sensors`: what they are about is a fixed
  table of registers and fields, which the run covers entry by entry; only the
  horizons and periods are parameters. A proof would be the same enumeration,
  through folds of the library the provers do not unfold.

## 5. What is not modelled

* The serial driver and the add-on packaging: calls of the operating system, and
  files without behaviour. The port is used as open, read, write and close.
* Byte offsets, the division by 16 and the scaling of zone readings: pure
  functions of one frame with table-driven tests. Which readings, of which unit,
  with which sign and in which order is modelled.
* The zone and health tables of entities, device records, topic names, number
  formats, JSON and log lines: constant tables and conversions no property here
  depends on.
* What the REST handlers and `businspect` print, its flags and its one-off
  decoder of a fault reply; the zone names of `main`.
* Topics of zones that disappear while the exporter's memory is empty: the MQTT
  contract accepts that they keep their last value.
* `Journal.Close`, which `main` never calls.
* Faults of two units that share a key: an entry of `Journal`'s list stands for
  its key.

## 6. Plan

Done: `SamScheduler` (first, as the only part that writes to a bus shared with
the equipment), `SamBus`, `DaemonRun`, `ZoneState`, `BusLiveness`, `Journal` with
corrupt slots and wrapping counts, `Exporter`, `FrameDecoder` with passing errors
and its refinement of `FrameStream`, `FrameBytes`, `Sensors`, `Capture` with
`Inspect`; theorems for every safety property of the scheduler, its bus, the
daemon, the zones, the outages, the journal, the exporter, the decoder on every
wire, the capture and the inspector.

Next, in this order:

1. Topics of zones that come and go in `Exporter`, and an abstract register of
   retained values that it implements.
2. The register table of `Sensors` as a parameter, with what the theorems need of
   it (which units state a field, encoding and decoding agree) as an assumption
   that TLC evaluates on the table of the code; then `ShownIsStated` for every
   such table.
