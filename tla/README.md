# ArduinoKinisi in TLA+

Specifications of the ArduinoKinisi library: the Arduino client of a Kinisi
motor controller, spoken to over I2C with API v2. The modules describe the
library's code (`src/kinisi_protocol.cpp` and what it uses); the controller is
modelled from what the library relies on.

## 1. The system

| Part | Source | State it keeps | Operations |
| --- | --- | --- | --- |
| Client session | `kinisi_protocol.cpp/.h` | `next_id_`, `ready_`, `identity_`, `profile_`, `error_`, `heartbeat_ms_`, two time stamps | `begin`, `poll`, `request` (`send`, `receive`, `fail`) |
| Subscriptions | same class | `subscriptions_[]`, `subscription_ms_[5]`, `sample_mask_`, the cached samples | the four generic and two retired commands, `telemetry`, the getters |
| Local gates | same class | none (reads session, profile, Wire size) | the first 108 lines of `request`, `supports...()`, the option lists |
| Command methods | `kinisi.cpp/.h`, generated | none | 70 methods: pack arguments, `request`, decode the result |
| Hardware profiles | `kinisi_board_profiles.*`, generated | a constant table | lookup by exact revision, `hasSensor` |
| Wire adapter | `i2cutils.*` | none | whole-frame send and receive |
| Codec | `kinisi_codec.h` | none | little-endian words, binary64 on small targets |
| Generator, profile updater | `tools/` | files | schema to C++, metadata to table |
| Example sketches | `examples/*.ino` | an LED, `moving`, a time stamp each | `setup` with its failure exits, `loop` with its period |
| Controller | another repository | session, watchdog, subscriptions, queues | serves one command at a time |

The sketch calls a method; the method calls `request`; `request` refuses locally
or sends one frame and blocks in `receive` until the reply with its message ID
comes, the controller reports an error, a frame is malformed, the bus fails or
the time is up. While it waits, telemetry events come through the same stream
and are cached. There is one thread and no callback. All the concurrency is
between the library and the controller, through two queues and a bus that can
lose a transaction; all the state that can go stale is the library's picture of
the controller: whether there is a session, what is streamed, and which reply
belongs to which call.

What is hard here: late replies of calls that were given up; IDs that wrap;
commands that were executed although the library saw a failure; events that
overtake the ACK which changes what they mean; a slot chosen before a request
and written after it; two generations of subscription commands for the same
sources; failures in the middle of `begin`; resets of either side; doubles of
64 bits on boards that have 32; copies of the same layout and of the same check
in generated and in hand-written code; sketches that copy the state of a device
they cannot see. PROJECT.json
lists these as hazards, each at its line, with the properties that cover it.

What makes each part correct:

- session: each call has its effect at most once, and success means that this
  very call was executed; a session that ends leaves nothing behind;
- subscriptions: one slot per source, one kind of delivery per source, samples
  only of the subscription that is shown, agreement with the controller;
- gates: they agree with the helpers, lose nothing with a newer firmware, guess
  nothing about unknown boards, and accept only what can be served;
- poll: the watchdog is refreshed in time, every stream is served, every call
  returns;
- codec and command methods: what fits the board's double arrives exactly and in
  both directions, what does not keeps its order or becomes infinite, and every
  argument, result and sample field is found where the other side put it;
- examples: the watchdog stays fed, motion ends, the loop goes on.

## 2. Modules

| Module | What it is |
| --- | --- |
| `KinisiTypes` | failures, error codes, topics, frame sizes of all methods, `FrameFits` (`send`) |
| `KinisiBoardProfiles` | the bundled table and its lookup |
| `KinisiGate` | local checks of `request` (`Rejection`) and the helpers, as pure operators |
| `KinisiWire` | the two queues and the transactions on them |
| `KinisiProtocol` | the client: its variables and one action per step |
| `KinisiController` | the controller, external |
| `KinisiHeartbeat` | time: `poll`'s deadlines, the timeout of a call, the watchdog |
| `KinisiSystem` | client, wire and controller composed; properties; inductive invariants; refinements |
| `KinisiRestart` | `KinisiSystem` on a controller that remembers an earlier life of the sketch |
| `AtMostOnce` | abstract specification of a sequence of calls |
| `SubscriptionRegistry` | abstract specification of the subscriptions: one table, no slots, masks or ACKs |
| `KinisiCodec` | integers, doubles and telemetry samples as bytes, for any size of byte and double |
| `KinisiMethods` | arguments and results of every command method, their places in payload and reply, the checks of a reply |
| `CodecCheck` | a double, a sample or a command on its way, and the properties of the two modules above |
| `ExampleSketches` | the six examples on top of `KinisiHeartbeat`, with the controller's LED and motor |
| `KinisiSystemProofs` | theorems about `KinisiSystem`, with proofs: types, tables, order of execution |
| `KinisiQueueProofs` | extends it: what waits in the two queues, and the refinement of `AtMostOnce` |
| `KinisiStreamProofs` | extends it: the tables of both sides, the events between them, the samples |
| `KinisiRegistryProofs` | extends it: the refinement of `SubscriptionRegistry` |
| `KinisiHeartbeatProofs` | theorems about `KinisiHeartbeat`, with proofs |
| `CodecCheckProofs` | theorems about `CodecCheck`, with proofs |
| `GateCheck` | one question to the gate, and the gate's properties |
| `GateCheckProofs` | theorems about `GateCheck`, with proofs |
| `ExampleSketchesProofs` | extends `KinisiHeartbeatProofs`: theorems about the sketches, with proofs |
| `MCSystem`, `MCRestart`, `MCGate`, `MCCodec` | instances for TLC |

### How KinisiProtocol corresponds to the code

A call is a blocking function; the model cuts it where other parties can act,
that is at each Wire transaction. `call` is the program counter: what is waited
for, the request, its ID, the slot chosen for it, whether it is nested in
`begin`. Everything between two transactions is one action:

- `Begin`, `Request`, `Poll`, `Configure` run from the start of the call (or
  from READY) through the gates and `allocateId` to the end of `send`;
  `Refuse`, `RefuseTuning`, `PollNotReady` are the early returns before it;
- each `Receive...` action is one turn of the loop in `receive` with what
  follows from it, up to the return to the sketch: `ReceiveStale`,
  `ReceiveEvent`, `ReceiveLegacyEvent` go round again; the `...Ack` actions are
  the tail of `request` for their command and, in `begin`, the profile lookup;
  the failing ones include all of `fail`;
- `Restart` is the constructor, run again while the bus and the controller go on.

Abstractions. A payload is the fields a later step looks at. A sample is the
number of the call that created the subscription it was sent for (`stamp`),
which is what the properties tell apart. `serial` numbers the calls; no code
reads it. Intervals decide nothing in this model but the gates. Time is absent:
a wait may time out whenever it waits, and `Poll` may find either deadline due.
`ReceiveGarbage` stands for every check of a frame's shape or values. The board
and the protocol version of the identity are kept, the build number is not.
`FreeSlot` takes any free slot; the code takes the first, and nothing outside
the table can tell.

### How KinisiHeartbeat corresponds to the code

The same client with the other half abstracted: a frame is only the answer it
brings, but every stamp (`last_sent_ms_`, `last_poll_ms_`, `started`) and every
comparison of `poll` and `receive` is there, computed modulo `ClockSize` as the
code computes modulo 2^32. `interval` has one entry per source, whichever table
holds it: `poll` treats both alike, and no source is in both (proved for
`KinisiSystem`). The environment has its own clocks, which the client cannot
read: `age` (the watchdog runs on it), `unserved`, `loop`, `call.waited`. `Tick`
is one millisecond; it waits for whoever has to act first (`InTime`): the bus
within `Latency`, a controller that answers within `ReplyDelay`, `receive` when
its time is up, the sketch within `LoopPeriod`. A controller may also refuse, or
never answer. The watchdog is restarted by every command and expires on the
millisecond, which is the strictest reading of it. A send that reports a failure may have
got its frame through (`TransmitFails`): the bus may time out after the last byte.

### How ExampleSketches corresponds to the code

A sketch is data: the list of calls of its `setup`, whether a failed step leads
to `while (true) delay(1000)` or to `loop` without a session, and the calls of
`loop` once its period is over. position-control is two of them, with and without
`platformDemo`. `Issue` starts the next call or `delay`, with the actions of
`KinisiHeartbeat` for what the library does; `SetupSucceeds`, `SetupFails`,
`PollFailed`, `WorkDue`, `ToggleReturned` and so on are what the sketch does
with the result. Printing, and the display of samples from the cache, are left
out; `sensors` reads one temperature and one IMU. A step may be refused locally
in `setup`, where firmware and Wire buffer decide it, and not again later.
`Affect` adds the LED and a motor to the controller: a command is executed when
it is acknowledged, not when it is refused, and perhaps when there is no answer;
the watchdog stops the motor. Between two polls the sketch computes for at most
`LoopPeriod`, or sits in `delay`.

### How KinisiCodec and KinisiMethods correspond to the code

Numbers are an odd significand and a power of two, so that a sum or an `ldexp` is
computed exactly and then `Rounded` once, as IEEE 754 has it. `ReadMagnitude` and
`WriteDouble` are the branches for `sizeof(double) != 8`, operation by operation;
on other boards the bits are copied (`OnWire`). The size of a byte and of both
formats are parameters, in bits. Shifts are `\div` and `*` by `Pow2`, a recursive
function on the naturals; the loop of `readUnsigned` and the offsets are sums
(`Total`). `DecodeTelemetry` is `kinisiDecodeTelemetry` with its
literal offsets (`Offsets`), for the six topics; the two retired events, which `telemetry`
decodes itself (lines 427 to 438), are not part of the codec model; `Reading` is the tail of a getter, after the checks
that `request` makes of its reply (`ReplyMalformed`).

The 70 methods are one operator each way, `Payload` and `Reading`, over the types
of their arguments and results. The offsets are counted from the sizes of the
types, as the generator counts them; the 199 literal ones in `kinisi.cpp` were compared
with these and agree, but a wrong literal there is not something a run would find.
`RequestReads` has the offsets written by hand into `request`, which looks into
the payload for its checks and its tables. The controller takes a packed struct
apart field by field (`Unpacked`).

Definitions whose comment starts with "Mutant of" are not part of the model.
They are the definitions they name with one plausible mistake, kept to show that
each property of a run fails when the code is wrong in that way.

### The controller and the wire

The controller is written from the library's expectations: commands are served
in order, each answered by one ACK or ERROR; INIT is answered by INIT and READY
and starts an empty session; events can precede any reply; the watchdog or a
reset ends the session, a reset also empties the queues; any command may be
refused. A transaction that fails may or may not have moved its frame, in both
directions. Frames are not reordered and not duplicated by the bus: I2C is a
wire, and the library relies on the order (a single reply with its ID ends the
wait). `IdsDrain` is the one restriction on behaviours: once IDs have been
recycled, a call does not get an ID that a queued frame still carries. In the
code that would need 65535 calls to go by while one frame stays unread. Without
it TLC finds a counterexample to `CallsAtMostOnce` in run recycled_ids.

## 3. Runs

| Run | What it asks | States |
| --- | --- | --- |
| session | all kinds of call, one controller: session, tables and the refinements of `AtMostOnce` and `SubscriptionRegistry` | 388,014 |
| recycled_ids | three IDs, six calls: wrap-around and reuse | 160,551 |
| restart | the Arduino restarts anywhere, also on unread answers and streams of an earlier life | 1,548,991 |
| gated | known, unknown, old and incompatible boards, one slot, refused requests | 252,916 |
| gate | every profile, minors 1 to 14, seven Wire sizes, 351 requests | 551,772 |
| heartbeat | a punctual sketch, two sources, all timings | 1,098,480 |
| late_sketch | a sketch that lets the watchdog expire | 1,332,264 |
| codec | every 16-bit double, edge samples of all topics, all methods with edge arguments | 277,849 |
| sketches | the examples against refusals, silence and lost frames | 1,337,221 |
| oversized_event | a documented rejection that the code does not make | violation |
| last_error | `lastError()` after a `poll` that had nothing to do | violation |
| refused_toggle | blink-command after a refused toggle | violation |

Bounds. `MaxCalls` is the number of calls that put a frame on the bus. A
subscription session takes two calls (INIT, heartbeat), a subscription and its
replacement two more, and the fifth is the one that meets their leftovers:
a late reply, an event, a stale session. `ReplyBuffer` 3 holds a late reply, an
event and the reply, and two answers of INIT with an event before them (restart has 5, see below);
`CommandBuffer` 1, since the library sends one frame and waits: a second one is
only outstanding after a timeout, and the controller serves it in between.
Two slots with an encoder and a temperature subscription, one slot in gated, so
that the table is full. One encoder is enough for the exchange of generic and
retired delivery: nothing in the code relates two sources. `MaxId` 9 exceeds the
calls of a run; recycled_ids has 3 so that IDs come back twice. `Timeouts` has
0, which skips the nested request, and one other value. `MaxSubscriptions` ranges
over 1 to 16 in the code; the theorems hold for all of them.

restart has a controller that queues 5 replies, since an earlier life that was cut
off after one subscription leaves as many: INIT, READY, the heartbeat's ACK, the
subscription's ACK and an event. That is one of its initial states, once for a
stream that the new life asks for as well and once for one that it never names
(`LeftBehind`); TLC reaches the first from `Init` of `KinisiSystem` with six calls, in a trace of 22 states, so it is a state the system can be in. From there, and from nothing, there
are six calls more: a `begin` and a subscription that read stale answers, then a
`begin`, its heartbeat and a subscription with answers of their own. In this run the
controller refuses nothing but commands without a session.

All runs of `MCSystem` and `MCRestart` check deadlock: there is always something that can
happen. In the two runs of `MCGate` a behaviour is one question and its answer,
and deadlock is not checked. These runs check safety and assume no fairness.

In the two runs of `KinisiHeartbeat` the clock is small: 12 ms to a wrap, which is
more than any time that is compared (`TimingAssumption`; 2^32 ms are 49 days) and
little enough that every stamp meets every wrap. 6 ms of watchdog are refreshed
after 1 ms (500 and 100 in the code), intervals of 2 and 6 ms shared by two
sources give service every 1, 3, 2 and 6 ms.
The division that reaches zero (`AtLeastOne`) needs an interval below the number of
sources; no run has one, and `StreamsServed` covers it. A stopwatch of the environment stops
at `ClockSize`, past everything it is compared with. The fairness is that time
passes, that a call that can take its next step takes it (the code's loops do
nothing else) and that the sketch polls, as docs/connection-monitoring.md asks.
`late_sketch` has one source, and a loop of 4 ms against a watchdog of 5.

In sketches the times of the examples are scaled and keep their order: `Second`
8, `Monitoring` 5, `RequestTimeout` 7, `RunTime` 10, `Tenth` 1 and a clock of 16
for 1000, 500, 1000, 5000 and 100 ms and 2^32. `RunTime` with its delays just fits
the clock, so that every stamp is compared across the wrap. The fairness is the
same, with the steps of the sketch in place of its polls: `loop` is called again
and again. `MotionBound` is tight: one less and TLC finds a motion that lasts so
long. It is the time of the last frame that can reach the controller (`LastFrame`:
the start's answer or a loop, `RunTime`, and a poll and a stop with the loops
before them) and a watchdog after it. `DelayAssumption` is what the 100 ms pause of
position-control needs to fit into the watchdog; with the real 500 ms it leaves
close to 300 for a loop and a frame. blink-command has its pause excluded from `LoopKeepsSession`, which is the
third violation below.

In codec a byte has 2 bits, a wire double 16 bits (6 of exponent, 9 of
fraction), the board's double 5 and 3. That keeps the inequalities of 64, 11, 52
and 8, 23 bits (`FormatAssumption`: native numbers are normal on the wire, a
fraction scaled below 1 is in the native range) and has a fraction long enough,
9 bits against 3, for rounding twice to differ from rounding once. Every pattern
is read and sent back. A sample or a command has one field at an edge at a time:
the fields do not meet in the code but through their offsets, and the other
fields all differ. `SamplesAssumption` and `CommandsAssumption` say what the packed
structs can hold: bytes, patterns of doubles, integers of their width, native doubles
and booleans; and of results those that `request` does not refuse as malformed. A behaviour is one input on its way, so deadlock is not
checked.

The properties, all in `KinisiSystem` unless noted:

- `NothingOutlivesSession`: not ready means no subscriptions, heartbeat, profile.
- `SlotsDistinct`, `OneDeliveryPerSource`: shape of the tables.
- `SamplesOfThisSubscription`: a cached sample was sent for the subscription that
  now has the slot, never for one it replaced or one of an earlier session.
- `LegacySamplesSubscribed`: a retired getter shows only what is subscribed,
  although it never looks at `ready_`. A part of `SamplesRecovered` and, for the
  getters of one source, of `RegistryKept`.
- `TablesAgree`: between calls of a live session the library and the controller
  have the same subscriptions and the same monitoring state.
- `StreamsFitSlots`: the controller has at most as many generic streams as the library
  has slots for, also during a call and after a session was lost, where `TablesAgree`
  says nothing. gated has one slot and three sources that compete for it.
- `TablesRecovered`, `SamplesRecovered` (`KinisiRestart`): what holds after a restart,
  see below.
- `ExecutedAtMostOnce`: no call is executed twice or out of order.
- `CallsAtMostOnce`, `RegistryKept`: the refinements, see below.
- `GateCheck`: `OfferedIsAccepted`, `AcceptedReadIsOffered`,
  `NewerFirmwareRefusesNoMore`, `UnknownBoardNotGuessed`,
  `AcceptedSubscriptionIsServed`.
- `KinisiHeartbeat`: `SessionKept` (no expiry under a punctual sketch),
  `ClockExact` (no stamp is ever a wrap old when it is used), `ServedInTime`,
  `TimesOutOnTime`, `CallsReturn`, `LossNoticed`.
- `CodecCheck`: `RepresentableExact` (what the board can hold is read and sent
  back bit by bit), `ResentIsRead` (what is sent is what was read),
  `OrderKept`, `BeyondRangeInfinite`, `SampleArrives`, `WidthDecides` (when a
  narrow board refuses or accepts a sample that a wide one does not),
  `ReadingAgreesWithSample` (a getter and a subscription take the same data, or
  both refuse it), `CallArrives`.
- `ExampleSketches`: `LoopKeepsSession`, `MotionBounded`, `MotorStopsWithSession`,
  `LedMirrored`, `WorkAgain`.

`Punctual` says how often is often enough: one loop and one frame must fit into
four fifths of the watchdog's timeout, and with the longest answer into all of
it. With the defaults, 500 ms, that is a loop of under 400 ms. A reply that takes
longer than the watchdog allows, which the request timeout of 1000 ms permits,
costs the session; both runs keep `ReplyDelay` below the watchdog.

`AtMostOnce` is the comment on `request` ("Execute exactly one request; never
retry an operation that might have executed") as a specification: a caller, a
set of executed calls, no IDs, frames or sessions. `KinisiSystem` implements it
with `pending <- call.serial`, `last <- issued`, `done <-` the executed calls.
It gives more than `ExecutedAtMostOnce`: a call that succeeds was executed, so
the reply that completed it was not a late one of another call.

`SubscriptionRegistry` is the same for subscriptions: one table from sources to
the subscription that serves each, and calls that change the entry they name when
they succeed and no other. `KinisiSystem` implements it with an `Entry` made of
the slots, the retired intervals and the sample marks, as the getters see them.
That the ACK of one kind of subscription removes the other kind of the same
source, and of no other source, is a step of the abstract table here; a slot
number mixed up with a source, or a mask that outlives its subscription, is not.

Reading a double on a narrow board rounds up to three times, so the result is not
always the nearest native number, but always one of the two neighbours. A value
beyond the range becomes infinite: a telemetry sample with it is refused as
malformed there and accepted on other boards; a getter that checks nothing, like
`get_motor_position`, returns infinity. A negative current too small for the
board's double becomes -0 and passes. Odometry is the one topic whose getters
accept what the decoder of samples refuses, a value that is not finite or an
unknown clock.

What holds after a restart. IDs start at 1 again, and the controller keeps its
queues, so a late reply of the previous life can complete a call of the new one;
the library has no means against it, as IDs are not persisted. With the queue of
run restart, TLC refutes `TablesAgree` with a trace of 7 states, and
`SamplesOfThisSubscription` and `LegacySamplesSubscribed` with one of 13:
`begin` takes the answers to an earlier INIT for its own, a subscription is
taken for acknowledged that was not yet served, and a sample of the earlier life
is shown for it. None of the three is claimed with `CanRestart`. (On a
controller that keeps only 3 unread frames TLC does not refute the two about
samples, but nothing in the repository bounds its queue.) What is claimed is
that the confusion ends. `reused` is set when a call takes an ID that a queued
frame still carries, and reset when a `begin` reads the answer to its own INIT.
`TablesRecovered` and `SamplesRecovered` say that while it is not set, the three
properties hold, although tables and samples had been out of step before. The
argument is in the order of answers: whatever was queued before that INIT was
read before its answer, and INIT gave the controller a session without streams.
`ExecutedAtMostOnce` holds however often the Arduino restarts (proved).

`reused` is never set in a behaviour in which no call takes a used ID (`FreshIds`).
The theorems of section 4 have that as their hypothesis, so they speak of such
restarts for every length of the queues, and they prove it for a sketch that does
not restart. That a `begin` recovers is model-checked only.

The violations. `request` checks the event size of the retired subscriptions for
the platform only (line 327). With a Wire buffer of 19 to 22 bytes, which still
carries the INIT reply, an encoder subscription is sent although its 23-byte
event cannot be read; docs/connection-monitoring.md:63 says that oversized
subscriptions are rejected before transmission. The tests build with 32 bytes
and more, where this does not matter.

`poll` with nothing due returns true and leaves `error_` alone, so `lastError()`
is not the failure of the most recent operation, as kinisi_protocol.h:21 and :60
say, but of the last one that reached `request` or failed. Sketches that look only
when a call returned false are not affected.

blink-command answers a refused toggle with `delay(1000)`. Its watchdog is 500 ms, so
the controller has ended the session when the sketch polls again, and the sketch
does not call `begin` a second time: one refusal ends the blinking for good.
docs/connection-monitoring.md:3 asks sketches to avoid such delays, and
docs/protocol-v2.md:101 keeps the session after the refusal. README.md has the
sketch without the delay.

Two more things about position-control that the property states as its limits.
It takes any return of the stop command for a stop, so a controller that refuses
it is left running by a sketch that keeps feeding its watchdog; and any failed
`poll` clears `moving`, after which the stop is never sent. `MotionBounded` holds
unless the controller refuses a command (`refused`): a lost frame, silence or the end of the
session stop the motor in time, because then the watchdog does.

## 4. Proofs

`KinisiSystemProofs` proves, for all values of the constants under the named
assumptions (`WireAssumption`, `ProtocolAssumption`, `RequestAssumption`,
`ControllerAssumption`, `SystemAssumption`: sizes are naturals, at most 16 slots,
requests have the fields of their command, error codes are error codes):

- `TypeCorrect`: `Spec => []TypeOK`. `TypeOK` is inductive. It types the frames
  in both queues as well, since what an ACK writes into a table comes from there.
- `TablesInvariant`: `Spec => []TableInv`, and from it `SessionEndsClean`,
  `SlotsStayDistinct` and `OneDelivery`. The three properties are not inductive
  by themselves: an ACK writes the slot that was chosen when the request left.
  `CallConsistent` adds what the call in progress still knows: no other slot
  serves its source, a `begin` in progress finds everything cleared, and any
  other call runs in a ready session. `ChosenSlot` shows that the gate and the
  slot search establish it, `WaitTable` that events do not disturb it.
- `OrderInvariant`: `Spec => []InOrder`, and from it `AtMostOnceExecution`.
  What is queued is ordered, younger than all that was executed and not younger
  than what was issued; sending appends the youngest, serving takes the oldest.

None of these needs `IdsDrain`: types, tables and the order of execution do not
depend on IDs being unique.

The next three modules follow the frames. Their theorems are about every length of
the queues, any number of slots, IDs and calls, and any requests and failures. They
have one hypothesis, `[][FreshIds]_vars`, that no call takes an ID that a queued frame
carries. `NoRestartNoReuse` proves it from `~CanRestart`: until IDs are recycled they
are the numbers of the calls (`IdsAreSerials`), after that `IdsDrain` says so. A
restart is allowed as long as it does not break it.

`KinisiQueueProofs`: `QueueInvariant`, `Spec /\ [][FreshIds]_vars => []QueueInv`.

- `AnswersInOrder`: replies and errors come in the order of their calls and before
  whatever is not yet served; a reply is to an executed call.
- `OwnFrames`: the ID of the call that waits is on its own frames and no others, and
  they answer what it asked for. So the ID that `receive` compares is enough.
- `Quiet`: a ready session has nothing of an earlier one in the queues. It holds when
  `begin` returns because READY is the last frame then (`ReadyIsLast`), and the call
  in progress is the last one issued (`CallInv`).

From it `ImplementsAtMostOnce`, step by step: a send is an issue, serving is
execution, a return is success only after the call was executed.

`KinisiStreamProofs`: `StreamInvariant`, that library and controller never drift apart.
`GenericAfter` and `RetiredAfter` say what a request does to either's subscriptions.
`InStep`: what the library has, changed by the ACK it has yet to read, is what the
controller serves; `EventsExpected`: an event on its way is of a subscription that the
library has when it reads it, counting the ACKs in front of it; `DownIsSilent`: a
controller without a session serves none. `SampleOfItsSubscription`,
`RetiredSampleIsSubscribed` (together inductive, given the rest) and
`TablesStayInStep` are `SamplesOfThisSubscription`, `LegacySamplesSubscribed` and
`TablesAgree`; `NoRestart` is all three from `~CanRestart`.

`KinisiRegistryProofs`: `ImplementsRegistry`, that `KinisiSystem` implements
`SubscriptionRegistry`, and `NoRestartRegistry` the same from `~CanRestart`. The
mapping computes an `Entry` from three tables; the lemmas say which entries an
assignment in the code touches. The count of generic entries is at most the number
of slots by an injection of the sources into the slots (`Room`). `SlotsAreOlder` adds
that no slot was filled by a call to come.

`KinisiHeartbeatProofs` proves every safety property of `KinisiHeartbeat`, for every
width of the clock, every set of sources, intervals and watchdog timeouts, and
every latency, reply delay, request timeout and loop period that meet
`TimingAssumption` (and `StreamsAssumption`: finitely many sources):

- `TypeCorrect`: `Spec => []TypeOK`, from `Typed`, which adds that a call in
  progress has a value its command can have.
- `SessionIsKept`, `StreamsServed`, `ClocksExact`, `GivenUpOnTime`: the properties
  `SessionKept`, `ServedInTime`, `ClockExact` and `TimesOutOnTime`. None is
  inductive: each speaks of the state between calls, and is decided by how long
  the frame, the answer and the loop before it took. The invariant follows a call
  through its phases, in four parts:
  - `TimeInv`: how old the last frame is, counted from the poll or the answer that
    the loop started from (`Recent`), while idle, on the bus and under the
    controller. It keeps `last_sent_ms_` from ever being a wrap old
    (`ElapsedNext`: an unsigned difference grows by one in a millisecond until it
    is as long as the clock).
  - `AliveInv`, under `Punctual` only: the session is alive, and the two sides
    agree on the watchdog but for an ACK in flight (`AnswerAlive`).
  - `ServedInv`: how late the streams are (`Overdue`), with what a minimum and a
    quotient of a changing table of intervals do: taking a source out never
    shortens the service time (`ServiceSlower`).
  - `WaitInv`: how long a call has waited; an answer on its way is always in time,
    so only silence meets the timeout.

  `ClocksExact`, `StreamsServed` and `GivenUpOnTime` do not need a punctual sketch.

`GateCheckProofs` proves the gate's properties for every board profile,
protocol minor, Wire buffer and request (`LinkAssumption`, `QuestionAssumption`:
a link and a request have the fields that are read, with unsigned values):

- `FirmwareUpdateLosesNothing`: `NewerFirmwareRefusesNoMore`. Each helper and each
  group of checks compares the minor from below only (`SupportsNewer`,
  `NewerRefusesNoMore`), so the chain of early returns still ends in NONE.
- `UnknownBoardIsNotGuessed`: `UnknownBoardNotGuessed`. Every check of the hardware
  asks for a known profile first (`UnknownPasses`).
- `AcceptedIsServed`: `AcceptedSubscriptionIsServed`, the bounds of every interval
  and silence that is let through.

- `OfferIsKept`: `OfferedIsAccepted`, command by command: the minors, profile fields
  and frame sizes that a helper reads imply those that `request` and `send` read.
- `NoUnfittedSensorRead`: `AcceptedReadIsOffered`, the converse for reads.

`OfferIsKept` holds for profiles like the bundled ones: at most four motors, PWM
frequencies that `kinisiPwmFrequencyValid` accepts, current thresholds that are not
zero (`BoardProfiles`). The frequencies and the motors are nowhere enforced:
`tools/update-board-profiles.py` (lines 34 to 39 and 49) takes any 32-bit frequency
and as many motors as the resources say, while `request` has both limits written in.
A table with others would make helpers offer what the gate refuses. TLC checks that
the bundled table meets the assumption.

`ExampleSketchesProofs` proves the safety properties of the examples for every clock,
period, delay, latency and reply delay under `SketchAssumption` and
`DelayAssumption`, and for all the sketches:

- `SketchKeepsSession`: `LoopKeepsSession`. The client's invariants of
  `KinisiHeartbeatProofs` assume a sketch that polls; this is the proof that these
  sketches do. `ProgramInv` follows a sketch through its program, `FreshInv` says at
  each place how old the last frame is at most, and that the session is alive.
  Set-up, the pause of position-control and the loop need different bounds.
- `BlinkMirrors`: `LedMirrored`, by `BlinkInv`, which says what flag and LED are while a
  toggle is under way, answered, or of unknown fate.
- `MotionEnds`: `MotionBounded`. `MotorInv` says when a motor can run at all,
  `MotionInv` bounds `ran` in four phases: starting, looping, polling, stopping; after
  the last frame the watchdog's age bounds it. The theorem led to a correction of the
  bound: the earlier one fitted only a `LoopPeriod` of 1, and TLC refutes it for 2.

`CodecCheckProofs` proves every property of `CodecCheck`, for every size of byte and
every pair of formats under `FormatAssumption` (8 bits; 11 and 52; 8 and 23 satisfy
it), every pattern, and all samples and calls their structs can hold. No loop and no
rounding is unrolled for a fixed width.

- Induction. The library's induction theorems take an operator as a parameter.
  `InductionOverNat` takes a set instead: one that holds 0 and the successor of all it
  holds contains every natural number. It follows from the well-foundedness of `<`.
  `RecursiveFunctionExists` makes a definition by recursion usable, which gives the
  laws of `Pow2` and `Total`, and `WrittenIsRead`: bytes written by `writeUnsigned`
  anywhere are read by `readUnsigned` as the number, if it fits.
- Rounding. The exponents of all numbers that meet are bounded from below, so a plain
  number has a natural `Val`, in units of the smallest one (`Scale`). On these,
  `Rounded` is `Nearest` multiple of a power of two, the `Grid` of the number, and
  ties go to even. Nearest multiples keep order (`Below`), numbers on the grid stay, and
  the power of two above a number bounds what it is rounded to.
- Patterns. A pattern is a sign, an exponent field and a fraction (`Pattern`), `Sent` and
  `Got` are what it denotes and what a narrow board reads. Of the three roundings in
  `readDouble`, the first two are of numbers whose range is known (`Whole`, `Part`,
  `OneAnd`), which is what `FormatAssumption` is for: nothing overflows or becomes
  subnormal before the last one. From this follow the facts `DoubleExact`,
  `DoubleResent`, `DoubleOrder` and `DoubleBeyond`. `Coded` is `frexp`'s way back.
- Layout. A type has a size, so what is packed before a field determines its offset; a
  field read at its offset is the field that was packed (`FieldRead`). `Sized`, `Fits`,
  `Returns` and `Placed` compare the tables of arguments and results with the frame
  sizes and with the offsets written into `request`, group by group. `Includes` and
  `Apart` carry the groups through the joined tables: no method is in two groups.
- The invariant `Done` says of each use what has been done with its input so far
  (`DoneInvariant`). It is that simple because a behaviour is one input on its way;
  what is hard is that the state it describes has the properties.

The theorems are `RepresentableExactAlways`, `ResentIsReadAlways`, `OrderKeptAlways`,
`BeyondRangeInfiniteAlways`, `SampleArrivesAlways`, `WidthDecidesAlways`,
`ReadingAgreesAlways` (for `ReadingAgreesWithSample`) and `CallArrivesAlways`. The samples
and calls of the run are TLC's choice of edges; the theorems hold for all of them.

With it every invariant that a run expects to hold, but for those listed next, every
safety action property and both refinements are stated by a theorem.

Only model-checked:

- `CallsReturn`, `LossNoticed`, `WorkAgain` and `MotorStopsWithSession`, which are
  liveness;
- `TablesRecovered` and `SamplesRecovered` beyond `FreshIds`: that a `begin` recovers;
- `StreamsFitSlots`.

Some definitions of the model are written so that the provers can read them. Tables are
joined with an operator of their own (`Beside`) where TLC's `@@` would do; powers of two
and sums are recursive functions (`Pow2`, `Total`) where `^` and a fold, which the
provers cannot unfold, would do; the arms of the `CASE` in `WriteDouble` are disjoint. `RequestAssumption` excludes the two names the
model uses for the halves of INIT from the commands a sketch may send.

## 5. Plan

What is left is a review of the assumptions on constants: which are necessary, shown by
a counterexample of TLC when they are dropped.

## 6. Not modelled

The build number of the identity, `kinisiWireBegin` and AVR storage keep no
state that the properties see. The tools in `tools/` are sequential programs
that check their input, render all their output in memory and then write the
files one after the other, or compare them with `--check`: nothing runs beside
them and nothing is kept between two runs. Of the generator the rule for offsets is
modelled, because it decides what goes over the wire; the table that the profile
updater produced is `KinisiBoardProfiles`. The test harness is not the system. Firmware behaviour
beyond what the library relies on is another repository's.
