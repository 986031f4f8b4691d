--------------------------- MODULE KinisiHeartbeat ---------------------------
(***************************************************************************)
(* Time in the class KinisiProtocol: the wrapping clock millis(), the      *)
(* timeout of a call, and poll(), which has to serve the subscriptions and *)
(* keep the controller's watchdog from expiring.  KinisiProtocol leaves    *)
(* all of this open; here it is what is modelled, and a frame is reduced   *)
(* to the answer it brings.                                                *)
(*                                                                         *)
(* At most LoopPeriod passes between two polls of the sketch.  A frame     *)
(* takes up to Latency on the bus, and a controller that answers does so   *)
(* within ReplyDelay; any call may also get no answer at all.              *)
(***************************************************************************)
EXTENDS Integers, FiniteSets, FiniteSetsExt

CONSTANTS
  ClockSize,          \* millis() counts modulo this, 2^32
  Streams,            \* sources that can be subscribed to
  Intervals,          \* intervals the sketch subscribes with
  Heartbeats,         \* watchdog timeouts it configures, 0 to switch it off
  RequestTimeout,     \* timeout_ms_
  Latency, ReplyDelay, LoopPeriod

\* A controller that answers is in time for the call, and whatever the library
\* waits for comes well before the clock has wrapped.
ASSUME TimingAssumption ==
  /\ {Latency, ReplyDelay, RequestTimeout} \subseteq Nat \ {0}
  /\ {LoopPeriod, ClockSize} \subseteq Nat
  /\ Heartbeats \subseteq Nat /\ Intervals \subseteq Nat \ {0}
  /\ Latency + ReplyDelay < RequestTimeout
  /\ RequestTimeout + Latency < ClockSize - 1
  /\ \A t \in Heartbeats \cup Intervals :
       t + Latency + ReplyDelay + LoopPeriod < ClockSize

ASSUME StreamsAssumption == IsFiniteSet(Streams)

VARIABLES
  now,                \* millis()
  ready,              \* ready_
  heartbeat,          \* heartbeat_ms_
  lastSent,           \* last_sent_ms_
  lastPoll,           \* last_poll_ms_
  interval,           \* interval_ms of the slot of a source, or subscription_ms_
  error,              \* the kind of failure in error_
  ok,                 \* what the last operation returned
  call,               \* the call in progress
  watchdog,           \* the controller's timeout, 0 when it does not monitor
  expired,            \* the controller's session is over
  age,                \* ms since the controller last received a command
  unserved,           \* history: ms since the streams were served, if any
  loop                \* ms since the sketch polled

client == <<ready, heartbeat, lastSent, lastPoll, interval, error, ok, call>>
controller == <<watchdog, expired>>
clocks == <<now, age, unserved, loop>>
vars == <<client, controller, clocks>>

----------------------------------------------------------------------------
(* Values *)

\* The commands that change the client's state when they are acknowledged; of
\* the others STOP_MOTOR stands for all.
StateCommands == {"INIT", "SET_HEARTBEAT_CONFIG", "SUBSCRIBE", "UNSUBSCRIBE"}
Commands == StateCommands \cup {"PING", "POLL_TELEMETRY", "STOP_MOTOR"}

NoStream == "none"

Idle == [phase |-> "idle", command |-> "PING", stream |-> NoStream, value |-> 0,
         begin |-> FALSE, started |-> 0, waited |-> 0, answer |-> "NONE"]

\* UINT32_MAX: no subscription, in the search for the shortest interval.
NoInterval == ClockSize - 1

\* Bound: a stopwatch of the model stops here, past all that is compared.
Later(t) == IF t < ClockSize THEN t + 1 ELSE t

NextMillis == (now + 1) % ClockSize

\* uint32_t(millis() - t): right across the wrap of millis().
Elapsed(t) == (now - t) % ClockSize

\* Mutant of TimeUp: the deadline is not reduced to the clock's range.
TimeUpBeyondClock(slack) == now >= call.started + RequestTimeout + slack

\* Mutant of TimeUp: the deadline wraps, and is compared as a number.
TimeUpWrapped(slack) == now >= (call.started + RequestTimeout + slack) % ClockSize

\* The loop of receive() has run for timeout_ms_, and a read of the bus more.
TimeUp(slack) == Elapsed(call.started) >= RequestTimeout + slack

Subscribed == {s \in Streams : interval[s] # 0}

Shortest == Min({interval[s] : s \in Subscribed} \cup {NoInterval})

AtLeastOne(ms) == IF ms = 0 THEN 1 ELSE ms

\* Mutant of ServiceMs: one service for all sources in the shortest interval.
ServiceMsNotShared == AtLeastOne(Shortest)

\* service_ms: one service per source in the shortest interval.
ServiceMs ==
  AtLeastOne(IF Subscribed = {} THEN Shortest
             ELSE Shortest \div Cardinality(Subscribed))

TelemetryDue == Shortest # NoInterval /\ Elapsed(lastPoll) >= ServiceMs

\* Mutant of PingDue: the link is refreshed after the whole timeout.
PingDueTooLate == heartbeat # 0 /\ Elapsed(lastSent) >= heartbeat

PingDue == heartbeat # 0 /\ Elapsed(lastSent) >= heartbeat \div 5

----------------------------------------------------------------------------
(* Starting a call *)

\* request() or begin() from its first statement up to the Wire transaction.
Start(command, stream, value, begin) ==
  /\ call' = [Idle EXCEPT !.phase = "sending", !.command = command,
                          !.stream = stream, !.value = value,
                          !.begin = begin, !.started = now]
  /\ error' = "NONE"

Unsubscribed == [s \in Streams |-> 0]

ClearSession == ready' = FALSE /\ heartbeat' = 0 /\ interval' = Unsubscribed

\* begin(): forgets the session, then sends INIT.
Begin(timeout) ==
  /\ call = Idle
  /\ Start("INIT", NoStream, timeout, TRUE)
  /\ ClearSession
  /\ loop' = 0
  /\ UNCHANGED <<lastSent, lastPoll, ok, controller, now, age, unserved>>

\* A command of the sketch that passes the local checks.
Call(command, stream, value) ==
  /\ call = Idle /\ ready
  /\ Start(command, stream, value, FALSE)
  /\ UNCHANGED <<ready, heartbeat, lastSent, lastPoll, interval, ok,
                 controller, clocks>>

\* One that still fits into the loop of the sketch.
Command(command, stream, value) ==
  /\ loop + Latency + ReplyDelay <= LoopPeriod
  /\ Call(command, stream, value)

SketchCommand ==
  \/ \E t \in Heartbeats : Command("SET_HEARTBEAT_CONFIG", NoStream, t)
  \/ \E s \in Streams, i \in Intervals : Command("SUBSCRIBE", s, i)
  \/ \E s \in Streams : Command("UNSUBSCRIBE", s, 0)
  \/ Command("STOP_MOTOR", NoStream, 0)

\* A command that request() refuses locally.
Refuse ==
  /\ call = Idle
  /\ error' = IF ready THEN "INVALID_ARGUMENT" ELSE "NOT_READY"
  /\ ok' = FALSE
  /\ UNCHANGED <<ready, heartbeat, lastSent, lastPoll, interval, call,
                 controller, clocks>>

\* poll() without a session.
PollNotReady ==
  /\ call = Idle /\ ~ready
  /\ error' = "NOT_READY" /\ ok' = FALSE
  /\ loop' = 0
  /\ UNCHANGED <<ready, heartbeat, lastSent, lastPoll, interval, call,
                 controller, now, age, unserved>>

\* poll(): the streams are due for service.
PollTelemetry ==
  /\ call = Idle /\ ready /\ TelemetryDue
  /\ lastPoll' = now
  /\ Start("POLL_TELEMETRY", NoStream, 0, FALSE)
  /\ unserved' = 0 /\ loop' = 0
  /\ UNCHANGED <<ready, heartbeat, lastSent, interval, ok, controller, now, age>>

\* poll(): the link has been idle.
PollPing ==
  /\ call = Idle /\ ready /\ ~TelemetryDue /\ PingDue
  /\ Start("PING", NoStream, 0, FALSE)
  /\ loop' = 0
  /\ UNCHANGED <<ready, heartbeat, lastSent, lastPoll, interval, ok,
                 controller, now, age, unserved>>

\* poll(): nothing is due.
PollNothing ==
  /\ call = Idle /\ ready /\ ~TelemetryDue /\ ~PingDue
  /\ ok' = TRUE
  /\ loop' = 0
  /\ UNCHANGED <<ready, heartbeat, lastSent, lastPoll, interval, error, call,
                 controller, now, age, unserved>>

----------------------------------------------------------------------------
(* The rest of the call *)

Finish(success) == call' = Idle /\ ok' = success

\* fail() with a failure that ends the session.
FailSession(failure) ==
  /\ Finish(FALSE)
  /\ error' = failure
  /\ ClearSession
  /\ UNCHANGED <<lastSent, lastPoll>>

\* What the controller will answer: it may refuse anything, has to refuse what
\* needs a session or monitoring that is not there, and may stay silent.
Answers ==
  IF expired /\ call.command # "INIT" THEN {"INIT_REQUIRED", "NONE"}
  ELSE IF call.command = "SUBSCRIBE" /\ watchdog = 0 THEN {"ERROR", "NONE"}
  ELSE {"ACK", "ERROR", "NONE"}

\* The controller executes what it acknowledges.
Execute(answer) ==
  IF answer # "ACK" THEN UNCHANGED controller
  ELSE CASE call.command = "INIT" -> watchdog' = 0 /\ expired' = FALSE
         [] call.command = "SET_HEARTBEAT_CONFIG" ->
              watchdog' = call.value /\ UNCHANGED expired
         [] OTHER -> UNCHANGED controller

\* Mutant of Transmit: the time of the transmission is not noted.
TransmitUntimed ==
  /\ call.phase = "sending"
  /\ age' = 0
  /\ \E answer \in Answers :
       /\ call' = [call EXCEPT !.phase = "waiting", !.answer = answer]
       /\ Execute(answer)
  /\ UNCHANGED <<lastSent, ready, heartbeat, lastPoll, interval, error, ok,
                 now, unserved, loop>>

\* send(): the frame has gone through.
Transmit ==
  /\ call.phase = "sending"
  /\ lastSent' = now
  /\ age' = 0
  /\ \E answer \in Answers :
       /\ call' = [call EXCEPT !.phase = "waiting", !.answer = answer]
       /\ Execute(answer)
  /\ UNCHANGED <<ready, heartbeat, lastPoll, interval, error, ok,
                 now, unserved, loop>>

\* send() reports a failure: the frame did not get through, or it did, and the bus
\* timed out after it; what the controller then answers is never waited for.
TransmitFails ==
  /\ call.phase = "sending"
  /\ FailSession("TRANSPORT")
  /\ \/ UNCHANGED <<controller, clocks>>
     \/ /\ age' = 0
        /\ \E answer \in Answers : Execute(answer)
        /\ UNCHANGED <<now, unserved, loop>>

\* receive() reads the answer before its time is up.
Receive(answer) ==
  /\ call.phase = "waiting" /\ call.answer = answer /\ ~TimeUp(0)
  /\ UNCHANGED <<lastSent, controller, now, age, loop>>

\* begin() is ready, and goes on to its heartbeat request if it is to make one.
ReceiveReady ==
  /\ Receive("ACK") /\ call.command = "INIT"
  /\ ready' = TRUE
  /\ IF call.value # 0
     THEN Start("SET_HEARTBEAT_CONFIG", NoStream, call.value, TRUE) /\ UNCHANGED ok
     ELSE Finish(TRUE) /\ UNCHANGED error
  /\ UNCHANGED <<heartbeat, lastPoll, interval, unserved>>

\* Mutant of ReceiveHeartbeatAck: what is stored is the idle time before a PING.
ReceiveHeartbeatAckStoresIdle ==
  /\ Receive("ACK") /\ call.command = "SET_HEARTBEAT_CONFIG"
  /\ heartbeat' = call.value \div 5
  /\ interval' = IF call.value = 0 THEN Unsubscribed ELSE interval
  /\ Finish(TRUE)
  /\ UNCHANGED <<ready, lastPoll, error, unserved>>

ReceiveHeartbeatAck ==
  /\ Receive("ACK") /\ call.command = "SET_HEARTBEAT_CONFIG"
  /\ heartbeat' = call.value
  /\ interval' = IF call.value = 0 THEN Unsubscribed ELSE interval
  /\ Finish(TRUE)
  /\ UNCHANGED <<ready, lastPoll, error, unserved>>

\* Mutant of ReceiveSubscribeAck: the service clock is not started.
ReceiveSubscribeAckUntimed ==
  /\ Receive("ACK") /\ call.command = "SUBSCRIBE"
  /\ interval' = [interval EXCEPT ![call.stream] = call.value]
  /\ unserved' = 0
  /\ Finish(TRUE)
  /\ UNCHANGED <<lastPoll, ready, heartbeat, error>>

ReceiveSubscribeAck ==
  /\ Receive("ACK") /\ call.command = "SUBSCRIBE"
  /\ interval' = [interval EXCEPT ![call.stream] = call.value]
  /\ lastPoll' = now /\ unserved' = 0
  /\ Finish(TRUE)
  /\ UNCHANGED <<ready, heartbeat, error>>

ReceiveUnsubscribeAck ==
  /\ Receive("ACK") /\ call.command = "UNSUBSCRIBE"
  /\ interval' = [interval EXCEPT ![call.stream] = 0]
  /\ Finish(TRUE)
  /\ UNCHANGED <<ready, heartbeat, lastPoll, error, unserved>>

ReceiveOtherAck ==
  /\ Receive("ACK") /\ call.command \notin StateCommands
  /\ Finish(TRUE)
  /\ UNCHANGED <<ready, heartbeat, lastPoll, interval, error, unserved>>

\* fail() with an error of the controller that leaves the session; a begin()
\* that was setting its heartbeat is then not ready.
ReceiveError ==
  /\ Receive("ERROR")
  /\ Finish(FALSE) /\ error' = "CONTROLLER"
  /\ ready' = (ready /\ ~call.begin)
  /\ UNCHANGED <<heartbeat, lastPoll, interval, unserved>>

\* Mutant of ReceiveInitRequired: the code is not on the list that ends a session.
ReceiveInitRequiredKept ==
  /\ Receive("INIT_REQUIRED")
  /\ Finish(FALSE) /\ error' = "CONTROLLER"
  /\ UNCHANGED <<ready, heartbeat, interval, lastPoll, unserved>>

ReceiveInitRequired ==
  /\ Receive("INIT_REQUIRED")
  /\ FailSession("CONTROLLER")
  /\ UNCHANGED unserved

Timeout ==
  /\ call.phase = "waiting" /\ TimeUp(0)
  /\ FailSession("TIMEOUT")
  /\ UNCHANGED <<controller, clocks>>

----------------------------------------------------------------------------
(* Time *)

\* Who has to act before the next millisecond: the bus, the controller that is
\* going to answer, receive() whose time is up, the sketch.
InTime ==
  CASE call.phase = "sending" -> call.waited < Latency
    [] call.phase = "waiting" /\ call.answer # "NONE" -> age < ReplyDelay
    [] call.phase = "waiting" /\ call.answer = "NONE" -> ~TimeUp(Latency)
    [] call.phase = "idle" -> loop < LoopPeriod

\* A poll, and begin(), are not part of the loop between polls.
InLoop == call.command \notin {"POLL_TELEMETRY", "PING"} /\ ~call.begin

\* A millisecond passes.
Advance ==
  /\ now' = NextMillis
  /\ age' = Later(age)
  /\ unserved' = IF Subscribed = {} THEN 0 ELSE Later(unserved)
  /\ loop' = IF call = Idle \/ InLoop THEN Later(loop) ELSE loop
  /\ call' = IF call = Idle THEN call ELSE [call EXCEPT !.waited = Later(@)]
  /\ expired' = (expired \/ (watchdog # 0 /\ Later(age) >= watchdog))
  /\ UNCHANGED <<ready, heartbeat, lastSent, lastPoll, interval, error, ok, watchdog>>

Tick == InTime /\ Advance

----------------------------------------------------------------------------
Init ==
  /\ now \in 0 .. ClockSize - 1
  /\ ready = FALSE /\ heartbeat = 0
  /\ lastSent = 0 /\ lastPoll = 0
  /\ interval = Unsubscribed
  /\ error = "NONE" /\ ok = TRUE
  /\ call = Idle
  /\ watchdog = 0 /\ expired = TRUE
  /\ age = 0 /\ unserved = 0 /\ loop = 0

Poll == PollNotReady \/ PollTelemetry \/ PollPing \/ PollNothing

Sketch == (\E t \in Heartbeats : Begin(t)) \/ SketchCommand \/ Refuse \/ Poll

\* The steps of a call in progress.
Progress ==
  \/ Transmit \/ TransmitFails
  \/ ReceiveReady \/ ReceiveHeartbeatAck \/ ReceiveSubscribeAck
  \/ ReceiveUnsubscribeAck \/ ReceiveOtherAck \/ ReceiveError
  \/ ReceiveInitRequired \/ Timeout

Next == Sketch \/ Progress \/ Tick

Spec == Init /\ [][Next]_vars

\* Time passes, a call that can take its next step takes it, and the sketch
\* polls in its loop.
Fairness == WF_vars(Tick) /\ WF_vars(Progress) /\ WF_vars(Poll)

FairSpec == Spec /\ Fairness

----------------------------------------------------------------------------
(* Properties *)

Stopwatch == 0 .. ClockSize

TypeOK ==
  /\ {now, lastSent, lastPoll} \subseteq 0 .. ClockSize - 1
  /\ ready \in BOOLEAN /\ ok \in BOOLEAN /\ expired \in BOOLEAN
  /\ heartbeat \in Heartbeats \cup {0}
  /\ watchdog \in Heartbeats \cup {0}
  /\ interval \in [Streams -> Intervals \cup {0}]
  /\ error \in {"NONE", "NOT_READY", "INVALID_ARGUMENT", "TRANSPORT",
                "CONTROLLER", "TIMEOUT"}
  /\ {age, unserved, loop, call.waited} \subseteq Stopwatch
  /\ call \in [phase : {"idle", "sending", "waiting"}, command : Commands,
               stream : Streams \cup {NoStream}, value : Nat, begin : BOOLEAN,
               started : 0 .. ClockSize - 1, waited : Stopwatch,
               answer : {"NONE", "ACK", "ERROR", "INIT_REQUIRED"}]

\* A poll that finds nothing due leaves a whole loop, and then the bus, before
\* the next frame gets through; the last frame may be as old as ReplyDelay.
Punctual ==
  \A t \in Heartbeats \ {0} :
    /\ Latency + LoopPeriod + t \div 5 <= t
    /\ Latency + LoopPeriod + ReplyDelay < t

\* With a sketch that polls often enough, whatever it subscribes to, sends or
\* reconfigures, the watchdog never expires in a session the library believes
\* in: poll() is in time with heartbeat_ms_ / 5 of silence.
SessionKept == Punctual /\ ready /\ call = Idle => ~expired

\* What poll() computes from millis() is the time that passed: neither stamp
\* is ever as old as a wrap of the clock while poll() looks at it.
ClockExact ==
  ready /\ call = Idle =>
    /\ heartbeat # 0 => Elapsed(lastSent) = age
    /\ Subscribed # {} => Elapsed(lastPoll) = unserved

\* With n streams poll() goes to the bus n times in the shortest interval, up
\* to one call and one loop of delay.
ServedInTime ==
  ready /\ call = Idle /\ Subscribed # {} =>
    unserved <= Shortest \div Cardinality(Subscribed)
                + LoopPeriod + Latency + ReplyDelay

\* A call is given up when its timeout has passed, no earlier and at most one
\* read of the bus later, also when millis() wraps while it waits.
TimesOutOnTime ==
  [][call # Idle /\ error' = "TIMEOUT" =>
       call.waited \in RequestTimeout .. RequestTimeout + Latency]_vars

\* Every blocking call returns, though the controller may never answer.
CallsReturn == (call # Idle) ~> (call = Idle)

\* A session the controller has given up is given up by the library, though the
\* sketch does nothing but poll: the next heartbeat brings it INIT_REQUIRED.
LossNoticed == (ready /\ expired) ~> ~ready

\* kinisi_protocol.h: lastError() is the failure of the most recent operation.
LastErrorOfLastOperation == call = Idle => (ok <=> error = "NONE")
=============================================================================
