------------------------ MODULE KinisiHeartbeatProofs ------------------------
(***************************************************************************)
(* Proofs about KinisiHeartbeat, for every size of the clock, every set of *)
(* sources, intervals and heartbeat timeouts, and every latency, reply     *)
(* delay and loop period that meets TimingAssumption.                      *)
(***************************************************************************)
EXTENDS KinisiHeartbeat, FiniteSetTheorems, WellFoundedInduction, TLAPS

----------------------------------------------------------------------------
(* The wrapping clock *)

Millis == 0 .. ClockSize - 1

\* The clock has at least one value, and the assumptions in a form the provers use.
LEMMA ClockFacts ==
  /\ ClockSize \in Nat \ {0}
  /\ RequestTimeout \in Nat /\ Latency \in Nat /\ ReplyDelay \in Nat /\ LoopPeriod \in Nat
  /\ 0 \in Millis
  /\ Heartbeats \subseteq Nat /\ Intervals \subseteq Nat \ {0}
BY TimingAssumption DEF Millis

\* uint32_t(n - t) is n - t, or n - t plus one wrap.
LEMMA ElapsedValue ==
  ASSUME NEW n \in Millis, NEW t \in Millis
  PROVE  (n - t) % ClockSize = IF t <= n THEN n - t ELSE n - t + ClockSize
<1>1. CASE t <= n
  <2>1. n - t \in 0 .. ClockSize - 1
    BY <1>1, ClockFacts DEF Millis
  <2>. QED
    BY <1>1, <2>1, ClockFacts
<1>2. CASE ~(t <= n)
  <2>1. /\ n - t \in Int /\ 0 - ClockSize <= n - t /\ n - t < 0
    BY <1>2, ClockFacts DEF Millis
  <2>2. (n - t) % ClockSize = n - t + ClockSize
    BY <2>1, ClockFacts
  <2>. QED
    BY <1>2, <2>2
<1>. QED
  BY <1>1, <1>2

\* The clock stays in its range.
LEMMA NextMillisValue ==
  ASSUME now \in Millis
  PROVE  NextMillis = IF now = ClockSize - 1 THEN 0 ELSE now + 1
<1>1. CASE now = ClockSize - 1
  <2>1. ClockSize % ClockSize = 0
    BY ClockFacts
  <2>2. now + 1 = ClockSize
    BY <1>1, ClockFacts
  <2>. QED
    BY <1>1, <2>1, <2>2 DEF NextMillis
<1>2. CASE now # ClockSize - 1
  <2>1. now + 1 \in 0 .. ClockSize - 1
    BY <1>2, ClockFacts DEF Millis
  <2>2. (now + 1) % ClockSize = now + 1
    BY <2>1, ClockFacts
  <2>. QED
    BY <1>2, <2>2 DEF NextMillis
<1>. QED
  BY <1>1, <1>2

\* A stamp just taken is zero milliseconds old.
LEMMA ElapsedOfNow ==
  ASSUME now \in Millis
  PROVE  Elapsed(now) = 0
BY ElapsedValue, ClockFacts DEF Elapsed, Millis

\* A stamp ages by a millisecond in a millisecond, across the wrap of millis()
\* too, until it is as old as the clock is long.
LEMMA ElapsedNext ==
  ASSUME now \in Millis, NEW t \in Millis, Elapsed(t) + 1 < ClockSize, now' = NextMillis
  PROVE  (now' - t) % ClockSize = Elapsed(t) + 1
<1>1. now' \in Millis
  BY NextMillisValue, ClockFacts DEF Millis
<1>2. (now' - t) % ClockSize = IF t <= now' THEN now' - t ELSE now' - t + ClockSize
  BY <1>1, ElapsedValue
<1>3. Elapsed(t) = IF t <= now THEN now - t ELSE now - t + ClockSize
  BY ElapsedValue DEF Elapsed
<1>. QED
  BY <1>2, <1>3, NextMillisValue, ClockFacts DEF Millis

----------------------------------------------------------------------------
(* Types *)

\* The argument of the call in progress is one the sketch can give.
CallValues ==
  /\ call.command \in {"INIT", "SET_HEARTBEAT_CONFIG"} => call.value \in Heartbeats
  /\ call.command = "SUBSCRIBE" => call.value \in Intervals

\* The calls that can be in progress.
Calls == [phase : {"idle", "sending", "waiting"}, command : Commands,
          stream : Streams \cup {NoStream}, value : Nat, begin : BOOLEAN,
          started : Millis, waited : Stopwatch,
          answer : {"NONE", "ACK", "ERROR", "INIT_REQUIRED"}]

\* The type invariant, a line for each variable, with what it needs to be inductive.
Typed ==
  /\ now \in Millis /\ lastSent \in Millis /\ lastPoll \in Millis
  /\ ready \in BOOLEAN /\ ok \in BOOLEAN /\ expired \in BOOLEAN
  /\ heartbeat \in Heartbeats \cup {0} /\ watchdog \in Heartbeats \cup {0}
  /\ interval \in [Streams -> Intervals \cup {0}]
  /\ error \in {"NONE", "NOT_READY", "INVALID_ARGUMENT", "TRANSPORT",
                "CONTROLLER", "TIMEOUT"}
  /\ age \in Stopwatch /\ unserved \in Stopwatch /\ loop \in Stopwatch
  /\ call \in Calls /\ CallValues

\* The typed states have the types that the runs check.
LEMMA TypedTypes == Typed => TypeOK
<1>1. call \in Calls => call.waited \in Stopwatch
  BY DEF Calls
<1>. QED
  BY <1>1 DEF Typed, TypeOK, Calls, Millis

\* A stopwatch of the model stays on its scale.
LEMMA LaterType ==
  ASSUME NEW t \in Stopwatch
  PROVE  Later(t) \in Stopwatch
BY ClockFacts DEF Stopwatch, Later

\* Between calls the call is Idle.
LEMMA IdleType == Idle \in Calls
BY ClockFacts DEF Idle, Calls, Stopwatch, Commands

\* The start is typed.
LEMMA TypedInit == Init => Typed
<1>. SUFFICES ASSUME Init PROVE Typed
  OBVIOUS
<1>1. call \in Calls /\ CallValues
  BY IdleType DEF Init, CallValues, Idle
<1>2. interval \in [Streams -> Intervals \cup {0}] /\ 0 \in Stopwatch
  BY ClockFacts DEF Init, Unsubscribed, Stopwatch
<1>. QED
  BY <1>1, <1>2, ClockFacts DEF Init, Typed, Millis

\* What a call starts with.
Started(command, stream, value, begin) ==
  [phase |-> "sending", command |-> command, stream |-> stream, value |-> value,
   begin |-> begin, started |-> now, waited |-> 0, answer |-> "NONE"]

\* The calls of a sketch keep the types.
LEMMA TypedSketch == Typed /\ Sketch => Typed'
<1>. SUFFICES ASSUME Typed, Sketch PROVE Typed'
  OBVIOUS
<1>. USE ClockFacts, IdleType DEF Typed
<1>1. Unsubscribed \in [Streams -> Intervals \cup {0}] /\ 0 \in Stopwatch
  BY DEF Unsubscribed, Stopwatch
<1>2. ASSUME NEW t \in Heartbeats, Begin(t) PROVE Typed'
  <2>0. call' = Started("INIT", NoStream, t, TRUE)
    BY <1>2, Zenon DEF Begin, Start, Started, Idle
  <2>1. call' \in Calls /\ call'.command = "INIT" /\ call'.value = t
    BY <2>0 DEF Started, Calls, Stopwatch, Commands, StateCommands
  <2>. QED
    BY <1>1, <1>2, <2>1 DEF Begin, Start, ClearSession, controller, CallValues
<1>3. ASSUME NEW command \in Commands, NEW stream \in Streams \cup {NoStream},
             NEW value \in Nat, Command(command, stream, value),
             command \in {"INIT", "SET_HEARTBEAT_CONFIG"} => value \in Heartbeats,
             command = "SUBSCRIBE" => value \in Intervals
      PROVE  Typed'
  <2>0. call' = Started(command, stream, value, FALSE)
    BY <1>3, Zenon DEF Command, Call, Start, Started, Idle
  <2>1. call' \in Calls /\ call'.command = command /\ call'.value = value
    BY <2>0 DEF Started, Calls, Stopwatch, Commands, StateCommands
  <2>. QED
    BY <1>3, <2>1 DEF Command, Call, Start, controller, clocks, CallValues
<1>4. CASE SketchCommand
  BY <1>3, <1>4 DEF SketchCommand, Commands, StateCommands
<1>5. CASE Refuse
  BY <1>5 DEF Refuse, controller, clocks, CallValues
<1>6. CASE PollNotReady
  BY <1>1, <1>6 DEF PollNotReady, controller, CallValues
<1>7. CASE PollTelemetry
  <2>0. call' = Started("POLL_TELEMETRY", NoStream, 0, FALSE)
    BY <1>7, Zenon DEF PollTelemetry, Start, Started, Idle
  <2>1. call' \in Calls /\ call'.command = "POLL_TELEMETRY"
    BY <2>0 DEF Started, Calls, Stopwatch, Commands, StateCommands
  <2>. QED
    BY <1>1, <1>7, <2>1 DEF PollTelemetry, Start, controller, CallValues
<1>8. CASE PollPing
  <2>0. call' = Started("PING", NoStream, 0, FALSE)
    BY <1>8, Zenon DEF PollPing, Start, Started, Idle
  <2>1. call' \in Calls /\ call'.command = "PING"
    BY <2>0 DEF Started, Calls, Stopwatch, Commands, StateCommands
  <2>. QED
    BY <1>1, <1>8, <2>1 DEF PollPing, Start, controller, CallValues
<1>9. CASE PollNothing
  BY <1>1, <1>9 DEF PollNothing, controller, CallValues
<1>. QED
  BY <1>2, <1>4, <1>5, <1>6, <1>7, <1>8, <1>9 DEF Sketch, Poll

\* So do transmission, answer and return.
LEMMA TypedProgress == Typed /\ Progress => Typed'
<1>. SUFFICES ASSUME Typed, Progress PROVE Typed'
  OBVIOUS
<1>. USE ClockFacts, IdleType DEF Typed
<1>1. Unsubscribed \in [Streams -> Intervals \cup {0}] /\ 0 \in Stopwatch
  BY DEF Unsubscribed, Stopwatch
<1>2. CASE Transmit
  <2>1. PICK answer \in Answers :
          /\ call' = [call EXCEPT !.phase = "waiting", !.answer = answer]
          /\ Execute(answer)
    BY <1>2 DEF Transmit
  <2>2. answer \in {"NONE", "ACK", "ERROR", "INIT_REQUIRED"}
    BY DEF Answers
  <2>3. call' \in Calls /\ CallValues'
    BY <2>1, <2>2 DEF Calls, CallValues
  <2>4. watchdog' \in Heartbeats \cup {0} /\ expired' \in BOOLEAN
    BY <2>1 DEF Execute, controller, CallValues
  <2>. QED
    BY <1>1, <1>2, <2>3, <2>4 DEF Transmit
<1>3. ASSUME NEW failure \in {"TRANSPORT", "CONTROLLER", "TIMEOUT"}, FailSession(failure),
             UNCHANGED <<now, age, loop>>, unserved' = unserved,
             watchdog' = watchdog, expired' = expired
      PROVE  Typed'
  BY <1>1, <1>3 DEF FailSession, Finish, ClearSession, CallValues, Idle
<1>4. CASE TransmitFails
  <2>1. CASE UNCHANGED <<controller, clocks>>
    BY <1>3, <1>4, <2>1 DEF TransmitFails, controller, clocks
  <2>2. CASE age' = 0 /\ (\E answer \in Answers : Execute(answer)) /\ UNCHANGED <<now, unserved, loop>>
    <3>1. watchdog' \in Heartbeats \cup {0} /\ expired' \in BOOLEAN
      BY <2>2 DEF Execute, controller, CallValues
    <3>. QED
      BY <1>1, <1>4, <2>2, <3>1 DEF TransmitFails, FailSession, Finish, ClearSession, CallValues, Idle
  <2>. QED
    BY <1>4, <2>1, <2>2 DEF TransmitFails
<1>5. CASE ReceiveReady
  <2>1. CASE call.value # 0
    <3>0. call' = Started("SET_HEARTBEAT_CONFIG", NoStream, call.value, TRUE)
      BY <1>5, <2>1, Zenon DEF ReceiveReady, Start, Started, Idle
    <3>1. call' \in Calls /\ call'.command = "SET_HEARTBEAT_CONFIG" /\ call'.value = call.value
      BY <3>0 DEF Started, Calls, Stopwatch, Commands, StateCommands
    <3>. QED
      BY <1>5, <2>1, <3>1 DEF ReceiveReady, Receive, Start, controller, CallValues
  <2>2. CASE call.value = 0
    <3>1. call' = Idle /\ ok' = TRUE /\ error' = error
      BY <1>5, <2>2, Zenon DEF ReceiveReady, Finish
    <3>2. CallValues'
      BY <3>1 DEF CallValues, Idle
    <3>. QED
      BY <1>5, <3>1, <3>2, Zenon DEF ReceiveReady, Receive, controller
  <2>. QED
    BY <2>1, <2>2
<1>6. CASE ReceiveHeartbeatAck
  BY <1>1, <1>6 DEF ReceiveHeartbeatAck, Receive, Finish, controller, CallValues, Idle
<1>7. CASE ReceiveSubscribeAck
  BY <1>1, <1>7 DEF ReceiveSubscribeAck, Receive, Finish, controller, CallValues, Idle
<1>8. CASE ReceiveUnsubscribeAck
  BY <1>8 DEF ReceiveUnsubscribeAck, Receive, Finish, controller, CallValues, Idle
<1>9. CASE ReceiveOtherAck
  BY <1>9 DEF ReceiveOtherAck, Receive, Finish, controller, CallValues, Idle
<1>10. CASE ReceiveError
  BY <1>10 DEF ReceiveError, Receive, Finish, controller, CallValues, Idle, Calls
<1>11. CASE ReceiveInitRequired
  BY <1>3, <1>11 DEF ReceiveInitRequired, Receive, controller
<1>12. CASE Timeout
  BY <1>3, <1>12 DEF Timeout, controller, clocks
<1>. QED
  BY <1>2, <1>4, <1>5, <1>6, <1>7, <1>8, <1>9, <1>10, <1>11, <1>12 DEF Progress

\* So does a millisecond, also the one that wraps the clock.
LEMMA TypedTick == Typed /\ Tick => Typed'
<1>. SUFFICES ASSUME Typed, Tick PROVE Typed'
  OBVIOUS
<1>. USE DEF Typed
<1>1. now' \in Millis
  BY NextMillisValue, ClockFacts DEF Tick, Advance, Millis
<1>2. age' \in Stopwatch /\ unserved' \in Stopwatch /\ loop' \in Stopwatch
  BY LaterType, ClockFacts DEF Tick, Advance, Stopwatch
<1>3. call' \in Calls /\ CallValues'
  <2>1. call.waited \in Stopwatch
    BY DEF Typed, Calls
  <2>2. Later(call.waited) \in Stopwatch
    BY <2>1, LaterType
  <2>. QED
    BY <2>2 DEF Tick, Advance, Calls, CallValues
<1>4. expired' \in BOOLEAN
  BY DEF Tick, Advance
<1>. QED
  BY <1>1, <1>2, <1>3, <1>4 DEF Tick, Advance

\* Every step keeps the types.
LEMMA TypedNext == Typed /\ [Next]_vars => Typed'
<1>. SUFFICES ASSUME Typed, UNCHANGED vars PROVE Typed'
  BY TypedSketch, TypedProgress, TypedTick DEF Next
<1>. QED
  BY DEF Typed, vars, client, controller, clocks, CallValues

\* Every variable keeps its type, for every value of the constants: the clock never
\* leaves its range and no stamp or stopwatch does.
THEOREM TypeCorrect == Spec => []TypeOK
<1>. QED
  BY TypedInit, TypedNext, TypedTypes, PTL DEF Spec

----------------------------------------------------------------------------
(* How long the link is silent: poll() and its stamp of the last frame      *)

\* The stamp is right, and the last frame reached the controller before the reply
\* that d started from, or before the poll that d started from and that did not
\* find it old enough.
Recent(d) ==
  heartbeat # 0 => /\ Elapsed(lastSent) = age
                   /\ age <= d + ReplyDelay \/ age < d + heartbeat \div 5

\* The polls of the sketch are as close together as it promises, if a call in its
\* loop still needs that long.
LoopHolds(needed) == IF InLoop THEN loop + needed <= LoopPeriod ELSE loop = 0

IdleTime == ready => loop <= LoopPeriod /\ Recent(loop)

SendingTime ==
  /\ call.waited <= Latency
  /\ LoopHolds(Latency - call.waited + ReplyDelay)
  /\ ready /\ ~call.begin => Recent(LoopPeriod + call.waited)

\* The controller has the command and is about to answer.
WaitingTime ==
  /\ age <= ReplyDelay
  /\ LoopHolds(ReplyDelay - age)
  /\ Elapsed(lastSent) = age

\* Without a session there are no heartbeat and no subscriptions, and the second
\* call of a begin() finds none of either.
BeginInv ==
  /\ ~ready => heartbeat = 0 /\ interval = Unsubscribed
  /\ call.phase # "idle" => (ready <=> call.command # "INIT")
  /\ call.command = "INIT" => call.begin
  /\ ready /\ call.begin =>
       call.command = "SET_HEARTBEAT_CONFIG" /\ heartbeat = 0 /\ interval = Unsubscribed

TimeInv ==
  /\ call.phase = "idle" => call = Idle
  /\ BeginInv
  /\ call.phase = "idle" => IdleTime
  /\ call.phase = "sending" => SendingTime
  /\ call.phase = "waiting" /\ call.answer # "NONE" => WaitingTime

\* At the start there is no session and no call.
LEMMA TimeInit == Init => TimeInv
BY DEF Init, TimeInv, BeginInv, IdleTime, Idle

\* A call starts with what the loop has left of the time since the last frame.
LEMMA TimeSketch == Typed /\ TimeInv /\ Sketch => TimeInv'
<1>. SUFFICES ASSUME Typed, TimeInv, Sketch PROVE TimeInv'
  OBVIOUS
<1>1. call = Idle
  BY Zenon DEF Sketch, Begin, SketchCommand, Command, Call, Refuse, Poll,
     PollNotReady, PollTelemetry, PollPing, PollNothing
<1>2. IdleTime /\ (~ready => heartbeat = 0 /\ interval = Unsubscribed)
  BY <1>1 DEF TimeInv, BeginInv, Idle
<1>3. ASSUME NEW t \in Heartbeats, Begin(t) PROVE TimeInv'
  <2>1. call' = Started("INIT", NoStream, t, TRUE)
    BY <1>3, Zenon DEF Begin, Start, Started, Idle
  <2>2. BeginInv' /\ SendingTime'
    BY <1>3, <2>1, ClockFacts
       DEF Begin, ClearSession, BeginInv, SendingTime, LoopHolds, InLoop, Started, Unsubscribed
  <2>. QED
    BY <2>1, <2>2 DEF TimeInv, Started
<1>4. ASSUME NEW command \in Commands, NEW stream \in Streams \cup {NoStream},
             NEW value \in Nat, Command(command, stream, value),
             command \notin {"INIT", "PING", "POLL_TELEMETRY"}
      PROVE  TimeInv'
  <2>1. call' = Started(command, stream, value, FALSE)
    BY <1>4, Zenon DEF Command, Call, Start, Started, Idle
  <2>2. /\ ready /\ ready' /\ heartbeat' = heartbeat /\ lastSent' = lastSent
        /\ now' = now /\ age' = age /\ loop' = loop
        /\ loop + Latency + ReplyDelay <= LoopPeriod
    BY <1>4 DEF Command, Call, clocks
  <2>3. BeginInv'
    BY <1>4, <2>1, <2>2 DEF BeginInv, Started
  <2>4. Elapsed(lastSent)' = Elapsed(lastSent) /\ Recent(loop)
    BY <1>2, <2>2 DEF IdleTime, Elapsed
  <2>5. LoopHolds(Latency - call.waited + ReplyDelay)'
    BY <1>4, <2>1, <2>2, ClockFacts DEF LoopHolds, InLoop, Started, Typed, Stopwatch
  <2>6. Recent(LoopPeriod + call.waited)'
    BY <2>1, <2>2, <2>4, ClockFacts DEF Recent, Started, Typed, Stopwatch
  <2>7. SendingTime'
    BY <2>1, <2>5, <2>6, ClockFacts DEF SendingTime, Started
  <2>. QED
    BY <2>1, <2>3, <2>7 DEF TimeInv, Started
<1>5. CASE SketchCommand
  BY <1>4, <1>5, ClockFacts DEF SketchCommand, Commands, StateCommands
<1>6. CASE Refuse
  BY <1>1, <1>2, <1>6
     DEF Refuse, clocks, TimeInv, BeginInv, IdleTime, Elapsed, Recent, Unsubscribed, Idle
<1>7. CASE PollNotReady
  BY <1>1, <1>2, <1>7 DEF PollNotReady, TimeInv, BeginInv, IdleTime, Unsubscribed, Idle
<1>8. ASSUME NEW command \in {"PING", "POLL_TELEMETRY"},
             call' = Started(command, NoStream, 0, FALSE),
             ready, ready' = ready, heartbeat' = heartbeat, lastSent' = lastSent,
             now' = now, age' = age, loop' = 0
      PROVE  TimeInv'
  <2>1. BeginInv'
    BY <1>8 DEF BeginInv, Started
  <2>2. Elapsed(lastSent)' = Elapsed(lastSent) /\ loop <= LoopPeriod /\ Recent(loop)
    BY <1>2, <1>8 DEF IdleTime, Elapsed
  <2>3. Recent(LoopPeriod + call.waited)'
    BY <1>8, <2>2, ClockFacts DEF Recent, Started, Typed, Stopwatch
  <2>4. SendingTime'
    BY <1>8, <2>3, ClockFacts DEF SendingTime, LoopHolds, InLoop, Started
  <2>. QED
    BY <1>8, <2>1, <2>4 DEF TimeInv, Started
<1>9. CASE PollTelemetry
  <2>1. call' = Started("POLL_TELEMETRY", NoStream, 0, FALSE)
    BY <1>9, Zenon DEF PollTelemetry, Start, Started, Idle
  <2>. QED
    BY <1>8, <1>9, <2>1 DEF PollTelemetry
<1>10. CASE PollPing
  <2>1. call' = Started("PING", NoStream, 0, FALSE)
    BY <1>10, Zenon DEF PollPing, Start, Started, Idle
  <2>. QED
    BY <1>8, <1>10, <2>1 DEF PollPing
<1>11. CASE PollNothing
  <2>1. /\ ready /\ ready' /\ heartbeat' = heartbeat /\ age' = age /\ loop' = 0
        /\ Elapsed(lastSent)' = Elapsed(lastSent) /\ Recent(loop) /\ ~PingDue
    BY <1>2, <1>11 DEF PollNothing, IdleTime, Elapsed
  <2>2. heartbeat # 0 => age < heartbeat \div 5
    BY <2>1, ClockFacts DEF PingDue, Recent, Typed, Stopwatch
  <2>3. IdleTime'
    BY <2>1, <2>2, ClockFacts DEF IdleTime, Recent, Typed, Stopwatch
  <2>. QED
    BY <1>1, <1>11, <2>1, <2>3 DEF PollNothing, TimeInv, BeginInv, Idle
<1>. QED
  BY <1>3, <1>5, <1>6, <1>7, <1>9, <1>10, <1>11 DEF Sketch, Poll

\* What is known of an answer that receive() reads.
LEMMA ReceiveFacts ==
  ASSUME Typed, TimeInv, NEW answer \in {"ACK", "ERROR", "INIT_REQUIRED"},
         call.phase = "waiting", call.answer = answer, ~TimeUp(0),
         UNCHANGED <<lastSent, controller, now, age, loop>>
  PROVE  /\ WaitingTime /\ BeginInv
         /\ Elapsed(lastSent)' = age' /\ age' <= loop' + ReplyDelay /\ loop' <= LoopPeriod
<1>1. WaitingTime /\ BeginInv /\ age' = age /\ loop' = loop /\ Elapsed(lastSent)' = age
  BY DEF TimeInv, WaitingTime, Elapsed
<1>. QED
  BY <1>1, ClockFacts DEF WaitingTime, LoopHolds, Typed, Stopwatch

\* A frame and its answer start a new count.
LEMMA TimeProgress == Typed /\ TimeInv /\ Progress => TimeInv'
<1>. SUFFICES ASSUME Typed, TimeInv, Progress PROVE TimeInv'
  OBVIOUS
<1>1. CASE Transmit
  <2>1. PICK answer \in Answers : call' = [call EXCEPT !.phase = "waiting", !.answer = answer]
    BY <1>1 DEF Transmit
  <2>2. /\ call'.phase = "waiting" /\ call'.answer = answer
        /\ call'.command = call.command /\ call'.begin = call.begin
    BY <2>1 DEF Typed, Calls
  <2>3. /\ call.phase = "sending" /\ SendingTime /\ BeginInv
        /\ ready' = ready /\ heartbeat' = heartbeat /\ interval' = interval
        /\ loop' = loop /\ age' = 0 /\ lastSent' = now /\ now' = now
    BY <1>1 DEF Transmit, TimeInv
  <2>4. BeginInv'
    BY <2>2, <2>3 DEF BeginInv, Unsubscribed
  <2>5. Elapsed(lastSent)' = age'
    BY <2>3, ElapsedOfNow DEF Elapsed, Typed
  <2>6. LoopHolds(ReplyDelay - age)'
    BY <2>2, <2>3, ClockFacts DEF SendingTime, LoopHolds, InLoop, Typed, Calls, Stopwatch
  <2>7. WaitingTime'
    BY <2>3, <2>5, <2>6, ClockFacts DEF WaitingTime
  <2>. QED
    BY <2>2, <2>4, <2>7 DEF TimeInv
<1>2. ASSUME NEW failure, FailSession(failure) PROVE TimeInv'
  BY <1>2 DEF FailSession, Finish, ClearSession, TimeInv, BeginInv, IdleTime, Unsubscribed, Idle
<1>3. CASE TransmitFails \/ ReceiveInitRequired \/ Timeout
  BY <1>2, <1>3 DEF TransmitFails, ReceiveInitRequired, Timeout
<1>4. CASE ReceiveReady
  <2>1. /\ ~ready /\ ready' /\ heartbeat' = 0 /\ interval' = Unsubscribed /\ loop' = 0
        /\ call.command = "INIT" /\ call.begin
    BY <1>4, ReceiveFacts
       DEF ReceiveReady, Receive, WaitingTime, BeginInv, LoopHolds, InLoop
  <2>2. CASE call.value # 0
    <3>1. call' = Started("SET_HEARTBEAT_CONFIG", NoStream, call.value, TRUE)
      BY <1>4, <2>2, Zenon DEF ReceiveReady, Start, Started, Idle
    <3>2. BeginInv' /\ SendingTime'
      BY <2>1, <3>1, ClockFacts
         DEF BeginInv, SendingTime, LoopHolds, InLoop, Started, Unsubscribed
    <3>. QED
      BY <3>1, <3>2 DEF TimeInv, Started
  <2>3. CASE call.value = 0
    <3>1. call' = Idle
      BY <1>4, <2>3, Zenon DEF ReceiveReady, Finish
    <3>. QED
      BY <2>1, <3>1, ClockFacts DEF TimeInv, BeginInv, IdleTime, Recent, Idle
  <2>. QED
    BY <2>2, <2>3
<1>5. ASSUME NEW answer \in {"ACK", "ERROR"}, Receive(answer), call' = Idle, ready'
      PROVE  TimeInv'
  <2>1. IdleTime'
    BY <1>5, ReceiveFacts DEF Receive, IdleTime, Recent
  <2>. QED
    BY <1>5, <2>1 DEF TimeInv, BeginInv, Idle
<1>6. CASE ReceiveHeartbeatAck \/ ReceiveSubscribeAck \/ ReceiveUnsubscribeAck \/ ReceiveOtherAck
  <2>1. /\ Receive("ACK") /\ call.command # "INIT" /\ call' = Idle /\ ready' = ready
    BY <1>6 DEF ReceiveHeartbeatAck, ReceiveSubscribeAck, ReceiveUnsubscribeAck,
       ReceiveOtherAck, Finish, StateCommands
  <2>2. ready
    BY <2>1, ReceiveFacts DEF Receive, BeginInv
  <2>. QED
    BY <1>5, <2>1, <2>2
<1>7. CASE ReceiveError
  <2>1. /\ Receive("ERROR") /\ call' = Idle /\ heartbeat' = heartbeat /\ interval' = interval
        /\ ready' = (ready /\ ~call.begin)
    BY <1>7 DEF ReceiveError, Finish
  <2>2. CASE ready /\ ~call.begin
    BY <1>5, <2>1, <2>2
  <2>3. CASE ~(ready /\ ~call.begin)
    BY <2>1, <2>3 DEF TimeInv, BeginInv, IdleTime, Unsubscribed, Idle
  <2>. QED
    BY <2>2, <2>3
<1>. QED
  BY <1>1, <1>3, <1>4, <1>6, <1>7 DEF Progress

\* What a millisecond does to the clocks.
LEMMA TickFacts ==
  ASSUME Typed, Tick
  PROVE  /\ InTime /\ now' = NextMillis /\ age' = Later(age)
         /\ loop' = IF call = Idle \/ InLoop THEN Later(loop) ELSE loop
         /\ ready' = ready /\ heartbeat' = heartbeat /\ interval' = interval
         /\ lastSent' = lastSent /\ lastPoll' = lastPoll /\ watchdog' = watchdog
BY DEF Tick, Advance

\* What a millisecond does to a call in progress.
LEMMA TickCall ==
  ASSUME Typed, Tick, call.phase # "idle"
  PROVE  /\ call'.phase = call.phase /\ call'.command = call.command
         /\ call'.value = call.value /\ call'.begin = call.begin
         /\ call'.answer = call.answer /\ call'.waited = Later(call.waited)
         /\ loop' = IF InLoop THEN Later(loop) ELSE loop
         /\ InLoop' = InLoop
BY DEF Tick, Advance, Idle, Typed, Calls, InLoop

\* A stamp that is right stays right.
LEMMA TickStamp ==
  ASSUME Typed, Tick, Elapsed(lastSent) = age, age + 1 < ClockSize
  PROVE  Elapsed(lastSent)' = age'
BY TickFacts, ElapsedNext, ClockFacts DEF Elapsed, Later, Typed, Stopwatch

\* A millisecond passes only while everybody is in time.
LEMMA TimeTick == Typed /\ TimeInv /\ Tick => TimeInv'
<1>. SUFFICES ASSUME Typed, TimeInv, Tick PROVE TimeInv'
  OBVIOUS
<1>1. BeginInv /\ BeginInv'
  BY TickFacts, TickCall DEF TimeInv, BeginInv, Unsubscribed, Tick, Advance, Typed, Calls, Idle
\* The frames that are due are sent long before the clock has wrapped.
<1>2. ASSUME heartbeat # 0, NEW d \in Nat, Recent(d), d <= LoopPeriod + Latency
      PROVE  age + 1 < ClockSize
  <2>1. heartbeat \in Nat /\ heartbeat + Latency + ReplyDelay + LoopPeriod < ClockSize
    BY <1>2, ClockFacts, TimingAssumption DEF Typed
  <2>2. heartbeat \in Nat \ {0} /\ heartbeat \div 5 \in 0 .. heartbeat - 1
    BY <1>2, <2>1
  <2>3. ReplyDelay \in Nat \ {0}
    BY TimingAssumption
  <2>. QED
    BY <1>2, <2>1, <2>2, <2>3, ClockFacts DEF Recent, Typed, Stopwatch
<1>3. CASE call.phase = "idle"
  <2>1. call = Idle /\ call' = Idle /\ loop < LoopPeriod /\ IdleTime
    BY <1>3, TickFacts DEF InTime, TimeInv, Tick, Advance
  <2>2. ASSUME ready PROVE IdleTime'
    <3>1. Recent(loop) /\ loop \in Nat
      BY <2>1, <2>2, ClockFacts DEF IdleTime, Typed, Stopwatch
    <3>2. loop' <= LoopPeriod
      BY <2>1, TickFacts, ClockFacts DEF Later, Typed, Stopwatch
    <3>3. ASSUME heartbeat # 0
          PROVE  Elapsed(lastSent)' = age' /\ age' = age + 1 /\ loop' = loop + 1
      <4>1. age + 1 < ClockSize
        BY <1>2, <2>1, <3>1, <3>3, ClockFacts
      <4>2. loop + 1 < ClockSize
        BY <2>1, <3>1, <3>3, ClockFacts, TimingAssumption DEF Typed
      <4>. QED
        BY <2>1, <3>1, <3>3, <4>1, <4>2, TickFacts, TickStamp, ClockFacts
           DEF Recent, Later, Typed, Stopwatch
    <3>4. Recent(loop)'
      BY <2>1, <3>1, <3>3, TickFacts, ClockFacts DEF Recent, Typed, Stopwatch
    <3>. QED
      BY <3>2, <3>4 DEF IdleTime
  <2>. QED
    BY <1>1, <2>1, <2>2, TickFacts DEF TimeInv, IdleTime, Idle
<1>4. CASE call.phase = "sending"
  <2>1. call.waited < Latency /\ SendingTime
    BY <1>4, TickFacts DEF InTime, TimeInv
  <2>2. call.waited \in Nat /\ call'.waited = call.waited + 1
    BY <1>4, <2>1, TickCall, ClockFacts, TimingAssumption DEF Later, Typed, Calls, Stopwatch
  <2>3. LoopHolds(Latency - call.waited + ReplyDelay)'
    BY <1>4, <2>1, <2>2, TickCall, ClockFacts
       DEF SendingTime, LoopHolds, Later, Typed, Stopwatch
  <2>4. ASSUME ready, ~call.begin PROVE Recent(LoopPeriod + call.waited)'
    <3>1. Recent(LoopPeriod + call.waited)
      BY <2>1, <2>4 DEF SendingTime
    <3>2. ASSUME heartbeat # 0
          PROVE  Elapsed(lastSent)' = age' /\ age' = age + 1
      <4>1. age + 1 < ClockSize
        BY <1>2, <2>1, <2>2, <3>1, <3>2, ClockFacts
      <4>. QED
        BY <3>1, <3>2, <4>1, TickFacts, TickStamp, ClockFacts
           DEF Recent, Later, Typed, Stopwatch
    <3>. QED
      BY <2>2, <3>1, <3>2, TickFacts, ClockFacts DEF Recent, Typed, Stopwatch
  <2>5. SendingTime'
    BY <1>4, <2>1, <2>2, <2>3, <2>4, TickFacts, TickCall, ClockFacts DEF SendingTime
  <2>. QED
    BY <1>1, <1>4, <2>5, TickCall DEF TimeInv
<1>5. CASE call.phase = "waiting"
  <2>1. ASSUME call.answer # "NONE" PROVE WaitingTime'
    <3>1. age < ReplyDelay /\ WaitingTime
      BY <1>5, <2>1, TickFacts DEF InTime, TimeInv
    <3>2. age \in Nat /\ age' = age + 1 /\ age + 1 < ClockSize
      BY <3>1, TickFacts, ClockFacts, TimingAssumption DEF Later, Typed, Stopwatch
    <3>3. LoopHolds(ReplyDelay - age)'
      BY <1>5, <3>1, <3>2, TickCall, ClockFacts
         DEF WaitingTime, LoopHolds, Later, Typed, Stopwatch
    <3>4. Elapsed(lastSent)' = age'
      BY <3>1, <3>2, TickStamp DEF WaitingTime
    <3>. QED
      BY <3>1, <3>2, <3>3, <3>4, ClockFacts DEF WaitingTime
  <2>. QED
    BY <1>1, <1>5, <2>1, TickCall DEF TimeInv
<1>. QED
  BY <1>3, <1>4, <1>5 DEF Typed, Calls

\* Every step keeps the ages.
LEMMA TimeNext == Typed /\ TimeInv /\ [Next]_vars => TimeInv'
<1>. SUFFICES ASSUME TimeInv, UNCHANGED vars PROVE TimeInv'
  BY TimeSketch, TimeProgress, TimeTick DEF Next
<1>. QED
  BY DEF vars, client, controller, clocks, TimeInv, BeginInv, IdleTime, SendingTime,
     WaitingTime, Recent, LoopHolds, InLoop, Elapsed, Unsubscribed

----------------------------------------------------------------------------
(* Why the session is kept: the controller's side of the session            *)

\* The answer in flight still finds the session it answers in; an ACK of a new
\* watchdog timeout is ahead of heartbeat_ms_.
AnswerAlive ==
  /\ ready => /\ ~expired /\ call.answer # "INIT_REQUIRED"
              /\ watchdog = IF call.answer = "ACK" /\ call.command = "SET_HEARTBEAT_CONFIG"
                            THEN call.value ELSE heartbeat
  /\ ~ready /\ call.answer = "ACK" => ~expired /\ watchdog = 0

AliveInv ==
  /\ call.phase # "waiting" /\ ready => ~expired /\ watchdog = heartbeat
  /\ call.phase = "waiting" /\ call.answer # "NONE" => AnswerAlive

\* Without a session there is nothing to expire.
LEMMA AliveInit == Init => AliveInv
BY DEF Init, AliveInv, Idle

\* A call of the sketch leaves the watchdog alone.
LEMMA AliveSketch == Typed /\ AliveInv /\ Sketch => AliveInv'
<1>. SUFFICES ASSUME Typed, AliveInv, Sketch PROVE AliveInv'
  OBVIOUS
<1>1. call = Idle /\ watchdog' = watchdog /\ expired' = expired
  BY Zenon DEF Sketch, Begin, SketchCommand, Command, Call, Refuse, Poll,
     PollNotReady, PollTelemetry, PollPing, PollNothing, controller
<1>2. ready => ~expired /\ watchdog = heartbeat
  BY <1>1 DEF AliveInv, Idle
<1>3. ASSUME NEW t \in Heartbeats, Begin(t) PROVE AliveInv'
  <2>1. call' = Started("INIT", NoStream, t, TRUE)
    BY <1>3, Zenon DEF Begin, Start, Started, Idle
  <2>. QED
    BY <1>3, <2>1 DEF Begin, ClearSession, AliveInv, Started
<1>4. ASSUME NEW command \in Commands, NEW stream \in Streams \cup {NoStream},
             NEW value \in Nat, Command(command, stream, value)
      PROVE  AliveInv'
  <2>1. call' = Started(command, stream, value, FALSE)
    BY <1>4, Zenon DEF Command, Call, Start, Started, Idle
  <2>. QED
    BY <1>1, <1>2, <1>4, <2>1 DEF Command, Call, AliveInv, Started
<1>5. CASE SketchCommand
  BY <1>4, <1>5, ClockFacts DEF SketchCommand, Commands, StateCommands
<1>6. CASE Refuse \/ PollNotReady \/ PollNothing
  <2>1. call' = Idle /\ ready' = ready /\ heartbeat' = heartbeat
    BY <1>1, <1>6 DEF Refuse, PollNotReady, PollNothing
  <2>. QED
    BY <1>1, <1>2, <2>1 DEF AliveInv, Idle
<1>7. CASE PollTelemetry \/ PollPing
  <2>1. call'.phase = "sending" /\ ready' = ready /\ heartbeat' = heartbeat
    BY <1>7 DEF PollTelemetry, PollPing, Start, Idle
  <2>. QED
    BY <1>1, <1>2, <2>1 DEF AliveInv
<1>. QED
  BY <1>3, <1>5, <1>6, <1>7 DEF Sketch, Poll

\* An answer leaves both sides with the same watchdog.
LEMMA AliveProgress == Typed /\ TimeInv /\ AliveInv /\ Progress => AliveInv'
<1>. SUFFICES ASSUME Typed, TimeInv, AliveInv, Progress PROVE AliveInv'
  OBVIOUS
<1>0. BeginInv
  BY DEF TimeInv
<1>1. CASE Transmit
  <2>1. PICK answer \in Answers :
          /\ call' = [call EXCEPT !.phase = "waiting", !.answer = answer]
          /\ Execute(answer)
    BY <1>1 DEF Transmit
  <2>2. /\ call'.phase = "waiting" /\ call'.answer = answer
        /\ call'.command = call.command /\ call'.value = call.value
    BY <2>1 DEF Typed, Calls
  <2>3. /\ call.phase = "sending" /\ ready' = ready /\ heartbeat' = heartbeat
        /\ ready => ~expired /\ watchdog = heartbeat
    BY <1>1 DEF Transmit, AliveInv
  <2>4. ASSUME ready, answer # "NONE"
        PROVE  /\ ~expired' /\ answer # "INIT_REQUIRED"
               /\ watchdog' = IF answer = "ACK" /\ call.command = "SET_HEARTBEAT_CONFIG"
                              THEN call.value ELSE heartbeat
    BY <1>0, <2>1, <2>3, <2>4 DEF Answers, Execute, controller, BeginInv
  <2>5. ASSUME ~ready, answer = "ACK"
        PROVE  ~expired' /\ watchdog' = 0
    BY <1>0, <2>1, <2>3, <2>5 DEF Execute, BeginInv
  <2>. QED
    BY <2>2, <2>3, <2>4, <2>5 DEF AliveInv, AnswerAlive
<1>2. ASSUME NEW failure, FailSession(failure) PROVE AliveInv'
  BY <1>2 DEF FailSession, Finish, ClearSession, AliveInv, Idle
<1>3. CASE TransmitFails \/ ReceiveInitRequired \/ Timeout
  BY <1>2, <1>3 DEF TransmitFails, ReceiveInitRequired, Timeout
<1>4. ASSUME NEW answer \in {"ACK", "ERROR"}, Receive(answer)
      PROVE  /\ AnswerAlive /\ call.answer = answer
             /\ watchdog' = watchdog /\ expired' = expired
  BY <1>4 DEF Receive, AliveInv, controller
<1>5. CASE ReceiveReady
  <2>1. ~expired' /\ watchdog' = 0 /\ heartbeat' = 0
    BY <1>0, <1>4, <1>5 DEF ReceiveReady, Receive, AnswerAlive, BeginInv
  <2>2. call'.phase # "waiting"
    <3>1. CASE call.value # 0
      BY <1>5, <3>1 DEF ReceiveReady, Start, Idle
    <3>2. CASE call.value = 0
      BY <1>5, <3>2 DEF ReceiveReady, Finish, Idle
    <3>. QED
      BY <3>1, <3>2
  <2>. QED
    BY <2>1, <2>2 DEF AliveInv
<1>6. CASE ReceiveHeartbeatAck
  <2>1. /\ Receive("ACK") /\ call.command = "SET_HEARTBEAT_CONFIG" /\ call' = Idle
        /\ heartbeat' = call.value /\ ready' = ready
    BY <1>6 DEF ReceiveHeartbeatAck, Finish
  <2>. QED
    BY <1>4, <2>1 DEF AnswerAlive, AliveInv, Idle
<1>7. CASE ReceiveSubscribeAck \/ ReceiveUnsubscribeAck \/ ReceiveOtherAck
  <2>1. /\ Receive("ACK") /\ call.command # "SET_HEARTBEAT_CONFIG"
        /\ call' = Idle /\ heartbeat' = heartbeat /\ ready' = ready
    BY <1>7 DEF ReceiveSubscribeAck, ReceiveUnsubscribeAck, ReceiveOtherAck, Finish,
       StateCommands
  <2>. QED
    BY <1>4, <2>1 DEF AnswerAlive, AliveInv, Idle
<1>8. CASE ReceiveError
  <2>1. /\ Receive("ERROR") /\ call' = Idle /\ heartbeat' = heartbeat
        /\ ready' = (ready /\ ~call.begin)
    BY <1>8 DEF ReceiveError, Finish
  <2>. QED
    BY <1>4, <2>1 DEF AnswerAlive, AliveInv, Idle
<1>. QED
  BY <1>1, <1>3, <1>5, <1>6, <1>7, <1>8 DEF Progress

\* A punctual sketch has sent before the watchdog's millisecond.
LEMMA AliveTick == Typed /\ TimeInv /\ Punctual /\ AliveInv /\ Tick => AliveInv'
<1>. SUFFICES ASSUME Typed, TimeInv, Punctual, AliveInv, Tick PROVE AliveInv'
  OBVIOUS
<1>1. /\ expired' = (expired \/ (watchdog # 0 /\ Later(age) >= watchdog))
      /\ Later(age) \in Nat /\ Later(age) <= age + 1 /\ age \in Nat /\ watchdog \in Nat
  BY ClockFacts DEF Tick, Advance, Later, Typed, Stopwatch
<1>2. ASSUME watchdog # 0
      PROVE  /\ Latency + LoopPeriod + watchdog \div 5 <= watchdog
             /\ Latency + LoopPeriod + ReplyDelay < watchdog
  BY <1>2 DEF Typed, Punctual
\* The last frame is recent when the next one is about to be due.
<1>3. ASSUME NEW d \in Nat, d < LoopPeriod + Latency, Recent(d), watchdog = heartbeat, ~expired
      PROVE  ~expired'
  <2>1. ASSUME watchdog # 0 PROVE age + 1 < watchdog
    <3>1. age <= d + ReplyDelay \/ age < d + watchdog \div 5
      BY <1>3, <2>1 DEF Recent
    <3>2. watchdog \div 5 \in Nat
      BY <1>1
    <3>. QED
      BY <1>1, <1>2, <1>3, <2>1, <3>1, <3>2, ClockFacts
  <2>2. ~ (watchdog # 0 /\ Later(age) >= watchdog)
    BY <1>1, <2>1
  <2>. QED
    BY <1>1, <1>3, <2>2, Zenon
<1>4. CASE call.phase = "idle"
  <2>1. call = Idle /\ call' = Idle /\ loop < LoopPeriod /\ IdleTime
    BY <1>4, TickFacts DEF InTime, TimeInv, Tick, Advance
  <2>2. ready => ~expired'
    BY <1>3, <1>4, <2>1, ClockFacts, TimingAssumption
       DEF AliveInv, IdleTime, Typed, Stopwatch
  <2>. QED
    BY <1>4, <2>1, <2>2, TickFacts DEF AliveInv
<1>5. CASE call.phase = "sending"
  <2>1. call.waited < Latency /\ call.waited \in Nat /\ SendingTime /\ BeginInv
    BY <1>5, TickFacts, ClockFacts DEF InTime, TimeInv, Typed, Calls, Stopwatch
  <2>2. ready /\ ~call.begin => ~expired'
    BY <1>3, <1>5, <2>1, ClockFacts DEF AliveInv, SendingTime
  <2>3. ready /\ call.begin => ~expired'
    BY <1>1, <1>5, <2>1 DEF AliveInv, BeginInv
  <2>. QED
    BY <1>5, <2>2, <2>3, TickFacts, TickCall DEF AliveInv
<1>6. CASE call.phase = "waiting"
  <2>1. ASSUME call.answer # "NONE" PROVE AnswerAlive'
    <3>1. age < ReplyDelay /\ AnswerAlive
      BY <1>6, <2>1, TickFacts DEF InTime, AliveInv
    <3>2. expired' = expired
      BY <1>1, <1>2, <3>1, ClockFacts DEF Typed
    <3>. QED
      BY <1>6, <3>1, <3>2, TickFacts, TickCall DEF AnswerAlive
  <2>. QED
    BY <1>6, <2>1, TickCall DEF AliveInv
<1>. QED
  BY <1>4, <1>5, <1>6 DEF Typed, Calls

\* Every step keeps the session of a punctual sketch.
LEMMA AliveNext == Typed /\ TimeInv /\ Punctual /\ AliveInv /\ [Next]_vars => AliveInv'
<1>. SUFFICES ASSUME AliveInv, UNCHANGED vars PROVE AliveInv'
  BY AliveSketch, AliveProgress, AliveTick DEF Next
<1>. QED
  BY DEF vars, client, controller, AliveInv, AnswerAlive

\* Whatever the sketch subscribes to, sends or reconfigures, and whatever the bus and
\* the controller do, a sketch that polls punctually never loses a session to the
\* watchdog: for every clock, timeout, latency and loop period.
THEOREM SessionIsKept == Spec => []SessionKept
<1>. DEFINE Inv == Typed /\ TimeInv /\ (Punctual => AliveInv)
<1>1. Init => Inv
  BY TypedInit, TimeInit, AliveInit
<1>2. Inv /\ [Next]_vars => Inv'
  <2>1. Punctual' = Punctual
    BY DEF Punctual
  <2>. QED
    BY <2>1, TypedNext, TimeNext, AliveNext
<1>3. Inv => SessionKept
  BY DEF SessionKept, AliveInv, Idle
<1>. QED
  BY <1>1, <1>2, <1>3, PTL DEF Spec

----------------------------------------------------------------------------
(* How late the streams are served: poll() and its stamp of the last service *)

\* The library's search for the smallest finds it.
LEMMA MinOfNat ==
  ASSUME NEW S \in SUBSET Nat, S # {}
  PROVE  Min(S) \in S /\ \A y \in S : Min(S) <= y
<1>1. PICK x \in S : \A y \in S : ~ (<<y, x>> \in OpToRel(<, Nat))
  BY NatLessThanWellFounded, WFMin
<1>2. \A y \in S : ~ (y < x)
  BY <1>1, Zenon DEF OpToRel
<1>3. \A y \in S : x <= y
  BY <1>2
<1>. QED
  BY <1>3, Zenon DEF Min

\* A longer interval, or fewer sources to share it, never brings a service forward.
LEMMA DivMonotone ==
  ASSUME NEW a \in Nat, NEW b \in Nat, a <= b,
         NEW m \in Nat \ {0}, NEW n \in Nat \ {0}, n <= m
  PROVE  a \div m <= b \div n
BY SMTT(30)

\* A quotient is no larger than its dividend.
LEMMA DivSmaller ==
  ASSUME NEW a \in Nat, NEW m \in Nat \ {0}
  PROVE  a \div m \in 0 .. a
BY SMTT(30)

\* There are finitely many subscribed sources.
LEMMA SubscribedCount ==
  Subscribed # {} => IsFiniteSet(Subscribed) /\ Cardinality(Subscribed) \in Nat \ {0}
<1>1. Subscribed \in SUBSET Streams
  BY DEF Subscribed
<1>2. IsFiniteSet(Subscribed)
  BY <1>1, StreamsAssumption, FS_Subset
<1>3. Cardinality(Subscribed) \in Nat
  BY <1>2, FS_CardinalityType
<1>4. Cardinality(Subscribed) = 0 <=> Subscribed = {}
  BY <1>2, FS_EmptySet, Zenon
<1>. QED
  BY <1>2, <1>3, <1>4

\* An interval leaves time for a loop and a call before the clock has wrapped.
LEMMA IntervalFacts ==
  /\ Latency >= 1 /\ ReplyDelay >= 1
  /\ \A t \in Intervals : t \in Nat \ {0} /\ t + Latency + ReplyDelay + LoopPeriod < ClockSize
<1>1. {Latency, ReplyDelay} \subseteq Nat \ {0} /\ Intervals \subseteq Nat \ {0}
  BY TimingAssumption
<1>. QED
  BY <1>1, TimingAssumption

\* The shortest interval is one the sketch gave.
LEMMA ShortestValue ==
  Typed /\ Subscribed # {} =>
    /\ Shortest \in Intervals
    /\ \A s \in Subscribed : Shortest <= interval[s]
<1>. SUFFICES ASSUME Typed, Subscribed # {}
              PROVE  /\ Shortest \in Intervals
                     /\ \A s \in Subscribed : Shortest <= interval[s]
  OBVIOUS
<1>. DEFINE S == {interval[s] : s \in Subscribed} \cup {NoInterval}
<1>0. NoInterval \in Nat /\ \A t \in Intervals : t < NoInterval
  BY IntervalFacts, ClockFacts DEF NoInterval
<1>1. \A s \in Subscribed : interval[s] \in Intervals /\ interval[s] < NoInterval
  BY <1>0 DEF Subscribed, Typed
<1>2. S \in SUBSET Nat /\ S # {}
  BY <1>0, <1>1, ClockFacts
<1>3. Min(S) \in S /\ \A y \in S : Min(S) <= y
  BY <1>2, MinOfNat
<1>4. \A s \in Subscribed : Min(S) <= interval[s]
  BY <1>3
<1>5. Min(S) # NoInterval
  <2>1. PICK s \in Subscribed : TRUE
    OBVIOUS
  <2>2. interval[s] \in Nat /\ interval[s] < NoInterval /\ Min(S) <= interval[s]
    BY <1>1, <1>4, ClockFacts
  <2>3. Min(S) \in Nat
    BY <1>2, <1>3
  <2>. HIDE DEF S
  <2>. QED
    BY <1>0, <2>2, <2>3
<1>6. Min(S) \in Intervals
  BY <1>1, <1>3, <1>5
<1>. QED
  BY <1>4, <1>6 DEF Shortest

\* The service time is positive, and no longer than the shortest interval.
LEMMA ServiceValue ==
  Typed /\ Subscribed # {} =>
    /\ ServiceMs \in Nat \ {0}
    /\ ServiceMs - 1 <= Shortest \div Cardinality(Subscribed)
    /\ ServiceMs <= Shortest /\ Shortest # NoInterval
    /\ Shortest + Latency + ReplyDelay + LoopPeriod < ClockSize
<1>. SUFFICES ASSUME Typed, Subscribed # {}
              PROVE  /\ ServiceMs \in Nat \ {0}
                     /\ ServiceMs - 1 <= Shortest \div Cardinality(Subscribed)
                     /\ ServiceMs <= Shortest /\ Shortest # NoInterval
                     /\ Shortest + Latency + ReplyDelay + LoopPeriod < ClockSize
  OBVIOUS
<1>1. Shortest \in Nat \ {0} /\ Shortest + Latency + ReplyDelay + LoopPeriod < ClockSize
  BY ShortestValue, ClockFacts, TimingAssumption
<1>2. Shortest \div Cardinality(Subscribed) \in 0 .. Shortest
  BY <1>1, SubscribedCount, DivSmaller
<1>3. Shortest # NoInterval
  BY <1>1, ClockFacts, TimingAssumption DEF NoInterval
<1>4. ServiceMs = IF Shortest \div Cardinality(Subscribed) = 0 THEN 1
                  ELSE Shortest \div Cardinality(Subscribed)
  BY DEF ServiceMs, AtLeastOne
<1>. QED
  BY <1>1, <1>2, <1>3, <1>4

\* The service time is never zero, whatever the integer division does.
LEMMA ServicePositive == Typed /\ Subscribed # {} => ServiceMs \in Nat \ {0}
BY ServiceValue

\* An unsubscription leaves the remaining sources no service to catch up with.
LEMMA ServiceSlower ==
  ASSUME Typed, Typed', Subscribed' # {},
         \A s \in Streams : interval'[s] \in {interval[s], 0}
  PROVE  Subscribed # {} /\ ServiceMs <= ServiceMs'
<1>1. Subscribed' \in SUBSET Subscribed /\ \A s \in Subscribed' : interval'[s] = interval[s]
  BY DEF Subscribed
<1>2. Subscribed # {}
  BY <1>1
<1>3. /\ Shortest \in Intervals /\ \A s \in Subscribed : Shortest <= interval[s]
  BY <1>2, ShortestValue
<1>4. (Typed /\ Subscribed # {} => /\ Shortest \in Intervals
                                  /\ \A s \in Subscribed : Shortest <= interval[s])'
  BY ShortestValue, PTL
<1>5. (Subscribed # {} => IsFiniteSet(Subscribed) /\ Cardinality(Subscribed) \in Nat \ {0})'
  BY SubscribedCount, PTL
<1>6. Shortest' \in Nat /\ Shortest \in Nat
  BY <1>3, <1>4, ClockFacts
<1>7. Shortest <= Shortest'
  <2>1. CASE Shortest' = NoInterval
    BY <1>2, <1>6, <2>1, ServiceValue, ClockFacts DEF NoInterval
  <2>2. CASE Shortest' # NoInterval
    <3>0. NoInterval \in Nat /\ Intervals \cup {0} \subseteq Nat
      BY ClockFacts DEF NoInterval
    <3>1. interval' \in [Streams -> Intervals \cup {0}] /\ Subscribed' \subseteq Streams
      BY DEF Typed, Subscribed
    <3>. DEFINE S == {interval'[s] : s \in Subscribed'} \cup {NoInterval}
    <3>2. S \in SUBSET Nat /\ S # {}
      BY <3>0, <3>1
    <3>3. Min(S) \in S
      BY <3>2, MinOfNat
    <3>4. Shortest' = Min(S)
      BY DEF Shortest, NoInterval
    <3>5. PICK s \in Subscribed' : Shortest' = interval'[s]
      BY <2>2, <3>3, <3>4 DEF NoInterval
    <3>. QED
      BY <1>1, <1>3, <3>5
  <2>. QED
    BY <2>1, <2>2
<1>8. Cardinality(Subscribed') <= Cardinality(Subscribed)
  BY <1>1, <1>2, SubscribedCount, FS_Subset
<1>9. Shortest \div Cardinality(Subscribed) <= Shortest' \div Cardinality(Subscribed')
  BY <1>2, <1>5, <1>6, <1>7, <1>8, SubscribedCount, DivMonotone
<1>10. /\ Shortest \div Cardinality(Subscribed) \in Nat
       /\ Shortest' \div Cardinality(Subscribed') \in Nat
  BY <1>2, <1>5, <1>6, SubscribedCount, DivSmaller
<1>. QED
  BY <1>2, <1>9, <1>10 DEF ServiceMs, AtLeastOne

\* What may have passed since the poll that found nothing due, or the telemetry
\* poll that served the streams: a frame and its reply, then the sketch's loop.
Overdue ==
  IF call.phase = "idle" \/ InLoop THEN Latency + ReplyDelay + loop
  ELSE IF call.phase = "sending" THEN call.waited ELSE Latency + age

\* The stamp is right, and the streams are as late as poll() lets them be.
ServedInv ==
  ready /\ Subscribed # {} /\ (call.phase = "waiting" => call.answer # "NONE") =>
    /\ Elapsed(lastPoll) = unserved
    /\ unserved <= ServiceMs - 1 + Overdue

\* At the start nothing is subscribed.
LEMMA ServedInit == Init => ServedInv
BY DEF Init, ServedInv

\* A step that leaves the streams, their stamp and the time.
LEMMA ServedKept ==
  ASSUME interval' = interval, lastPoll' = lastPoll, now' = now, unserved' = unserved
  PROVE  /\ Subscribed' = Subscribed /\ ServiceMs' = ServiceMs
         /\ Elapsed(lastPoll)' = Elapsed(lastPoll) /\ unserved' = unserved
BY DEF Subscribed, ServiceMs, Shortest, Elapsed

\* A poll that finds nothing due finds the streams no later than their service time.
LEMMA ServedSketch == Typed /\ ServedInv /\ Sketch => ServedInv'
<1>. SUFFICES ASSUME Typed, ServedInv, Sketch PROVE ServedInv'
  OBVIOUS
<1>1. call = Idle
  BY Zenon DEF Sketch, Begin, SketchCommand, Command, Call, Refuse, Poll,
     PollNotReady, PollTelemetry, PollPing, PollNothing
<1>2. ready /\ Subscribed # {} =>
        /\ Elapsed(lastPoll) = unserved
        /\ unserved <= ServiceMs - 1 + (Latency + ReplyDelay + loop)
  BY <1>1 DEF ServedInv, Overdue, Idle
<1>3. ASSUME NEW t \in Heartbeats, Begin(t) PROVE ServedInv'
  BY <1>3 DEF Begin, ClearSession, ServedInv
<1>4. ASSUME NEW command \in Commands, NEW stream \in Streams \cup {NoStream},
             NEW value \in Nat, Command(command, stream, value),
             command \notin {"PING", "POLL_TELEMETRY"}
      PROVE  ServedInv'
  <2>1. call' = Started(command, stream, value, FALSE)
    BY <1>4, Zenon DEF Command, Call, Start, Started, Idle
  <2>2. /\ ready' = ready /\ loop' = loop
        /\ interval' = interval /\ lastPoll' = lastPoll /\ now' = now /\ unserved' = unserved
    BY <1>4 DEF Command, Call, clocks
  <2>3. Overdue' = Latency + ReplyDelay + loop
    BY <1>4, <2>1, <2>2 DEF Overdue, InLoop, Started
  <2>. QED
    BY <1>2, <2>2, <2>3, ServedKept DEF ServedInv
<1>5. CASE SketchCommand
  BY <1>4, <1>5, ClockFacts DEF SketchCommand, Commands, StateCommands
<1>6. CASE Refuse
  <2>1. /\ call' = Idle /\ ready' = ready /\ loop' = loop
        /\ interval' = interval /\ lastPoll' = lastPoll /\ now' = now /\ unserved' = unserved
    BY <1>1, <1>6 DEF Refuse, clocks
  <2>. QED
    BY <1>2, <2>1, ServedKept DEF ServedInv, Overdue, Idle
<1>7. CASE PollNotReady
  BY <1>7 DEF PollNotReady, ServedInv
<1>8. CASE PollTelemetry
  <2>1. call' = Started("POLL_TELEMETRY", NoStream, 0, FALSE)
    BY <1>8, Zenon DEF PollTelemetry, Start, Started, Idle
  <2>2. /\ interval' = interval /\ lastPoll' = now /\ now' = now /\ unserved' = 0
    BY <1>8 DEF PollTelemetry
  <2>3. /\ Subscribed' = Subscribed /\ ServiceMs' = ServiceMs
        /\ Elapsed(lastPoll)' = 0 /\ Overdue' = 0
    BY <2>1, <2>2, ElapsedOfNow
       DEF Subscribed, ServiceMs, Shortest, Elapsed, Overdue, InLoop, Started, Typed
  <2>4. Subscribed # {} => 0 <= ServiceMs - 1 + 0
    BY ServiceValue
  <2>. QED
    BY <2>2, <2>3, <2>4 DEF ServedInv
\* A poll that finds the streams not due.
<1>9. ASSUME Subscribed # {}, ready, ~TelemetryDue PROVE unserved <= ServiceMs - 1
  BY <1>2, <1>9, ServiceValue, ClockFacts DEF TelemetryDue, Typed, Stopwatch
<1>10. CASE PollPing
  <2>1. call' = Started("PING", NoStream, 0, FALSE)
    BY <1>10, Zenon DEF PollPing, Start, Started, Idle
  <2>2. /\ ready /\ ~TelemetryDue
        /\ interval' = interval /\ lastPoll' = lastPoll /\ now' = now /\ unserved' = unserved
    BY <1>10 DEF PollPing
  <2>3. Overdue' = 0
    BY <2>1 DEF Overdue, InLoop, Started
  <2>4. Subscribed # {} => unserved <= ServiceMs - 1 + 0
    BY <1>9, <2>2, ServiceValue
  <2>. QED
    BY <1>2, <2>2, <2>3, <2>4, ServedKept DEF ServedInv
<1>11. CASE PollNothing
  <2>1. /\ ready /\ ~TelemetryDue /\ call' = Idle /\ loop' = 0
        /\ interval' = interval /\ lastPoll' = lastPoll /\ now' = now /\ unserved' = unserved
    BY <1>1, <1>11 DEF PollNothing
  <2>2. Overdue' = Latency + ReplyDelay + 0
    BY <2>1 DEF Overdue, Idle
  <2>3. Subscribed # {} => unserved <= ServiceMs - 1 + (Latency + ReplyDelay + 0)
    BY <1>9, <2>1, ServiceValue, ClockFacts DEF Typed, Stopwatch
  <2>. QED
    BY <1>2, <2>1, <2>2, <2>3, ServedKept DEF ServedInv
<1>. QED
  BY <1>3, <1>5, <1>6, <1>7, <1>8, <1>10, <1>11 DEF Sketch, Poll

\* An answer serves the streams, or takes a source out or in.
LEMMA ServedProgress == Typed /\ Typed' /\ TimeInv /\ ServedInv /\ Progress => ServedInv'
<1>. SUFFICES ASSUME Typed, Typed', TimeInv, ServedInv, Progress PROVE ServedInv'
  OBVIOUS
<1>1. CASE Transmit
  <2>1. PICK answer \in Answers : call' = [call EXCEPT !.phase = "waiting", !.answer = answer]
    BY <1>1 DEF Transmit
  <2>2. call'.phase = "waiting" /\ call'.command = call.command /\ call'.begin = call.begin
    BY <2>1 DEF Typed, Calls
  <2>3. /\ call.phase = "sending" /\ SendingTime
        /\ ready' = ready /\ loop' = loop /\ age' = 0
        /\ interval' = interval /\ lastPoll' = lastPoll /\ now' = now /\ unserved' = unserved
    BY <1>1 DEF Transmit, TimeInv
  <2>4. /\ Overdue \in Nat /\ Overdue' \in Nat /\ Overdue <= Overdue'
    BY <2>2, <2>3, ClockFacts DEF Overdue, InLoop, SendingTime, Typed, Calls, Stopwatch
  <2>. QED
    BY <2>3, <2>4, ServedKept, ServiceValue, ClockFacts DEF ServedInv, Typed, Stopwatch
<1>2. ASSUME NEW failure, FailSession(failure) PROVE ServedInv'
  BY <1>2 DEF FailSession, ClearSession, ServedInv
<1>3. CASE TransmitFails \/ ReceiveInitRequired \/ Timeout
  BY <1>2, <1>3 DEF TransmitFails, ReceiveInitRequired, Timeout
<1>4. CASE ReceiveReady
  <2>1. interval' = Unsubscribed
    BY <1>4, ReceiveFacts DEF ReceiveReady, Receive, BeginInv
  <2>2. Subscribed' = {}
    BY <2>1 DEF Subscribed, Unsubscribed
  <2>. QED
    BY <2>2 DEF ServedInv
\* The answer to a call leaves the loop no later than the call was allowed to be.
<1>5. ASSUME NEW answer \in {"ACK", "ERROR"}, Receive(answer), call' = Idle
      PROVE  /\ now' = now /\ Overdue' = Latency + ReplyDelay + loop'
             /\ Overdue \in Nat /\ Overdue' \in Nat /\ Overdue <= Overdue'
             /\ ready /\ Subscribed # {} =>
                  /\ Elapsed(lastPoll) = unserved
                  /\ unserved <= ServiceMs - 1 + Overdue
  <2>1. /\ call.phase = "waiting" /\ call.answer = answer /\ WaitingTime
        /\ now' = now /\ age' = age /\ loop' = loop
    BY <1>5, ReceiveFacts DEF Receive
  <2>2. Overdue' = Latency + ReplyDelay + loop'
    BY <1>5 DEF Overdue, Idle
  <2>3. Overdue \in Nat /\ Overdue' \in Nat /\ Overdue <= Overdue'
    BY <2>1, <2>2, ClockFacts DEF Overdue, WaitingTime, Typed, Stopwatch
  <2>. QED
    BY <2>1, <2>2, <2>3 DEF ServedInv
<1>6. ASSUME NEW answer \in {"ACK", "ERROR"}, Receive(answer), call' = Idle, ready,
             interval' = interval, lastPoll' = lastPoll, unserved' = unserved
      PROVE  ServedInv'
  BY <1>5, <1>6, ServedKept, ServiceValue, ClockFacts DEF ServedInv, Typed, Stopwatch
<1>7. CASE ReceiveHeartbeatAck
  <2>1. /\ Receive("ACK") /\ call' = Idle /\ lastPoll' = lastPoll /\ unserved' = unserved
        /\ ready' = ready /\ interval' \in {interval, Unsubscribed}
    BY <1>7 DEF ReceiveHeartbeatAck, Finish
  <2>2. CASE interval' = Unsubscribed
    <3>1. Subscribed' = {}
      BY <2>2 DEF Subscribed, Unsubscribed
    <3>. QED
      BY <3>1 DEF ServedInv
  <2>3. CASE interval' = interval /\ ready
    BY <1>6, <2>1, <2>3
  <2>4. CASE ~ready
    BY <2>1, <2>4 DEF ServedInv
  <2>. QED
    BY <2>1, <2>2, <2>3, <2>4
<1>8. CASE ReceiveSubscribeAck
  <2>1. /\ Receive("ACK") /\ call' = Idle /\ lastPoll' = now /\ unserved' = 0
    BY <1>8 DEF ReceiveSubscribeAck, Finish
  <2>2. Elapsed(lastPoll)' = unserved'
    BY <1>5, <2>1, ElapsedOfNow DEF Elapsed, Typed
  <2>3. (Typed /\ Subscribed # {} => ServiceMs \in Nat \ {0})'
    BY ServicePositive, PTL
  <2>4. Subscribed' # {} => unserved' <= ServiceMs' - 1 + Overdue'
    BY <1>5, <2>1, <2>3
  <2>. QED
    BY <2>2, <2>4 DEF ServedInv
<1>9. CASE ReceiveUnsubscribeAck
  <2>1. /\ Receive("ACK") /\ call' = Idle /\ lastPoll' = lastPoll /\ unserved' = unserved
        /\ ready' = ready
    BY <1>9 DEF ReceiveUnsubscribeAck, Finish
  <2>2. \A s \in Streams : interval'[s] \in {interval[s], 0}
    BY <1>9 DEF ReceiveUnsubscribeAck, Typed
  <2>3. Elapsed(lastPoll)' = Elapsed(lastPoll)
    BY <1>5, <2>1 DEF Elapsed
  <2>4. ASSUME Subscribed' # {}, ready
        PROVE  Elapsed(lastPoll)' = unserved' /\ unserved' <= ServiceMs' - 1 + Overdue'
    <3>1. Subscribed # {} /\ ServiceMs <= ServiceMs'
      BY <2>2, <2>4, ServiceSlower
    <3>2. ServiceMs \in Nat \ {0}
      BY <3>1, ServiceValue
    <3>3. (Typed /\ Subscribed # {} => ServiceMs \in Nat \ {0})'
      BY ServicePositive, PTL
    <3>. QED
      BY <1>5, <2>1, <2>3, <2>4, <3>1, <3>2, <3>3, ClockFacts DEF Typed, Stopwatch
  <2>. QED
    BY <2>1, <2>4 DEF ServedInv
<1>10. CASE ReceiveOtherAck
  <2>1. /\ Receive("ACK") /\ call' = Idle /\ ready' = ready
        /\ interval' = interval /\ lastPoll' = lastPoll /\ unserved' = unserved
    BY <1>10 DEF ReceiveOtherAck, Finish
  <2>. QED
    BY <1>6, <2>1 DEF ServedInv
<1>11. CASE ReceiveError
  <2>1. /\ Receive("ERROR") /\ call' = Idle /\ ready' = (ready /\ ~call.begin)
        /\ interval' = interval /\ lastPoll' = lastPoll /\ unserved' = unserved
    BY <1>11 DEF ReceiveError, Finish
  <2>. QED
    BY <1>6, <2>1 DEF ServedInv
<1>. QED
  BY <1>1, <1>3, <1>4, <1>7, <1>8, <1>9, <1>10, <1>11 DEF Progress

\* A millisecond makes the streams later by one.
LEMMA ServedTick == Typed /\ TimeInv /\ ServedInv /\ Tick => ServedInv'
<1>. SUFFICES ASSUME Typed, TimeInv, ServedInv, Tick PROVE ServedInv'
  OBVIOUS
<1>0. SUFFICES ASSUME ready', Subscribed' # {},
                      call'.phase = "waiting" => call'.answer # "NONE"
               PROVE  Elapsed(lastPoll)' = unserved' /\ unserved' <= ServiceMs' - 1 + Overdue'
  BY DEF ServedInv
<1>1. /\ ready /\ Subscribed' = Subscribed /\ ServiceMs' = ServiceMs /\ Subscribed # {}
  BY <1>0, TickFacts DEF Subscribed, ServiceMs, Shortest
<1>2. /\ call'.phase = call.phase /\ call'.answer = call.answer /\ call'.waited \in Stopwatch
      /\ InLoop' = InLoop
  <2>1. CASE call.phase = "idle"
    BY <2>1, TickFacts DEF Tick, Advance, TimeInv, InLoop, Typed, Calls
  <2>2. CASE call.phase # "idle"
    BY <2>2, TickCall, LaterType DEF Typed, Calls
  <2>. QED
    BY <2>1, <2>2
<1>3. /\ Elapsed(lastPoll) = unserved /\ unserved <= ServiceMs - 1 + Overdue
  BY <1>0, <1>1, <1>2 DEF ServedInv
<1>4. /\ ServiceMs \in Nat \ {0}
      /\ ServiceMs + Latency + ReplyDelay + LoopPeriod < ClockSize
  <2>1. Shortest \in Nat /\ ServiceMs \in Nat \ {0} /\ ServiceMs <= Shortest
    BY <1>1, ServiceValue, ShortestValue, ClockFacts
  <2>2. Shortest + Latency + ReplyDelay + LoopPeriod < ClockSize
    BY <1>1, ServiceValue
  <2>. QED
    BY <2>1, <2>2, ClockFacts
\* The call or the loop is not over, so there is a millisecond left in Overdue.
<1>5. /\ Overdue \in Nat /\ Overdue' = Overdue + 1
      /\ Overdue + 1 <= Latency + ReplyDelay + LoopPeriod
  <2>1. CASE call.phase = "idle"
    <3>1. loop < LoopPeriod /\ loop' = Later(loop)
      BY <2>1, TickFacts DEF InTime, TimeInv
    <3>2. loop' = loop + 1
      BY <1>4, <3>1, ClockFacts DEF Later, Typed, Stopwatch
    <3>. QED
      BY <1>2, <2>1, <3>1, <3>2, ClockFacts DEF Overdue, Typed, Stopwatch
  <2>2. CASE call.phase = "sending"
    <3>1. call.waited < Latency /\ call.waited \in Nat /\ SendingTime
      BY <2>2, TickFacts, ClockFacts DEF InTime, TimeInv, Typed, Calls, Stopwatch
    <3>2. call'.waited = call.waited + 1
      BY <1>4, <2>2, <3>1, TickCall, ClockFacts DEF Later
    <3>3. CASE InLoop
      <4>1. loop < LoopPeriod
        BY <3>1, <3>3, ClockFacts DEF SendingTime, LoopHolds, Typed, Stopwatch
      <4>2. loop' = Later(loop)
        BY <2>2, <3>3, TickCall
      <4>3. loop' = loop + 1
        BY <1>4, <4>1, <4>2, ClockFacts DEF Later, Typed, Stopwatch
      <4>. QED
        BY <1>2, <2>2, <3>3, <4>1, <4>3, ClockFacts DEF Overdue, Typed, Stopwatch
    <3>4. CASE ~InLoop
      BY <1>2, <2>2, <3>1, <3>2, <3>4, ClockFacts DEF Overdue
    <3>. QED
      BY <3>3, <3>4
  <2>3. CASE call.phase = "waiting"
    <3>1. age < ReplyDelay /\ WaitingTime
      BY <1>0, <1>2, <2>3, TickFacts DEF InTime, TimeInv
    <3>2. age \in Nat /\ age' = age + 1
      BY <1>4, <3>1, TickFacts, ClockFacts DEF Later, Typed, Stopwatch
    <3>3. CASE InLoop
      <4>1. loop < LoopPeriod
        BY <3>1, <3>3, ClockFacts DEF WaitingTime, LoopHolds, Typed, Stopwatch
      <4>2. loop' = Later(loop)
        BY <2>3, <3>3, TickCall
      <4>3. loop' = loop + 1
        BY <1>4, <4>1, <4>2, ClockFacts DEF Later, Typed, Stopwatch
      <4>. QED
        BY <1>2, <2>3, <3>3, <4>1, <4>3, ClockFacts DEF Overdue, Typed, Stopwatch
    <3>4. CASE ~InLoop
      BY <1>2, <2>3, <3>1, <3>2, <3>4, ClockFacts DEF Overdue
    <3>. QED
      BY <3>3, <3>4
  <2>. QED
    BY <2>1, <2>2, <2>3 DEF Typed, Calls
<1>6. unserved \in Nat /\ unserved + 1 < ClockSize
  BY <1>3, <1>4, <1>5, ClockFacts DEF Typed, Stopwatch
<1>7. unserved' = unserved + 1
  BY <1>1, <1>6, ClockFacts DEF Tick, Advance, Later
<1>8. Elapsed(lastPoll)' = unserved'
  BY <1>3, <1>6, <1>7, TickFacts, ElapsedNext DEF Elapsed, Typed
<1>. QED
  BY <1>1, <1>3, <1>4, <1>5, <1>6, <1>7, <1>8

\* Every step keeps the streams in time.
LEMMA ServedNext == Typed /\ Typed' /\ TimeInv /\ ServedInv /\ [Next]_vars => ServedInv'
<1>. SUFFICES ASSUME ServedInv, UNCHANGED vars PROVE ServedInv'
  BY ServedSketch, ServedProgress, ServedTick DEF Next
<1>. QED
  BY ServedKept DEF vars, client, clocks, ServedInv, Overdue, InLoop

Timed == Typed /\ TimeInv /\ ServedInv

\* Types, ages and streams need no punctual sketch.
LEMMA TimedInvariant == Spec => []Timed
<1>1. Init => Timed
  BY TypedInit, TimeInit, ServedInit DEF Timed
<1>2. Timed /\ [Next]_vars => Timed'
  BY TypedNext, TimeNext, ServedNext DEF Timed
<1>. QED
  BY <1>1, <1>2, PTL DEF Spec

\* poll() goes to the bus once per source in the shortest interval, late by at most
\* one call and one loop, for any number of sources and however subscriptions come
\* and go.
THEOREM StreamsServed == Spec => []ServedInTime
<1>1. Timed => ServedInTime
  <2>. SUFFICES ASSUME Timed, ready, call = Idle, Subscribed # {}
                PROVE  unserved <= Shortest \div Cardinality(Subscribed)
                                   + LoopPeriod + Latency + ReplyDelay
    BY DEF ServedInTime
  <2>1. /\ unserved \in Nat /\ loop \in Nat /\ loop <= LoopPeriod
        /\ unserved <= ServiceMs - 1 + (Latency + ReplyDelay + loop)
    BY ClockFacts DEF Timed, Typed, Stopwatch, TimeInv, IdleTime, ServedInv, Overdue, Idle
  <2>2. /\ ServiceMs \in Nat \ {0} /\ ServiceMs - 1 <= Shortest \div Cardinality(Subscribed)
        /\ Shortest \div Cardinality(Subscribed) \in Nat
    <3>1. Typed
      BY DEF Timed
    <3>2. ServiceMs \in Nat \ {0} /\ ServiceMs - 1 <= Shortest \div Cardinality(Subscribed)
      BY <3>1, ServiceValue
    <3>3. Shortest \in Nat /\ Cardinality(Subscribed) \in Nat \ {0}
      BY <3>1, ShortestValue, SubscribedCount, ClockFacts
    <3>. QED
      BY <3>2, <3>3, DivSmaller
  <2>. QED
    BY <2>1, <2>2, ClockFacts
<1>. QED
  BY <1>1, TimedInvariant, PTL

\* The unsigned differences that poll() takes of millis() are the time that passed,
\* for every width of the clock: no stamp is ever a wrap old when poll() reads it.
THEOREM ClocksExact == Spec => []ClockExact
<1>1. Timed => ClockExact
  BY DEF Timed, ClockExact, TimeInv, IdleTime, Recent, ServedInv, Idle
<1>. QED
  BY <1>1, TimedInvariant, PTL

----------------------------------------------------------------------------
(* When a call is given up                                                  *)

\* receive() measures how long the call has waited, and an answer is in time.
WaitInv ==
  call.phase # "idle" =>
    /\ error = "NONE" /\ Elapsed(call.started) = call.waited
    /\ call.phase = "sending" => call.waited <= Latency
    /\ call.phase = "waiting" =>
         call.waited <= IF call.answer # "NONE" THEN Latency + age
                        ELSE RequestTimeout + Latency

\* At the start no call waits.
LEMMA WaitInit == Init => WaitInv
BY DEF Init, WaitInv, Idle

\* A call has not waited when it starts.
LEMMA WaitSketch == Typed /\ Sketch => WaitInv'
<1>. SUFFICES ASSUME Typed, Sketch PROVE WaitInv'
  OBVIOUS
<1>1. ASSUME NEW command, NEW stream, NEW value, NEW begin \in BOOLEAN,
             call' = Started(command, stream, value, begin), error' = "NONE", now' = now
      PROVE  WaitInv'
  BY <1>1, ElapsedOfNow, ClockFacts DEF Started, WaitInv, Elapsed, Typed
<1>2. ASSUME NEW t \in Heartbeats, Begin(t) PROVE WaitInv'
  <2>1. call' = Started("INIT", NoStream, t, TRUE) /\ error' = "NONE" /\ now' = now
    BY <1>2, Zenon DEF Begin, Start, Started, Idle
  <2>. QED
    BY <1>1, <2>1
<1>3. ASSUME NEW command \in Commands, NEW stream \in Streams \cup {NoStream},
             NEW value \in Nat, Command(command, stream, value)
      PROVE  WaitInv'
  <2>1. call' = Started(command, stream, value, FALSE) /\ error' = "NONE"
    BY <1>3, Zenon DEF Command, Call, Start, Started, Idle
  <2>2. now' = now
    BY <1>3 DEF Command, Call, clocks
  <2>. QED
    BY <1>1, <2>1, <2>2
<1>4. CASE SketchCommand
  BY <1>3, <1>4, ClockFacts DEF SketchCommand, Commands, StateCommands
<1>5. CASE Refuse \/ PollNotReady \/ PollNothing
  <2>1. call' = Idle
    BY <1>5 DEF Refuse, PollNotReady, PollNothing
  <2>. QED
    BY <2>1 DEF WaitInv, Idle
<1>6. CASE PollTelemetry
  <2>1. /\ call' = Started("POLL_TELEMETRY", NoStream, 0, FALSE)
        /\ error' = "NONE" /\ now' = now
    BY <1>6, Zenon DEF PollTelemetry, Start, Started, Idle
  <2>. QED
    BY <1>1, <2>1
<1>7. CASE PollPing
  <2>1. call' = Started("PING", NoStream, 0, FALSE) /\ error' = "NONE" /\ now' = now
    BY <1>7, Zenon DEF PollPing, Start, Started, Idle
  <2>. QED
    BY <1>1, <2>1
<1>. QED
  BY <1>2, <1>4, <1>5, <1>6, <1>7 DEF Sketch, Poll

\* A frame leaves in time for its answer, and a return ends the wait.
LEMMA WaitProgress == Typed /\ WaitInv /\ Progress => WaitInv'
<1>. SUFFICES ASSUME Typed, WaitInv, Progress PROVE WaitInv'
  OBVIOUS
<1>1. CASE Transmit
  <2>1. PICK answer \in Answers : call' = [call EXCEPT !.phase = "waiting", !.answer = answer]
    BY <1>1 DEF Transmit
  <2>2. /\ call'.phase = "waiting" /\ call'.started = call.started
        /\ call'.waited = call.waited /\ call.waited \in Nat
    BY <2>1, ClockFacts DEF Typed, Calls, Stopwatch
  <2>3. /\ call.phase = "sending" /\ error' = error /\ now' = now /\ age' = 0
    BY <1>1 DEF Transmit
  <2>4. Elapsed(call.started)' = Elapsed(call.started)
    BY <2>2, <2>3 DEF Elapsed
  <2>. QED
    BY <2>2, <2>3, <2>4, ClockFacts DEF WaitInv
<1>2. CASE ReceiveReady /\ call.value # 0
  <2>1. /\ call' = Started("SET_HEARTBEAT_CONFIG", NoStream, call.value, TRUE)
        /\ error' = "NONE"
    BY <1>2, Zenon DEF ReceiveReady, Start, Started, Idle
  <2>2. now' = now
    BY <1>2 DEF ReceiveReady, Receive
  <2>3. Elapsed(call.started)' = 0
    BY <2>1, <2>2, ElapsedOfNow DEF Started, Elapsed, Typed
  <2>. QED
    BY <2>1, <2>3, ClockFacts DEF Started, WaitInv
<1>3. CASE Progress /\ ~Transmit /\ ~(ReceiveReady /\ call.value # 0)
  <2>1. call' = Idle
    BY <1>3, Zenon DEF Progress, TransmitFails, FailSession, Finish, ReceiveReady,
       ReceiveHeartbeatAck, ReceiveSubscribeAck, ReceiveUnsubscribeAck, ReceiveOtherAck,
       ReceiveError, ReceiveInitRequired, Timeout
  <2>. QED
    BY <2>1 DEF WaitInv, Idle
<1>. QED
  BY <1>1, <1>2, <1>3

\* receive() gives up before the wait gets longer than its timeout and a read.
LEMMA WaitTick == Typed /\ TimeInv /\ WaitInv /\ Tick => WaitInv'
<1>. SUFFICES ASSUME Typed, TimeInv, WaitInv, Tick PROVE WaitInv'
  OBVIOUS
<1>1. CASE call.phase = "idle"
  <2>1. call' = Idle
    BY <1>1 DEF TimeInv, Tick, Advance
  <2>. QED
    BY <2>1 DEF WaitInv, Idle
<1>2. CASE call.phase # "idle"
  <2>1. /\ call'.phase = call.phase /\ call'.answer = call.answer
        /\ call'.waited = Later(call.waited) /\ call'.started = call.started
        /\ error' = error /\ call.started \in Millis /\ call.waited \in Nat /\ age \in Nat
    BY <1>2, TickCall, ClockFacts DEF Tick, Advance, Idle, Typed, Calls, Stopwatch
  <2>2. Elapsed(call.started) = call.waited /\ error = "NONE"
    BY <1>2 DEF WaitInv
  <2>3. /\ RequestTimeout + Latency < ClockSize - 1
        /\ Latency + ReplyDelay < RequestTimeout
    BY TimingAssumption
  <2>4. /\ call.waited + 1 < ClockSize
        /\ call.phase = "sending" => call.waited + 1 <= Latency
        /\ call.phase = "waiting" /\ call.answer = "NONE" =>
             call.waited + 1 <= RequestTimeout + Latency
        /\ call.phase = "waiting" /\ call.answer # "NONE" =>
             call.waited <= Latency + age /\ age < ReplyDelay
    <3>1. CASE call.phase = "sending"
      <4>1. call.waited < Latency
        BY <3>1, TickFacts DEF InTime
      <4>. QED
        BY <2>1, <2>3, <3>1, <4>1, ClockFacts
    <3>2. CASE call.phase = "waiting" /\ call.answer = "NONE"
      <4>1. call.waited < RequestTimeout + Latency
        BY <2>1, <2>2, <3>2, TickFacts, ClockFacts DEF InTime, TimeUp
      <4>. QED
        BY <2>1, <2>3, <3>2, <4>1, ClockFacts
    <3>3. CASE call.phase = "waiting" /\ call.answer # "NONE"
      <4>1. age < ReplyDelay /\ call.waited <= Latency + age
        BY <3>3, TickFacts DEF InTime, WaitInv
      <4>. QED
        BY <2>1, <2>3, <3>3, <4>1, ClockFacts
    <3>. QED
      BY <1>2, <3>1, <3>2, <3>3 DEF Typed, Calls
  <2>5. call'.waited = call.waited + 1 /\ Elapsed(call.started)' = call.waited + 1
    BY <2>1, <2>2, <2>4, TickFacts, ElapsedNext, ClockFacts DEF Later, Elapsed, Typed
  <2>6. call.phase = "waiting" /\ call.answer # "NONE" => age' = age + 1
    BY <2>1, <2>3, <2>4, TickFacts, ClockFacts DEF Later
  <2>. QED
    BY <2>1, <2>2, <2>4, <2>5, <2>6, ClockFacts DEF WaitInv
<1>. QED
  BY <1>1, <1>2

\* Every step keeps the waiting times.
LEMMA WaitNext == Typed /\ TimeInv /\ WaitInv /\ [Next]_vars => WaitInv'
<1>. SUFFICES ASSUME WaitInv, UNCHANGED vars PROVE WaitInv'
  BY WaitSketch, WaitProgress, WaitTick DEF Next
<1>. QED
  BY DEF vars, client, clocks, WaitInv, Elapsed

\* No step of a call but Timeout reports a timeout, and Timeout only in time.
LEMMA TimeoutStep ==
  Typed /\ TimeInv /\ WaitInv /\ [Next]_vars /\ call # Idle /\ error' = "TIMEOUT" =>
    call.waited \in RequestTimeout .. RequestTimeout + Latency
<1>. SUFFICES ASSUME Typed, TimeInv, WaitInv, [Next]_vars, call # Idle, error' = "TIMEOUT"
              PROVE  call.waited \in RequestTimeout .. RequestTimeout + Latency
  OBVIOUS
<1>1. call.phase # "idle" /\ error = "NONE" /\ Elapsed(call.started) = call.waited
  BY DEF TimeInv, WaitInv
<1>2. Next
  BY <1>1 DEF vars, client
<1>3. ~Sketch
  BY Zenon DEF Sketch, Begin, SketchCommand, Command, Call, Refuse, Poll,
     PollNotReady, PollTelemetry, PollPing, PollNothing
<1>4. ~Tick
  BY <1>1 DEF Tick, Advance
<1>5. Timeout
  BY <1>1, <1>2, <1>3, <1>4
     DEF Next, Progress, Transmit, TransmitFails, FailSession, ReceiveReady, Start,
     ReceiveHeartbeatAck, ReceiveSubscribeAck, ReceiveUnsubscribeAck, ReceiveOtherAck,
     ReceiveError, ReceiveInitRequired
<1>6. call.phase = "waiting" /\ call.waited >= RequestTimeout + 0
  BY <1>1, <1>5 DEF Timeout, TimeUp
<1>7. /\ call.waited \in Nat /\ age \in Nat
      /\ Latency + ReplyDelay < RequestTimeout
  BY ClockFacts, TimingAssumption DEF Typed, Calls, Stopwatch
<1>8. CASE call.answer = "NONE"
  BY <1>6, <1>7, <1>8, ClockFacts DEF WaitInv
<1>9. CASE call.answer # "NONE"
  <2>1. call.waited <= Latency + age /\ age <= ReplyDelay
    BY <1>6, <1>9 DEF WaitInv, TimeInv, WaitingTime
  <2>. QED
    BY <1>6, <1>7, <2>1, ClockFacts
<1>. QED
  BY <1>8, <1>9

\* A call is given up when its timeout has passed, no earlier and at most one read of
\* the bus later, wherever millis() wraps while it waits.
THEOREM GivenUpOnTime == Spec => TimesOutOnTime
<1>. DEFINE Inv == Typed /\ TimeInv /\ WaitInv
<1>1. Init => Inv
  BY TypedInit, TimeInit, WaitInit
<1>2. Inv /\ [Next]_vars => Inv'
  BY TypedNext, TimeNext, WaitNext
<1>3. Inv /\ [Next]_vars =>
        [call # Idle /\ error' = "TIMEOUT" =>
           call.waited \in RequestTimeout .. RequestTimeout + Latency]_vars
  BY TimeoutStep
<1>. QED
  BY <1>1, <1>2, <1>3, PTL DEF Spec, TimesOutOnTime
=============================================================================
