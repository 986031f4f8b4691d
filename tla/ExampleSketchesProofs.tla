------------------------ MODULE ExampleSketchesProofs ------------------------
(***************************************************************************)
(* Proofs about ExampleSketches, for every size of the clock, latency,     *)
(* reply delay, loop period, heartbeat timeout and delay that meets its    *)
(* assumptions, and every sketch.                                          *)
(***************************************************************************)
EXTENDS ExampleSketches, KinisiHeartbeatProofs

----------------------------------------------------------------------------
(* The programs *)

\* The assumptions in a form the provers use.
LEMMA SketchFacts ==
  /\ Tenth \in Nat \ {0} /\ Second \in Nat \ {0} /\ RunTime \in Nat \ {0}
  /\ Monitoring \in Nat \ {0} /\ Monitoring < ClockSize
  /\ RunTime + 2 * LoopPeriod + Latency + ReplyDelay < ClockSize
  /\ Latency + LoopPeriod + Tenth + Monitoring \div 5 <= Monitoring
  /\ Latency + LoopPeriod + Tenth + ReplyDelay < Monitoring
  /\ \A name \in Sketches : name \in DOMAIN Setup
BY SketchAssumption, DelayAssumption, ProgramAssumption, TimingAssumption

\* begin() sends these, and the first is its sign.
Begins == {"INIT", "SET_HEARTBEAT_CONFIG"}
Polls == {"PING", "POLL_TELEMETRY"}

\* What set-up does after the delay().
Last == {"POLL", "GET_PLATFORM_ODOMETRY", "SET_PLATFORM_POSITION"}

\* Set-up begins the session first and starts a motion last, and polls after its delay().
LEMMA SetupFacts ==
  ASSUME NEW name \in DOMAIN Setup
  PROVE  /\ Len(Setup[name]) \in Nat \ {0}
         /\ Setup[name][1] = "BEGIN"
         /\ \A i \in 1 .. Len(Setup[name]) :
              /\ i # 1 => Setup[name][i] \notin
                   {"BEGIN", "TOGGLE_STATUS_LED_STATE"} \cup Begins \cup Polls \cup Stops
              /\ Setup[name][i] \in Starts =>
                   i = Len(Setup[name]) /\ name \in {"motor", "platform"}
              /\ i + 1 <= Len(Setup[name]) /\ Setup[name][i] \in {"DELAY"} \cup Last =>
                   Setup[name][i + 1] \in Last
         /\ name \in {"motor", "platform"} => Setup[name][Len(Setup[name])] \in Starts
<1>1. name \in {"blink", "encoder", "subscriptions", "sensors", "frequency", "motor", "platform"}
  BY DEF Setup
<1>. USE DEF Begins, Polls, Last, Starts, Stops
<1>2. CASE name = "blink"
  <2>1. Setup[name] = <<"BEGIN">>
    BY <1>2 DEF Setup
  <2>. QED
    BY <1>2, <2>1
<1>3. CASE name = "encoder"
  <2>1. Setup[name] = <<"BEGIN", "INITIALIZE_ENCODER", "START_ENCODER_ODOMETRY", "SUBSCRIBE">>
    BY <1>3 DEF Setup
  <2>. QED
    BY <1>3, <2>1
<1>4. CASE name = "subscriptions"
  <2>1. Setup[name] = <<"BEGIN", "SUBSCRIBE">>
    BY <1>4 DEF Setup
  <2>. QED
    BY <1>4, <2>1
<1>5. CASE name = "sensors"
  <2>1. Setup[name] = <<"BEGIN">>
    BY <1>5 DEF Setup
  <2>. QED
    BY <1>5, <2>1
<1>6. CASE name = "frequency"
  <2>1. Setup[name] = <<"BEGIN", "SET_CONTROLLER_FREQUENCY", "SET_ODOMETRY_FREQUENCY",
                        "GET_CONTROLLER_FREQUENCY", "GET_ODOMETRY_FREQUENCY">>
    BY <1>6 DEF Setup
  <2>. QED
    BY <1>6, <2>1
<1>7. CASE name = "motor"
  <2>1. Setup[name] = <<"BEGIN", "VERSION", "INITIALIZE_MOTOR_CONTROLLER",
                        "INITIALIZE_MOTOR_POSITION_PID_CONTROLLER", "RESET_MOTOR_POSITION",
                        "SET_MOTOR_POSITION">>
    BY <1>7 DEF Setup
  <2>. QED
    BY <1>7, <2>1
<1>8. CASE name = "platform"
  <2>1. Setup[name] = <<"BEGIN", "VERSION", "INITIALIZE_OMNI_PLATFORM",
                        "START_PLATFORM_CONTROLLER",
                        "INITIALIZE_PLATFORM_POSITION_PID_CONTROLLER",
                        "RESET_PLATFORM_POSITION", "DELAY", "POLL",
                        "GET_PLATFORM_ODOMETRY", "SET_PLATFORM_POSITION">>
    BY <1>8 DEF Setup
  <2>. QED
    BY <1>8, <2>1
<1>. QED
  BY <1>1, <1>2, <1>3, <1>4, <1>5, <1>6, <1>7, <1>8

\* The work of loop(): blink toggles, position-control stops, sensors reads.
LEMMA WorkFacts ==
  ASSUME NEW name \in DOMAIN Setup
  PROVE  /\ name = "blink" => Work[name] = <<"TOGGLE_STATUS_LED_STATE">>
         /\ name = "sensors" => Work[name] = <<"GET_TEMPERATURE", "GET_IMU">>
         /\ name = "motor" => Work[name] = <<"DELETE_MOTOR_CONTROLLER">>
         /\ name = "platform" => Work[name] = <<"STOP_PLATFORM_CONTROLLER">>
         /\ name \notin {"blink", "sensors", "motor", "platform"} => Work[name] = <<>>
<1>1. Work[name] = CASE name = "blink" -> <<"TOGGLE_STATUS_LED_STATE">>
                     [] name = "sensors" -> <<"GET_TEMPERATURE", "GET_IMU">>
                     [] name = "motor" -> <<"DELETE_MOTOR_CONTROLLER">>
                     [] name = "platform" -> <<"STOP_PLATFORM_CONTROLLER">>
                     [] OTHER -> <<>>
  BY Zenon DEF Work
<1>2. name = "blink" => Work[name] = <<"TOGGLE_STATUS_LED_STATE">>
  BY <1>1, Zenon
<1>3. name = "sensors" => Work[name] = <<"GET_TEMPERATURE", "GET_IMU">>
  BY <1>1, Zenon
<1>4. name = "motor" => Work[name] = <<"DELETE_MOTOR_CONTROLLER">>
  BY <1>1, Zenon
<1>5. name = "platform" => Work[name] = <<"STOP_PLATFORM_CONTROLLER">>
  BY <1>1, Zenon
<1>6. name \notin {"blink", "sensors", "motor", "platform"} => Work[name] = <<>>
  BY <1>1, Zenon
<1>. QED
  BY <1>2, <1>3, <1>4, <1>5, <1>6

\* Where the work is one of the reads or ends a motion or toggles.
LEMMA WorkSteps ==
  ASSUME NEW name \in DOMAIN Setup, NEW i \in 1 .. Len(Work[name])
  PROVE  /\ name \in {"blink", "sensors", "motor", "platform"}
         /\ name = "blink" => Work[name][i] = "TOGGLE_STATUS_LED_STATE"
         /\ name = "sensors" => Work[name][i] \in {"GET_TEMPERATURE", "GET_IMU"}
         /\ name \in {"motor", "platform"} => Work[name][i] \in Stops
         /\ Len(Work[name]) \in Nat
BY WorkFacts DEF Stops
----------------------------------------------------------------------------
(* Types *)

\* The call in progress, whatever its command.
CallTyped ==
  call \in [phase : {"idle", "sending", "waiting"}, command : {call.command},
            stream : {call.stream}, value : Nat, begin : BOOLEAN, started : {call.started},
            waited : Stopwatch, answer : {"NONE", "ACK", "ERROR", "INIT_REQUIRED"}]

SketchTyped ==
  /\ now \in Millis /\ lastSent \in Millis /\ stamp \in Millis
  /\ ready \in BOOLEAN /\ ok \in BOOLEAN /\ expired \in BOOLEAN /\ called \in BOOLEAN
  /\ flag \in BOOLEAN /\ led \in BOOLEAN /\ motor \in BOOLEAN /\ refused \in BOOLEAN
  /\ heartbeat \in Nat /\ watchdog \in Nat
  /\ age \in Stopwatch /\ loop \in Stopwatch /\ ran \in Nat /\ timer \in Nat
  /\ sketch \in DOMAIN Setup
  /\ CallTyped

\* The part of the client the properties look at.
link == <<ready, heartbeat, lastSent, watchdog, expired, now, age>>

\* A call that starts is one of these.
LEMMA StartedTyped ==
  ASSUME NEW command, NEW stream, NEW value \in Nat, NEW begin \in BOOLEAN,
         call' = Started(command, stream, value, begin)
  PROVE  /\ CallTyped'
         /\ call'.phase = "sending" /\ call'.command = command /\ call'.value = value
         /\ call'.begin = begin /\ call'.waited = 0 /\ call'.answer = "NONE"
BY ClockFacts DEF Started, CallTyped, Stopwatch

\* A call that returns leaves the idle one.
LEMMA IdleTyped ==
  ASSUME call' = Idle
  PROVE  /\ CallTyped' /\ call'.phase = "idle" /\ call'.command = "PING"
         /\ call'.begin = FALSE /\ call'.answer = "NONE" /\ call'.waited = 0
BY ClockFacts DEF Idle, CallTyped, Stopwatch

----------------------------------------------------------------------------
(* What the steps do to the client *)

\* poll(): no session, a call, or nothing due.
PollEffect ==
  /\ call = Idle /\ loop' = 0 /\ UNCHANGED link
  /\ \/ ~ready /\ call' = Idle /\ ok' = FALSE
     \/ /\ ready /\ ok' = ok
        /\ \E command \in Polls : call' = Started(command, NoStream, 0, FALSE)
     \/ ready /\ ~PingDue /\ call' = Idle /\ ok' = TRUE

\* poll() pings, polls the telemetry or has nothing to send.
LEMMA PollKinds == Poll => PollEffect
<1>1. PollNotReady => PollEffect
  BY DEF PollNotReady, PollEffect, link, controller
<1>2. PollTelemetry => PollEffect
  <2>. SUFFICES ASSUME PollTelemetry PROVE PollEffect
    OBVIOUS
  <2>1. call' = Started("POLL_TELEMETRY", NoStream, 0, FALSE)
    BY Zenon DEF PollTelemetry, Start, Started, Idle
  <2>. QED
    BY <2>1 DEF PollTelemetry, PollEffect, link, controller, Polls
<1>3. PollPing => PollEffect
  <2>. SUFFICES ASSUME PollPing PROVE PollEffect
    OBVIOUS
  <2>1. call' = Started("PING", NoStream, 0, FALSE)
    BY Zenon DEF PollPing, Start, Started, Idle
  <2>. QED
    BY <2>1 DEF PollPing, PollEffect, link, controller, Polls
<1>4. PollNothing => PollEffect
  BY DEF PollNothing, PollEffect, link, controller
<1>. QED
  BY <1>1, <1>2, <1>3, <1>4 DEF Poll

\* A step of the sketch: begin(), a poll, nothing, a command, or its refusal.
BeginEffect ==
  /\ call = Idle /\ loop' = 0 /\ ready' = FALSE /\ heartbeat' = 0
  /\ UNCHANGED <<lastSent, watchdog, expired, now, age, ok>>
  /\ call' = Started("INIT", NoStream, Monitoring, TRUE)

CallEffect(s) ==
  /\ call = Idle /\ ready /\ UNCHANGED <<link, loop, ok>>
  /\ \E stream, value : value \in Nat /\ call' = Started(s, stream, value, FALSE)

SkipEffect == UNCHANGED <<link, loop, call>> /\ ok' \in {ok, FALSE}

DoEffect(s) ==
  \/ s = "BEGIN" /\ BeginEffect
  \/ s = "POLL" /\ PollEffect
  \/ s \notin {"BEGIN", "POLL"} /\ SkipEffect
     /\ (s \in {"GET_TEMPERATURE", "GET_IMU"} \/ at = "setup")
  \/ s \notin {"BEGIN", "POLL", "VERSION", "DELAY"} /\ CallEffect(s)

\* What the actions of KinisiHeartbeat do for one call of a sketch.
LEMMA CallKinds ==
  ASSUME NEW s, NEW stream, NEW value \in Nat, Call(s, stream, value)
  PROVE  CallEffect(s)
<1>1. call' = Started(s, stream, value, FALSE)
  BY Zenon DEF Call, Start, Started, Idle
<1>. QED
  BY <1>1 DEF Call, CallEffect, link, controller, clocks

\* What a step of a program does to the client.
LEMMA DoKinds ==
  ASSUME NEW s, Do(s), s \in {"VERSION", "DELAY"} => at = "setup",
         s = "SUBSCRIBE" => at = "setup"
  PROVE  DoEffect(s)
<1>0. Unsubscribed = Unsubscribed /\ 0 \in Nat /\ Intervals \subseteq Nat
  BY ClockFacts
<1>1. CASE s = "BEGIN"
  <2>1. BeginMonitored
    BY <1>1, Zenon DEF Do
  <2>2. call' = Started("INIT", NoStream, Monitoring, TRUE)
    BY <2>1, Zenon DEF BeginMonitored, Begin, Start, Started, Idle
  <2>. QED
    BY <1>1, <2>1, <2>2
       DEF BeginMonitored, Begin, ClearSession, BeginEffect, DoEffect, controller
<1>2. CASE s = "POLL"
  <2>1. Poll
    BY <1>2, Zenon DEF Do
  <2>. QED
    BY <1>2, <2>1, PollKinds DEF DoEffect
<1>3. ASSUME UNCHANGED vars PROVE SkipEffect
  BY <1>3 DEF vars, client, controller, clocks, SkipEffect, link
<1>4. ASSUME Refuse PROVE SkipEffect
  BY <1>4 DEF Refuse, controller, clocks, SkipEffect, link
<1>5. CASE s \in {"VERSION", "DELAY"}
  <2>1. UNCHANGED vars
    BY <1>5, Zenon DEF Do
  <2>. QED
    BY <1>3, <1>5, <2>1 DEF DoEffect
<1>6. CASE s = "SUBSCRIBE"
  <2>1. \/ Refuse \/ UNCHANGED vars \/ \E c \in Streams, i \in Intervals : Call(s, c, i)
    BY <1>6, Zenon DEF Do
  <2>. QED
    BY <1>0, <1>3, <1>4, <1>6, <2>1, CallKinds DEF DoEffect
<1>7. CASE s \in {"GET_TEMPERATURE", "GET_IMU"}
  <2>1. Call(s, NoStream, 0) \/ UNCHANGED vars
    BY <1>7, Zenon DEF Do
  <2>. QED
    BY <1>0, <1>3, <1>7, <2>1, CallKinds DEF DoEffect
<1>8. CASE s \notin {"BEGIN", "POLL", "VERSION", "DELAY", "SUBSCRIBE",
                     "GET_TEMPERATURE", "GET_IMU"}
  <2>1. Call(s, NoStream, 0) \/ (at = "setup" /\ Refuse)
    BY <1>8, Zenon DEF Do
  <2>. QED
    BY <1>0, <1>4, <1>8, <2>1, CallKinds DEF DoEffect
<1>. QED
  BY <1>1, <1>2, <1>5, <1>6, <1>7, <1>8

\* The frame gets through: what the controller makes of it, and its answer.
TransmitEffect ==
  /\ call.phase = "sending" /\ lastSent' = now /\ age' = 0
  /\ UNCHANGED <<ready, heartbeat, ok, now, loop>>
  /\ CallTyped' /\ call'.phase = "waiting" /\ call'.command = call.command
  /\ call'.value = call.value /\ call'.begin = call.begin /\ call'.waited = call.waited
  /\ expired /\ call.command # "INIT" => call'.answer \in {"INIT_REQUIRED", "NONE"}
  /\ call'.answer = "INIT_REQUIRED" => expired
  /\ call'.answer = "ACK" /\ call.command = "INIT" => watchdog' = 0 /\ expired' = FALSE
  /\ call'.answer = "ACK" /\ call.command = "SET_HEARTBEAT_CONFIG" =>
       watchdog' = call.value /\ expired' = expired
  /\ call'.answer # "ACK" \/ call.command \notin Begins =>
       watchdog' = watchdog /\ expired' = expired

\* What becomes of the LED and the motor.
AffectEffect(answer) ==
  \E done \in BOOLEAN :
    /\ answer = "ACK" => done
    /\ answer \in {"ERROR", "INIT_REQUIRED"} \/ (expired /\ answer # "ACK") => ~done
    /\ led' = (led # (done /\ call.command = "TOGGLE_STATUS_LED_STATE"))
    /\ motor' = IF ~done THEN motor
                ELSE call.command \in Starts \/ (motor /\ call.command \notin Stops)
    /\ refused' = (refused \/ (answer = "ERROR" /\ motor))
    /\ ran' = IF motor' THEN ran ELSE 0

\* Only an ACK of a call of begin() touches the watchdog.
LEMMA ExecuteKinds ==
  ASSUME NEW answer, Execute(answer)
  PROVE  /\ answer = "ACK" /\ call.command = "INIT" => watchdog' = 0 /\ expired' = FALSE
         /\ answer = "ACK" /\ call.command = "SET_HEARTBEAT_CONFIG" =>
              watchdog' = call.value /\ expired' = expired
         /\ answer # "ACK" \/ call.command \notin Begins =>
              watchdog' = watchdog /\ expired' = expired
<1>1. answer # "ACK" => UNCHANGED controller
  BY Zenon DEF Execute
<1>2. answer = "ACK" /\ call.command = "INIT" => watchdog' = 0 /\ expired' = FALSE
  BY Zenon DEF Execute
<1>3. answer = "ACK" /\ call.command = "SET_HEARTBEAT_CONFIG" =>
        watchdog' = call.value /\ UNCHANGED expired
  BY Zenon DEF Execute
<1>4. answer = "ACK" /\ call.command \notin Begins => UNCHANGED controller
  BY Zenon DEF Execute, Begins
<1>. QED
  BY <1>1, <1>2, <1>3, <1>4 DEF controller

\* An acknowledged command was executed, a refused one was not.
LEMMA ExecutesKinds ==
  ASSUME NEW answer \in {"NONE", "ACK", "ERROR", "INIT_REQUIRED"}, NEW done \in Executes(answer),
         expired \in BOOLEAN
  PROVE  /\ done \in BOOLEAN
         /\ answer = "ACK" => done
         /\ answer \in {"ERROR", "INIT_REQUIRED"} \/ (expired /\ answer # "ACK") => ~done
<1>1. answer = "ACK" => done \in {TRUE}
  BY Zenon DEF Executes
<1>2. answer = "NONE" /\ ~expired => done \in BOOLEAN
  BY Zenon DEF Executes
<1>3. answer \in {"ERROR", "INIT_REQUIRED"} => done \in {FALSE}
  BY Zenon DEF Executes
<1>4. answer = "NONE" /\ expired => done \in {FALSE}
  BY Zenon DEF Executes
<1>. QED
  BY <1>1, <1>2, <1>3, <1>4

\* What an answer does to LED and motor.
LEMMA AffectKinds ==
  ASSUME NEW answer \in {"NONE", "ACK", "ERROR", "INIT_REQUIRED"}, Affect(answer),
         expired \in BOOLEAN
  PROVE  AffectEffect(answer)
<1>1. PICK done \in Executes(answer) :
        /\ led' = (led # (done /\ call.command = "TOGGLE_STATUS_LED_STATE"))
        /\ motor' = IF ~done THEN motor
                    ELSE call.command \in Starts \/ (motor /\ call.command \notin Stops)
        /\ refused' = (refused \/ (answer = "ERROR" /\ motor))
        /\ ran' = IF motor' THEN ran ELSE 0
  BY DEF Affect
<1>2. /\ done \in BOOLEAN
      /\ answer = "ACK" => done
      /\ answer \in {"ERROR", "INIT_REQUIRED"} \/ (expired /\ answer # "ACK") => ~done
  BY ExecutesKinds
<1>. QED
  BY <1>1, <1>2, Zenon DEF AffectEffect

\* A frame that arrives gets its answer, or none.
LEMMA TransmitKinds ==
  SketchTyped /\ CallTransmits => TransmitEffect /\ AffectEffect(call'.answer)
<1>. SUFFICES ASSUME SketchTyped, CallTransmits
              PROVE  TransmitEffect /\ AffectEffect(call'.answer)
  OBVIOUS
<1>1. /\ call.phase = "sending" /\ lastSent' = now /\ age' = 0
      /\ UNCHANGED <<ready, heartbeat, ok, now, loop>>
  BY DEF CallTransmits, Transmit
<1>2. PICK answer \in Answers :
        /\ call' = [call EXCEPT !.phase = "waiting", !.answer = answer]
        /\ Execute(answer)
  BY DEF CallTransmits, Transmit
<1>3. /\ answer \in {"NONE", "ACK", "ERROR", "INIT_REQUIRED"}
      /\ expired /\ call.command # "INIT" => answer \in {"INIT_REQUIRED", "NONE"}
      /\ answer = "INIT_REQUIRED" => expired
  BY DEF Answers
<1>4. /\ CallTyped' /\ call'.phase = "waiting" /\ call'.command = call.command
      /\ call'.value = call.value /\ call'.begin = call.begin /\ call'.waited = call.waited
      /\ call'.answer = answer
  BY <1>2, <1>3 DEF SketchTyped, CallTyped
<1>5. AffectEffect(call'.answer)
  BY <1>3, <1>4, AffectKinds DEF CallTransmits, SketchTyped
<1>. QED
  BY <1>1, <1>2, <1>3, <1>4, <1>5, ExecuteKinds DEF TransmitEffect

\* The session is lost with the call.
LostEffect ==
  /\ call' = Idle /\ ok' = FALSE /\ ready' = FALSE /\ heartbeat' = 0
  /\ UNCHANGED <<lastSent, watchdog, expired, now, age, loop>>

\* So it is with a transaction that failed, which may have moved the frame all the
\* same: it then counts for the watchdog, and a call of begin() may be executed.
NotSentEffect ==
  /\ call.phase = "sending"
  /\ call' = Idle /\ ok' = FALSE /\ ready' = FALSE /\ heartbeat' = 0
  /\ UNCHANGED <<lastSent, now, loop>>
  /\ \/ UNCHANGED <<watchdog, expired>> /\ age' \in {0, age}
     \/ /\ age' = 0 /\ call.command = "INIT"
        /\ watchdog' = 0 /\ expired' = FALSE
     \/ /\ age' = 0 /\ call.command = "SET_HEARTBEAT_CONFIG"
        /\ watchdog' = call.value /\ expired' = expired

LEMMA NotSentKinds ==
  SketchTyped /\ CallNotSent => NotSentEffect /\ AffectEffect("NONE")
<1>. SUFFICES ASSUME SketchTyped, CallNotSent
              PROVE  NotSentEffect /\ AffectEffect("NONE")
  OBVIOUS
<1>1. AffectEffect("NONE")
  BY AffectKinds DEF CallNotSent, SketchTyped
<1>2. /\ call.phase = "sending"
      /\ call' = Idle /\ ok' = FALSE /\ ready' = FALSE /\ heartbeat' = 0
      /\ UNCHANGED lastSent
  BY DEF CallNotSent, TransmitFails, FailSession, Finish, ClearSession
<1>3. CASE UNCHANGED <<controller, clocks>>
  BY <1>1, <1>2, <1>3 DEF NotSentEffect, controller, clocks
<1>4. CASE /\ age' = 0
           /\ \E answer \in Answers : Execute(answer)
           /\ UNCHANGED <<now, unserved, loop>>
  <2>1. PICK answer \in Answers : Execute(answer)
    BY <1>4
  <2>2. /\ answer = "ACK" /\ call.command = "INIT" => watchdog' = 0 /\ expired' = FALSE
        /\ answer = "ACK" /\ call.command = "SET_HEARTBEAT_CONFIG" =>
             watchdog' = call.value /\ expired' = expired
        /\ answer # "ACK" \/ call.command \notin Begins =>
             watchdog' = watchdog /\ expired' = expired
    BY <2>1, ExecuteKinds
  <2>. QED
    BY <1>1, <1>2, <1>4, <2>2 DEF NotSentEffect, Begins
<1>. QED
  BY <1>3, <1>4 DEF CallNotSent, TransmitFails

\* The answer is read: begin() goes on to its second call, or the call is over.
ReturnEffect ==
  /\ call.phase = "waiting" /\ UNCHANGED <<lastSent, watchdog, expired, now, age, loop, device>>
  /\ \/ /\ call.answer = "ACK" /\ call.command = "INIT" /\ call.value # 0
        /\ call' = Started("SET_HEARTBEAT_CONFIG", NoStream, call.value, TRUE)
        /\ ready' = TRUE /\ UNCHANGED <<heartbeat, ok>>
     \/ /\ call.answer = "ACK" /\ call.command = "INIT" /\ call.value = 0
        /\ call' = Idle /\ ok' = TRUE /\ ready' = TRUE /\ heartbeat' = heartbeat
     \/ /\ call.answer = "ACK" /\ call.command = "SET_HEARTBEAT_CONFIG"
        /\ call' = Idle /\ ok' = TRUE /\ heartbeat' = call.value /\ ready' = ready
     \/ /\ call.answer = "ACK" /\ call.command \notin Begins
        /\ call' = Idle /\ ok' = TRUE /\ UNCHANGED <<heartbeat, ready>>
     \/ /\ call.answer = "ERROR"
        /\ call' = Idle /\ ok' = FALSE /\ ready' = (ready /\ ~call.begin)
        /\ heartbeat' = heartbeat
     \/ LostEffect

\* What a return leaves of the session.
LEMMA ReturnKinds == CallReturns => ReturnEffect
<1>. SUFFICES ASSUME CallReturns PROVE ReturnEffect
  OBVIOUS
<1>0. UNCHANGED device
  BY DEF CallReturns
<1>1. CASE ReceiveReady
  <2>1. CASE call.value # 0
    <3>1. /\ call' = Started("SET_HEARTBEAT_CONFIG", NoStream, call.value, TRUE)
          /\ ok' = ok
      BY <1>1, <2>1, Zenon DEF ReceiveReady, Start, Started, Idle
    <3>. QED
      BY <1>0, <1>1, <2>1, <3>1 DEF ReceiveReady, Receive, controller, ReturnEffect
  <2>2. CASE call.value = 0
    <3>1. call' = Idle /\ ok' = TRUE
      BY <1>1, <2>2, Zenon DEF ReceiveReady, Finish
    <3>. QED
      BY <1>0, <1>1, <2>2, <3>1 DEF ReceiveReady, Receive, controller, ReturnEffect
  <2>. QED
    BY <2>1, <2>2
<1>2. CASE ReceiveHeartbeatAck
  BY <1>0, <1>2 DEF ReceiveHeartbeatAck, Receive, Finish, controller, ReturnEffect
<1>3. CASE ReceiveSubscribeAck
  BY <1>0, <1>3 DEF ReceiveSubscribeAck, Receive, Finish, controller, ReturnEffect, Begins
<1>4. CASE ReceiveOtherAck
  BY <1>0, <1>4
     DEF ReceiveOtherAck, Receive, Finish, controller, ReturnEffect, Begins, StateCommands
<1>5. CASE ReceiveError
  BY <1>0, <1>5 DEF ReceiveError, Receive, Finish, controller, ReturnEffect
<1>6. CASE ReceiveInitRequired
  BY <1>0, <1>6 DEF ReceiveInitRequired, Receive, FailSession, Finish, ClearSession,
     controller, ReturnEffect, LostEffect
<1>7. CASE Timeout
  BY <1>0, <1>7 DEF Timeout, FailSession, Finish, ClearSession,
     controller, clocks, ReturnEffect, LostEffect
<1>. QED
  BY <1>1, <1>2, <1>3, <1>4, <1>5, <1>6, <1>7 DEF CallReturns

\* A millisecond passes.
TimeEffect ==
  /\ SketchInTime
  /\ now' = NextMillis /\ age' = Later(age)
  /\ loop' = IF call = Idle \/ InLoop THEN Later(loop) ELSE loop
  /\ UNCHANGED <<ready, heartbeat, lastSent, watchdog, ok>>
  /\ expired' = (expired \/ (watchdog # 0 /\ Later(age) >= watchdog))
  /\ CallTyped' /\ call'.phase = call.phase /\ call'.command = call.command
  /\ call'.value = call.value /\ call'.begin = call.begin /\ call'.answer = call.answer
  /\ IF call = Idle THEN call' = Idle ELSE call'.waited = Later(call.waited)
  /\ timer' = IF timer > 0 THEN timer - 1 ELSE 0
  /\ motor' = (motor /\ ~expired')
  /\ ran' \in Nat /\ ran' <= ran + 1 /\ (~motor' => ran' = 0)
  /\ UNCHANGED <<sketch, at, step, called, stamp, flag, led, refused>>

\* The bounds are numbers.
LEMMA BoundFacts ==
  /\ Max({ReplyDelay, LoopPeriod}) \in {ReplyDelay, LoopPeriod}
  /\ Max({ReplyDelay, LoopPeriod}) >= ReplyDelay
  /\ Max({ReplyDelay, LoopPeriod}) >= LoopPeriod
  /\ LastFrame \in Nat /\ MotionBound \in Nat
<1>1. /\ Max({ReplyDelay, LoopPeriod}) \in {ReplyDelay, LoopPeriod}
      /\ \A y \in {ReplyDelay, LoopPeriod} : Max({ReplyDelay, LoopPeriod}) >= y
  <2>1. \E x \in {ReplyDelay, LoopPeriod} : \A y \in {ReplyDelay, LoopPeriod} : x >= y
    BY ClockFacts
  <2>. QED
    BY <2>1 DEF Max
<1>. QED
  BY <1>1, ClockFacts, SketchFacts DEF LastFrame, MotionBound

\* A millisecond ages every stamp, and may end the session and the motion.
LEMMA TimeKinds == SketchTyped /\ TimePasses => TimeEffect
<1>. SUFFICES ASSUME SketchTyped, TimePasses PROVE TimeEffect
  OBVIOUS
<1>1. /\ CallTyped' /\ call'.phase = call.phase /\ call'.command = call.command
      /\ call'.value = call.value /\ call'.begin = call.begin /\ call'.answer = call.answer
      /\ IF call = Idle THEN call' = Idle ELSE call'.waited = Later(call.waited)
  <2>1. CASE call = Idle
    BY <2>1, IdleTyped DEF TimePasses, Advance
  <2>2. CASE call # Idle
    <3>1. call' = [call EXCEPT !.waited = Later(call.waited)]
      BY <2>2 DEF TimePasses, Advance
    <3>2. Later(call.waited) \in Stopwatch
      BY LaterType DEF SketchTyped, CallTyped
    <3>. QED
      BY <2>2, <3>1, <3>2 DEF SketchTyped, CallTyped
  <2>. QED
    BY <2>1, <2>2
<1>2. ran' \in Nat /\ ran' <= ran + 1 /\ (~motor' => ran' = 0)
  <2>1. /\ ran + 1 \in Nat /\ MotionBound + 1 \in Nat
    BY BoundFacts DEF SketchTyped
  <2>2. /\ Min({ran + 1, MotionBound + 1}) \in {ran + 1, MotionBound + 1}
        /\ Min({ran + 1, MotionBound + 1}) <= ran + 1
    <3>1. \E x \in {ran + 1, MotionBound + 1} : \A y \in {ran + 1, MotionBound + 1} : x <= y
      BY <2>1
    <3>. QED
      BY <3>1 DEF Min
  <2>. QED
    BY <2>1, <2>2 DEF TimePasses, SketchTyped
<1>. QED
  BY <1>1, <1>2 DEF TimePasses, Advance, TimeEffect

----------------------------------------------------------------------------
(* Where the sketch is *)

Todo == Setup[sketch][step]

\* Where the sketch is in its program.
ProgramTyped ==
  /\ at \in {"setup", "loop", "polled", "work", "pause", "halt"}
  /\ at = "setup" => step \in 1 .. Len(Setup[sketch])
  /\ at = "work" => step \in 1 .. Len(Work[sketch])
  /\ at \notin {"setup", "work"} => step = 1

\* A step of set-up or of the work that is taken.
IssueEffect(s) ==
  /\ call = Idle /\ ~called /\ called' = TRUE /\ timer' = Pause(s)
  /\ UNCHANGED <<sketch, at, step, stamp, flag, device>>
  /\ DoEffect(s)

\* setup() issues the step of the program that it has come to.
LEMMA SetupIssues == SetupStep => IssueEffect(Todo)
BY DoKinds DEF SetupStep, Issue, IssueEffect, Todo

\* The work is a command each time.
LEMMA WorkIssues ==
  SketchTyped /\ ProgramTyped /\ WorkStep =>
    /\ IssueEffect(Work[sketch][step])
    /\ Work[sketch][step] \in {"TOGGLE_STATUS_LED_STATE", "GET_TEMPERATURE", "GET_IMU"} \cup Stops
<1>. SUFFICES ASSUME SketchTyped, ProgramTyped, WorkStep
              PROVE  /\ IssueEffect(Work[sketch][step])
                     /\ Work[sketch][step] \in
                          {"TOGGLE_STATUS_LED_STATE", "GET_TEMPERATURE", "GET_IMU"} \cup Stops
  OBVIOUS
<1>1. Work[sketch][step] \in {"TOGGLE_STATUS_LED_STATE", "GET_TEMPERATURE", "GET_IMU"} \cup Stops
  BY WorkSteps DEF WorkStep, SketchTyped, ProgramTyped
<1>. QED
  BY <1>1, DoKinds DEF WorkStep, Issue, IssueEffect, Stops

----------------------------------------------------------------------------
(* The client and the sketch keep their types *)

\* The variables of a sketch are typed at the start.
LEMMA SketchTypedInit == SketchInit => SketchTyped
<1>. SUFFICES ASSUME SketchInit PROVE SketchTyped
  OBVIOUS
<1>1. CallTyped
  BY ClockFacts DEF SketchInit, Init, CallTyped, Idle, Stopwatch
<1>2. 0 \in Millis /\ 0 \in Stopwatch /\ now \in Millis
  BY ClockFacts DEF SketchInit, Init, Stopwatch, Millis
<1>3. sketch \in DOMAIN Setup
  BY SketchFacts DEF SketchInit
<1>. QED
  BY <1>1, <1>2, <1>3 DEF SketchInit, Init, SketchTyped

\* A call of the program, or a delay(), keeps the types.
LEMMA SketchTypedDo ==
  ASSUME SketchTyped, NEW s, DoEffect(s), UNCHANGED <<sketch, stamp, flag, device>>,
         timer' = Pause(s), called' = TRUE
  PROVE  SketchTyped'
<1>. USE ClockFacts, SketchFacts DEF SketchTyped, link, device
<1>0. timer' \in Nat /\ 0 \in Stopwatch
  BY DEF Pause, Stopwatch
<1>1. CASE BeginEffect
  <2>1. CallTyped'
    BY <1>1, StartedTyped DEF BeginEffect
  <2>. QED
    BY <1>0, <1>1, <2>1 DEF BeginEffect
<1>2. CASE PollEffect
  <2>1. CallTyped'
    BY <1>2, StartedTyped, IdleTyped DEF PollEffect
  <2>. QED
    BY <1>0, <1>2, <2>1 DEF PollEffect
<1>3. CASE SkipEffect
  BY <1>0, <1>3 DEF SkipEffect, CallTyped
<1>4. CASE CallEffect(s)
  <2>1. CallTyped'
    BY <1>4, StartedTyped DEF CallEffect
  <2>. QED
    BY <1>0, <1>4, <2>1 DEF CallEffect
<1>. QED
  BY <1>1, <1>2, <1>3, <1>4 DEF DoEffect

\* So does all that a sketch does.
LEMMA SketchTypedProgram == SketchTyped /\ ProgramTyped /\ Program => SketchTyped'
<1>. SUFFICES ASSUME SketchTyped, ProgramTyped, Program PROVE SketchTyped'
  OBVIOUS
<1>1. CASE SetupStep
  BY <1>1, SetupIssues, SketchTypedDo DEF IssueEffect
<1>2. CASE WorkStep
  BY <1>2, WorkIssues, SketchTypedDo DEF IssueEffect
<1>3. CASE LoopPolls
  <2>1. PollEffect
    BY <1>3, PollKinds DEF LoopPolls
  <2>2. CallTyped' /\ 0 \in Stopwatch
    <3>1. ASSUME NEW command, call' = Started(command, NoStream, 0, FALSE)
          PROVE  CallTyped'
      BY <3>1, StartedTyped
    <3>2. 0 \in Stopwatch
      BY ClockFacts DEF Stopwatch
    <3>. QED
      BY <2>1, <3>1, <3>2, IdleTyped, Zenon DEF PollEffect
  <2>. QED
    BY <1>3, <2>1, <2>2 DEF LoopPolls, PollEffect, SketchTyped, link, device
<1>4. CASE Program /\ ~SetupStep /\ ~WorkStep /\ ~LoopPolls
  <2>1. UNCHANGED <<vars, device, sketch>>
    BY <1>4 DEF Program, SetupSucceeds, SetupFails, PollFailed, NothingDue, WorkDue,
       ToggleReturned, PauseEnds, StopReturned, ReadReturned
  <2>2. /\ called' \in BOOLEAN /\ timer' \in Nat /\ stamp' \in Millis /\ flag' \in BOOLEAN
    BY <1>4, SketchFacts DEF Program, SetupSucceeds, SetupFails, PollFailed, NothingDue, WorkDue,
       ToggleReturned, PauseEnds, StopReturned, ReadReturned, SketchTyped
  <2>. QED
    BY <2>1, <2>2 DEF vars, client, controller, clocks, device, SketchTyped, CallTyped
<1>. QED
  BY <1>1, <1>2, <1>3, <1>4

\* So does all that a call does on the bus.
LEMMA SketchTypedProgress == SketchTyped /\ CallProgress => SketchTyped'
<1>. SUFFICES ASSUME SketchTyped, CallProgress PROVE SketchTyped'
  OBVIOUS
<1>0. UNCHANGED program /\ 0 \in Stopwatch
  BY ClockFacts DEF CallProgress, Stopwatch
<1>1. ASSUME NEW answer, AffectEffect(answer)
      PROVE  led' \in BOOLEAN /\ motor' \in BOOLEAN /\ refused' \in BOOLEAN /\ ran' \in Nat
  <2>1. PICK done \in BOOLEAN :
          /\ led' = (led # (done /\ call.command = "TOGGLE_STATUS_LED_STATE"))
          /\ motor' = IF ~done THEN motor
                      ELSE call.command \in Starts \/ (motor /\ call.command \notin Stops)
          /\ refused' = (refused \/ (answer = "ERROR" /\ motor))
          /\ ran' = IF motor' THEN ran ELSE 0
    BY <1>1, Zenon DEF AffectEffect
  <2>. QED
    BY <2>1 DEF SketchTyped
<1>2. CASE CallTransmits
  <2>1. TransmitEffect /\ led' \in BOOLEAN /\ motor' \in BOOLEAN /\ refused' \in BOOLEAN
        /\ ran' \in Nat
    BY <1>1, <1>2, TransmitKinds
  <2>2. watchdog' \in Nat /\ expired' \in BOOLEAN
    <3>1. call.value \in Nat /\ watchdog \in Nat /\ 0 \in Nat /\ expired \in BOOLEAN
      BY DEF SketchTyped, CallTyped
    <3>2. watchdog' \in Nat
      BY <2>1, <3>1, Zenon DEF TransmitEffect, Begins
    <3>3. expired' \in BOOLEAN
      BY <2>1, <3>1, Zenon DEF TransmitEffect, Begins
    <3>. QED
      BY <3>2, <3>3
  <2>. QED
    BY <1>0, <2>1, <2>2 DEF TransmitEffect, SketchTyped, program
<1>3. CASE CallNotSent
  <2>1. NotSentEffect /\ led' \in BOOLEAN /\ motor' \in BOOLEAN /\ refused' \in BOOLEAN
        /\ ran' \in Nat
    BY <1>1, <1>3, NotSentKinds
  <2>2. watchdog' \in Nat /\ expired' \in BOOLEAN /\ age' \in {0, age}
    <3>1. call.value \in Nat /\ watchdog \in Nat /\ 0 \in Nat /\ expired \in BOOLEAN
      BY DEF SketchTyped, CallTyped
    <3>. QED
      BY <2>1, <3>1, Zenon DEF NotSentEffect
  <2>. QED
    BY <1>0, <2>1, <2>2, IdleTyped DEF NotSentEffect, SketchTyped, program
<1>4. CASE CallReturns
  <2>1. ReturnEffect
    BY <1>4, ReturnKinds
  <2>2. CallTyped' /\ heartbeat' \in Nat /\ ready' \in BOOLEAN /\ ok' \in BOOLEAN
    <3>1. /\ call.value \in Nat /\ heartbeat \in Nat /\ 0 \in Nat
          /\ ready \in BOOLEAN /\ ok \in BOOLEAN
      BY DEF SketchTyped, CallTyped
    <3>2. ASSUME call' = Started("SET_HEARTBEAT_CONFIG", NoStream, call.value, TRUE)
          PROVE  CallTyped'
      BY <3>1, <3>2, StartedTyped
    <3>3. CallTyped'
      BY <2>1, <3>2, IdleTyped DEF ReturnEffect, LostEffect
    <3>4. heartbeat' \in Nat
      BY <2>1, <3>1, Zenon DEF ReturnEffect, LostEffect
    <3>5. ready' \in BOOLEAN
      BY <2>1, <3>1, Zenon DEF ReturnEffect, LostEffect
    <3>6. ok' \in BOOLEAN
      BY <2>1, <3>1, Zenon DEF ReturnEffect, LostEffect
    <3>. QED
      BY <3>3, <3>4, <3>5, <3>6
  <2>. QED
    BY <1>0, <2>1, <2>2 DEF ReturnEffect, SketchTyped, program, device
<1>. QED
  BY <1>2, <1>3, <1>4 DEF CallProgress

\* So does a millisecond.
LEMMA SketchTypedTime == SketchTyped /\ TimePasses => SketchTyped'
<1>. SUFFICES ASSUME SketchTyped, TimePasses PROVE SketchTyped'
  OBVIOUS
<1>1. TimeEffect
  BY TimeKinds
<1>2. now' \in Millis /\ age' \in Stopwatch /\ loop' \in Stopwatch
  BY <1>1, NextMillisValue, LaterType, ClockFacts DEF TimeEffect, SketchTyped, Millis
<1>. QED
  BY <1>1, <1>2 DEF TimeEffect, SketchTyped

\* Every step keeps the types.
LEMMA SketchTypedNext == SketchTyped /\ ProgramTyped /\ [SketchNext]_sketchVars => SketchTyped'
<1>. SUFFICES ASSUME SketchTyped, UNCHANGED sketchVars PROVE SketchTyped'
  BY SketchTypedProgram, SketchTypedProgress, SketchTypedTime DEF SketchNext
<1>. QED
  BY DEF sketchVars, vars, client, controller, clocks, program, device, SketchTyped, CallTyped

----------------------------------------------------------------------------
(* The call in progress is the one of the step under way *)

Requested ==
  \/ /\ at = "setup" /\ called /\ step = 1
     /\ call.begin /\ call.value = Monitoring /\ call.command \in Begins
  \/ /\ at = "setup" /\ called /\ step # 1 /\ ~call.begin
     /\ IF Todo = "POLL" THEN call.command \in Polls ELSE call.command = Todo
  \/ at = "polled" /\ ~call.begin /\ call.command \in Polls
  \/ at = "work" /\ called /\ ~call.begin /\ call.command = Work[sketch][step]

\* A delay() is the one of position-control, or the pause of blink-command.
Delayed ==
  /\ timer # 0 => \/ at = "setup" /\ called /\ Todo = "DELAY" /\ call = Idle
                  \/ at = "pause"
  /\ timer <= Tenth \/ at = "pause"
  /\ at = "pause" => Runs("blink")

ProgramInv ==
  /\ ProgramTyped
  /\ call.phase = "idle" => call = Idle
  /\ call # Idle => Requested /\ (ready <=> call.command # "INIT")
  /\ called => at \in {"setup", "work"}
  /\ Delayed

\* A sketch starts with the first call of its setup().
LEMMA ProgramInit == SketchInit => ProgramInv
<1>. SUFFICES ASSUME SketchInit PROVE ProgramInv
  OBVIOUS
<1>1. Len(Setup[sketch]) \in Nat \ {0}
  BY SetupFacts, SketchFacts DEF SketchInit
<1>. QED
  BY <1>1, SketchFacts DEF SketchInit, Init, ProgramInv, ProgramTyped, Delayed, Idle

\* The effect of a step of set-up, with what is known of its place.
LEMMA TodoFacts ==
  ASSUME SketchTyped, ProgramTyped, at = "setup"
  PROVE  /\ step \in 1 .. Len(Setup[sketch]) /\ Len(Setup[sketch]) \in Nat \ {0}
         /\ step = 1 => Todo = "BEGIN"
         /\ step # 1 => Todo \notin
              {"BEGIN", "TOGGLE_STATUS_LED_STATE"} \cup Begins \cup Polls \cup Stops
         /\ Todo \in Starts => step = Len(Setup[sketch]) /\ Moves
         /\ step + 1 <= Len(Setup[sketch]) /\ Todo \in {"DELAY"} \cup Last =>
              Setup[sketch][step + 1] \in Last
         /\ Moves => Setup[sketch][Len(Setup[sketch])] \in Starts
<1>1. step \in 1 .. Len(Setup[sketch]) /\ sketch \in DOMAIN Setup
  BY DEF SketchTyped, ProgramTyped
<1>. QED
  BY <1>1, SetupFacts DEF Todo, Moves

\* setup() calls what its program has at this step.
LEMMA ProgramSetupStep == SketchTyped /\ ProgramInv /\ SetupStep => ProgramInv'
<1>. SUFFICES ASSUME SketchTyped, ProgramInv, SetupStep PROVE ProgramInv'
  OBVIOUS
<1>1. at = "setup" /\ IssueEffect(Todo)
  BY SetupIssues DEF SetupStep
<1>2. /\ at' = at /\ step' = step /\ sketch' = sketch /\ Todo' = Todo /\ called' = TRUE
      /\ call = Idle /\ timer' = Pause(Todo)
  BY <1>1 DEF IssueEffect, Todo
<1>3. ProgramTyped'
  BY <1>2 DEF ProgramInv, ProgramTyped
<1>4. ASSUME NEW command, NEW stream, NEW value \in Nat, NEW begin \in BOOLEAN,
             call' = Started(command, stream, value, begin), ready' <=> command # "INIT",
             timer' = 0,
             \/ step = 1 /\ begin /\ value = Monitoring /\ command \in Begins
             \/ step # 1 /\ ~begin /\ IF Todo = "POLL" THEN command \in Polls ELSE command = Todo
      PROVE  ProgramInv'
  <2>1. /\ call'.phase = "sending" /\ call'.command = command /\ call'.value = value
        /\ call'.begin = begin
    BY <1>4, StartedTyped
  <2>2. Requested'
    BY <1>1, <1>2, <1>4, <2>1 DEF Requested
  <2>3. Delayed'
    BY <1>1, <1>2, <1>4, SketchFacts DEF Delayed
  <2>. QED
    BY <1>1, <1>2, <1>3, <1>4, <2>1, <2>2, <2>3 DEF ProgramInv
<1>5. ASSUME call' = Idle PROVE ProgramInv'
  <2>1. timer' = IF Todo = "DELAY" THEN Tenth ELSE 0
    BY <1>2 DEF Pause
  <2>2. Delayed'
    BY <1>1, <1>2, <1>5, <2>1, SketchFacts DEF Delayed
  <2>. QED
    BY <1>1, <1>2, <1>3, <1>5, <2>2 DEF ProgramInv
<1>6. Todo # "DELAY" => timer' = 0
  BY <1>2 DEF Pause
<1>7. /\ step = 1 => Todo = "BEGIN"
      /\ step # 1 => Todo \notin {"BEGIN"} \cup Begins \cup Polls
  BY <1>1, TodoFacts DEF ProgramInv
<1>8. CASE Todo = "BEGIN" /\ BeginEffect
  <2>1. Monitoring \in Nat /\ "INIT" \in Begins /\ step = 1
    BY <1>7, <1>8, SketchFacts DEF Begins
  <2>. QED
    BY <1>4, <1>6, <1>8, <2>1 DEF BeginEffect
<1>9. CASE Todo = "POLL" /\ PollEffect
  <2>1. ASSUME NEW command \in Polls, call' = Started(command, NoStream, 0, FALSE), ready'
        PROVE  ProgramInv'
    <3>1. command # "INIT" /\ 0 \in Nat
      BY DEF Polls
    <3>. QED
      BY <1>4, <1>6, <1>7, <1>9, <2>1, <3>1
  <2>. QED
    BY <1>5, <1>9, <2>1 DEF PollEffect, link
<1>10. CASE SkipEffect
  BY <1>2, <1>5, <1>10 DEF SkipEffect
<1>11. CASE Todo \notin {"BEGIN", "POLL", "VERSION", "DELAY"} /\ CallEffect(Todo)
  <2>1. PICK stream, value : value \in Nat /\ call' = Started(Todo, stream, value, FALSE)
    BY <1>11 DEF CallEffect
  <2>2. Todo # "INIT" /\ step # 1 /\ ready' = TRUE
    BY <1>7, <1>11 DEF Begins, CallEffect, link, SketchTyped
  <2>. QED
    BY <1>4, <1>6, <1>11, <2>1, <2>2
<1>. QED
  BY <1>1, <1>8, <1>9, <1>10, <1>11 DEF IssueEffect, DoEffect

\* loop() calls what is due.
LEMMA ProgramWorkStep == SketchTyped /\ ProgramInv /\ WorkStep => ProgramInv'
<1>. SUFFICES ASSUME SketchTyped, ProgramInv, WorkStep PROVE ProgramInv'
  OBVIOUS
<1>. DEFINE s == Work[sketch][step]
<1>1. /\ at = "work" /\ IssueEffect(s)
      /\ s \in {"TOGGLE_STATUS_LED_STATE", "GET_TEMPERATURE", "GET_IMU"} \cup Stops
  BY WorkIssues DEF WorkStep, ProgramInv
<1>2. /\ at' = at /\ step' = step /\ sketch' = sketch /\ s' = s /\ called' = TRUE
      /\ call = Idle /\ timer' = 0
  BY <1>1 DEF IssueEffect, Pause, Stops
<1>3. ProgramTyped' /\ Delayed'
  BY <1>1, <1>2, SketchFacts DEF ProgramInv, ProgramTyped, Delayed
<1>4. CASE SkipEffect
  BY <1>1, <1>2, <1>3, <1>4 DEF SkipEffect, ProgramInv
<1>5. CASE CallEffect(s)
  <2>1. PICK stream, value : value \in Nat /\ call' = Started(s, stream, value, FALSE)
    BY <1>5 DEF CallEffect
  <2>2. call'.phase = "sending" /\ call'.command = s /\ call'.begin = FALSE
    BY <2>1, StartedTyped
  <2>3. s # "INIT" /\ ready' = TRUE
    BY <1>1, <1>5 DEF CallEffect, link, SketchTyped, Stops
  <2>4. Requested'
    BY <1>1, <1>2, <2>2 DEF Requested
  <2>. QED
    BY <1>1, <1>2, <1>3, <2>2, <2>3, <2>4 DEF ProgramInv
<1>. QED
  BY <1>1, <1>4, <1>5 DEF IssueEffect, DoEffect, Stops

\* The steps of a sketch that only look at what a call returned.
Decision ==
  \/ SetupSucceeds \/ SetupFails \/ PollFailed \/ NothingDue \/ WorkDue
  \/ ToggleReturned \/ PauseEnds \/ StopReturned \/ ReadReturned

\* A decision is the sketch's alone: client and device stay as they are.
LEMMA DecisionKinds ==
  Decision => UNCHANGED <<link, loop, call, ok, device, sketch>> /\ (called' => called)
<1>. SUFFICES ASSUME Decision
              PROVE  UNCHANGED <<link, loop, call, ok, device, sketch>> /\ (called' => called)
  OBVIOUS
<1>1. UNCHANGED <<vars, device, sketch>>
  BY DEF Decision, SetupSucceeds, SetupFails, PollFailed, NothingDue, WorkDue, ToggleReturned,
     PauseEnds, StopReturned, ReadReturned
<1>2. called' => called
  BY Zenon DEF Decision, SetupSucceeds, SetupFails, PollFailed, NothingDue, WorkDue,
     ToggleReturned, PauseEnds, StopReturned, ReadReturned
<1>. QED
  BY <1>1, <1>2 DEF vars, client, controller, clocks, link

\* What a sketch does with a result leads to the next place of its program.
LEMMA ProgramDecision == SketchTyped /\ ProgramInv /\ Decision => ProgramInv'
<1>. SUFFICES ASSUME SketchTyped, ProgramInv, Decision PROVE ProgramInv'
  OBVIOUS
<1>1. UNCHANGED <<link, loop, call, ok, device, sketch>>
  BY DecisionKinds
<1>2. call = Idle
  <2>1. CASE PauseEnds
    BY <2>1 DEF PauseEnds, ProgramInv, Requested
  <2>. QED
    BY <2>1 DEF Decision, SetupSucceeds, SetupFails, PollFailed, NothingDue, WorkDue,
       ToggleReturned, StopReturned, ReadReturned, Returned
<1>3. /\ SetupFailed(sketch) \in {"halt", "loop"}
      /\ at = "setup" => Len(Setup[sketch]) \in Nat \ {0} /\ step \in 1 .. Len(Setup[sketch])
      /\ at = "work" => step \in 1 .. Len(Work[sketch])
  BY TodoFacts DEF SetupFailed, ProgramInv, ProgramTyped
<1>4. /\ Work[sketch] # <<>> => 1 \in 1 .. Len(Work[sketch])
      /\ Len(Work[sketch]) \in Nat
      /\ Runs("blink") \/ Moves => Len(Work[sketch]) = 1
  <2>1. /\ sketch = "blink" => Work[sketch] = <<"TOGGLE_STATUS_LED_STATE">>
        /\ sketch = "sensors" => Work[sketch] = <<"GET_TEMPERATURE", "GET_IMU">>
        /\ sketch = "motor" => Work[sketch] = <<"DELETE_MOTOR_CONTROLLER">>
        /\ sketch = "platform" => Work[sketch] = <<"STOP_PLATFORM_CONTROLLER">>
        /\ sketch \notin {"blink", "sensors", "motor", "platform"} => Work[sketch] = <<>>
    BY WorkFacts DEF SketchTyped
  <2>2. ASSUME NEW command, Work[sketch] = <<command>> PROVE Len(Work[sketch]) = 1
    BY <2>2
  <2>3. ASSUME NEW one, NEW two, Work[sketch] = <<one, two>> PROVE Len(Work[sketch]) = 2
    BY <2>3
  <2>4. Work[sketch] = <<>> => Len(Work[sketch]) = 0
    OBVIOUS
  <2>5. /\ sketch \in {"blink", "motor", "platform"} => Len(Work[sketch]) = 1
        /\ sketch = "sensors" => Len(Work[sketch]) = 2
        /\ sketch \notin {"blink", "sensors", "motor", "platform"} =>
             Work[sketch] = <<>> /\ Len(Work[sketch]) = 0
    BY <2>1, <2>2, <2>3, <2>4, Zenon
  <2>. QED
    BY <2>5 DEF Runs, Moves
<1>5. ProgramTyped'
  <2>1. CASE SetupSucceeds
    BY <1>1, <1>3, <2>1 DEF SetupSucceeds, ProgramTyped
  <2>2. CASE SetupFails
    BY <1>1, <1>3, <2>2 DEF SetupFails, ProgramTyped
  <2>3. CASE PollFailed \/ NothingDue \/ PauseEnds
    BY <1>1, <2>3 DEF PollFailed, NothingDue, PauseEnds, ProgramInv, ProgramTyped
  <2>4. CASE WorkDue
    <3>1. Work[sketch] # <<>>
      BY <2>4, Zenon DEF WorkDue, Due
    <3>2. at' = "work" /\ step' = 1 /\ sketch' = sketch
      BY <1>1, <2>4 DEF WorkDue, ProgramInv, ProgramTyped
    <3>3. 1 \in 1 .. Len(Work[sketch])
      BY <1>4, <3>1, Zenon
    <3>. QED
      BY <3>2, <3>3, Zenon DEF ProgramTyped
  <2>5. CASE ToggleReturned \/ StopReturned
    <3>1. Len(Work[sketch]) = 1 /\ at = "work"
      BY <1>4, <2>5, Zenon DEF ToggleReturned, StopReturned
    <3>2. step = 1
      BY <1>3, <3>1
    <3>. QED
      BY <2>5, <3>2, Zenon DEF ToggleReturned, StopReturned, ProgramTyped
  <2>6. CASE ReadReturned
    BY <1>1, <1>3, <1>4, <2>6 DEF ReadReturned, ProgramTyped
  <2>. QED
    BY <2>1, <2>2, <2>3, <2>4, <2>5, <2>6 DEF Decision
<1>6. called' => at' \in {"setup", "work"}
  BY DEF Decision, SetupSucceeds, SetupFails, PollFailed, NothingDue, WorkDue,
     ToggleReturned, PauseEnds, StopReturned, ReadReturned, ProgramInv
<1>7. Delayed'
  <2>1. CASE SetupSucceeds
    BY <1>1, <2>1, SketchFacts DEF SetupSucceeds, Returned, Delayed
  <2>2. CASE SetupFails
    BY <1>1, <1>3, <2>2, SketchFacts DEF SetupFails, Returned, Delayed
  <2>3. CASE PollFailed \/ NothingDue \/ WorkDue
    BY <1>1, <2>3 DEF PollFailed, NothingDue, WorkDue, ProgramInv, Delayed
  <2>4. CASE PauseEnds
    BY <1>1, <2>4, SketchFacts DEF PauseEnds, Delayed
  <2>5. CASE ToggleReturned
    BY <1>1, <2>5, SketchFacts DEF ToggleReturned, Returned, Delayed, Runs
  <2>6. CASE StopReturned \/ ReadReturned
    BY <1>1, <2>6, SketchFacts DEF StopReturned, ReadReturned, Returned, Delayed
  <2>. QED
    BY <2>1, <2>2, <2>3, <2>4, <2>5, <2>6 DEF Decision
<1>. QED
  BY <1>1, <1>2, <1>5, <1>6, <1>7 DEF ProgramInv

\* loop() polls when it is at its start.
LEMMA ProgramPoll == SketchTyped /\ ProgramInv /\ LoopPolls => ProgramInv'
<1>. SUFFICES ASSUME SketchTyped, ProgramInv, LoopPolls PROVE ProgramInv'
  OBVIOUS
<1>1. /\ PollEffect /\ at = "loop" /\ at' = "polled"
      /\ UNCHANGED <<sketch, step, called, timer>>
  BY PollKinds DEF LoopPolls
<1>2. ProgramTyped' /\ Delayed' /\ (called' => at' \in {"setup", "work"})
  BY <1>1 DEF ProgramInv, ProgramTyped, Delayed, Runs
<1>3. CASE call' = Idle
  BY <1>2, <1>3 DEF ProgramInv
<1>4. ASSUME NEW command \in Polls, call' = Started(command, NoStream, 0, FALSE), ready'
      PROVE  ProgramInv'
  <2>1. call'.phase = "sending" /\ call'.command = command /\ call'.begin = FALSE
    BY <1>4, StartedTyped
  <2>2. Requested' /\ command # "INIT"
    BY <1>1, <2>1 DEF Requested, Polls
  <2>. QED
    BY <1>2, <1>4, <2>1, <2>2 DEF ProgramInv
<1>. QED
  BY <1>1, <1>3, <1>4 DEF PollEffect, link

\* What happens on the bus does not move the program.
LEMMA ProgramProgress == SketchTyped /\ ProgramInv /\ CallProgress => ProgramInv'
<1>. SUFFICES ASSUME SketchTyped, ProgramInv, CallProgress PROVE ProgramInv'
  OBVIOUS
<1>1. UNCHANGED <<sketch, at, step, called, timer>>
  BY DEF CallProgress, program
<1>2. call.phase # "idle"
  BY TransmitKinds, NotSentKinds, ReturnKinds
     DEF CallProgress, TransmitEffect, NotSentEffect, ReturnEffect
<1>3. call # Idle /\ Requested /\ (ready <=> call.command # "INIT") /\ timer = 0
  <2>1. call # Idle
    BY <1>2 DEF Idle
  <2>. QED
    BY <2>1, SketchFacts DEF ProgramInv, Delayed, Runs, Requested, SketchTyped
<1>4. ProgramTyped' /\ Delayed' /\ (called' => at' \in {"setup", "work"})
  BY <1>1, <1>3, SketchFacts DEF ProgramInv, ProgramTyped, Delayed, Runs
<1>5. CASE call' = Idle
  BY <1>4, <1>5 DEF ProgramInv
<1>6. CASE CallTransmits
  <2>1. TransmitEffect
    BY <1>6, TransmitKinds
  <2>2. Requested'
    BY <1>1, <1>3, <2>1 DEF TransmitEffect, Requested, Todo
  <2>. QED
    BY <1>3, <1>4, <2>1, <2>2 DEF TransmitEffect, ProgramInv
<1>7. CASE /\ call.answer = "ACK" /\ call.command = "INIT" /\ ready' = TRUE
           /\ call' = Started("SET_HEARTBEAT_CONFIG", NoStream, call.value, TRUE)
  <2>1. /\ call'.phase = "sending" /\ call'.command = "SET_HEARTBEAT_CONFIG"
        /\ call'.begin = TRUE /\ call'.value = call.value
    <3>1. call.value \in Nat
      BY DEF SketchTyped, CallTyped
    <3>. QED
      BY <1>7, <3>1, StartedTyped
  <2>2. at = "setup" /\ called /\ step = 1 /\ call.value = Monitoring
    <3>1. /\ "INIT" \notin Polls /\ "INIT" \in Begins
          /\ at = "setup" /\ step # 1 => Todo # "INIT"
          /\ at = "work" => Work[sketch][step] # "INIT"
      BY TodoFacts, WorkSteps DEF Polls, Begins, SketchTyped, ProgramInv, ProgramTyped, Stops
    <3>. QED
      BY <1>3, <1>7, <3>1 DEF Requested
  <2>3. Requested'
    BY <1>1, <2>1, <2>2 DEF Requested, Begins
  <2>. QED
    BY <1>4, <1>7, <2>1, <2>3 DEF ProgramInv
<1>8. CASE CallNotSent
  BY <1>5, <1>8, NotSentKinds DEF NotSentEffect
<1>9. CASE CallReturns
  BY <1>5, <1>7, <1>9, ReturnKinds DEF ReturnEffect, LostEffect
<1>. QED
  BY <1>6, <1>8, <1>9 DEF CallProgress

\* Nor does time.
LEMMA ProgramTime == SketchTyped /\ ProgramInv /\ TimePasses => ProgramInv'
<1>. SUFFICES ASSUME SketchTyped, ProgramInv, TimePasses PROVE ProgramInv'
  OBVIOUS
<1>1. TimeEffect
  BY TimeKinds
<1>2. UNCHANGED <<sketch, at, step, called>> /\ timer \in Nat /\ Tenth \in Nat
  BY <1>1, SketchFacts DEF TimeEffect, SketchTyped
<1>3. ProgramTyped' /\ (called' => at' \in {"setup", "work"})
  BY <1>2 DEF ProgramInv, ProgramTyped
<1>4. timer' = IF timer > 0 THEN timer - 1 ELSE 0
  BY <1>1 DEF TimeEffect
<1>5. Delayed'
  BY <1>1, <1>2, <1>4 DEF ProgramInv, Delayed, TimeEffect, Todo, Runs
<1>6. CASE call = Idle
  <2>1. call' = Idle
    BY <1>1, <1>6 DEF TimeEffect
  <2>. QED
    BY <1>3, <1>5, <2>1 DEF ProgramInv
<1>7. CASE call # Idle
  <2>1. call.phase # "idle" /\ Requested /\ (ready <=> call.command # "INIT")
    BY <1>7 DEF ProgramInv
  <2>2. Requested'
    BY <1>1, <1>2, <2>1 DEF TimeEffect, Requested, Todo
  <2>. QED
    BY <1>1, <1>3, <1>5, <2>1, <2>2 DEF TimeEffect, ProgramInv
<1>. QED
  BY <1>6, <1>7

\* Every step keeps a sketch in its program.
LEMMA ProgramNext ==
  SketchTyped /\ ProgramInv /\ [SketchNext]_sketchVars => ProgramInv'
<1>. SUFFICES ASSUME ProgramInv, UNCHANGED sketchVars PROVE ProgramInv'
  BY ProgramSetupStep, ProgramWorkStep, ProgramDecision, ProgramPoll, ProgramProgress,
     ProgramTime DEF SketchNext, Program, Decision
<1>. QED
  BY DEF sketchVars, vars, client, program, ProgramInv, ProgramTyped, Delayed, Requested, Todo,
     Runs

Programmed == SketchTyped /\ ProgramInv

\* Types and place together.
LEMMA ProgrammedNext == Programmed /\ [SketchNext]_sketchVars => Programmed'
BY SketchTypedNext, ProgramNext DEF Programmed, ProgramInv

----------------------------------------------------------------------------
(* blink-command: the two LEDs *)

\* The local LED lags behind the controller's only while a toggle that was executed is
\* on its way back, or when its answer is lost and the session with it.
BlinkInv ==
  Runs("blink") =>
    /\ at = "setup" => flag = led
    /\ ready /\ ~(at = "work" /\ called) => flag = led
    /\ ready /\ at = "work" /\ called =>
         /\ call.phase = "idle" => (ok <=> flag # led)
         /\ call.phase = "sending" => flag = led
         /\ call.phase = "waiting" /\ call.answer = "ACK" => flag # led
         /\ call.phase = "waiting" /\ call.answer \in {"ERROR", "INIT_REQUIRED"} => flag = led

\* Flag and LED are off at the start.
LEMMA BlinkInit == SketchInit => BlinkInv
BY DEF SketchInit, Init, BlinkInv

\* A command other than the toggle leaves the LED alone.
LEMMA LedKept ==
  ASSUME SketchTyped, NEW answer, AffectEffect(answer),
         call.command # "TOGGLE_STATUS_LED_STATE"
  PROVE  led' = led
<1>1. PICK done \in BOOLEAN : led' = (led # (done /\ call.command = "TOGGLE_STATUS_LED_STATE"))
  BY Zenon DEF AffectEffect
<1>2. led' = (led # FALSE)
  BY <1>1
<1>. QED
  BY <1>2 DEF SketchTyped

\* The toggle is executed if it is acknowledged, and not if it is refused.
LEMMA LedToggled ==
  ASSUME SketchTyped, NEW answer, AffectEffect(answer),
         call.command = "TOGGLE_STATUS_LED_STATE"
  PROVE  /\ answer = "ACK" => led' = ~led
         /\ answer \in {"ERROR", "INIT_REQUIRED"} => led' = led
<1>1. PICK done \in BOOLEAN :
        /\ answer = "ACK" => done
        /\ answer \in {"ERROR", "INIT_REQUIRED"} \/ (expired /\ answer # "ACK") => ~done
        /\ led' = (led # (done /\ call.command = "TOGGLE_STATUS_LED_STATE"))
  BY Zenon DEF AffectEffect
<1>2. led \in BOOLEAN /\ led' = (led # done)
  BY <1>1 DEF SketchTyped
<1>3. answer = "ACK" => led' = ~led
  BY <1>1, <1>2
<1>4. answer \in {"ERROR", "INIT_REQUIRED"} => led' = led
  BY <1>1, <1>2
<1>. QED
  BY <1>3, <1>4

\* The flag changes only when a toggle has succeeded.
LEMMA BlinkProgram == Programmed /\ BlinkInv /\ Program => BlinkInv'
<1>. SUFFICES ASSUME Programmed, BlinkInv, Program, Runs("blink")' PROVE BlinkInv'
  BY DEF BlinkInv
<1>0. /\ SketchTyped /\ ProgramInv /\ ProgramTyped
      /\ flag \in BOOLEAN /\ led \in BOOLEAN /\ called \in BOOLEAN /\ ok \in BOOLEAN
  BY DEF Programmed, ProgramInv, SketchTyped
<1>1. CASE SetupStep
  BY <1>1, SetupIssues DEF SetupStep, IssueEffect, device, BlinkInv, Runs
<1>2. CASE WorkStep
  <2>1. IssueEffect(Work[sketch][step]) /\ sketch = "blink" /\ at = "work"
    BY <1>0, <1>2, WorkIssues DEF Runs, WorkStep, IssueEffect
  <2>2. Work[sketch][step] = "TOGGLE_STATUS_LED_STATE"
    BY <1>0, <2>1, WorkSteps DEF SketchTyped, ProgramTyped
  <2>3. CallEffect("TOGGLE_STATUS_LED_STATE")
    BY <2>1, <2>2 DEF IssueEffect, DoEffect
  <2>4. call'.phase = "sending" /\ ready
    BY <2>3, StartedTyped DEF CallEffect
  <2>5. flag = led
    BY <2>1, <2>4 DEF BlinkInv, IssueEffect, Runs
  <2>. QED
    BY <2>1, <2>4, <2>5 DEF IssueEffect, device, BlinkInv
<1>3. CASE LoopPolls
  <2>1. PollEffect
    BY <1>3, PollKinds DEF LoopPolls
  <2>. QED
    BY <1>0, <1>3, <2>1
       DEF LoopPolls, PollEffect, link, device, BlinkInv, Runs, ProgramInv
<1>4. CASE Decision
  <2>1. UNCHANGED <<link, loop, call, ok, device, sketch>>
    BY <1>4, DecisionKinds
  <2>2. Runs("blink") /\ ~Moves
    BY <2>1 DEF Runs, Moves
  <2>3. CASE SetupSucceeds \/ SetupFails
    BY <2>1, <2>2, <2>3 DEF SetupSucceeds, SetupFails, BlinkInv, device, link
  <2>4. CASE PollFailed
    <3>1. flag' = flag
      BY <1>0, <2>2, <2>4 DEF PollFailed
    <3>. QED
      BY <2>1, <2>2, <2>4, <3>1 DEF PollFailed, BlinkInv, device, link
  <2>5. CASE NothingDue \/ WorkDue \/ PauseEnds
    <3>1. ~called
      BY <1>0, <2>5 DEF NothingDue, WorkDue, PauseEnds, ProgramInv
    <3>. QED
      BY <2>1, <2>2, <2>5, <3>1 DEF NothingDue, WorkDue, PauseEnds, BlinkInv, device, link
  <2>6. CASE ToggleReturned
    <3>1. ready => (ok <=> flag # led)
      BY <1>0, <2>2, <2>6 DEF ToggleReturned, Returned, BlinkInv, Idle
    <3>2. ready => flag' = led
      <4>1. CASE ok
        <5>1. flag' = ~flag
          BY <2>6, <4>1 DEF ToggleReturned
        <5>. QED
          BY <1>0, <3>1, <4>1, <5>1
      <4>2. CASE ~ok
        <5>1. flag' = flag
          BY <2>6, <4>2 DEF ToggleReturned
        <5>. QED
          BY <1>0, <3>1, <4>2, <5>1
      <4>. QED
        BY <4>1, <4>2
    <3>3. at' # "setup" /\ called' = FALSE
      BY <2>6 DEF ToggleReturned
    <3>. QED
      BY <2>1, <3>2, <3>3 DEF BlinkInv, device, link
  <2>7. CASE StopReturned \/ ReadReturned
    BY <2>2, <2>7 DEF StopReturned, ReadReturned, Runs
  <2>. QED
    BY <1>4, <2>3, <2>4, <2>5, <2>6, <2>7 DEF Decision
<1>. QED
  BY <1>1, <1>2, <1>3, <1>4 DEF Program, Decision

\* The LED changes only with a toggle; one of unknown fate ends the session.
LEMMA BlinkProgress == Programmed /\ BlinkInv /\ CallProgress => BlinkInv'
<1>. SUFFICES ASSUME Programmed, BlinkInv, CallProgress, Runs("blink")' PROVE BlinkInv'
  BY DEF BlinkInv
<1>0. /\ SketchTyped /\ ProgramInv /\ ProgramTyped
      /\ flag \in BOOLEAN /\ led \in BOOLEAN
      /\ UNCHANGED <<sketch, at, step, called, flag>> /\ Runs("blink")
  BY DEF Programmed, ProgramInv, SketchTyped, CallProgress, program, Runs
<1>1. call # Idle /\ Requested /\ (ready <=> call.command # "INIT")
  <2>1. call.phase # "idle"
    BY <1>0, TransmitKinds, NotSentKinds, ReturnKinds
       DEF CallProgress, TransmitEffect, NotSentEffect, ReturnEffect
  <2>2. call # Idle
    BY <2>1 DEF Idle
  <2>. QED
    BY <1>0, <2>2 DEF ProgramInv
<1>2. /\ at = "setup" => call.command # "TOGGLE_STATUS_LED_STATE"
      /\ at = "polled" => call.command \notin {"TOGGLE_STATUS_LED_STATE", "INIT"}
      /\ at = "work" => called /\ call.command = "TOGGLE_STATUS_LED_STATE"
      /\ at \in {"setup", "polled", "work"}
  <2>1. at = "setup" /\ step # 1 => Todo # "TOGGLE_STATUS_LED_STATE"
    BY <1>0, TodoFacts
  <2>2. at = "work" => Work[sketch][step] = "TOGGLE_STATUS_LED_STATE"
    BY <1>0, WorkSteps DEF SketchTyped, ProgramTyped, Runs
  <2>. QED
    BY <1>1, <2>1, <2>2 DEF Requested, Begins, Polls
<1>3. at = "setup" => flag = led
  BY <1>0 DEF BlinkInv
<1>4. CASE CallTransmits
  <2>1. TransmitEffect /\ AffectEffect(call'.answer) /\ call.phase = "sending"
    BY <1>0, <1>4, TransmitKinds DEF TransmitEffect
  <2>2. ready' = ready /\ call'.phase = "waiting"
    BY <2>1 DEF TransmitEffect
  <2>3. CASE at # "work"
    <3>1. led' = led
      BY <1>0, <1>2, <2>1, <2>3, LedKept
    <3>. QED
      BY <1>0, <1>1, <1>2, <1>3, <2>2, <2>3, <3>1 DEF BlinkInv
  <2>4. CASE at = "work"
    <3>1. /\ call'.answer = "ACK" => led' = ~led
          /\ call'.answer \in {"ERROR", "INIT_REQUIRED"} => led' = led
      BY <1>0, <1>2, <2>1, <2>4, LedToggled
    <3>2. ready => flag = led
      BY <1>0, <1>2, <2>1, <2>4 DEF BlinkInv
    <3>3. ready /\ call'.answer = "ACK" => flag # led'
      BY <1>0, <3>1, <3>2
    <3>. QED
      BY <1>0, <1>2, <2>2, <2>4, <3>1, <3>2, <3>3 DEF BlinkInv
  <2>. QED
    BY <2>3, <2>4
<1>5. CASE CallNotSent
  <2>1. NotSentEffect /\ AffectEffect("NONE")
    BY <1>0, <1>5, NotSentKinds
  <2>2. at = "setup" => led' = led
    BY <1>0, <1>2, <2>1, LedKept
  <2>. QED
    BY <1>0, <1>3, <2>1, <2>2 DEF NotSentEffect, BlinkInv
<1>6. CASE CallReturns
  <2>1. ReturnEffect /\ call.phase = "waiting" /\ led' = led
    BY <1>6, ReturnKinds DEF ReturnEffect, device
  <2>2. CASE ~ready'
    BY <1>0, <1>3, <2>1, <2>2 DEF BlinkInv
  <2>3. CASE at # "work"
    <3>1. ready' /\ at # "setup" => ready
      BY <1>1, <1>2, <2>3
    <3>. QED
      BY <1>0, <1>3, <2>1, <2>3, <3>1 DEF BlinkInv
  <2>4. CASE ready' /\ at = "work"
    <3>1. /\ call' = Idle /\ ready
          /\ \/ call.answer = "ACK" /\ ok' = TRUE
             \/ call.answer = "ERROR" /\ ok' = FALSE
      BY <1>1, <1>2, <2>1, <2>4, Zenon DEF ReturnEffect, LostEffect, Begins
    <3>2. /\ call.answer = "ACK" => flag # led
          /\ call.answer = "ERROR" => flag = led
      BY <1>0, <1>2, <2>1, <2>4, <3>1 DEF BlinkInv
    <3>3. ok' <=> flag # led
      BY <3>1, <3>2
    <3>. QED
      BY <1>0, <1>2, <2>1, <2>4, <3>1, <3>3 DEF BlinkInv, Idle
  <2>. QED
    BY <2>2, <2>3, <2>4
<1>. QED
  BY <1>4, <1>5, <1>6 DEF CallProgress

\* Time changes neither.
LEMMA BlinkTime == Programmed /\ BlinkInv /\ TimePasses => BlinkInv'
<1>. SUFFICES ASSUME Programmed, BlinkInv, TimePasses PROVE BlinkInv'
  OBVIOUS
<1>1. TimeEffect
  BY TimeKinds DEF Programmed
<1>. QED
  BY <1>1 DEF TimeEffect, BlinkInv, Runs

\* The local LED of blink-command mirrors the controller's whenever there is a session
\* and no toggle is under way, whatever is refused and lost.
THEOREM BlinkMirrors == SketchSpec => []LedMirrored
<1>1. SketchInit => Programmed /\ BlinkInv
  BY SketchTypedInit, ProgramInit, BlinkInit DEF Programmed
<1>2. Programmed /\ BlinkInv /\ [SketchNext]_sketchVars => (Programmed /\ BlinkInv)'
  <2>1. BlinkInv /\ UNCHANGED sketchVars => BlinkInv'
    BY DEF sketchVars, vars, client, program, device, BlinkInv, Runs
  <2>. QED
    BY <2>1, ProgrammedNext, BlinkProgram, BlinkProgress, BlinkTime DEF SketchNext
<1>3. Programmed /\ BlinkInv => LedMirrored
  BY DEF BlinkInv, LedMirrored
<1>. QED
  BY <1>1, <1>2, <1>3, PTL DEF SketchSpec

----------------------------------------------------------------------------
(* The watchdog that begin() sets *)

\* The controller monitors the session when begin() is over, and not before.
MonitorInv ==
  /\ ready /\ ~call.begin => heartbeat = Monitoring /\ watchdog = Monitoring
  /\ call.begin /\ call.command = "SET_HEARTBEAT_CONFIG" =>
       /\ call.phase = "sending" => watchdog = 0 /\ ~expired
       /\ call.phase = "waiting" => watchdog \in {0, Monitoring}
       /\ call.phase = "waiting" /\ call.answer = "ACK" => watchdog = Monitoring
  /\ call.begin /\ call.command = "INIT" /\ call.phase = "waiting" /\ call.answer = "ACK" =>
       watchdog = 0 /\ ~expired
  /\ ~expired /\ watchdog # 0 => age < watchdog

\* There is no session at the start.
LEMMA MonitorInit == SketchInit => MonitorInv
BY DEF SketchInit, Init, MonitorInv, Idle

\* Which call is in progress when one is.
LEMMA InProgress ==
  ASSUME Programmed, call.phase # "idle"
  PROVE  /\ call # Idle /\ Requested /\ (ready <=> call.command # "INIT")
         /\ call.begin <=> call.command \in Begins
         /\ call.begin => call.value = Monitoring /\ at = "setup"
         /\ at \in {"setup", "polled", "work"}
<1>1. call # Idle /\ SketchTyped /\ ProgramInv /\ ProgramTyped
  BY DEF Idle, Programmed, ProgramInv
<1>2. Requested /\ (ready <=> call.command # "INIT")
  BY <1>1 DEF ProgramInv
<1>3. /\ at = "setup" /\ step # 1 => Todo \notin Begins
      /\ at = "work" => Work[sketch][step] \notin Begins
      /\ \A command \in Polls : command \notin Begins
  BY <1>1, TodoFacts, WorkSteps DEF Polls, Begins, Stops, SketchTyped, ProgramTyped
<1>. QED
  BY <1>1, <1>2, <1>3 DEF Requested

\* begin() alone sets the heartbeat of a sketch.
LEMMA MonitorProgram == Programmed /\ MonitorInv /\ Program => MonitorInv'
<1>. SUFFICES ASSUME Programmed, MonitorInv, Program PROVE MonitorInv'
  OBVIOUS
<1>1. ASSUME call = Idle, UNCHANGED link, call'.begin = FALSE PROVE MonitorInv'
  BY <1>1 DEF MonitorInv, link, Idle
<1>2. ASSUME PollEffect PROVE MonitorInv'
  <2>1. call'.begin = FALSE
    <3>1. ASSUME NEW command, call' = Started(command, NoStream, 0, FALSE)
          PROVE  call'.begin = FALSE
      BY <3>1, StartedTyped
    <3>. QED
      BY <1>2, <3>1, IdleTyped, Zenon DEF PollEffect
  <2>. QED
    BY <1>1, <1>2, <2>1 DEF PollEffect
<1>3. ASSUME NEW s, IssueEffect(s) PROVE MonitorInv'
  <2>1. CASE BeginEffect
    <3>1. /\ call'.phase = "sending" /\ call'.begin = TRUE /\ call'.command = "INIT"
      BY <2>1, StartedTyped, SketchFacts DEF BeginEffect
    <3>. QED
      BY <2>1, <3>1 DEF BeginEffect, MonitorInv
  <2>2. CASE SkipEffect
    BY <1>1, <1>3, <2>2 DEF IssueEffect, SkipEffect, Idle
  <2>3. CASE CallEffect(s)
    <3>1. call'.begin = FALSE
      BY <2>3, StartedTyped DEF CallEffect
    <3>. QED
      BY <1>1, <2>3, <3>1 DEF CallEffect
  <2>. QED
    BY <1>2, <1>3, <2>1, <2>2, <2>3 DEF IssueEffect, DoEffect
<1>4. CASE SetupStep
  BY <1>3, <1>4, SetupIssues
<1>5. CASE WorkStep
  BY <1>3, <1>5, WorkIssues DEF Programmed, ProgramInv
<1>6. CASE LoopPolls
  BY <1>2, <1>6, PollKinds DEF LoopPolls
<1>7. CASE Decision
  BY <1>7, DecisionKinds DEF link, MonitorInv
<1>. QED
  BY <1>4, <1>5, <1>6, <1>7 DEF Program, Decision

\* The ACK of begin()'s second call sets the watchdog, and the heartbeat once it is read.
LEMMA MonitorProgress == Programmed /\ MonitorInv /\ CallProgress => MonitorInv'
<1>. SUFFICES ASSUME Programmed, MonitorInv, CallProgress PROVE MonitorInv'
  OBVIOUS
<1>0. /\ SketchTyped /\ call.phase # "idle"
      /\ call.begin \in BOOLEAN /\ ready \in BOOLEAN /\ expired \in BOOLEAN
      /\ watchdog \in Nat /\ Monitoring \in Nat \ {0}
  BY TransmitKinds, NotSentKinds, ReturnKinds, SketchFacts
     DEF Programmed, CallProgress, TransmitEffect, NotSentEffect, ReturnEffect, SketchTyped, CallTyped
<1>1. /\ ready <=> call.command # "INIT"
      /\ call.begin <=> call.command \in Begins
      /\ call.begin => call.value = Monitoring
  BY <1>0, InProgress
<1>2. CASE CallTransmits
  <2>1. TransmitEffect
    BY <1>0, <1>2, TransmitKinds
  <2>2. ready' /\ ~call'.begin => heartbeat' = Monitoring /\ watchdog' = Monitoring
    BY <1>1, <2>1 DEF TransmitEffect, MonitorInv
  <2>3. /\ call'.begin /\ call'.command = "SET_HEARTBEAT_CONFIG" =>
             /\ call'.phase = "waiting"
             /\ watchdog' \in {0, Monitoring}
             /\ call'.answer = "ACK" => watchdog' = Monitoring
    BY <1>1, <2>1 DEF TransmitEffect, MonitorInv, Begins
  <2>4. call'.begin /\ call'.command = "INIT" /\ call'.answer = "ACK" =>
          watchdog' = 0 /\ ~expired'
    BY <2>1 DEF TransmitEffect
  <2>5. watchdog' # 0 => age' < watchdog'
    <3>1. watchdog' \in {0, Monitoring, watchdog} /\ age' = 0
      BY <1>1, <2>1 DEF TransmitEffect, Begins
    <3>. QED
      BY <1>0, <3>1
  <2>. QED
    BY <2>1, <2>2, <2>3, <2>4, <2>5 DEF TransmitEffect, MonitorInv
<1>3. CASE LostEffect
  BY <1>3, IdleTyped DEF LostEffect, MonitorInv
<1>4. CASE CallNotSent
  <2>1. NotSentEffect /\ call.value \in Nat /\ age \in Nat
    <3>1. NotSentEffect
      BY <1>0, <1>4, NotSentKinds
    <3>2. call.value \in Nat /\ age \in Nat
      BY <1>0, ClockFacts DEF SketchTyped, CallTyped, Stopwatch
    <3>. QED
      BY <3>1, <3>2
  <2>2. ~expired' /\ watchdog' # 0 => age' < watchdog'
    BY <1>0, <2>1 DEF NotSentEffect, MonitorInv
  <2>. QED
    BY <2>1, <2>2, IdleTyped DEF NotSentEffect, MonitorInv
<1>5. CASE CallReturns
  <2>1. ReturnEffect
    BY <1>5, ReturnKinds
  <2>2. CASE /\ call.answer = "ACK" /\ call.command = "INIT"
             /\ call' = Started("SET_HEARTBEAT_CONFIG", NoStream, call.value, TRUE)
    <3>1. /\ call'.phase = "sending" /\ call'.begin = TRUE
          /\ call'.command = "SET_HEARTBEAT_CONFIG"
      BY <1>0, <1>1, <2>2, StartedTyped DEF Begins
    <3>2. watchdog = 0 /\ ~expired
      BY <1>1, <2>1, <2>2 DEF MonitorInv, ReturnEffect, Begins
    <3>. QED
      BY <2>1, <3>1, <3>2 DEF ReturnEffect, MonitorInv
  <2>3. CASE /\ call.answer = "ACK" /\ call.command = "SET_HEARTBEAT_CONFIG"
             /\ call' = Idle /\ heartbeat' = call.value
    <3>1. call.value = Monitoring /\ watchdog = Monitoring
      BY <1>1, <2>1, <2>3 DEF MonitorInv, ReturnEffect, Begins
    <3>. QED
      BY <2>1, <2>3, <3>1, IdleTyped DEF ReturnEffect, MonitorInv
  <2>4. CASE call' = Idle /\ ready' = (ready /\ ~call.begin) /\ heartbeat' = heartbeat
    BY <2>1, <2>4, IdleTyped DEF ReturnEffect, MonitorInv
  <2>5. CASE /\ call.answer = "ACK" /\ call.command \notin Begins
             /\ call' = Idle /\ UNCHANGED <<heartbeat, ready>>
    BY <1>1, <2>1, <2>5, IdleTyped DEF ReturnEffect, MonitorInv
  <2>6. ~(call.command = "INIT" /\ call.value = 0)
    BY <1>0, <1>1 DEF Begins
  <2>. QED
    BY <1>3, <2>1, <2>2, <2>3, <2>4, <2>5, <2>6 DEF ReturnEffect
<1>. QED
  BY <1>2, <1>4, <1>5 DEF CallProgress

\* A millisecond may end the session, and changes nothing else of it.
LEMMA MonitorTime == Programmed /\ MonitorInv /\ TimePasses => MonitorInv'
<1>. SUFFICES ASSUME Programmed, MonitorInv, TimePasses PROVE MonitorInv'
  OBVIOUS
<1>1. TimeEffect
  BY TimeKinds DEF Programmed
<1>2. ~expired' /\ watchdog' # 0 => age' < watchdog'
  <2>1. age' \in Nat /\ watchdog \in Nat
    BY <1>1, LaterType, ClockFacts DEF TimeEffect, Programmed, SketchTyped, Stopwatch
  <2>2. ~expired' => watchdog = 0 \/ ~(Later(age) >= watchdog)
    BY <1>1, Zenon DEF TimeEffect
  <2>3. age' = Later(age) /\ watchdog' = watchdog
    BY <1>1 DEF TimeEffect
  <2>. QED
    BY <2>1, <2>2, <2>3
<1>. QED
  BY <1>1, <1>2 DEF TimeEffect, MonitorInv

----------------------------------------------------------------------------
(* How old the last frame is when the sketch is to make its next call *)

Answered == call.phase = "waiting" /\ call.answer # "NONE"

\* The bus takes a frame in time, and the controller that answers does so in time.
BusInv ==
  /\ call.phase = "sending" => call.waited <= Latency
  /\ Answered => age <= ReplyDelay /\ Elapsed(lastSent) = age

\* The stamp is right, and the last frame reached the controller before the reply
\* that d started from, or before the poll that d started from and that did not
\* find it old enough.
Fresh(d) ==
  /\ Elapsed(lastSent) = age
  /\ age <= d + ReplyDelay \/ age < d + Monitoring \div 5

\* How much of the delay() of set-up is behind the sketch: none before it.
Rested == at = "setup" => (Todo = "DELAY" /\ called) \/ Todo \in Last
Rest == IF Rested THEN Tenth - timer ELSE 0

SessionInv ==
  ~Runs("blink") /\ at # "halt" /\ ready =>
    /\ call.phase = "idle" => ~expired /\ Fresh(loop) /\ Fresh(LoopPeriod + Rest)
    /\ call.phase = "sending" /\ ~call.begin =>
         ~expired /\ Fresh(LoopPeriod + Tenth + call.waited)
    /\ Answered => ~expired

FreshInv == MonitorInv /\ BusInv /\ SessionInv

\* Without a session nothing can be late.
LEMMA FreshInit == SketchInit => FreshInv
BY MonitorInit DEF SketchInit, Init, FreshInv, BusInv, SessionInv, Answered, Idle

\* A fifth of the heartbeat timeout, in a form the provers use.
LEMMA Fifth ==
  /\ Monitoring \div 5 \in Nat
  /\ Tenth \in Nat \ {0} /\ Monitoring \in Nat \ {0} /\ Monitoring < ClockSize
  /\ Latency + LoopPeriod + Tenth + Monitoring \div 5 <= Monitoring
  /\ Latency + LoopPeriod + Tenth + ReplyDelay < Monitoring
  /\ LoopPeriod \in Nat /\ Latency \in Nat /\ ReplyDelay \in Nat /\ ClockSize \in Nat \ {0}
BY SketchFacts, ClockFacts

\* What is fresh for less is fresh for more.
LEMMA FreshMore ==
  ASSUME SketchTyped, NEW d \in Nat, NEW e \in Nat, d <= e, Fresh(d)
  PROVE  Fresh(e)
<1>. DEFINE fifth == Monitoring \div 5
<1>1. fifth \in Nat /\ ReplyDelay \in Nat /\ age \in Nat
  BY Fifth DEF SketchTyped, Stopwatch
<1>2. age <= d + ReplyDelay \/ age < d + fifth
  BY DEF Fresh
<1>. HIDE DEF fifth
<1>3. age <= e + ReplyDelay \/ age < e + fifth
  BY <1>1, <1>2
<1>. QED
  BY <1>3 DEF Fresh, fifth

\* A frame as old as that is younger than the watchdog's time, now and a millisecond on.
LEMMA FreshAlive ==
  ASSUME SketchTyped, NEW d \in Nat, d < LoopPeriod + Tenth + Latency, Fresh(d)
  PROVE  /\ age + 1 < Monitoring
         /\ Later(age) = age + 1
         /\ \A e \in Nat : d + 1 <= e =>
              age + 1 <= e + ReplyDelay \/ age + 1 < e + Monitoring \div 5
<1>. DEFINE fifth == Monitoring \div 5
<1>1. /\ fifth \in Nat /\ age \in Nat
      /\ Latency + LoopPeriod + Tenth + fifth <= Monitoring
  BY Fifth DEF SketchTyped, Stopwatch
<1>2. age <= d + ReplyDelay \/ age < d + fifth
  BY DEF Fresh
<1>. HIDE DEF fifth
<1>3. age + 1 < Monitoring
  BY <1>1, <1>2, Fifth
<1>4. \A e \in Nat : d + 1 <= e => age + 1 <= e + ReplyDelay \/ age + 1 < e + fifth
  BY <1>1, <1>2, Fifth
<1>. QED
  BY <1>1, <1>3, <1>4, Fifth DEF Later, fifth

\* Without blink-command the only delay() is the one of set-up.
LEMMA RestRange ==
  ASSUME Programmed, ~Runs("blink")
  PROVE  /\ Rest \in Nat /\ Rest <= Tenth
         /\ timer # 0 => at = "setup" /\ called /\ Todo = "DELAY" /\ Rested /\ timer <= Tenth
         /\ Rested => Rest = Tenth - timer
         /\ ~Rested => Rest = 0
<1>1. timer \in Nat /\ Tenth \in Nat /\ Delayed
  BY SketchFacts DEF Programmed, SketchTyped, ProgramInv
<1>2. /\ timer # 0 => at = "setup" /\ called /\ Todo = "DELAY"
      /\ timer <= Tenth
  BY <1>1 DEF Delayed
<1>3. timer # 0 => Rested
  BY <1>2 DEF Rested
<1>. QED
  BY <1>1, <1>2, <1>3 DEF Rest

\* The step of the sketch leaves what is behind it of the delay() as it is, or adds to it.
LEMMA RestGrows ==
  ASSUME Programmed, Programmed', ~Runs("blink"), Program, call = Idle, call' = Idle,
         at' # "halt", ~(SetupStep /\ Todo = "BEGIN")
  PROVE  Rest' \in Nat /\ Rest <= Rest' /\ ~Runs("blink")'
<1>0. /\ SketchTyped /\ ProgramInv /\ ProgramTyped /\ Tenth \in Nat
      /\ timer \in Nat /\ timer' \in Nat
  BY SketchFacts DEF Programmed, ProgramInv, SketchTyped
<1>1. sketch' = sketch
  BY DEF Program, SetupStep, WorkStep, Issue, SetupSucceeds, SetupFails, LoopPolls, PollFailed,
     NothingDue, WorkDue, ToggleReturned, PauseEnds, StopReturned, ReadReturned
<1>2. ~Runs("blink")'
  BY <1>1 DEF Runs
<1>3. /\ Rest \in Nat /\ Rest <= Tenth /\ (Rested => Rest = Tenth - timer)
      /\ (~Rested => Rest = 0)
      /\ timer # 0 => at = "setup" /\ called /\ Todo = "DELAY"
  BY RestRange
<1>4. Rest' \in Nat
  <2>1. timer' <= Tenth
    <3>1. Delayed' /\ sketch' # "blink"
      BY <1>2 DEF Programmed, ProgramInv, Runs
    <3>. QED
      BY <3>1, Zenon DEF Delayed, Runs
  <2>2. CASE Rested'
    <3>1. Rest' = Tenth - timer'
      BY <2>2, Zenon DEF Rest
    <3>2. \A t \in Nat : t <= Tenth => Tenth - t \in Nat
      BY <1>0
    <3>3. Tenth - timer' \in Nat
      BY <1>0, <2>1, <3>2
    <3>. QED
      BY <3>1, <3>3, Zenon
  <2>3. CASE ~Rested'
    BY <2>3, Zenon DEF Rest
  <2>. QED
    BY <2>2, <2>3, Zenon
<1>5. CASE timer' = 0 /\ (Rested => Rested')
  <2>1. CASE Rested
    <3>1. Rest' = Tenth - timer'
      BY <1>5, <2>1, Zenon DEF Rest
    <3>. QED
      BY <1>0, <1>2, <1>3, <1>4, <1>5, <3>1
  <2>2. CASE ~Rested
    BY <1>2, <1>3, <1>4, <2>2
  <2>. QED
    BY <2>1, <2>2
<1>6. CASE SetupStep
  <2>1. /\ at = "setup" /\ ~called /\ at' = at /\ Todo' = Todo /\ called' = TRUE
        /\ timer' = Pause(Todo)
    BY <1>6, SetupIssues DEF SetupStep, IssueEffect, Todo
  <2>2. CASE Todo = "DELAY"
    <3>1. ~Rested
      BY <2>1, <2>2 DEF Rested, Last
    <3>. QED
      BY <1>2, <1>3, <1>4, <3>1
  <2>3. CASE Todo # "DELAY"
    <3>1. timer' = 0 /\ (Rested => Rested')
      BY <2>1, <2>3 DEF Pause, Rested
    <3>. QED
      BY <1>2, <1>5, <3>1
  <2>. QED
    BY <2>2, <2>3
<1>7. CASE WorkStep
  <2>1. at' = "work" /\ timer' = 0
    BY <1>0, <1>7, WorkIssues DEF WorkStep, IssueEffect, Pause, Stops
  <2>. QED
    BY <1>2, <1>5, <2>1 DEF Rested
<1>8. CASE LoopPolls
  BY <1>2, <1>3, <1>5, <1>8 DEF LoopPolls, Rested
<1>9. CASE SetupSucceeds
  <2>0. step \in 1 .. Len(Setup[sketch]) /\ Len(Setup[sketch]) \in Nat
    BY <1>0, <1>9, TodoFacts DEF SetupSucceeds
  <2>1. /\ at = "setup" /\ timer' = 0 /\ called
        /\ \/ at' = "loop"
           \/ at' = at /\ step' = step + 1 /\ step + 1 <= Len(Setup[sketch])
    BY <1>9, <2>0 DEF SetupSucceeds, Returned
  <2>2. CASE at' = "loop"
    BY <1>2, <1>5, <2>1, <2>2 DEF Rested
  <2>3. CASE at' = at /\ step' = step + 1 /\ step + 1 <= Len(Setup[sketch])
    <3>1. Todo' = Setup[sketch][step + 1]
      BY <1>1, <2>3 DEF Todo
    <3>2. Rested => Todo = "DELAY" \/ Todo \in Last
      BY <2>1 DEF Rested
    <3>3. Todo \in {"DELAY"} \cup Last => Setup[sketch][step + 1] \in Last
      BY <1>0, <2>1, <2>3, TodoFacts
    <3>4. Rested => Todo' \in Last
      BY <3>1, <3>2, <3>3
    <3>5. Rested => Rested'
      BY <3>4 DEF Rested
    <3>. QED
      BY <1>2, <1>5, <2>1, <3>5
  <2>. QED
    BY <2>1, <2>2, <2>3
<1>10. CASE SetupFails
  BY <1>2, <1>5, <1>10 DEF SetupFails, Returned, SetupFailed, Rested
<1>11. CASE PollFailed \/ NothingDue \/ WorkDue \/ PauseEnds
  BY <1>2, <1>3, <1>5, <1>11 DEF PollFailed, NothingDue, WorkDue, PauseEnds, Rested
<1>12. CASE ToggleReturned
  BY <1>12 DEF ToggleReturned
<1>13. CASE StopReturned \/ ReadReturned
  BY <1>2, <1>5, <1>13 DEF StopReturned, ReadReturned, Returned, Rested
<1>. QED
  BY <1>6, <1>7, <1>8, <1>9, <1>10, <1>11, <1>12, <1>13 DEF Program

\* A sketch sends or goes on before the watchdog is in danger.
LEMMA FreshProgram ==
  Programmed /\ Programmed' /\ FreshInv /\ Program => BusInv' /\ SessionInv'
<1>. SUFFICES ASSUME Programmed, Programmed', FreshInv, Program PROVE BusInv' /\ SessionInv'
  OBVIOUS
<1>0. /\ SketchTyped /\ ProgramInv /\ ProgramTyped /\ MonitorInv /\ SessionInv
      /\ 0 \in Nat /\ LoopPeriod \in Nat /\ Tenth \in Nat /\ Latency \in Nat
      /\ loop \in Nat /\ loop' \in Nat
  BY ClockFacts, SketchFacts DEF Programmed, ProgramInv, FreshInv, SketchTyped, Stopwatch
<1>1. /\ sketch' = sketch /\ (at' # "halt" => at # "halt")
  BY DEF Program, SetupStep, WorkStep, Issue, SetupSucceeds, SetupFails, LoopPolls, PollFailed,
     NothingDue, WorkDue, ToggleReturned, PauseEnds, StopReturned, ReadReturned
\* The bus carries nothing yet.
<1>2. call = Idle /\ call.phase = "idle"
  <2>1. at = "pause" => call = Idle
    BY <1>0, InProgress DEF ProgramInv
  <2>2. CASE PauseEnds
    BY <2>1, <2>2 DEF PauseEnds, Idle
  <2>3. CASE ~PauseEnds
    <3>1. call = Idle
      BY <2>3 DEF Program, SetupStep, WorkStep, Issue, SetupSucceeds, SetupFails, LoopPolls,
         Poll, PollNotReady, PollTelemetry, PollPing, PollNothing, PollFailed, NothingDue,
         WorkDue, ToggleReturned, StopReturned, ReadReturned, Returned
    <3>. QED
      BY <3>1 DEF Idle
  <2>. QED
    BY <2>2, <2>3
<1>3. ASSUME NEW command, NEW stream, NEW value \in Nat, NEW begin \in BOOLEAN,
             call' = Started(command, stream, value, begin),
             begin \/ ~ready' \/ UNCHANGED link
      PROVE  BusInv' /\ SessionInv'
  <2>1. call'.phase = "sending" /\ call'.begin = begin /\ call'.waited = 0
    BY <1>3, StartedTyped
  <2>2. BusInv'
    BY <1>0, <2>1 DEF BusInv, Answered
  <2>3. ASSUME ~Runs("blink")', at' # "halt", ready', ~begin
        PROVE  ~expired' /\ Fresh(LoopPeriod + Tenth + call.waited)'
    <3>1. UNCHANGED link /\ ready /\ at # "halt" /\ ~Runs("blink")
      BY <1>1, <1>3, <2>3 DEF link, Runs
    <3>2. ~expired /\ Fresh(LoopPeriod + Rest)
      BY <1>0, <1>2, <3>1 DEF SessionInv
    <3>3. Rest \in Nat /\ Rest <= Tenth
      BY <3>1, RestRange
    <3>4. Fresh(LoopPeriod + Tenth)
      <4>1. /\ LoopPeriod + Rest \in Nat /\ LoopPeriod + Tenth \in Nat
            /\ LoopPeriod + Rest <= LoopPeriod + Tenth
        BY <1>0, <3>3
      <4>. QED
        BY <1>0, <3>2, <4>1, FreshMore
    <3>5. LoopPeriod + Tenth + call'.waited = LoopPeriod + Tenth
      BY <1>0, <2>1
    <3>. QED
      BY <3>1, <3>2, <3>4, <3>5 DEF Fresh, Elapsed, link
  <2>. QED
    BY <2>1, <2>2, <2>3 DEF SessionInv, Answered
\* No call.
<1>4. ASSUME call' = Idle, UNCHANGED link, ~(SetupStep /\ Todo = "BEGIN"),
             loop' = loop \/ (loop' = 0 /\ (ready => ~PingDue))
      PROVE  BusInv' /\ SessionInv'
  <2>1. call'.phase = "idle" /\ BusInv'
    BY <1>4, IdleTyped DEF BusInv, Answered
  <2>2. ASSUME ~Runs("blink")', at' # "halt", ready'
        PROVE  ~expired' /\ Fresh(loop)' /\ Fresh(LoopPeriod + Rest)'
    <3>1. ready /\ at # "halt" /\ ~Runs("blink")
      BY <1>1, <1>4, <2>2 DEF link, Runs
    <3>2. ~expired /\ Fresh(loop) /\ Fresh(LoopPeriod + Rest)
      BY <1>0, <1>2, <3>1 DEF SessionInv
    <3>3. Rest \in Nat /\ Rest' \in Nat /\ Rest <= Rest'
      <4>1. Rest \in Nat
        BY <3>1, RestRange
      <4>2. Rest <= Rest'
        BY <1>2, <1>4, <2>2, <3>1, RestGrows
      <4>3. Rest' \in Nat
        BY <1>2, <1>4, <2>2, <3>1, RestGrows
      <4>. QED
        BY <4>1, <4>2, <4>3
    <3>4. Fresh(LoopPeriod + Rest')
      <4>1. ASSUME NEW d \in Nat, NEW e \in Nat, d <= e, Fresh(LoopPeriod + d)
            PROVE  Fresh(LoopPeriod + e)
        <5>1. LoopPeriod + d \in Nat /\ LoopPeriod + e \in Nat /\ LoopPeriod + d <= LoopPeriod + e
          BY <1>0, <4>1
        <5>. QED
          BY <1>0, <4>1, <5>1, FreshMore
      <4>. QED
        BY <3>2, <3>3, <4>1, Zenon
    <3>5. Fresh(loop')
      <4>1. CASE loop' = loop
        BY <3>2, <4>1
      <4>2. CASE loop' = 0 /\ (ready => ~PingDue)
        <5>1. heartbeat = Monitoring /\ heartbeat # 0
          BY <1>0, <1>2, <3>1, SketchFacts DEF MonitorInv, Idle
        <5>2. /\ Elapsed(lastSent) = age /\ age \in Nat
              /\ ~(Elapsed(lastSent) >= heartbeat \div 5)
          BY <1>0, <3>1, <3>2, <4>2, <5>1 DEF PingDue, Fresh, SketchTyped, Stopwatch
        <5>. DEFINE fifth == Monitoring \div 5
        <5>3. fifth \in Nat /\ ~(age >= fifth)
          BY <5>1, <5>2, Fifth
        <5>. HIDE DEF fifth
        <5>4. age < 0 + fifth
          BY <5>2, <5>3
        <5>. QED
          BY <4>2, <5>2, <5>4 DEF Fresh, fifth
      <4>. QED
        BY <1>4, <4>1, <4>2
    <3>. QED
      BY <1>4, <3>2, <3>4, <3>5 DEF Fresh, Elapsed, link
  <2>. QED
    BY <2>1, <2>2 DEF SessionInv, Answered
<1>5. ASSUME PollEffect, ~(SetupStep /\ Todo = "BEGIN") PROVE BusInv' /\ SessionInv'
  <2>1. ASSUME NEW command, call' = Started(command, NoStream, 0, FALSE)
        PROVE  BusInv' /\ SessionInv'
    BY <1>0, <1>3, <1>5, <2>1 DEF PollEffect
  <2>2. CASE call' = Idle /\ (ready => ~PingDue)
    BY <1>4, <1>5, <2>2 DEF PollEffect
  <2>. QED
    BY <1>5, <2>1, <2>2 DEF PollEffect
<1>6. ASSUME NEW s, IssueEffect(s), (SetupStep /\ Todo = "BEGIN") => s = "BEGIN"
      PROVE  BusInv' /\ SessionInv'
  <2>1. CASE BeginEffect
    <3>1. Monitoring \in Nat /\ TRUE \in BOOLEAN
      BY SketchFacts
    <3>. QED
      BY <1>3, <2>1, <3>1 DEF BeginEffect
  <2>2. CASE s # "BEGIN" /\ PollEffect
    BY <1>5, <1>6, <2>2
  <2>3. CASE s # "BEGIN" /\ SkipEffect
    BY <1>2, <1>4, <1>6, <2>3 DEF SkipEffect
  <2>4. CASE CallEffect(s)
    <3>1. PICK stream, value : value \in Nat /\ call' = Started(s, stream, value, FALSE)
      BY <2>4 DEF CallEffect
    <3>. QED
      BY <1>3, <2>4, <3>1 DEF CallEffect
  <2>. QED
    BY <1>6, <2>1, <2>2, <2>3, <2>4 DEF IssueEffect, DoEffect
<1>7. CASE SetupStep
  BY <1>6, <1>7, SetupIssues
<1>8. ~SetupStep => ~(SetupStep /\ Todo = "BEGIN")
  OBVIOUS
<1>9. CASE WorkStep
  <2>1. at = "work" /\ IssueEffect(Work[sketch][step])
    BY <1>0, <1>9, WorkIssues DEF WorkStep
  <2>2. ~SetupStep
    BY <2>1 DEF SetupStep
  <2>. QED
    BY <1>6, <2>1, <2>2
<1>10. CASE LoopPolls
  <2>1. ~SetupStep /\ PollEffect
    BY <1>10, PollKinds DEF LoopPolls, SetupStep
  <2>. QED
    BY <1>5, <2>1
<1>11. CASE Decision /\ ~SetupStep
  BY <1>2, <1>4, <1>11, DecisionKinds
<1>. QED
  BY <1>7, <1>9, <1>10, <1>11 DEF Program, Decision

\* An answer is back in time, and the frame before it was fresh.
LEMMA FreshProgress == Programmed /\ FreshInv /\ CallProgress => BusInv' /\ SessionInv'
<1>. SUFFICES ASSUME Programmed, FreshInv, CallProgress PROVE BusInv' /\ SessionInv'
  OBVIOUS
<1>0. /\ SketchTyped /\ MonitorInv /\ BusInv /\ SessionInv /\ now \in Millis
      /\ ReplyDelay \in Nat /\ Latency \in Nat /\ LoopPeriod \in Nat /\ loop \in Nat /\ age \in Nat
      /\ UNCHANGED program /\ call.phase # "idle"
  <2>1. SketchTyped /\ MonitorInv /\ BusInv /\ SessionInv /\ UNCHANGED program
    BY DEF Programmed, FreshInv, CallProgress
  <2>2. now \in Millis /\ loop \in Nat /\ age \in Nat
    BY <2>1, ClockFacts DEF SketchTyped, Stopwatch
  <2>3. call.phase # "idle"
    BY <2>1, TransmitKinds, NotSentKinds, ReturnKinds
       DEF CallProgress, TransmitEffect, NotSentEffect, ReturnEffect
  <2>. QED
    BY <2>1, <2>2, <2>3, ClockFacts
<1>1. /\ ready <=> call.command # "INIT"
      /\ call.begin <=> call.command \in Begins
      /\ call.begin => call.value = Monitoring /\ at = "setup"
  BY <1>0, InProgress
<1>2. CASE CallTransmits
  <2>1. TransmitEffect
    BY <1>0, <1>2, TransmitKinds
  <2>2. Elapsed(lastSent)' = age' /\ age' = 0
    BY <1>0, <2>1, ElapsedOfNow DEF TransmitEffect, Elapsed
  <2>3. BusInv'
    BY <1>0, <2>1, <2>2 DEF TransmitEffect, BusInv
  <2>4. ASSUME ~Runs("blink"), at # "halt", ready PROVE ~expired'
    <3>1. ~expired
      BY <1>0, <1>1, <2>1, <2>4 DEF TransmitEffect, SessionInv, MonitorInv, Begins
    <3>. QED
      BY <1>1, <2>1, <2>4, <3>1 DEF TransmitEffect, Begins
  <2>. QED
    BY <1>0, <2>1, <2>3, <2>4 DEF TransmitEffect, SessionInv, program, Runs
<1>3. CASE LostEffect
  <2>1. call'.phase = "idle" /\ ready' = FALSE
    BY <1>3, IdleTyped DEF LostEffect
  <2>. QED
    BY <2>1 DEF BusInv, SessionInv, Answered
<1>4. CASE CallReturns
  <2>1. ReturnEffect
    BY <1>4, ReturnKinds
  <2>2. CASE call' = Started("SET_HEARTBEAT_CONFIG", NoStream, call.value, TRUE)
    <3>1. call'.phase = "sending" /\ call'.begin = TRUE /\ call'.waited = 0
      <4>1. call.value \in Nat
        BY <1>0 DEF SketchTyped, CallTyped
      <4>. QED
        BY <2>2, <4>1, StartedTyped
    <3>. QED
      BY <1>0, <3>1 DEF BusInv, SessionInv, Answered
  <2>3. CASE call' = Idle /\ (ready' => ready) /\ Answered
    <3>1. call'.phase = "idle"
      BY <2>3, IdleTyped
    <3>2. BusInv'
      BY <3>1 DEF BusInv, Answered
    <3>3. ASSUME ~Runs("blink")', at' # "halt", ready'
          PROVE  ~expired' /\ Fresh(loop)' /\ Fresh(LoopPeriod + Rest)'
      <4>1. UNCHANGED <<lastSent, expired, now, age, loop, sketch, at>> /\ Rest' = Rest
        BY <1>0, <2>1 DEF ReturnEffect, program, Rest, Rested, Todo
      <4>2. ~Runs("blink") /\ at # "halt" /\ ready
        BY <2>3, <3>3, <4>1 DEF Runs
      <4>3. ~expired
        BY <1>0, <2>3, <4>2 DEF SessionInv
      <4>4. Elapsed(lastSent) = age /\ age <= ReplyDelay
        BY <1>0, <2>3 DEF BusInv
      <4>5. Rest \in Nat
        BY <4>2, RestRange
      <4>6. age <= loop + ReplyDelay /\ age <= LoopPeriod + Rest + ReplyDelay
        BY <1>0, <4>4, <4>5
      <4>. QED
        BY <4>1, <4>3, <4>4, <4>6 DEF Fresh, Elapsed
    <3>. QED
      BY <3>1, <3>2, <3>3 DEF SessionInv, Answered
  <2>4. ~(call.command = "INIT" /\ call.value = 0)
    BY <1>1, SketchFacts DEF Begins
  <2>5. CASE /\ call' = Idle /\ call.answer \in {"ACK", "ERROR"}
             /\ ready' = ready \/ ready' = (ready /\ ~call.begin)
    <3>1. Answered
      BY <2>1, <2>5 DEF ReturnEffect, Answered
    <3>2. ready' => ready
      BY <2>5, Zenon
    <3>. QED
      BY <2>3, <2>5, <3>1, <3>2
  <2>. QED
    BY <1>3, <2>1, <2>2, <2>4, <2>5, Zenon DEF ReturnEffect
<1>5. CASE CallNotSent
  <2>1. call'.phase = "idle" /\ ready' = FALSE
    BY <1>0, <1>5, NotSentKinds, IdleTyped DEF NotSentEffect
  <2>. QED
    BY <2>1 DEF BusInv, SessionInv, Answered
<1>. QED
  BY <1>2, <1>4, <1>5 DEF CallProgress

\* Who acts before the next millisecond.
LEMMA InTimeKinds ==
  ASSUME Programmed, SketchInTime
  PROVE  /\ call.phase = "sending" => call.waited < Latency
         /\ Answered => age < ReplyDelay
         /\ call.phase = "idle" => timer > 0 \/ at = "halt" \/ loop < LoopPeriod
<1>1. call # Idle => InTime
  BY DEF SketchInTime
<1>2. InTime /\ call.phase = "sending" => call.waited < Latency
  BY Zenon DEF InTime
<1>3. InTime /\ Answered => age < ReplyDelay
  BY Zenon DEF InTime, Answered
<1>4. call.phase = "idle" => call = Idle
  BY DEF Programmed, ProgramInv
<1>5. call.phase # "idle" => call # Idle
  BY DEF Idle
<1>. QED
  BY <1>1, <1>2, <1>3, <1>4, <1>5 DEF SketchInTime, Answered

\* A stamp ages with the clock.
LEMMA StampAges ==
  ASSUME SketchTyped, TimeEffect, Elapsed(lastSent) = age, age + 1 < ClockSize
  PROVE  Elapsed(lastSent)' = age + 1 /\ age' = age + 1
<1>1. now \in Millis /\ lastSent \in Millis /\ age \in Nat
  BY ClockFacts DEF SketchTyped, Stopwatch
<1>2. (now' - lastSent) % ClockSize = age + 1
  BY <1>1, ElapsedNext DEF TimeEffect
<1>. QED
  BY <1>1, <1>2, ClockFacts DEF TimeEffect, Elapsed, Later

\* The watchdog leaves the session alone for that millisecond.
LEMMA Unexpired ==
  ASSUME SketchTyped, TimeEffect, ~expired, watchdog \in {0, Monitoring},
         Later(age) = age + 1, age + 1 < Monitoring
  PROVE  ~expired'
<1>1. age \in Nat /\ Monitoring \in Nat
  BY Fifth DEF SketchTyped, Stopwatch
<1>2. watchdog = 0 \/ ~(Later(age) >= watchdog)
  BY <1>1
<1>. QED
  BY <1>2, Zenon DEF TimeEffect

\* A millisecond passes only while its bound is not reached.
LEMMA FreshTime == Programmed /\ FreshInv /\ TimePasses => BusInv' /\ SessionInv'
<1>. SUFFICES ASSUME Programmed, FreshInv, TimePasses PROVE BusInv' /\ SessionInv'
  OBVIOUS
<1>0. /\ SketchTyped /\ MonitorInv /\ BusInv /\ SessionInv /\ TimeEffect
      /\ age \in Nat /\ loop \in Nat /\ timer \in Nat /\ loop <= ClockSize
  BY TimeKinds, ClockFacts DEF Programmed, FreshInv, SketchTyped, Stopwatch
<1>1. /\ call'.phase = call.phase /\ call'.begin = call.begin /\ Answered' = Answered
      /\ UNCHANGED <<sketch, at, step, called, ready, watchdog>>
      /\ (Runs("blink")' <=> Runs("blink")) /\ (Rested' <=> Rested)
  BY <1>0 DEF TimeEffect, Answered, Runs, Rested, Todo
<1>2. /\ call.phase = "sending" => call.waited < Latency
      /\ Answered => age < ReplyDelay
      /\ call.phase = "idle" => timer > 0 \/ at = "halt" \/ loop < LoopPeriod
  BY <1>0, InTimeKinds DEF TimeEffect
<1>3. LoopPeriod < ClockSize
  <2>1. Latency + LoopPeriod + Tenth + ReplyDelay < Monitoring
    BY Fifth
  <2>. QED
    BY <2>1, Fifth
<1>4. CASE call.phase = "sending"
  <2>0. call # Idle
    BY <1>4 DEF Idle
  <2>1. call.waited \in Nat /\ Latency < ClockSize
    <3>1. Latency + LoopPeriod + Tenth + ReplyDelay < Monitoring
      BY Fifth
    <3>. QED
      BY <1>0, <3>1, Fifth DEF SketchTyped, CallTyped, Stopwatch
  <2>2. call'.waited = call.waited + 1 /\ call.waited + 1 <= Latency
    BY <1>0, <1>2, <1>4, <2>0, <2>1, Fifth DEF TimeEffect, Later
  <2>3. BusInv'
    BY <1>1, <1>4, <2>2 DEF BusInv, Answered
  <2>4. ASSUME ~Runs("blink"), at # "halt", ready, ~call.begin
        PROVE  ~expired' /\ Fresh(LoopPeriod + Tenth + call.waited)'
    <3>1. ~expired /\ Fresh(LoopPeriod + Tenth + call.waited) /\ watchdog = Monitoring
      BY <1>0, <1>4, <2>4 DEF SessionInv, MonitorInv
    <3>2. /\ LoopPeriod + Tenth + call.waited \in Nat
          /\ LoopPeriod + Tenth + call.waited < LoopPeriod + Tenth + Latency
          /\ LoopPeriod + Tenth + (call.waited + 1) \in Nat
          /\ LoopPeriod + Tenth + call.waited + 1 <= LoopPeriod + Tenth + (call.waited + 1)
      BY <1>2, <1>4, <2>1, Fifth
    <3>3. /\ age + 1 < Monitoring /\ Later(age) = age + 1
          /\ \/ age + 1 <= LoopPeriod + Tenth + (call.waited + 1) + ReplyDelay
             \/ age + 1 < LoopPeriod + Tenth + (call.waited + 1) + Monitoring \div 5
      <4>1. \A e \in Nat : LoopPeriod + Tenth + call.waited + 1 <= e =>
              age + 1 <= e + ReplyDelay \/ age + 1 < e + Monitoring \div 5
        BY <1>0, <3>1, <3>2, FreshAlive
      <4>2. age + 1 < Monitoring /\ Later(age) = age + 1
        BY <1>0, <3>1, <3>2, FreshAlive
      <4>. QED
        BY <3>2, <4>1, <4>2, Zenon
    <3>4. age + 1 < ClockSize
      BY <1>0, <3>3, Fifth
    <3>5. Elapsed(lastSent)' = age' /\ age' = age + 1
      BY <1>0, <3>1, <3>4, StampAges DEF Fresh
    <3>6. Fresh(LoopPeriod + Tenth + call.waited)'
      BY <2>2, <3>3, <3>5, Zenon DEF Fresh
    <3>7. ~expired'
      BY <1>0, <3>1, <3>3, Unexpired
    <3>. QED
      BY <3>6, <3>7
  <2>. QED
    BY <1>1, <1>4, <2>3, <2>4 DEF SessionInv, Answered
<1>5. CASE call.phase = "idle"
  <2>0. call = Idle
    BY <1>5 DEF Programmed, ProgramInv
  <2>1. BusInv'
    BY <1>1, <1>5 DEF BusInv, Answered
  <2>2. ASSUME ~Runs("blink"), at # "halt", ready
        PROVE  ~expired' /\ Fresh(loop)' /\ Fresh(LoopPeriod + Rest)'
    <3>1. /\ ~expired /\ Fresh(loop) /\ Fresh(LoopPeriod + Rest) /\ watchdog = Monitoring
      BY <1>0, <1>5, <2>0, <2>2 DEF SessionInv, MonitorInv, Idle
    <3>2. /\ Rest \in Nat /\ Rest <= Tenth
          /\ timer # 0 => Rested /\ timer <= Tenth
          /\ Rested => Rest = Tenth - timer
          /\ ~Rested => Rest = 0
      BY <2>2, RestRange
    <3>3. loop' = Later(loop)
      BY <1>0, <2>0 DEF TimeEffect
\* What is left after the millisecond, in or out of the delay().
    <3>4. PICK rest \in Nat : /\ rest = Rest' /\ (timer # 0 => rest = Rest + 1)
                              /\ (timer = 0 => rest = Rest)
      <4>1. timer' = IF timer > 0 THEN timer - 1 ELSE 0
        BY <1>0 DEF TimeEffect
      <4>2. timer # 0 => timer' = timer - 1
        BY <1>0, <4>1
      <4>3. timer = 0 => timer' = 0
        BY <4>1
      <4>4. Rest' = IF Rested THEN Tenth - timer' ELSE 0
        BY <1>1, Zenon DEF Rest
      <4>5. CASE timer # 0
        <5>1. Rest' = Tenth - (timer - 1)
          BY <3>2, <4>2, <4>4, <4>5
        <5>2. Tenth - (timer - 1) = Rest + 1 /\ Rest + 1 \in Nat
          BY <1>0, <3>2, <4>5, Fifth
        <5>. QED
          BY <4>5, <5>1, <5>2
      <4>6. CASE timer = 0
        <5>1. Rest' = IF Rested THEN Tenth - 0 ELSE 0
          BY <4>3, <4>4, <4>6
        <5>2. Rest' = Rest
          BY <3>2, <4>6, <5>1, Fifth
        <5>. QED
          BY <3>2, <4>6, <5>2
      <4>. QED
        BY <4>5, <4>6
    <3>5. /\ age + 1 < Monitoring /\ Later(age) = age + 1
          /\ age + 1 <= LoopPeriod + rest + ReplyDelay
             \/ age + 1 < LoopPeriod + rest + Monitoring \div 5
      <4>1. CASE timer # 0
        <5>1. /\ LoopPeriod + Rest \in Nat /\ LoopPeriod + Rest < LoopPeriod + Tenth + Latency
              /\ LoopPeriod + rest \in Nat /\ LoopPeriod + Rest + 1 <= LoopPeriod + rest
          BY <1>0, <3>2, <3>4, <4>1, SketchFacts, TimingAssumption, Fifth
        <5>2. /\ age + 1 < Monitoring /\ Later(age) = age + 1
              /\ \A e \in Nat : LoopPeriod + Rest + 1 <= e =>
                   age + 1 <= e + ReplyDelay \/ age + 1 < e + Monitoring \div 5
          BY <1>0, <3>1, <5>1, FreshAlive
        <5>. QED
          BY <5>1, <5>2, Zenon
      <4>2. CASE timer = 0
        <5>1. /\ loop < LoopPeriod /\ loop < LoopPeriod + Tenth + Latency
              /\ LoopPeriod + rest \in Nat /\ loop + 1 <= LoopPeriod + rest
          BY <1>0, <1>2, <1>5, <2>2, <4>2, Fifth
        <5>2. /\ age + 1 < Monitoring /\ Later(age) = age + 1
              /\ \A e \in Nat : loop + 1 <= e =>
                   age + 1 <= e + ReplyDelay \/ age + 1 < e + Monitoring \div 5
          BY <1>0, <3>1, <5>1, FreshAlive
        <5>. QED
          BY <5>1, <5>2, Zenon
      <4>. QED
        BY <4>1, <4>2
    <3>6. Elapsed(lastSent)' = age' /\ age' = age + 1
      <4>1. age + 1 < ClockSize
        BY <1>0, <3>5, Fifth
      <4>. QED
        BY <1>0, <3>1, <4>1, StampAges DEF Fresh
    <3>7. Fresh(LoopPeriod + Rest)'
      BY <3>4, <3>5, <3>6, Zenon DEF Fresh
    <3>8. age + 1 <= Later(loop) + ReplyDelay \/ age + 1 < Later(loop) + Monitoring \div 5
      <4>. DEFINE fifth == Monitoring \div 5
      <4>1. fifth \in Nat /\ (age <= loop + ReplyDelay \/ age < loop + fifth)
        BY <3>1, Fifth DEF Fresh
      <4>. HIDE DEF fifth
      <4>2. CASE loop < ClockSize
        BY <1>0, <4>1, <4>2, Fifth DEF Later, fifth
      <4>3. CASE ~(loop < ClockSize)
        <5>1. Later(loop) = ClockSize /\ age + 1 <= ClockSize
          BY <1>0, <3>5, <4>3, Fifth DEF Later
        <5>. QED
          BY <1>0, <5>1, Fifth
      <4>. QED
        BY <4>2, <4>3
    <3>9. Fresh(loop)'
      BY <3>3, <3>6, <3>8, Zenon DEF Fresh
    <3>10. ~expired'
      BY <1>0, <3>1, <3>5, Unexpired
    <3>. QED
      BY <3>7, <3>9, <3>10
  <2>. QED
    BY <1>1, <1>5, <2>1, <2>2 DEF SessionInv, Answered
<1>6. CASE call.phase = "waiting"
  <2>1. ASSUME Answered
        PROVE  /\ age' <= ReplyDelay /\ Elapsed(lastSent)' = age'
               /\ age' = age + 1 /\ age + 1 <= ReplyDelay /\ ReplyDelay < Monitoring
    <3>1. age < ReplyDelay /\ Elapsed(lastSent) = age
      BY <1>0, <1>2, <2>1 DEF BusInv
    <3>2. ReplyDelay < Monitoring /\ age + 1 < ClockSize
      BY <1>0, <3>1, Fifth
    <3>3. Elapsed(lastSent)' = age + 1 /\ age' = age + 1
      BY <1>0, <3>1, <3>2, StampAges
    <3>. QED
      BY <1>0, <3>1, <3>2, <3>3, Fifth
  <2>2. BusInv'
    BY <1>1, <1>6, <2>1 DEF BusInv
  <2>3. ASSUME ~Runs("blink"), at # "halt", ready, Answered PROVE ~expired'
    <3>1. ~expired /\ watchdog \in {0, Monitoring}
      <4>1. CASE call.begin
        <5>1. call.command = "SET_HEARTBEAT_CONFIG"
          BY <1>6, <2>3, <4>1, InProgress DEF Begins
        <5>. QED
          BY <1>0, <1>6, <2>3, <4>1, <5>1 DEF SessionInv, MonitorInv
      <4>2. CASE ~call.begin
        BY <1>0, <2>3, <4>2 DEF SessionInv, MonitorInv
      <4>. QED
        BY <4>1, <4>2
    <3>2. Later(age) = age + 1 /\ age + 1 < Monitoring
      BY <1>0, <2>1, <2>3, Fifth DEF TimeEffect
    <3>. QED
      BY <1>0, <3>1, <3>2, Unexpired
  <2>. QED
    BY <1>1, <1>6, <2>2, <2>3 DEF SessionInv
<1>7. call.phase \in {"idle", "sending", "waiting"}
  BY <1>0 DEF SketchTyped, CallTyped
<1>. QED
  BY <1>4, <1>5, <1>6, <1>7

\* Every step keeps the session fed.
LEMMA FreshNext ==
  Programmed /\ Programmed' /\ FreshInv /\ [SketchNext]_sketchVars => FreshInv'
<1>. SUFFICES ASSUME FreshInv, UNCHANGED sketchVars PROVE FreshInv'
  BY MonitorProgram, MonitorProgress, MonitorTime, FreshProgram, FreshProgress, FreshTime
     DEF SketchNext, FreshInv
<1>. QED
  BY DEF sketchVars, vars, client, controller, clocks, program, FreshInv, MonitorInv, BusInv,
     SessionInv, Answered, Fresh, Elapsed, Rest, Rested, Todo, Runs

Kept == Programmed /\ FreshInv

\* The invariant of all the sketches.
LEMMA KeptInvariant == SketchSpec => []Kept
<1>1. SketchInit => Kept
  BY SketchTypedInit, ProgramInit, FreshInit DEF Kept, Programmed
<1>2. Kept /\ [SketchNext]_sketchVars => Kept'
  BY ProgrammedNext, FreshNext DEF Kept
<1>. QED
  BY <1>1, <1>2, PTL DEF SketchSpec

\* Set-up and loop of every sketch but blink-command keep the session they believe in:
\* when the next call is due the controller's watchdog has not expired, whatever was
\* refused or lost, and after the delay() of position-control too.
THEOREM SketchKeepsSession == SketchSpec => []LoopKeepsSession
<1>1. Kept => LoopKeepsSession
  BY DEF Kept, FreshInv, SessionInv, LoopKeepsSession, SessionHeld, Idle
<1>. QED
  BY <1>1, KeptInvariant, PTL

----------------------------------------------------------------------------
(* position-control: how long the motion lasts *)

\* A motor runs in the session that begin() made and the controller keeps, and not
\* before the last step of set-up.
MotorInv ==
  /\ ~motor => ran = 0
  /\ motor => Moves /\ watchdog = Monitoring /\ ~expired
  /\ motor /\ at = "setup" => called /\ Todo \in Starts

Offset == Max({ReplyDelay, LoopPeriod})
Since == Elapsed(stamp)
Reached == RunTime - 1 + LoopPeriod
AskedBy == Reached + Latency + ReplyDelay

\* The set-up has started the motion and is about to return.
Starting ==
  /\ at = "setup" /\ called /\ Todo \in Starts /\ call.phase # "sending"
  /\ call.phase = "waiting" => call.answer \in {"ACK", "NONE"}
  /\ Answered => ran <= age /\ ran <= loop
  /\ call.phase = "idle" => ok /\ ran <= Offset /\ ran <= loop

\* The loop has not found RunTime to be over, or finds it with this poll.
Looping ==
  /\ at = "loop" /\ flag
  /\ ran <= Offset + Since /\ Since <= RunTime - 1 + loop /\ Since <= Reached

Polling ==
  /\ at = "polled" /\ flag
  /\ call.phase = "waiting" => call.answer \in {"ACK", "NONE"}
  /\ call.phase = "sending" \/ Answered => loop = 0
  /\ call.phase = "idle" => ok /\ loop <= LoopPeriod
  /\ call.phase # "waiting" \/ Answered => ran <= Offset + Since
  /\ call.phase = "sending" => Since <= Reached + call.waited
  /\ Answered => Since <= Reached + Latency + age
  /\ call.phase = "idle" => Since <= AskedBy + loop

\* It has, and stops the motion.
Stopping ==
  /\ at = "work" /\ flag
  /\ ~called => loop <= LoopPeriod /\ ran <= Offset + AskedBy + loop
  /\ called => call.phase # "idle"
  /\ call.phase = "sending" => ran <= Offset + AskedBy + LoopPeriod + call.waited
  /\ call.phase = "waiting" => call.answer = "NONE"

Moving == Starting \/ Looping \/ Polling \/ Stopping

\* Until the controller refuses something, the motion ends with the sketch's stop, or
\* the watchdog counts from the last frame the controller got.
MotionInv ==
  motor /\ ~refused => ran <= age + LastFrame /\ (ready => Moving)

MovedInv == MotorInv /\ MotionInv

\* The bounds are constants.
LEMMA MotionConstants ==
  /\ Offset' = Offset /\ Reached' = Reached /\ AskedBy' = AskedBy /\ LastFrame' = LastFrame
  /\ Offset \in Nat /\ ReplyDelay <= Offset /\ LoopPeriod <= Offset
  /\ Reached = RunTime - 1 + LoopPeriod /\ Reached \in Nat
  /\ AskedBy = Reached + Latency + ReplyDelay /\ AskedBy \in Nat
  /\ LastFrame = Offset + AskedBy + LoopPeriod + Latency /\ LastFrame \in Nat
  /\ LoopPeriod \in Nat /\ Latency \in Nat /\ ReplyDelay \in Nat /\ RunTime \in Nat \ {0}
<1>1. /\ LoopPeriod \in Nat /\ Latency \in Nat /\ ReplyDelay \in Nat /\ RunTime \in Nat \ {0}
      /\ Offset \in Nat /\ ReplyDelay <= Offset /\ LoopPeriod <= Offset
  BY BoundFacts, ClockFacts, SketchFacts DEF Offset
<1>2. /\ Offset' = Offset /\ Reached' = Reached /\ AskedBy' = AskedBy /\ LastFrame' = LastFrame
  BY Zenon DEF Offset, Reached, AskedBy, LastFrame
<1>3. LastFrame = Offset + (RunTime - 1) + LoopPeriod + Latency + ReplyDelay + LoopPeriod + Latency
  BY DEF LastFrame, Offset
<1>. QED
  BY <1>1, <1>2, <1>3 DEF Reached, AskedBy

\* How long ago the motion was started, as the sketch measures it.
LEMMA SinceType == SketchTyped => Since \in Nat
<1>. SUFFICES ASSUME SketchTyped PROVE Since \in Nat
  OBVIOUS
<1>1. now \in Millis /\ stamp \in Millis
  BY DEF SketchTyped
<1>. QED
  BY <1>1, ElapsedValue, ClockFacts DEF Since, Elapsed, Millis

\* The motor rests at the start.
LEMMA MovedInit == SketchInit => MovedInv
BY DEF SketchInit, MovedInv, MotorInv, MotionInv

\* The sketch changes nothing in the controller by itself, and acts between calls.
LEMMA ProgramKeeps ==
  Programmed /\ Program =>
    /\ UNCHANGED <<device, sketch, watchdog, expired, age, now, lastSent>>
    /\ call = Idle
<1>. SUFFICES ASSUME Programmed, Program
              PROVE  /\ UNCHANGED <<device, sketch, watchdog, expired, age, now, lastSent>>
                     /\ call = Idle
  OBVIOUS
<1>0. SketchTyped /\ ProgramTyped /\ ProgramInv
  BY DEF Programmed, ProgramInv
<1>1. PollEffect => UNCHANGED <<watchdog, expired, age, now, lastSent>> /\ call = Idle
  BY DEF PollEffect, link
<1>2. ASSUME NEW s, IssueEffect(s)
      PROVE  /\ UNCHANGED <<device, sketch, watchdog, expired, age, now, lastSent>>
             /\ call = Idle
  BY <1>1, <1>2 DEF IssueEffect, DoEffect, BeginEffect, SkipEffect, CallEffect, link
<1>3. CASE SetupStep \/ WorkStep
  BY <1>0, <1>2, <1>3, SetupIssues, WorkIssues
<1>4. CASE LoopPolls
  BY <1>1, <1>4, PollKinds DEF LoopPolls
<1>5. CASE Decision
  <2>1. UNCHANGED <<device, sketch, watchdog, expired, age, now, lastSent>>
    BY <1>5, DecisionKinds DEF link
  <2>2. at = "pause" => call = Idle
    BY <1>0, InProgress DEF ProgramInv
  <2>. QED
    BY <1>5, <2>1, <2>2 DEF Decision, SetupSucceeds, SetupFails, PollFailed, NothingDue, WorkDue,
       ToggleReturned, PauseEnds, StopReturned, ReadReturned, Returned
<1>. QED
  BY <1>3, <1>4, <1>5 DEF Program, Decision

\* The sketch itself moves no motor.
LEMMA MotorProgram == Programmed /\ MotorInv /\ Program => MotorInv'
<1>. SUFFICES ASSUME Programmed, MotorInv, Program PROVE MotorInv'
  OBVIOUS
<1>0. /\ SketchTyped /\ ProgramTyped
      /\ UNCHANGED <<device, sketch, watchdog, expired, age, now, lastSent>>
  BY ProgramKeeps DEF Programmed, ProgramInv
<1>1. motor' /\ at' = "setup" => called' /\ Todo' \in Starts
  <2>1. CASE SetupStep
    BY <1>0, <2>1 DEF SetupStep, Issue, MotorInv, Todo, device
  <2>2. CASE SetupSucceeds
    <3>1. ASSUME motor', at' = "setup" PROVE FALSE
      <4>1. step < Len(Setup[sketch]) /\ at = "setup" /\ motor
        BY <1>0, <2>2, <3>1 DEF SetupSucceeds, device
      <4>2. step = Len(Setup[sketch])
        BY <1>0, <4>1, TodoFacts DEF MotorInv
      <4>. QED
        BY <1>0, <4>1, <4>2 DEF ProgramTyped
    <3>. QED
      BY <3>1
  <2>3. CASE ~SetupStep /\ ~SetupSucceeds
    BY <2>3 DEF Program, SetupFails, SetupFailed, LoopPolls, PollFailed, NothingDue, WorkDue,
       WorkStep, Issue, ToggleReturned, PauseEnds, StopReturned, ReadReturned
  <2>. QED
    BY <2>1, <2>2, <2>3
<1>. QED
  BY <1>0, <1>1 DEF MotorInv, Moves, device

\* Each phase of a motion starts with the time that the one before it left.
LEMMA MotionProgram == Programmed /\ MovedInv /\ Program => MotionInv'
<1>. SUFFICES ASSUME Programmed, MovedInv, Program, motor', ~refused'
              PROVE  ran' <= age' + LastFrame' /\ (ready' => Moving')
  BY DEF MotionInv
<1>0. /\ SketchTyped /\ ProgramTyped /\ ProgramInv /\ MotorInv /\ MotionInv
      /\ UNCHANGED <<motor, refused, ran, sketch, age, now>>
      /\ call = Idle /\ call.phase = "idle" /\ motor /\ ~refused /\ Moves
  <2>1. UNCHANGED <<device, sketch, age, now>> /\ call = Idle
    BY ProgramKeeps
  <2>. QED
    BY <2>1 DEF Programmed, ProgramInv, MovedInv, MotorInv, device, Idle
<1>1. ran' <= age' + LastFrame'
  BY <1>0, MotionConstants DEF MotionInv
<1>2. SUFFICES ASSUME ready' PROVE Moving'
  BY <1>1
<1>3. loop \in Nat /\ ran \in Nat /\ Since \in Nat /\ loop' \in Nat
  BY <1>0, SinceType, ClockFacts, SketchTypedProgram DEF SketchTyped, Stopwatch
<1>4. UNCHANGED stamp => Since' = Since
  BY <1>0 DEF Since, Elapsed
<1>5. Decision =>
        /\ ready /\ Moving /\ call' = Idle /\ call'.phase = "idle"
        /\ UNCHANGED <<loop, ok>>
  BY <1>0, <1>2, DecisionKinds DEF link, MotionInv
<1>6. CASE SetupStep
  BY <1>0, <1>6 DEF SetupStep, Issue, MotorInv
<1>7. CASE SetupSucceeds \/ SetupFails
  <2>1. /\ at = "setup" /\ called /\ Todo \in Starts
        /\ Starting /\ ok /\ ran <= Offset
    <3>1. at = "setup" /\ Moving
      BY <1>5, <1>7 DEF Decision, SetupSucceeds, SetupFails
    <3>2. Starting
      BY <3>1 DEF Moving, Looping, Polling, Stopping
    <3>. QED
      BY <1>0, <3>1, <3>2 DEF Starting
  <2>2. step = Len(Setup[sketch])
    BY <1>0, <2>1, TodoFacts
  <2>3. SetupSucceeds
    <3>1. Todo \notin {"VERSION", "DELAY"}
      BY <2>1 DEF Starts
    <3>2. Outcomes(Todo) = {ok}
      BY <3>1, Zenon DEF Outcomes
    <3>3. FALSE \notin Outcomes(Setup[sketch][step])
      BY <2>1, <3>2 DEF Todo
    <3>. QED
      BY <1>7, <3>3 DEF SetupFails
  <2>4. at' = "loop" /\ flag' /\ stamp' = now
    <3>1. ~(step < Len(Setup[sketch]))
      BY <1>0, <2>1, <2>2, TodoFacts
    <3>. QED
      BY <1>0, <2>3, <3>1 DEF SetupSucceeds
  <2>5. Since' = 0
    <3>1. Since' = Elapsed(now)
      BY <1>0, <2>4 DEF Since, Elapsed
    <3>2. now \in Millis
      BY <1>0 DEF SketchTyped
    <3>. QED
      BY <3>1, <3>2, ElapsedOfNow
  <2>6. Looping'
    <3>0. ran' = ran /\ ran <= Offset
      BY <1>0, <2>1
    <3>1. 0 <= RunTime - 1 + loop' /\ 0 <= Reached
      <4>1. (\A l \in Nat : 0 <= RunTime - 1 + l) /\ 0 <= Reached
        BY MotionConstants
      <4>. QED
        BY <1>3, <4>1, Zenon
    <3>2. ran' <= Offset + 0
      BY <1>3, <3>0, MotionConstants
    <3>. QED
      BY <2>4, <2>5, <3>1, <3>2, MotionConstants, Zenon DEF Looping
  <2>. QED
    BY <2>6 DEF Moving
<1>8. CASE LoopPolls
  <2>1. /\ PollEffect /\ at = "loop" /\ at' = "polled" /\ UNCHANGED <<flag, stamp>>
    BY <1>8, PollKinds DEF LoopPolls
  <2>2. Looping
    BY <1>0, <1>2, <2>1 DEF MotionInv, Moving, Starting, Polling, Stopping, PollEffect, link
  <2>3. flag' /\ ran' <= Offset + Since' /\ Since' <= Reached /\ loop' = 0
    BY <1>0, <1>4, <2>1, <2>2 DEF Looping, PollEffect
  <2>4. Since' \in Nat
    BY <1>3, <1>4, <2>1
  <2>5. ASSUME NEW command, call' = Started(command, NoStream, 0, FALSE) PROVE Polling'
    <3>1. call'.phase = "sending" /\ call'.waited = 0
      BY <2>5, StartedTyped
    <3>. QED
      BY <1>0, <2>1, <2>3, <2>4, <3>1, MotionConstants DEF Polling, Answered
  <2>6. ASSUME call' = Idle, ok' PROVE Polling'
    <3>1. call'.phase = "idle"
      BY <2>6, IdleTyped
    <3>. QED
      BY <1>0, <2>1, <2>3, <2>4, <2>6, <3>1, MotionConstants DEF Polling, Answered
  <2>7. Polling'
    <3>1. \/ \E command \in Polls : call' = Started(command, NoStream, 0, FALSE)
          \/ call' = Idle /\ ok' = TRUE
      BY <1>2, <2>1 DEF PollEffect, link
    <3>. QED
      BY <2>5, <2>6, <3>1, Zenon
  <2>. QED
    BY <2>7 DEF Moving
<1>9. CASE PollFailed \/ NothingDue \/ WorkDue
  <2>1. at = "polled" /\ Moving /\ call'.phase = "idle" /\ UNCHANGED <<loop, ok, called>>
    BY <1>5, <1>9 DEF Decision, PollFailed, NothingDue, WorkDue
  <2>2. /\ flag /\ ok /\ loop <= LoopPeriod
        /\ ran <= Offset + Since /\ Since <= AskedBy + loop
    BY <1>0, <2>1 DEF Moving, Starting, Looping, Polling, Stopping
  <2>3. UNCHANGED <<stamp, flag>> /\ Since' = Since
    BY <1>0, <1>4, <1>9, <2>2 DEF PollFailed, NothingDue, WorkDue
  <2>4. CASE NothingDue
    <3>1. ~(Since >= RunTime)
      <4>1. Work[sketch] # <<>>
        <5>1. /\ sketch = "motor" => Work[sketch] = <<"DELETE_MOTOR_CONTROLLER">>
              /\ sketch = "platform" => Work[sketch] = <<"STOP_PLATFORM_CONTROLLER">>
          BY <1>0, WorkFacts DEF SketchTyped
        <5>2. \A command : <<command>> # <<>>
          OBVIOUS
        <5>. QED
          BY <1>0, <5>1, <5>2, Zenon DEF Moves
      <4>. QED
        BY <1>0, <2>2, <2>4, <4>1, Zenon DEF NothingDue, Due, Since
    <3>2. Since <= RunTime - 1
      BY <1>3, <3>1, MotionConstants
    <3>3. at' = "loop"
      BY <2>4 DEF NothingDue
    <3>4. Looping'
      BY <1>0, <1>3, <2>1, <2>2, <2>3, <3>2, <3>3, MotionConstants DEF Looping
    <3>. QED
      BY <3>4 DEF Moving
  <2>5. CASE WorkDue
    <3>1. at' = "work" /\ ~called
      BY <1>0, <2>1, <2>5 DEF WorkDue, ProgramInv
    <3>2. Stopping'
      BY <1>0, <1>3, <2>1, <2>2, <2>3, <3>1, MotionConstants DEF Stopping
    <3>. QED
      BY <3>2 DEF Moving
  <2>6. ~PollFailed
    BY <2>2 DEF PollFailed
  <2>. QED
    BY <1>9, <2>4, <2>5, <2>6
<1>10. CASE WorkStep
  <2>1. /\ at = "work" /\ IssueEffect(Work[sketch][step]) /\ Work[sketch][step] \in Stops
    BY <1>0, <1>10, WorkIssues, WorkSteps DEF WorkStep, SketchTyped, ProgramTyped, Moves
  <2>2. CallEffect(Work[sketch][step]) /\ ~called /\ called' /\ UNCHANGED <<at, flag>>
    BY <2>1 DEF IssueEffect, DoEffect, Stops
  <2>3. call'.phase = "sending" /\ call'.waited = 0
    BY <2>2, StartedTyped DEF CallEffect
  <2>4. Stopping
    BY <1>0, <2>1, <2>2 DEF MotionInv, Moving, Starting, Looping, Polling, CallEffect
  <2>5. flag /\ loop <= LoopPeriod /\ ran <= Offset + AskedBy + loop
    BY <2>2, <2>4 DEF Stopping
  <2>6. Stopping'
    BY <1>0, <1>3, <2>1, <2>2, <2>3, <2>5, MotionConstants DEF Stopping
  <2>. QED
    BY <2>6 DEF Moving
<1>11. CASE StopReturned
  <2>1. at = "work" /\ called /\ Moving
    BY <1>5, <1>11 DEF Decision, StopReturned, Returned
  <2>. QED
    BY <1>0, <2>1 DEF Moving, Starting, Looping, Polling, Stopping
<1>12. CASE ToggleReturned \/ PauseEnds \/ ReadReturned
  BY <1>0, <1>12 DEF ToggleReturned, PauseEnds, ReadReturned, Runs, Moves, ProgramInv, Delayed
<1>. QED
  BY <1>6, <1>7, <1>8, <1>9, <1>10, <1>11, <1>12 DEF Program

\* What a frame does to the motor.
LEMMA MotorAffected ==
  ASSUME SketchTyped, NEW answer, AffectEffect(answer)
  PROVE  /\ motor' => ran' = ran
         /\ ~motor' => ran' = 0
         /\ motor' /\ ~motor =>
              /\ call.command \in Starts
              /\ answer \notin {"ERROR", "INIT_REQUIRED"}
              /\ expired => answer = "ACK"
         /\ motor /\ answer = "ACK" /\ call.command \in Stops => ~motor'
         /\ motor /\ answer = "ERROR" => refused'
         /\ refused => refused'
<1>1. PICK done \in BOOLEAN :
        /\ answer = "ACK" => done
        /\ answer \in {"ERROR", "INIT_REQUIRED"} \/ (expired /\ answer # "ACK") => ~done
        /\ motor' = IF ~done THEN motor
                    ELSE call.command \in Starts \/ (motor /\ call.command \notin Stops)
        /\ refused' = (refused \/ (answer = "ERROR" /\ motor))
        /\ ran' = IF motor' THEN ran ELSE 0
  BY Zenon DEF AffectEffect
<1>2. (motor' => ran' = ran) /\ (~motor' => ran' = 0)
  BY <1>1, Zenon
<1>3. motor' /\ ~motor => done /\ call.command \in Starts
  BY <1>1, Zenon
<1>4. \A command \in Stops : command \notin Starts
  BY DEF Starts, Stops
<1>5. motor /\ answer = "ACK" /\ call.command \in Stops => ~motor'
  BY <1>1, <1>4, Zenon
<1>6. (motor /\ answer = "ERROR" => refused') /\ (refused => refused')
  BY <1>1, Zenon
<1>7. done => answer \notin {"ERROR", "INIT_REQUIRED"} /\ (expired => answer = "ACK")
  BY <1>1, Zenon
<1>. QED
  BY <1>2, <1>3, <1>5, <1>6, <1>7, Zenon

\* The calls of position-control while a motor runs or is to be started.
LEMMA MotorCalls ==
  ASSUME Programmed, MotorInv, call.phase # "idle", motor \/ call.command \in Starts
  PROVE  /\ call.command \notin Begins /\ ~call.begin /\ ready /\ Moves
         /\ at = "setup" => called /\ Todo \in Starts /\ call.command \in Starts
         /\ at = "polled" => call.command \in Polls
         /\ at = "work" => called /\ call.command \in Stops
         /\ call.command \in Starts => at = "setup"
         /\ at \in {"setup", "polled", "work"}
<1>1. /\ SketchTyped /\ ProgramTyped /\ Requested /\ (ready <=> call.command # "INIT")
      /\ call.begin <=> call.command \in Begins
      /\ call.begin => at = "setup"
      /\ at \in {"setup", "polled", "work"}
  BY InProgress DEF Programmed, ProgramInv
<1>2. /\ \A command \in Starts : command \notin Begins \cup Polls \cup Stops \cup {"BEGIN", "POLL"}
      /\ "INIT" \in Begins
  BY DEF Starts, Begins, Polls, Stops
<1>3. CASE at = "setup"
  <2>1. call.command \in Starts => Todo \in Starts /\ called
    BY <1>1, <1>2, <1>3 DEF Requested
  <2>2. called /\ Todo \in Starts
    BY <1>3, <2>1 DEF MotorInv
  <2>3. step # 1 /\ Moves
    BY <1>1, <1>2, <1>3, <2>2, TodoFacts
  <2>4. ~call.begin /\ call.command = Todo
    BY <1>1, <1>2, <1>3, <2>2, <2>3 DEF Requested
  <2>. QED
    BY <1>1, <1>2, <1>3, <2>2, <2>3, <2>4
<1>4. CASE at = "polled"
  <2>1. ~call.begin /\ call.command \in Polls
    BY <1>1, <1>4 DEF Requested
  <2>2. call.command \notin Starts /\ motor
    BY <1>2, <2>1
  <2>. QED
    BY <1>1, <1>2, <1>4, <2>1, <2>2 DEF MotorInv
<1>5. CASE at = "work"
  <2>1. called /\ ~call.begin /\ call.command = Work[sketch][step]
    BY <1>1, <1>5 DEF Requested
  <2>2. call.command \notin Starts
    BY <1>1, <1>5, <2>1, WorkSteps DEF Starts, Stops, SketchTyped, ProgramTyped
  <2>3. Moves
    BY <2>2 DEF MotorInv
  <2>4. call.command \in Stops
    BY <1>1, <1>5, <2>1, <2>3, WorkSteps DEF SketchTyped, ProgramTyped, Moves
  <2>. QED
    BY <1>1, <1>2, <1>5, <2>1, <2>2, <2>3, <2>4
<1>. QED
  BY <1>1, <1>3, <1>4, <1>5

\* A motor starts and stops with an executed command.
LEMMA MotorProgress == Programmed /\ FreshInv /\ MotorInv /\ CallProgress => MotorInv'
<1>. SUFFICES ASSUME Programmed, FreshInv, MotorInv, CallProgress PROVE MotorInv'
  OBVIOUS
<1>0. /\ SketchTyped /\ MonitorInv /\ UNCHANGED program
      /\ Todo' = Todo /\ (Moves' <=> Moves)
  BY DEF Programmed, FreshInv, CallProgress, program, Todo, Moves
<1>1. CASE CallReturns
  BY <1>0, <1>1, ReturnKinds DEF ReturnEffect, device, program, MotorInv
<1>2. ASSUME NEW answer, AffectEffect(answer), call.phase = "sending",
             call.command \notin Begins => UNCHANGED <<watchdog, expired>>,
             expired /\ call.command # "INIT" => answer # "ACK"
      PROVE  MotorInv'
  <2>1. /\ ~motor' => ran' = 0
        /\ motor' /\ ~motor => call.command \in Starts /\ (expired => answer = "ACK")
    <3>1. SketchTyped /\ AffectEffect(answer)
      BY <1>0, <1>2
    <3>2. ~motor' => ran' = 0
      BY <3>1, MotorAffected
    <3>3. motor' /\ ~motor => call.command \in Starts
      BY <3>1, MotorAffected
    <3>4. motor' /\ ~motor => (expired => answer = "ACK")
      BY <3>1, MotorAffected
    <3>. QED
      BY <3>2, <3>3, <3>4, Zenon
  <2>2. ASSUME motor'
        PROVE  /\ Moves' /\ watchdog' = Monitoring /\ ~expired'
               /\ at' = "setup" => called' /\ Todo' \in Starts
    <3>1. /\ call.command \notin Begins /\ ~call.begin /\ ready /\ Moves
          /\ at = "setup" => called /\ Todo \in Starts
      BY <1>2, <2>1, <2>2, MotorCalls
    <3>2. call.command # "INIT" /\ watchdog = Monitoring
      BY <1>0, <3>1 DEF Begins, MonitorInv
    <3>3. ~expired
      BY <1>2, <2>1, <2>2, <3>2 DEF MotorInv
    <3>. QED
      BY <1>0, <1>2, <3>1, <3>2, <3>3 DEF program
  <2>. QED
    BY <2>1, <2>2 DEF MotorInv
<1>3. CASE CallTransmits
  BY <1>0, <1>2, <1>3, TransmitKinds DEF TransmitEffect
<1>4. CASE CallNotSent
  BY <1>0, <1>2, <1>4, NotSentKinds DEF NotSentEffect, Begins
<1>. QED
  BY <1>1, <1>3, <1>4 DEF CallProgress

\* On the bus a phase lasts as long as a frame and its answer.
LEMMA MotionProgress == Programmed /\ FreshInv /\ MovedInv /\ CallProgress => MotionInv'
<1>. SUFFICES ASSUME Programmed, FreshInv, MovedInv, CallProgress, motor', ~refused'
              PROVE  ran' <= age' + LastFrame' /\ (ready' => Moving')
  BY DEF MotionInv
<1>0. /\ SketchTyped /\ ProgramTyped /\ ProgramInv /\ MonitorInv /\ BusInv /\ MotorInv /\ MotionInv
      /\ UNCHANGED program /\ Todo' = Todo /\ call.phase # "idle"
      /\ ran \in Nat /\ age \in Nat /\ loop \in Nat /\ Since \in Nat
  <2>1. /\ SketchTyped /\ ProgramTyped /\ ProgramInv /\ MonitorInv /\ BusInv
        /\ MotorInv /\ MotionInv /\ UNCHANGED program /\ Todo' = Todo
    BY DEF Programmed, ProgramInv, FreshInv, MovedInv, CallProgress, program, Todo
  <2>2. call.phase # "idle"
    BY <2>1, TransmitKinds, NotSentKinds, ReturnKinds
       DEF CallProgress, TransmitEffect, NotSentEffect, ReturnEffect
  <2>3. ran \in Nat /\ age \in Nat /\ loop \in Nat /\ Since \in Nat
    BY <2>1, SinceType, ClockFacts DEF SketchTyped, Stopwatch
  <2>. QED
    BY <2>1, <2>2, <2>3
<1>1. now' = now => Since' = Since
  BY <1>0 DEF Since, Elapsed, program
<1>2. CASE CallTransmits
  <2>1. TransmitEffect /\ AffectEffect(call'.answer) /\ call.phase = "sending"
    BY <1>0, <1>2, TransmitKinds DEF TransmitEffect
  <2>2. /\ ran' = ran /\ ~refused /\ (motor => call'.answer # "ERROR")
        /\ motor /\ call.command \in Stops => call'.answer # "ACK"
        /\ ~motor => call.command \in Starts /\ call'.answer \notin {"ERROR", "INIT_REQUIRED"}
    <3>1. SketchTyped /\ AffectEffect(call'.answer) /\ motor' /\ ~refused'
      BY <1>0, <2>1
    <3>2. ran' = ran
      BY <3>1, MotorAffected
    <3>3. ~refused /\ (motor => call'.answer # "ERROR")
      BY <3>1, MotorAffected
    <3>4. motor /\ call.command \in Stops => call'.answer # "ACK"
      BY <3>1, MotorAffected
    <3>5. ~motor => call.command \in Starts /\ call'.answer \notin {"ERROR", "INIT_REQUIRED"}
      BY <3>1, MotorAffected
    <3>. QED
      BY <3>2, <3>3, <3>4, <3>5, Zenon
  <2>3. /\ ready /\ (at = "setup" => called /\ Todo \in Starts)
        /\ call.command \in Starts => at = "setup"
        /\ at = "work" => called /\ call.command \in Stops
    BY <1>0, <2>1, <2>2, MotorCalls
  <2>4. /\ age' = 0 /\ loop' = loop /\ Since' = Since /\ ready' = ready
        /\ call'.phase = "waiting" /\ call'.answer \in {"NONE", "ACK", "ERROR", "INIT_REQUIRED"}
        /\ call'.answer = "INIT_REQUIRED" => expired
        /\ UNCHANGED <<at, called, flag>>
    BY <1>0, <1>1, <2>1 DEF TransmitEffect, program, CallTyped
  <2>5. CASE ~motor
    <3>1. at = "setup" /\ called /\ Todo \in Starts /\ ran = 0
          /\ call'.answer \in {"ACK", "NONE"}
      BY <1>0, <2>2, <2>3, <2>4, <2>5 DEF MotorInv
    <3>2. Starting'
      BY <1>0, <2>2, <2>4, <3>1 DEF Starting
    <3>3. ran' <= age' + LastFrame'
      BY <2>2, <2>4, <3>1, MotionConstants
    <3>. QED
      BY <3>2, <3>3 DEF Moving
  <2>6. CASE motor
    <3>1. Moving /\ ~expired /\ call.waited <= Latency /\ call.waited \in Nat
      BY <1>0, <2>1, <2>2, <2>3, <2>6, ClockFacts
         DEF MotionInv, MotorInv, BusInv, SketchTyped, CallTyped, Stopwatch
    <3>2. call'.answer \in {"ACK", "NONE"}
      BY <2>2, <2>4, <2>6, <3>1
    <3>3. CASE Polling
      <4>1. /\ at = "polled" /\ flag /\ loop = 0 /\ ran <= Offset + Since
            /\ Since <= Reached + call.waited
        BY <2>1, <3>3 DEF Polling
      <4>2. ran <= LastFrame /\ Since <= Reached + Latency
        BY <1>0, <3>1, <4>1, MotionConstants
      <4>3. ran' <= age' + LastFrame'
        BY <1>0, <2>2, <2>4, <4>2, MotionConstants
      <4>4. Polling'
        BY <1>0, <2>2, <2>4, <3>2, <4>1, <4>2, MotionConstants DEF Polling, Answered
      <4>. QED
        BY <4>3, <4>4 DEF Moving
    <3>4. CASE Stopping
      <4>1. /\ at = "work" /\ flag /\ called
            /\ ran <= Offset + AskedBy + LoopPeriod + call.waited
        BY <2>1, <2>3, <3>4 DEF Stopping
      <4>2. ran <= LastFrame
        BY <1>0, <3>1, <4>1, MotionConstants
      <4>3. ran' <= age' + LastFrame'
        BY <1>0, <2>2, <2>4, <4>2, MotionConstants
      <4>4. call'.answer = "NONE"
        BY <2>2, <2>3, <2>6, <3>2, <4>1
      <4>5. Stopping'
        BY <2>4, <4>1, <4>4 DEF Stopping
      <4>. QED
        BY <4>3, <4>5 DEF Moving
    <3>5. ~Starting /\ ~Looping
      BY <1>0, <2>1, <2>3 DEF Starting, Looping, ProgramInv, Requested, Idle
    <3>. QED
      BY <3>1, <3>3, <3>4, <3>5 DEF Moving
  <2>. QED
    BY <2>5, <2>6
<1>3. CASE CallNotSent
  <2>1. NotSentEffect /\ AffectEffect("NONE") /\ call.phase = "sending"
    BY <1>0, <1>3, NotSentKinds DEF NotSentEffect
  <2>2. ran' = ran /\ ~refused /\ (~motor => call.command \in Starts)
    BY <1>0, <2>1, MotorAffected
  <2>3. ready /\ (at = "work" => called /\ call.command \in Stops)
    BY <1>0, <2>1, <2>2, MotorCalls
  <2>4. ran <= age + LastFrame
    BY <1>0, <2>2, MotionConstants DEF MotionInv, MotorInv
  <2>5. ran <= LastFrame
    <3>1. CASE ~motor
      BY <1>0, <3>1, MotionConstants DEF MotorInv
    <3>2. CASE motor
      <4>1. Moving /\ call.waited <= Latency /\ call.waited \in Nat
        BY <1>0, <2>1, <2>2, <2>3, <3>2, ClockFacts
           DEF MotionInv, BusInv, SketchTyped, CallTyped, Stopwatch
      <4>2. CASE Polling
        BY <1>0, <2>1, <4>1, <4>2, MotionConstants DEF Polling
      <4>3. CASE Stopping
        BY <1>0, <2>1, <2>3, <4>1, <4>3, MotionConstants DEF Stopping
      <4>4. ~Starting /\ ~Looping
        BY <1>0, <2>1 DEF Starting, Looping, ProgramInv, Requested, Idle
      <4>. QED
        BY <4>1, <4>2, <4>3, <4>4 DEF Moving
    <3>. QED
      BY <3>1, <3>2
  <2>6. age' \in {0, age} /\ ready' = FALSE
    BY <2>1 DEF NotSentEffect
  <2>7. ran <= age' + LastFrame
    <3>1. CASE age' = 0
      <4>1. 0 + LastFrame = LastFrame
        BY MotionConstants
      <4>. QED
        BY <2>5, <3>1, <4>1
    <3>2. CASE age' = age
      BY <2>4, <3>2
    <3>. QED
      BY <2>6, <3>1, <3>2
  <2>. QED
    BY <2>2, <2>6, <2>7, MotionConstants
<1>4. CASE CallReturns
  <2>1. /\ ReturnEffect /\ call.phase = "waiting" /\ motor /\ ~refused
        /\ UNCHANGED <<ran, age, loop, at, called, flag>> /\ Since' = Since
    <3>1. /\ ReturnEffect /\ call.phase = "waiting"
          /\ UNCHANGED <<motor, refused, ran, age, loop, now>>
      BY <1>4, ReturnKinds DEF ReturnEffect, device
    <3>2. motor /\ ~refused
      BY <3>1
    <3>3. UNCHANGED <<at, called, flag>> /\ Since' = Since
      BY <1>0, <1>1, <3>1 DEF program
    <3>. QED
      BY <3>1, <3>2, <3>3
  <2>2. ran' <= age' + LastFrame'
    BY <1>0, <2>1, MotionConstants DEF MotionInv
  <2>3. ASSUME ready' PROVE Moving'
    <3>1. /\ call.command \notin Begins /\ ready /\ Moving
      BY <1>0, <2>1, MotorCalls DEF MotionInv
    <3>2. call.answer \in {"ACK", "NONE"}
      BY <1>0, <2>1, <3>1
         DEF Moving, Starting, Looping, Polling, Stopping, ProgramInv, Requested, Idle
    <3>3. call.answer = "ACK" /\ call' = Idle /\ ok' = TRUE
      BY <2>1, <2>3, <3>1, <3>2, Zenon DEF ReturnEffect, LostEffect, Begins
    <3>4. ok' /\ call'.phase = "idle" /\ Answered /\ age <= ReplyDelay
      BY <1>0, <2>1, <3>3, IdleTyped DEF Answered, BusInv
    <3>5. CASE Starting
      <4>1. /\ at = "setup" /\ called /\ Todo \in Starts /\ ran <= age /\ ran <= loop
        BY <3>4, <3>5 DEF Starting
      <4>2. ran <= Offset
        BY <1>0, <3>4, <4>1, MotionConstants
      <4>3. Starting'
        BY <1>0, <2>1, <3>4, <4>1, <4>2, MotionConstants DEF Starting, Answered
      <4>. QED
        BY <4>3 DEF Moving
    <3>6. CASE Polling
      <4>1. /\ at = "polled" /\ flag /\ loop = 0 /\ ran <= Offset + Since
            /\ Since <= Reached + Latency + age
        BY <3>4, <3>6 DEF Polling
      <4>2. Since <= AskedBy + loop /\ loop <= LoopPeriod
        BY <1>0, <3>4, <4>1, MotionConstants
      <4>3. Polling'
        BY <1>0, <2>1, <3>4, <4>1, <4>2, MotionConstants DEF Polling, Answered
      <4>. QED
        BY <4>3 DEF Moving
    <3>7. ~Stopping /\ ~Looping
      BY <1>0, <2>1, <3>3 DEF Stopping, Looping, ProgramInv, Requested, Idle
    <3>. QED
      BY <3>1, <3>5, <3>6, <3>7 DEF Moving
  <2>. QED
    BY <2>2, <2>3
<1>. QED
  BY <1>2, <1>3, <1>4 DEF CallProgress

\* The watchdog stops a motor with the session.
LEMMA MotorTime == Programmed /\ MotorInv /\ TimePasses => MotorInv'
<1>. SUFFICES ASSUME Programmed, MotorInv, TimePasses PROVE MotorInv'
  OBVIOUS
<1>1. TimeEffect
  BY TimeKinds DEF Programmed
<1>2. motor' => motor /\ ~expired'
  BY <1>1, Zenon DEF TimeEffect
<1>. QED
  BY <1>1, <1>2 DEF TimeEffect, MotorInv, Moves, Todo

\* The sketch's stamp ages with the clock.
LEMMA SinceAges ==
  ASSUME SketchTyped, TimeEffect, Since + 1 < ClockSize
  PROVE  Since' = Since + 1
<1>1. now \in Millis /\ stamp \in Millis /\ now' = NextMillis /\ stamp' = stamp
  BY DEF SketchTyped, TimeEffect
<1>2. (now' - stamp) % ClockSize = Since + 1
  BY <1>1, ElapsedNext DEF Since
<1>. QED
  BY <1>1, <1>2 DEF Since, Elapsed

\* A motion is a millisecond longer, and so is the clock of its phase.
LEMMA MotionTime == Programmed /\ FreshInv /\ MovedInv /\ TimePasses => MotionInv'
<1>. SUFFICES ASSUME Programmed, FreshInv, MovedInv, TimePasses, motor', ~refused'
              PROVE  ran' <= age' + LastFrame' /\ (ready' => Moving')
  BY DEF MotionInv
<1>0. /\ SketchTyped /\ ProgramTyped /\ ProgramInv /\ MonitorInv /\ BusInv /\ MotorInv /\ MotionInv
      /\ TimeEffect
      /\ ran \in Nat /\ age \in Nat /\ loop \in Nat /\ Since \in Nat /\ ran' \in Nat
      /\ age <= ClockSize /\ loop <= ClockSize
  <2>1. /\ SketchTyped /\ ProgramTyped /\ ProgramInv /\ MonitorInv /\ BusInv
        /\ MotorInv /\ MotionInv
    BY DEF Programmed, ProgramInv, FreshInv, MovedInv
  <2>2. TimeEffect /\ Since \in Nat
    BY <2>1, TimeKinds, SinceType
  <2>3. ran' \in Nat
    BY <2>2 DEF TimeEffect
  <2>4. /\ ran \in Nat /\ age \in Nat /\ loop \in Nat /\ age <= ClockSize /\ loop <= ClockSize
    BY <2>1, ClockFacts DEF SketchTyped, Stopwatch
  <2>. QED
    BY <2>1, <2>2, <2>3, <2>4
<1>1. motor /\ ~refused /\ ~expired' /\ Moves /\ watchdog = Monitoring
  <2>1. motor /\ ~expired' /\ refused' = refused
    BY <1>0, Zenon DEF TimeEffect
  <2>. QED
    BY <1>0, <2>1 DEF MotorInv
<1>2. /\ ran' <= ran + 1 /\ call'.phase = call.phase /\ call'.answer = call.answer
      /\ UNCHANGED <<ready, ok, at, called, flag>> /\ Todo' = Todo
      /\ (Answered' <=> Answered)
  BY <1>0 DEF TimeEffect, Todo, Answered
<1>3. Later(age) < Monitoring /\ age' = Later(age)
  <2>1. ~(Later(age) >= watchdog)
    <3>1. Monitoring # 0
      BY SketchFacts
    <3>. QED
      BY <1>0, <1>1, <3>1, Zenon DEF TimeEffect
  <2>. QED
    BY <1>0, <1>1, <2>1, SketchFacts DEF TimeEffect, Later
<1>4. age' = age + 1 /\ age + 1 < ClockSize
  BY <1>0, <1>3, SketchFacts, ClockFacts DEF Later
<1>5. ran <= age + LastFrame /\ (ready => Moving)
  BY <1>0, <1>1 DEF MotionInv
<1>6. ran' <= age' + LastFrame'
  BY <1>0, <1>2, <1>4, <1>5, MotionConstants
<1>7. SUFFICES ASSUME ready' PROVE Moving'
  BY <1>6
<1>8. Moving /\ ready
  BY <1>2, <1>5, <1>7
\* What the millisecond does to the loop and the call.
<1>9. /\ call.phase = "sending" => call.waited < Latency
      /\ Answered => age < ReplyDelay
      /\ call.phase = "idle" => loop < LoopPeriod
  <2>1. timer = 0 /\ at # "halt"
    <3>1. ~Runs("blink")
      BY <1>1 DEF Runs, Moves
    <3>2. timer # 0 => at = "setup" /\ Todo = "DELAY"
      BY <3>1, RestRange
    <3>3. at # "halt" /\ ~(at = "setup" /\ Todo = "DELAY")
      BY <1>8 DEF Moving, Starting, Looping, Polling, Stopping, Starts
    <3>. QED
      BY <3>2, <3>3
  <2>2. SketchInTime
    BY <1>0 DEF TimeEffect
  <2>3. ~(timer > 0)
    BY <2>1
  <2>. QED
    BY <2>1, <2>2, <2>3, InTimeKinds
<1>10. LoopPeriod < ClockSize /\ Latency < ClockSize /\ AskedBy + LoopPeriod < ClockSize
  <2>1. LoopPeriod < ClockSize /\ Latency < ClockSize
    BY Fifth, ClockFacts, SketchFacts
  <2>2. AskedBy + LoopPeriod < ClockSize
    BY SketchFacts, ClockFacts DEF AskedBy, Reached
  <2>. QED
    BY <2>1, <2>2
<1>11. call.phase = "idle" => call = Idle /\ loop' = loop + 1
  <2>1. call.phase = "idle" => call = Idle
    BY <1>0 DEF ProgramInv
  <2>. QED
    BY <1>0, <1>9, <1>10, <2>1, ClockFacts DEF TimeEffect, Later
<1>12. call.phase = "sending" =>
         /\ call.waited \in Nat
         /\ call'.waited = call.waited + 1 /\ call.waited + 1 <= Latency
  <2>1. call.phase = "sending" => call # Idle
    BY DEF Idle
  <2>2. call.waited \in Nat
    BY <1>0, ClockFacts DEF SketchTyped, CallTyped, Stopwatch
  <2>. QED
    BY <1>0, <1>9, <1>10, <2>1, <2>2, ClockFacts DEF TimeEffect, Later
<1>13. Since + 1 < ClockSize => Since' = Since + 1
  BY <1>0, SinceAges
<1>14. call.phase # "idle" =>
         /\ call # Idle /\ ~call.begin
         /\ at = "setup" => call.command \in Starts
         /\ at = "polled" => call.command \in Polls
         /\ at # "loop"
         /\ at = "work" => called
  BY <1>0, <1>1, MotorCalls DEF Idle
<1>15. CASE Starting
  <2>1. at = "setup" /\ called /\ Todo \in Starts /\ call.phase # "sending"
    BY <1>15 DEF Starting
  <2>2. ASSUME Answered PROVE ran' <= age' /\ ran' <= loop'
    <3>1. ran <= age /\ ran <= loop /\ call.phase = "waiting"
      BY <1>15, <2>2 DEF Starting, Answered
    <3>2. loop' = Later(loop)
      BY <1>0, <1>14, <2>1, <3>1 DEF TimeEffect, InLoop, Starts
    <3>3. ran + 1 <= Later(loop)
      BY <1>0, <1>4, <3>1, ClockFacts DEF Later
    <3>4. Later(loop) \in Nat
      BY <1>0, ClockFacts DEF Later
    <3>. QED
      BY <1>0, <1>2, <1>4, <3>1, <3>2, <3>3, <3>4
  <2>3. ASSUME call.phase = "idle" PROVE ok' /\ ran' <= Offset /\ ran' <= loop'
    <3>1. ok /\ ran <= loop
      BY <1>15, <2>3 DEF Starting
    <3>. QED
      BY <1>0, <1>2, <1>9, <1>11, <2>3, <3>1, MotionConstants
  <2>4. Starting'
    BY <1>2, <1>15, <2>1, <2>2, <2>3, MotionConstants DEF Starting
  <2>. QED
    BY <2>4 DEF Moving
<1>16. CASE Looping
  <2>1. /\ at = "loop" /\ flag
        /\ ran <= Offset + Since /\ Since <= RunTime - 1 + loop
    BY <1>16 DEF Looping
  <2>2. call.phase = "idle"
    BY <1>14, <2>1
  <2>3. loop < LoopPeriod /\ loop' = loop + 1
    BY <1>9, <1>11, <2>2
  <2>4. Since + 1 <= Reached /\ Since + 1 < ClockSize /\ Since + 1 <= RunTime - 1 + (loop + 1)
    BY <1>0, <1>10, <2>1, <2>3, ClockFacts, MotionConstants
  <2>5. Since' = Since + 1
    BY <1>13, <2>4
  <2>6. ran' <= Offset + (Since + 1)
    BY <1>0, <1>2, <2>1, MotionConstants
  <2>7. Looping'
    BY <1>2, <2>1, <2>3, <2>4, <2>5, <2>6, MotionConstants, Zenon DEF Looping
  <2>. QED
    BY <2>7 DEF Moving
<1>17. CASE Polling
  <2>1. at = "polled" /\ flag /\ (call.phase = "waiting" => call.answer \in {"ACK", "NONE"})
    BY <1>17 DEF Polling
  <2>2. ASSUME call.phase = "sending" \/ Answered PROVE loop' = 0
    <3>1. loop = 0 /\ call.phase # "idle"
      BY <1>17, <2>2 DEF Polling, Answered
    <3>2. loop' = loop
      BY <1>0, <1>14, <2>1, <3>1 DEF TimeEffect, InLoop, Polls
    <3>. QED
      BY <3>1, <3>2
  <2>3. ASSUME call.phase # "waiting" \/ Answered
        PROVE  /\ Since' = Since + 1 /\ ran' <= Offset + (Since + 1)
               /\ call.phase = "sending" => Since + 1 <= Reached + (call.waited + 1)
               /\ Answered => Since + 1 <= Reached + Latency + (age + 1)
               /\ call.phase = "idle" => Since + 1 <= AskedBy + (loop + 1)
    <3>1. /\ ran <= Offset + Since
          /\ call.phase = "sending" => Since <= Reached + call.waited
          /\ Answered => Since <= Reached + Latency + age
          /\ call.phase = "idle" => Since <= AskedBy + loop
      BY <1>17, <2>3 DEF Polling
    <3>2. call.phase \in {"idle", "sending", "waiting"}
      BY <1>0 DEF SketchTyped, CallTyped
    <3>3. call.phase = "sending" =>
            Since + 1 < ClockSize /\ Since + 1 <= Reached + (call.waited + 1)
      BY <1>0, <1>10, <1>12, <3>1, ClockFacts, MotionConstants
    <3>4. Answered => Since + 1 < ClockSize /\ Since + 1 <= Reached + Latency + (age + 1)
      BY <1>0, <1>9, <1>10, <3>1, ClockFacts, MotionConstants
    <3>5. call.phase = "idle" => Since + 1 < ClockSize /\ Since + 1 <= AskedBy + (loop + 1)
      BY <1>0, <1>9, <1>10, <3>1, ClockFacts, MotionConstants
    <3>6. ran' <= Offset + (Since + 1)
      BY <1>0, <1>2, <3>1, MotionConstants
    <3>. QED
      BY <1>13, <2>3, <3>2, <3>3, <3>4, <3>5, <3>6
  <2>4. ASSUME call.phase = "idle" PROVE ok' /\ loop' <= LoopPeriod
    <3>1. ok
      BY <1>17, <2>4 DEF Polling
    <3>2. loop + 1 <= LoopPeriod
      BY <1>0, <1>9, <2>4, ClockFacts
    <3>. QED
      BY <1>2, <1>11, <2>4, <3>1, <3>2
  <2>5. Polling'
    BY <1>2, <1>4, <1>11, <1>12, <2>1, <2>2, <2>3, <2>4, MotionConstants, Zenon DEF Polling
  <2>. QED
    BY <2>5 DEF Moving
<1>18. CASE Stopping
  <2>1. /\ at = "work" /\ flag /\ (called => call.phase # "idle")
        /\ call.phase = "waiting" => call.answer = "NONE"
    BY <1>18 DEF Stopping
  <2>2. ASSUME ~called PROVE loop' <= LoopPeriod /\ ran' <= Offset + AskedBy + loop'
    <3>1. call.phase = "idle" /\ ran <= Offset + AskedBy + loop
      BY <1>14, <1>18, <2>1, <2>2 DEF Stopping
    <3>2. loop' = loop + 1 /\ loop + 1 <= LoopPeriod
      BY <1>0, <1>9, <1>11, <3>1, ClockFacts
    <3>3. ran' <= Offset + AskedBy + (loop + 1)
      BY <1>0, <1>2, <3>1, MotionConstants
    <3>. QED
      BY <3>2, <3>3
  <2>3. ASSUME call.phase = "sending"
        PROVE  ran' <= Offset + AskedBy + LoopPeriod + (call.waited + 1)
    <3>1. ran <= Offset + AskedBy + LoopPeriod + call.waited
      BY <1>18, <2>3 DEF Stopping
    <3>. QED
      BY <1>0, <1>2, <1>12, <2>3, <3>1, MotionConstants
  <2>4. Stopping'
    BY <1>2, <1>12, <2>1, <2>2, <2>3, MotionConstants, Zenon DEF Stopping
  <2>. QED
    BY <2>4 DEF Moving
<1>. QED
  BY <1>8, <1>15, <1>16, <1>17, <1>18 DEF Moving

\* Every step keeps the bounds of the motion.
LEMMA MovedNext == Kept /\ MovedInv /\ [SketchNext]_sketchVars => MovedInv'
<1>. SUFFICES ASSUME MovedInv, UNCHANGED sketchVars PROVE MovedInv'
  BY MotorProgram, MotionProgram, MotorProgress, MotionProgress, MotorTime, MotionTime
     DEF SketchNext, MovedInv, Kept, FreshInv
<1>1. /\ UNCHANGED <<motor, ran, watchdog, expired, at, called, refused, age, ready, call, flag>>
      /\ UNCHANGED <<ok, loop, sketch, step, now, stamp>>
  BY DEF sketchVars, vars, client, controller, clocks, program, device
<1>2. Todo' = Todo /\ (Moves' <=> Moves) /\ Since' = Since /\ (Answered' <=> Answered)
  BY <1>1 DEF Todo, Moves, Since, Elapsed, Answered
<1>3. MotorInv'
  BY <1>1, <1>2 DEF MovedInv, MotorInv
<1>4. Moving' <=> Moving
  BY <1>1, <1>2, MotionConstants DEF Moving, Starting, Looping, Polling, Stopping
<1>. QED
  BY <1>1, <1>3, <1>4, MotionConstants DEF MovedInv, MotionInv

\* The motion of position-control ends in time, by the sketch's stop or by the watchdog,
\* whatever is lost and whenever set-up or the session fails, unless the controller
\* refuses a command meanwhile.
THEOREM MotionEnds == SketchSpec => []MotionBounded
<1>1. Kept /\ MovedInv => MotionBounded
  <2>. SUFFICES ASSUME Kept, MovedInv, ~refused PROVE ran <= MotionBound
    BY DEF MotionBounded
  <2>0. SketchTyped /\ MonitorInv /\ MotorInv /\ MotionInv /\ ran \in Nat /\ age \in Nat
    BY ClockFacts DEF Kept, Programmed, FreshInv, MovedInv, SketchTyped, Stopwatch
  <2>1. CASE motor
    <3>1. age < Monitoring /\ ran <= age + LastFrame
      BY <2>0, <2>1, SketchFacts DEF MonitorInv, MotorInv, MotionInv
    <3>. QED
      BY <2>0, <3>1, SketchFacts, MotionConstants DEF MotionBound
  <2>2. CASE ~motor
    BY <2>0, <2>2, BoundFacts DEF MotorInv
  <2>. QED
    BY <2>1, <2>2
<1>2. SketchInit => Kept /\ MovedInv
  BY SketchTypedInit, ProgramInit, FreshInit, MovedInit DEF Kept, Programmed
<1>3. Kept /\ MovedInv /\ [SketchNext]_sketchVars => (Kept /\ MovedInv)'
  BY ProgrammedNext, FreshNext, MovedNext DEF Kept
<1>. QED
  BY <1>1, <1>2, <1>3, PTL DEF SketchSpec
==============================================================================
