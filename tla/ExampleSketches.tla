--------------------------- MODULE ExampleSketches ---------------------------
(***************************************************************************)
(* The sketches under examples/ on top of the timed client, with the LED   *)
(* and the motor of the controller they talk to.  A sketch is the list of  *)
(* steps its setup() takes, what it does when one of them fails, and the   *)
(* commands of its loop() after a poll; printing is left out.              *)
(***************************************************************************)
EXTENDS KinisiHeartbeat, Sequences

CONSTANTS
  Sketches,           \* the sketches to run, of DOMAIN Setup
  Monitoring,         \* heartbeat_timeout_ms of begin(), 500
  Tenth, Second,      \* delay(100), and the 1000 ms between two toggles or reads
  RunTime             \* the 5000 ms of position-control

\* What a sketch compares with millis() comes well before the clock has wrapped.
ASSUME SketchAssumption ==
  /\ {Tenth, Second, RunTime} \subseteq Nat \ {0}
  /\ Monitoring \in Heartbeats \ {0}
  /\ {Second + LoopPeriod, RunTime + 2 * LoopPeriod + Latency + ReplyDelay}
        \subseteq 0 .. ClockSize - 1

\* delay(100) and heartbeat_ms_ / 5 of silence leave a loop and a frame of the 500 ms.
ASSUME DelayAssumption ==
  /\ Latency + LoopPeriod + Tenth + Monitoring \div 5 <= Monitoring
  /\ Latency + LoopPeriod + Tenth + ReplyDelay < Monitoring

VARIABLES
  sketch,             \* the sketch on the board
  at,                 \* "setup", "loop", "polled", "work", "pause" or "halt"
  step,               \* the step of setup() or of the work that is next or under way
  called,             \* it is under way
  timer,              \* what is left of a delay()
  stamp,              \* toggled, last_read, started
  flag,               \* ledState, moving
  led,                \* the controller's LED is inverted
  motor,              \* a motor of the controller runs
  ran,                \* history: how long it has been running
  refused             \* history: the controller refused a command while it ran

program == <<sketch, at, step, called, timer, stamp, flag>>
device == <<led, motor, ran, refused>>
sketchVars == <<vars, program, device>>

Runs(name) == sketch = name
Moves == sketch \in {"motor", "platform"}

----------------------------------------------------------------------------
(* The programs.  position-control is two sketches, platformDemo or not.   *)

Setup ==
  [blink |-> <<"BEGIN">>,
   encoder |-> <<"BEGIN", "INITIALIZE_ENCODER", "START_ENCODER_ODOMETRY", "SUBSCRIBE">>,
   subscriptions |-> <<"BEGIN", "SUBSCRIBE">>,
   sensors |-> <<"BEGIN">>,
   frequency |-> <<"BEGIN", "SET_CONTROLLER_FREQUENCY", "SET_ODOMETRY_FREQUENCY",
                   "GET_CONTROLLER_FREQUENCY", "GET_ODOMETRY_FREQUENCY">>,
   motor |-> <<"BEGIN", "VERSION", "INITIALIZE_MOTOR_CONTROLLER",
               "INITIALIZE_MOTOR_POSITION_PID_CONTROLLER", "RESET_MOTOR_POSITION",
               "SET_MOTOR_POSITION">>,
   platform |-> <<"BEGIN", "VERSION", "INITIALIZE_OMNI_PLATFORM", "START_PLATFORM_CONTROLLER",
                  "INITIALIZE_PLATFORM_POSITION_PID_CONTROLLER", "RESET_PLATFORM_POSITION",
                  "DELAY", "POLL", "GET_PLATFORM_ODOMETRY", "SET_PLATFORM_POSITION">>]

ASSUME ProgramAssumption == Sketches \subseteq DOMAIN Setup

\* while (true) delay(1000), or a return that leaves loop() to run.
SetupFailed(name) == IF name \in {"blink", "encoder"} THEN "halt" ELSE "loop"

\* The commands of loop() when they are due.
Work == [name \in DOMAIN Setup |->
           CASE name = "blink" -> <<"TOGGLE_STATUS_LED_STATE">>
             [] name = "sensors" -> <<"GET_TEMPERATURE", "GET_IMU">>
             [] name = "motor" -> <<"DELETE_MOTOR_CONTROLLER">>
             [] name = "platform" -> <<"STOP_PLATFORM_CONTROLLER">>
             [] OTHER -> <<>>]

Starts == {"SET_MOTOR_POSITION", "SET_PLATFORM_POSITION"}
Stops == {"DELETE_MOTOR_CONTROLLER", "STOP_PLATFORM_CONTROLLER"}

\* Mutant of Due: a deadline in more bits than millis() has, never met after a wrap.
DueBySum ==
  /\ Work[sketch] # <<>>
  /\ IF Moves THEN flag /\ now >= stamp + RunTime ELSE now >= stamp + Second

\* uint32_t(millis() - stamp) >= period.
Due ==
  /\ Work[sketch] # <<>>
  /\ IF Moves THEN flag /\ Elapsed(stamp) >= RunTime ELSE Elapsed(stamp) >= Second

----------------------------------------------------------------------------
(* Steps of a sketch *)

\* Mutant of BeginMonitored: begin(1000, 0).
BeginUnmonitored == Begin(0)

BeginMonitored == Begin(Monitoring)

\* A step of the sketch up to where it waits.  In setup() a local check may refuse a
\* command, for the firmware or the Wire buffer; supportsTopic() and supportsSensor()
\* may skip one.
Do(s) ==
  CASE s = "BEGIN" -> BeginMonitored
    [] s = "POLL" -> Poll
    [] s \in {"VERSION", "DELAY"} -> UNCHANGED vars
    [] s = "SUBSCRIBE" -> \/ Refuse
                          \/ Runs("subscriptions") /\ UNCHANGED vars
                          \/ \E c \in Streams, i \in Intervals : Call(s, c, i)
    [] s \in {"GET_TEMPERATURE", "GET_IMU"} -> Call(s, NoStream, 0) \/ UNCHANGED vars
    [] OTHER -> Call(s, NoStream, 0) \/ (at = "setup" /\ Refuse)

\* What the sketch then sees: the version may be too old.
Outcomes(s) == CASE s = "VERSION" -> BOOLEAN [] s = "DELAY" -> {TRUE} [] OTHER -> {ok}

\* Mutant of Pause: delay(1000) in the setup of the platform.
PauseTooLong(s) == IF s = "DELAY" THEN Second ELSE 0

\* delay(100), well within the heartbeat timeout.
Pause(s) == IF s = "DELAY" THEN Tenth ELSE 0

Issue(s) ==
  /\ call = Idle /\ ~called
  /\ Do(s)
  /\ called' = TRUE
  /\ timer' = Pause(s)
  /\ UNCHANGED <<sketch, at, step, stamp, flag, device>>

SetupStep == at = "setup" /\ Issue(Setup[sketch][step])

Returned == called /\ call = Idle /\ timer = 0

SetupSucceeds ==
  /\ at = "setup" /\ Returned /\ TRUE \in Outcomes(Setup[sketch][step])
  /\ IF step < Len(Setup[sketch])
     THEN step' = step + 1 /\ UNCHANGED <<at, stamp, flag>>
     ELSE /\ at' = "loop" /\ step' = 1
          /\ IF Moves THEN flag' = TRUE /\ stamp' = now ELSE UNCHANGED <<stamp, flag>>
  /\ called' = FALSE
  /\ UNCHANGED <<vars, device, sketch, timer>>

SetupFails ==
  /\ at = "setup" /\ Returned /\ FALSE \in Outcomes(Setup[sketch][step])
  /\ at' = SetupFailed(sketch) /\ step' = 1 /\ called' = FALSE
  /\ UNCHANGED <<vars, device, sketch, timer, stamp, flag>>

LoopPolls ==
  /\ at = "loop" /\ Poll /\ at' = "polled"
  /\ UNCHANGED <<device, sketch, step, called, timer, stamp, flag>>

PollFailed ==
  /\ at = "polled" /\ call = Idle /\ ~ok
  /\ at' = "loop"
  /\ flag' = (flag /\ ~Moves)
  /\ UNCHANGED <<vars, device, sketch, step, called, timer, stamp>>

NothingDue ==
  /\ at = "polled" /\ call = Idle /\ ok /\ ~Due
  /\ at' = "loop"
  /\ UNCHANGED <<vars, device, sketch, step, called, timer, stamp, flag>>

WorkDue ==
  /\ at = "polled" /\ call = Idle /\ ok /\ Due
  /\ at' = "work"
  /\ stamp' = IF Moves THEN stamp ELSE now
  /\ UNCHANGED <<vars, device, sketch, step, called, timer, flag>>

WorkStep == at = "work" /\ Issue(Work[sketch][step])

\* Mutant of ToggleReturned: the local LED follows the command, not its success.
ToggleReturnedUnchecked ==
  /\ Runs("blink") /\ at = "work" /\ Returned
  /\ flag' = ~flag
  /\ at' = "loop" /\ UNCHANGED timer
  /\ called' = FALSE
  /\ UNCHANGED <<vars, device, sketch, step, stamp>>

\* blink-command: the local LED follows a toggle that succeeded.
ToggleReturned ==
  /\ Runs("blink") /\ at = "work" /\ Returned
  /\ IF ok THEN flag' = ~flag /\ at' = "loop" /\ UNCHANGED timer
           ELSE timer' = Second /\ at' = "pause" /\ UNCHANGED flag
  /\ called' = FALSE
  /\ UNCHANGED <<vars, device, sketch, step, stamp>>

PauseEnds ==
  /\ at = "pause" /\ timer = 0 /\ at' = "loop"
  /\ UNCHANGED <<vars, device, sketch, step, called, timer, stamp, flag>>

\* position-control: moving = false, whatever the stop returned.
StopReturned ==
  /\ Moves /\ at = "work" /\ Returned
  /\ flag' = FALSE /\ at' = "loop" /\ called' = FALSE
  /\ UNCHANGED <<vars, device, sketch, step, timer, stamp>>

\* sensors: without a session supportsSensor() skips what is left.
ReadReturned ==
  /\ Runs("sensors") /\ at = "work" /\ Returned
  /\ IF step < Len(Work[sketch]) /\ ready THEN step' = step + 1 /\ UNCHANGED at
                                         ELSE step' = 1 /\ at' = "loop"
  /\ called' = FALSE
  /\ UNCHANGED <<vars, device, sketch, timer, stamp, flag>>

Program ==
  \/ SetupStep \/ SetupSucceeds \/ SetupFails
  \/ LoopPolls \/ PollFailed \/ NothingDue \/ WorkDue
  \/ WorkStep \/ ToggleReturned \/ PauseEnds \/ StopReturned \/ ReadReturned

----------------------------------------------------------------------------
(* The controller *)

\* The controller executes what it acknowledges, nothing that it refuses or gets
\* after its session, and perhaps what it does not answer.
Executes(answer) ==
  CASE answer = "ACK" -> {TRUE}
    [] answer = "NONE" /\ ~expired -> BOOLEAN
    [] OTHER -> {FALSE}

Affect(answer) ==
  \E done \in Executes(answer) :
    /\ led' = (led # (done /\ call.command = "TOGGLE_STATUS_LED_STATE"))
    /\ motor' = IF ~done THEN motor
                ELSE call.command \in Starts \/ (motor /\ call.command \notin Stops)
    /\ refused' = (refused \/ (answer = "ERROR" /\ motor))
    /\ ran' = IF motor' THEN ran ELSE 0

CallTransmits == Transmit /\ Affect(call'.answer)

\* The frame of a call that could not be sent may have got through all the same.
CallNotSent == TransmitFails /\ Affect("NONE")

CallReturns ==
  /\ \/ ReceiveReady \/ ReceiveHeartbeatAck \/ ReceiveSubscribeAck
     \/ ReceiveOtherAck \/ ReceiveError \/ ReceiveInitRequired \/ Timeout
  /\ UNCHANGED device

----------------------------------------------------------------------------
(* Time *)

\* How long the motion of position-control may have lasted when the controller gets the
\* last frame of the sketch: the answer to its start and the return of setup(), RunTime
\* as the loop sees it, a poll, and the stop.
LastFrame ==
  Max({ReplyDelay, LoopPeriod}) + (RunTime - 1)
    + LoopPeriod + Latency + ReplyDelay + LoopPeriod + Latency

\* The watchdog ends it then at the latest.  Bound: ran stops above this.
MotionBound == LastFrame + Monitoring - 1

\* Between two polls a sketch computes for at most LoopPeriod, or sits in delay().
SketchInTime ==
  IF call # Idle THEN InTime ELSE timer > 0 \/ at = "halt" \/ loop < LoopPeriod

\* The watchdog stops the motors.
TimePasses ==
  /\ SketchInTime /\ Advance
  /\ timer' = IF timer > 0 THEN timer - 1 ELSE 0
  /\ motor' = (motor /\ ~expired')
  /\ ran' = IF motor' THEN Min({ran + 1, MotionBound + 1}) ELSE 0
  /\ UNCHANGED <<sketch, at, step, called, stamp, flag, led, refused>>

SketchInit ==
  /\ Init
  /\ sketch \in Sketches
  /\ at = "setup" /\ step = 1 /\ called = FALSE
  /\ timer = 0 /\ stamp = 0 /\ flag = FALSE
  /\ led = FALSE /\ motor = FALSE /\ ran = 0 /\ refused = FALSE

CallProgress == (CallTransmits \/ CallNotSent \/ CallReturns) /\ UNCHANGED program

SketchNext == Program \/ CallProgress \/ TimePasses

\* Time passes, a call that can take its next step takes it, and the sketch runs.
SketchFairness ==
  WF_sketchVars(TimePasses) /\ WF_sketchVars(CallProgress) /\ WF_sketchVars(Program)

SketchSpec == SketchInit /\ [][SketchNext]_sketchVars /\ SketchFairness

----------------------------------------------------------------------------
(* Properties *)

\* blink-command.ino: the local LED mirrors the controller's as long as there is a
\* session, whatever is refused; a toggle of unknown fate ends the session.
LedMirrored == Runs("blink") /\ ready /\ call = Idle /\ at # "work" => flag = led

\* Whenever the sketch is to make its next call with a session, the controller still
\* has it.
SessionHeld ==
  at \in {"setup", "loop", "work"} /\ call = Idle /\ timer = 0 /\ ready => ~expired

\* The setup of every sketch and its loop keep the watchdog fed, the delay(100) of
\* position-control included, whatever is refused or lost; blink-command is the one
\* sketch that waits longer than its heartbeat timeout.
LoopKeepsSession == ~Runs("blink") => SessionHeld

\* The motion of position-control is over some time after RunTime: the sketch stops
\* it or the watchdog does, also when answers are lost, set-up fails halfway or the
\* session ends.  Only a controller that refuses a command, the stop or a PING, can
\* keep it running: the sketch takes any failure for a stop.
MotionBounded == ran <= MotionBound \/ refused

\* A motor never outlives the session by more than the watchdog.
MotorStopsWithSession == (motor /\ ~ready) ~> ~motor

\* The loop gets to its work again and again, across the wrap of millis(), as long
\* as there is a session and the controller does not refuse the poll.
WorkAgain ==
  (at = "loop" /\ ready /\ Work[sketch] # <<>> /\ (Moves => flag))
     ~> (at = "work" \/ ~ready \/ (at = "polled" /\ call = Idle /\ ~ok))

\* docs/connection-monitoring.md: a sketch is to poll frequently and to avoid long
\* delays, as a stalled one stops servicing the watchdog.
RefusalKeepsSession == Runs("blink") => SessionHeld
=============================================================================
