----------------------------- MODULE KinisiTypes -----------------------------
(***************************************************************************)
(* The vocabulary of Kinisi API v2 as the Arduino library sees it: the     *)
(* failures and error codes, the telemetry topics and their limits, and    *)
(* the shape of every request frame the generated methods build.  It has   *)
(* no state.  Commands are named by their KINISI_ constant without the     *)
(* prefix; a command's payload is abstracted to its length.                *)
(***************************************************************************)
EXTENDS Integers

----------------------------------------------------------------------------
(* Failures and error codes *)

\* KinisiFailure without NONE: what a call can report to the sketch.
Failures ==
  {"NOT_READY", "TIMEOUT", "TRANSPORT", "FRAME_TOO_LARGE",
   "MALFORMED_RESPONSE", "INCOMPATIBLE_PROTOCOL", "CONTROLLER",
   "INVALID_ARGUMENT", "UNSUPPORTED_COMMAND", "SENSOR_NOT_AVAILABLE",
   "SUBSCRIPTION_LIMIT"}

\* KinisiErrorCode without NONE: what an ERROR frame can carry.
ErrorCodes ==
  {"INCOMPATIBLE_PROTOCOL", "INVALID_ARGUMENT", "UNKNOWN_COMMAND",
   "INVALID_LENGTH", "MOTOR_OWNED", "INTERNAL_ERROR", "CLOCK_NOT_READY",
   "TIME_SYNC_FAILED", "ODOMETRY_NOT_INITIALIZED", "SAMPLE_NOT_AVAILABLE",
   "ENCODER_NOT_INITIALIZED", "PLATFORM_NOT_INITIALIZED",
   "MOTOR_NOT_INITIALIZED", "CONTROLLER_NOT_INITIALIZED", "INIT_REQUIRED",
   "SENSOR_NOT_AVAILABLE", "SUBSCRIPTION_LIMIT", "SAMPLE_OUT_OF_RANGE"}

\* init_response of no session: the board revision and the protocol version.
NoIdentity == [board |-> <<0, 0, 0, 0>>, major |-> 0, minor |-> 0]

----------------------------------------------------------------------------
(* Telemetry topics *)

Topics == {"ENCODER_ODOMETRY", "PLATFORM_ODOMETRY", "TEMPERATURE", "IMU",
           "MOTOR_CURRENT", "MOTOR_FAULTS"}

\* kinisiTopicInfo: bytes of one sample.
TopicSize == [ENCODER_ODOMETRY |-> 18, PLATFORM_ODOMETRY |-> 34,
              TEMPERATURE |-> 18, IMU |-> 58,
              MOTOR_CURRENT |-> 18, MOTOR_FAULTS |-> 20]

\* kinisiTopicInfo: the shortest interval a subscription may ask for, in ms.
TopicMinimum == [ENCODER_ODOMETRY |-> 2, PLATFORM_ODOMETRY |-> 2,
                 TEMPERATURE |-> 250, IMU |-> 10,
                 MOTOR_CURRENT |-> 20, MOTOR_FAULTS |-> 100]

\* kinisiTopicInfo: its result, whether topic and index name a source.
TopicInfoValid(topic, index) ==
  /\ topic \in Topics
  /\ topic \in {"ENCODER_ODOMETRY", "MOTOR_CURRENT", "MOTOR_FAULTS"} => index <= 3
  /\ topic = "PLATFORM_ODOMETRY" => index = 0

TopicEventSupported(topic) == topic = "MOTOR_FAULTS"

MaxInterval == 3600000

PwmFrequencyValid(hz) == hz \in {10000, 20000, 25000, 50000, 100000}

----------------------------------------------------------------------------
(* Odometry sources: subscribe_odometry numbers the four encoders 0..3 and *)
(* the platform 4; the generic commands name the same sources by topic.    *)

Sources == 0 .. 4

\* The topic and index of a legacy source (request(), lines 376-377).
KeyOf(source) == IF source = 4 THEN <<"PLATFORM_ODOMETRY", 0>>
                               ELSE <<"ENCODER_ODOMETRY", source>>

----------------------------------------------------------------------------
(* Frame shapes: <<payload bytes, response bytes>> of each generated method *)

SensorShapes ==
  [GET_TEMPERATURE |-> <<1, 8>>, GET_IMU |-> <<1, 48>>,
   GET_MOTOR_CURRENT |-> <<1, 8>>, GET_MOTOR_FAULTS |-> <<1, 10>>]

MotorShapes ==
  [INITIALIZE_MOTOR |-> <<2, 0>>, SET_MOTOR_SPEED |-> <<9, 0>>,
   STOP_MOTOR |-> <<1, 0>>, BRAKE_MOTOR |-> <<1, 0>>,
   INITIALIZE_MOTOR_CONTROLLER |-> <<44, 0>>,
   SET_MOTOR_TARGET_SPEED |-> <<9, 0>>, RESET_MOTOR_CONTROLLER |-> <<1, 0>>,
   GET_MOTOR_CONTROLLER_STATE |-> <<1, 57>>,
   DELETE_MOTOR_CONTROLLER |-> <<1, 0>>, SET_CONTROLLER_FREQUENCY |-> <<2, 0>>,
   GET_CONTROLLER_FREQUENCY |-> <<0, 2>>]

EncoderShapes ==
  [INITIALIZE_ENCODER |-> <<10, 0>>, GET_ENCODER_VALUE |-> <<1, 2>>,
   START_ENCODER_ODOMETRY |-> <<1, 0>>, RESET_ENCODER_ODOMETRY |-> <<1, 0>>,
   STOP_ENCODER_ODOMETRY |-> <<1, 0>>, GET_ENCODER_ODOMETRY |-> <<1, 18>>,
   SET_ODOMETRY_FREQUENCY |-> <<2, 0>>, GET_ODOMETRY_FREQUENCY |-> <<0, 2>>]

BoardIoShapes ==
  [INITIALIZE_GPIO_PIN |-> <<2, 0>>, SET_GPIO_PIN_STATE |-> <<2, 0>>,
   GET_GPIO_PIN_STATE |-> <<1, 1>>, TOGGLE_GPIO_PIN_STATE |-> <<1, 0>>,
   SET_STATUS_LED_STATE |-> <<1, 0>>, TOGGLE_STATUS_LED_STATE |-> <<0, 0>>]

PlatformShapes ==
  [INITIALIZE_MECANUM_PLATFORM |-> <<40, 0>>,
   INITIALIZE_OMNI_PLATFORM |-> <<30, 0>>,
   INITIALIZE_DIFFERENTIAL_PLATFORM |-> <<28, 0>>,
   SET_PLATFORM_VELOCITY |-> <<24, 0>>, START_PLATFORM_CONTROLLER |-> <<32, 0>>,
   SET_PLATFORM_TARGET_VELOCITY |-> <<24, 0>>,
   GET_PLATFORM_CURRENT_VELOCITY |-> <<0, 24>>,
   STOP_PLATFORM_CONTROLLER |-> <<0, 0>>, START_PLATFORM_ODOMETRY |-> <<0, 0>>,
   RESET_PLATFORM_ODOMETRY |-> <<0, 0>>, STOP_PLATFORM_ODOMETRY |-> <<0, 0>>,
   GET_PLATFORM_ODOMETRY |-> <<0, 34>>, BRAKE_PLATFORM |-> <<0, 0>>,
   COAST_PLATFORM |-> <<0, 0>>]

ConnectionShapes ==
  [SET_TIME_SYNC_INTERVAL |-> <<4, 0>>, GET_TIME_STATUS |-> <<0, 14>>,
   PING |-> <<0, 0>>, SET_HEARTBEAT_CONFIG |-> <<5, 0>>,
   GET_HEARTBEAT_CONFIG |-> <<0, 5>>, SUBSCRIBE_ODOMETRY |-> <<5, 0>>,
   UNSUBSCRIBE_ODOMETRY |-> <<1, 0>>, POLL_TELEMETRY |-> <<0, 0>>]

PositionShapes ==
  [INITIALIZE_MOTOR_POSITION_CONTROLLER |-> <<25, 0>>,
   RESET_MOTOR_POSITION |-> <<1, 0>>, SET_MOTOR_POSITION |-> <<9, 0>>,
   GET_MOTOR_POSITION |-> <<1, 8>>,
   INITIALIZE_PLATFORM_POSITION_CONTROLLER |-> <<48, 0>>,
   RESET_PLATFORM_POSITION |-> <<0, 0>>, SET_PLATFORM_POSITION |-> <<24, 0>>,
   INITIALIZE_MOTOR_POSITION_PID_CONTROLLER |-> <<49, 0>>,
   INITIALIZE_PLATFORM_POSITION_PID_CONTROLLER |-> <<96, 0>>]

SubscriptionShapes ==
  [SUBSCRIBE |-> <<6, 0>>, UNSUBSCRIBE |-> <<2, 0>>,
   SUBSCRIBE_WITH_MODE |-> <<7, 0>>, SUBSCRIBE_CONFIGURED |-> <<12, 0>>]

HardwareLimitShapes ==
  [CLEAR_MOTOR_FAULTS |-> <<1, 10>>, GET_MOTOR_CURRENT_LIMIT |-> <<1, 3>>,
   SET_MOTOR_CURRENT_LIMIT |-> <<4, 3>>, GET_PWM_FREQUENCY |-> <<0, 4>>,
   SET_PWM_FREQUENCY |-> <<4, 4>>]

\* begin() sends INIT itself: an 8-byte payload, a 15-byte identity.
InitShape == [INIT |-> <<8, 15>>]

\* The entries of f and, for the commands it has none for, those of g.
Beside(f, g) == [c \in DOMAIN f \cup DOMAIN g |-> IF c \in DOMAIN f THEN f[c] ELSE g[c]]

Shapes ==
  Beside(SensorShapes, Beside(HardwareLimitShapes, Beside(SubscriptionShapes,
  Beside(MotorShapes, Beside(EncoderShapes, Beside(BoardIoShapes, Beside(PlatformShapes,
  Beside(ConnectionShapes, Beside(PositionShapes, InitShape)))))))))

\* send(): the request and the larger of the response and an ERROR frame
\* must fit the scratch buffers (128 and 64 bytes) and the Wire buffer.
FrameFits(command, wire) ==
  LET request  == Shapes[command][1] + 4
      response == Shapes[command][2] + 4
      readSize == IF response < 6 THEN 6 ELSE response
  IN  /\ request <= 128 /\ readSize <= 64
      /\ request <= wire /\ readSize <= wire

\* An event frame of the topic fits the Wire buffer and receive()'s buffer.
EventFits(topic, wire) ==
  LET size == TopicSize[topic] + 6 IN size <= wire /\ size <= 64
=============================================================================
