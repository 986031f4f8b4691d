---------------------------- MODULE KinisiMethods ----------------------------
(***************************************************************************)
(* The command methods of KinisiController: the types of their arguments   *)
(* and results, the payload they pack for request(), what request() itself *)
(* reads from that payload, and what becomes of the reply.                 *)
(***************************************************************************)
EXTENDS KinisiCodec

Doubles(n) == [i \in 1 .. n |-> "double"]
Bools(n) == [i \in 1 .. n |-> "bool"]
One == <<"u8">>

----------------------------------------------------------------------------
(* Arguments, in the order of the declarations *)

SensorArguments ==
  [c \in {"GET_TEMPERATURE", "GET_IMU", "GET_MOTOR_CURRENT", "GET_MOTOR_FAULTS"} |-> One]

MotorArguments ==
  Beside([c \in {"STOP_MOTOR", "BRAKE_MOTOR", "RESET_MOTOR_CONTROLLER",
                 "GET_MOTOR_CONTROLLER_STATE", "DELETE_MOTOR_CONTROLLER"} |-> One],
    [INITIALIZE_MOTOR |-> <<"u8", "bool">>,
     SET_MOTOR_SPEED |-> <<"u8", "double">>, SET_MOTOR_TARGET_SPEED |-> <<"u8", "double">>,
     INITIALIZE_MOTOR_CONTROLLER |-> <<"u8", "bool", "u8", "bool">> \o Doubles(5),
     SET_CONTROLLER_FREQUENCY |-> <<"u16">>, GET_CONTROLLER_FREQUENCY |-> <<>>])

EncoderArguments ==
  Beside([c \in {"GET_ENCODER_VALUE", "START_ENCODER_ODOMETRY", "RESET_ENCODER_ODOMETRY",
                 "STOP_ENCODER_ODOMETRY", "GET_ENCODER_ODOMETRY"} |-> One],
    [INITIALIZE_ENCODER |-> <<"u8", "double", "bool">>,
     SET_ODOMETRY_FREQUENCY |-> <<"u16">>, GET_ODOMETRY_FREQUENCY |-> <<>>])

BoardIoArguments ==
  Beside([c \in {"GET_GPIO_PIN_STATE", "TOGGLE_GPIO_PIN_STATE", "SET_STATUS_LED_STATE"} |-> One],
    [INITIALIZE_GPIO_PIN |-> <<"u8", "u8">>, SET_GPIO_PIN_STATE |-> <<"u8", "u8">>,
     TOGGLE_STATUS_LED_STATE |-> <<>>])

PlatformArguments ==
  Beside([c \in {"GET_PLATFORM_CURRENT_VELOCITY", "STOP_PLATFORM_CONTROLLER",
                 "START_PLATFORM_ODOMETRY", "RESET_PLATFORM_ODOMETRY", "STOP_PLATFORM_ODOMETRY",
                 "GET_PLATFORM_ODOMETRY", "BRAKE_PLATFORM", "COAST_PLATFORM"} |-> <<>>],
    [SET_PLATFORM_VELOCITY |-> Doubles(3), SET_PLATFORM_TARGET_VELOCITY |-> Doubles(3),
     INITIALIZE_MECANUM_PLATFORM |-> Bools(8) \o Doubles(4),
     INITIALIZE_OMNI_PLATFORM |-> Bools(6) \o Doubles(3),
     INITIALIZE_DIFFERENTIAL_PLATFORM |-> Bools(4) \o Doubles(3),
     START_PLATFORM_CONTROLLER |-> Doubles(4)])

ConnectionArguments ==
  Beside([c \in {"GET_TIME_STATUS", "PING", "GET_HEARTBEAT_CONFIG", "POLL_TELEMETRY"} |-> <<>>],
    [SET_TIME_SYNC_INTERVAL |-> <<"u32">>, SET_HEARTBEAT_CONFIG |-> <<"bool", "u32">>,
     SUBSCRIBE_ODOMETRY |-> <<"u8", "u32">>, UNSUBSCRIBE_ODOMETRY |-> One])

PositionArguments ==
  [INITIALIZE_MOTOR_POSITION_CONTROLLER |-> One \o Doubles(3),
   RESET_MOTOR_POSITION |-> One, SET_MOTOR_POSITION |-> <<"u8", "double">>,
   GET_MOTOR_POSITION |-> One,
   INITIALIZE_PLATFORM_POSITION_CONTROLLER |-> Doubles(6),
   RESET_PLATFORM_POSITION |-> <<>>, SET_PLATFORM_POSITION |-> Doubles(3),
   INITIALIZE_MOTOR_POSITION_PID_CONTROLLER |-> One \o Doubles(6),
   INITIALIZE_PLATFORM_POSITION_PID_CONTROLLER |-> Doubles(12)]

\* The payload of SUBSCRIBE has no mode: another mode than PERIODIC makes the
\* method that of SUBSCRIBE_WITH_MODE.
SubscriptionArguments ==
  [SUBSCRIBE |-> <<"u8", "u8", "u32">>, UNSUBSCRIBE |-> <<"u8", "u8">>,
   SUBSCRIBE_WITH_MODE |-> <<"u8", "u8", "u32", "u8">>,
   SUBSCRIBE_CONFIGURED |-> <<"u8", "u8", "u32", "u8", "u8", "u32">>]

HardwareLimitArguments ==
  [CLEAR_MOTOR_FAULTS |-> One, GET_MOTOR_CURRENT_LIMIT |-> One,
   SET_MOTOR_CURRENT_LIMIT |-> <<"u8", "bool", "u16">>,
   GET_PWM_FREQUENCY |-> <<>>, SET_PWM_FREQUENCY |-> <<"u32">>]

Arguments ==
  Beside(SensorArguments, Beside(MotorArguments, Beside(EncoderArguments,
  Beside(BoardIoArguments, Beside(PlatformArguments, Beside(ConnectionArguments,
  Beside(PositionArguments, Beside(SubscriptionArguments, HardwareLimitArguments))))))))

----------------------------------------------------------------------------
(* Results *)

MotorControllerState == <<"i8">> \o Doubles(7)
PlatformVelocity == Doubles(3)
Timestamp == <<"u64", "u8", "u8">>
FaultStatus == Bools(10)
CurrentLimit == <<"bool", "u16">>

\* The fields of what a method returns, where that is more than success.
Results ==
  [GET_TEMPERATURE |-> Doubles(1), GET_IMU |-> Doubles(6), GET_MOTOR_CURRENT |-> Doubles(1),
   GET_MOTOR_FAULTS |-> FaultStatus, CLEAR_MOTOR_FAULTS |-> FaultStatus,
   GET_MOTOR_CONTROLLER_STATE |-> MotorControllerState, GET_MOTOR_POSITION |-> Doubles(1),
   GET_ENCODER_VALUE |-> <<"u16">>, GET_ENCODER_ODOMETRY |-> Timestamp \o Doubles(1),
   GET_GPIO_PIN_STATE |-> One, GET_PLATFORM_CURRENT_VELOCITY |-> PlatformVelocity,
   GET_PLATFORM_ODOMETRY |-> Timestamp \o Doubles(3),
   GET_TIME_STATUS |-> <<"u8", "u8", "u32", "u64">>, GET_HEARTBEAT_CONFIG |-> <<"bool", "u32">>,
   GET_CONTROLLER_FREQUENCY |-> <<"u16">>, GET_ODOMETRY_FREQUENCY |-> <<"u16">>,
   GET_MOTOR_CURRENT_LIMIT |-> CurrentLimit, SET_MOTOR_CURRENT_LIMIT |-> CurrentLimit,
   GET_PWM_FREQUENCY |-> <<"u32">>, SET_PWM_FREQUENCY |-> <<"u32">>]

----------------------------------------------------------------------------
(* Layout *)

\* Mutant of SizeOf: the native size of double.
SizeOfNative(type) ==
  CASE type \in {"u8", "i8", "bool"} -> 1 [] type = "u16" -> 2
    [] type \in {"u32", "double"} -> 4 [] type = "u64" -> 8

\* The bytes a value takes in a payload.
SizeOf(type) ==
  CASE type \in {"u8", "i8", "bool"} -> 1 [] type = "u16" -> 2 [] type = "u32" -> 4
    [] type \in {"u64", "double"} -> 8

\* The offsets in the methods, as the generator counts them.
OffsetOf(types, i) == Total([k \in DOMAIN types |-> SizeOf(types[k])], i - 1)

\* One call of writeUnsigned() or writeDouble() on a narrow board.
Written(type, value) ==
  WriteUnsigned(IF type = "double" THEN WriteDouble(value) ELSE value,
                IF type = "double" THEN DoubleBytes ELSE SizeOf(type))

\* The size bytes of a payload after these writes, each over the ones before it.
PackInto(size, types, values) ==
  [b \in 0 .. size - 1 |->
     LET over == {i \in DOMAIN types : b - OffsetOf(types, i) \in DOMAIN Written(types[i], values[i])}
     IN IF over = {} THEN 0
        ELSE Written(types[Max(over)], values[Max(over)])[b - OffsetOf(types, Max(over))]]

\* The payload a method hands to request().
Payload(command, arguments) ==
  PackInto(Shapes[command][1], Arguments[command], arguments)

\* A value that a method takes from a response.
Taken(narrow, type, response, offset) ==
  LET n == ReadUnsigned(response, offset, SizeOf(type))
  IN CASE type = "double" -> ReadDoubleAt(narrow, response, offset)
       [] type = "bool" -> IF n # 0 THEN 1 ELSE 0
       [] type = "i8" -> IF n >= ByteBase \div 2 THEN n - ByteBase ELSE n
       [] OTHER -> n

----------------------------------------------------------------------------
(* The other reader of a payload, and the reply *)

\* Where request() looks for arguments itself, for its checks and its tables: offset
\* and bytes of the first argument, of the second, and so on.
RequestReads ==
  Beside([c \in {"GET_TEMPERATURE", "GET_IMU", "GET_MOTOR_CURRENT", "GET_MOTOR_FAULTS",
                 "CLEAR_MOTOR_FAULTS", "GET_MOTOR_CURRENT_LIMIT", "UNSUBSCRIBE_ODOMETRY"} |->
            <<<<0, 1>>>>],
    [SET_HEARTBEAT_CONFIG |-> <<<<0, 1>>, <<1, 4>>>>, SUBSCRIBE_ODOMETRY |-> <<<<0, 1>>, <<1, 4>>>>,
     UNSUBSCRIBE |-> <<<<0, 1>>, <<1, 1>>>>,
     SUBSCRIBE |-> <<<<0, 1>>, <<1, 1>>, <<2, 4>>>>,
     SUBSCRIBE_WITH_MODE |-> <<<<0, 1>>, <<1, 1>>, <<2, 4>>, <<6, 1>>>>,
     SUBSCRIBE_CONFIGURED |-> <<<<0, 1>>, <<1, 1>>, <<2, 4>>, <<6, 1>>, <<7, 1>>, <<8, 4>>>>,
     SET_MOTOR_CURRENT_LIMIT |-> <<<<0, 1>>, <<1, 1>>, <<2, 2>>>>,
     SET_PWM_FREQUENCY |-> <<<<0, 4>>>>])

\* Mutant of ReplyMalformed: infinities and NaNs are refused, and no negative current.
ReplyMalformedNotFinite(narrow, command, response) ==
  CASE command \in {"GET_MOTOR_FAULTS", "CLEAR_MOTOR_FAULTS"} ->
         \E b \in DOMAIN response : response[b] > 1
    [] command \in {"GET_TEMPERATURE", "GET_IMU", "GET_MOTOR_CURRENT"} ->
         \E b \in DOMAIN response : b % 8 = 0 /\ ReadDoubleAt(narrow, response, b).kind # "finite"
    [] OTHER -> FALSE

\* The checks of request() after the ACK.
ReplyMalformed(narrow, command, response) ==
  CASE command \in {"GET_MOTOR_CURRENT_LIMIT", "SET_MOTOR_CURRENT_LIMIT"} ->
         response[0] > 1 \/ ReadUnsigned(response, 1, 2) = 0
    [] command \in {"GET_MOTOR_FAULTS", "CLEAR_MOTOR_FAULTS"} ->
         \E b \in DOMAIN response : response[b] > 1
    [] command \in {"GET_TEMPERATURE", "GET_IMU", "GET_MOTOR_CURRENT"} ->
         \/ command = "GET_MOTOR_CURRENT" /\ Negative(ReadDoubleAt(narrow, response, 0))
         \/ \E b \in DOMAIN response :
              b % 8 = 0 /\ ReadDoubleAt(narrow, response, b).kind # "finite"
    [] OTHER -> FALSE

\* What a method returns for an ACK with this response.
Reading(narrow, command, response) ==
  IF ReplyMalformed(narrow, command, response) THEN Refused
  ELSE LET types == Results[command]
       IN [decoded |-> TRUE,
           values |-> [i \in DOMAIN types |->
                         Taken(narrow, types[i], response, OffsetOf(types, i))]]
=============================================================================
