----------------------------- MODULE KinisiGate -----------------------------
(***************************************************************************)
(* The local checks of request(): what the library refuses before anything *)
(* is sent, and the supports...() helpers a sketch asks first.  Both read  *)
(* the same link: readiness, the controller's protocol minor (its major is *)
(* 2 whenever the link is ready), the board profile and the Wire buffer.   *)
(*                                                                         *)
(*   link    [ready, minor, profile, wire]                                 *)
(*   request [command, and the payload fields that command has]            *)
(***************************************************************************)
EXTENDS KinisiTypes, KinisiBoardProfiles

Subscribing == {"SUBSCRIBE", "SUBSCRIBE_WITH_MODE", "SUBSCRIBE_CONFIGURED"}

\* The protocol minor each command needs (request(), the switch).
RequiredMinor(command) ==
  CASE command \in {"INITIALIZE_MOTOR_POSITION_CONTROLLER",
                    "RESET_MOTOR_POSITION", "SET_MOTOR_POSITION",
                    "GET_MOTOR_POSITION",
                    "INITIALIZE_PLATFORM_POSITION_CONTROLLER",
                    "RESET_PLATFORM_POSITION", "SET_PLATFORM_POSITION"} -> 2
    [] command \in {"INITIALIZE_MOTOR_POSITION_PID_CONTROLLER",
                    "INITIALIZE_PLATFORM_POSITION_PID_CONTROLLER"} -> 3
    [] command = "GET_TEMPERATURE" -> 4
    [] command = "GET_IMU" -> 5
    [] command \in {"SUBSCRIBE", "UNSUBSCRIBE"} -> 6
    [] command = "GET_MOTOR_CURRENT" -> 7
    [] command = "GET_MOTOR_FAULTS" -> 8
    [] command = "SUBSCRIBE_WITH_MODE" -> 9
    [] command = "CLEAR_MOTOR_FAULTS" -> 10
    [] command \in {"GET_MOTOR_CURRENT_LIMIT", "SET_MOTOR_CURRENT_LIMIT"} -> 11
    [] command = "SUBSCRIBE_CONFIGURED" -> 12
    [] command \in {"GET_PWM_FREQUENCY", "SET_PWM_FREQUENCY"} -> 13
    [] OTHER -> 0

----------------------------------------------------------------------------
(* What a sketch asks before it calls *)

SupportsSensor(link, sensor, index) ==
  /\ link.ready /\ link.profile.known /\ HasSensor(link.profile, sensor, index)
  /\ \/ sensor = "TEMPERATURE" /\ link.minor >= 4 /\ link.wire >= 12
     \/ sensor = "IMU" /\ link.minor >= 5 /\ link.wire >= 52

PwmFrequencyOptions(link) == IF link.profile.known THEN link.profile.pwm ELSE {}

\* Mutant of SupportsPwmFrequency: no look at the protocol minor.
SupportsPwmFrequencyAnyMinor(link) ==
  link.ready /\ link.wire >= 8 /\ PwmFrequencyOptions(link) # {}

SupportsPwmFrequency(link) ==
  link.ready /\ link.minor >= 13 /\ link.wire >= 8 /\ PwmFrequencyOptions(link) # {}

CurrentLimitOptions(link, index) ==
  IF link.profile.known /\ index \in DOMAIN link.profile.motors
  THEN link.profile.motors[index].thresholds ELSE {}

SupportsMotorCurrentLimit(link, index) ==
  /\ link.ready /\ link.minor >= 11 /\ link.wire >= 8
  /\ CurrentLimitOptions(link, index) # {}

\* Mutant of SupportsMotorCurrent: only the minor that introduced it.
SupportsMotorCurrentExactMinor(link, index) ==
  /\ link.ready /\ link.profile.known /\ link.minor = 7 /\ link.wire >= 12
  /\ index \in DOMAIN link.profile.motors
  /\ link.profile.motors[index].currentSense

SupportsMotorCurrent(link, index) ==
  /\ link.ready /\ link.profile.known /\ link.minor >= 7 /\ link.wire >= 12
  /\ index \in DOMAIN link.profile.motors
  /\ link.profile.motors[index].currentSense

SupportsMotorFaults(link, index) ==
  /\ link.ready /\ link.profile.known /\ link.minor >= 8 /\ link.wire >= 14
  /\ index \in DOMAIN link.profile.motors
  /\ link.profile.motors[index].faultReporting

SupportsTopic(link, topic, index) ==
  /\ link.ready /\ link.profile.known /\ link.minor >= 6
  /\ TopicInfoValid(topic, index) /\ EventFits(topic, link.wire)
  /\ CASE topic = "ENCODER_ODOMETRY" -> index < link.profile.encoders
       [] topic = "PLATFORM_ODOMETRY" -> TRUE
       [] topic \in {"TEMPERATURE", "IMU"} -> HasSensor(link.profile, topic, index)
       [] topic = "MOTOR_FAULTS" -> SupportsMotorFaults(link, index)
       [] topic = "MOTOR_CURRENT" -> SupportsMotorCurrent(link, index)

----------------------------------------------------------------------------
(* What request() refuses *)

\* The interval, trigger, delivery and silence of a subscription request.
SubscriptionArgumentsValid(r) ==
  LET minimum == TopicMinimum[r.topic]
  IN  IF r.command = "SUBSCRIBE_CONFIGURED"
      THEN /\ r.trigger \in {0, 1} /\ r.delivery \in {0, 1}
           /\ r.interval <= MaxInterval /\ r.silence <= MaxInterval
           /\ IF r.trigger = 1
              THEN r.interval = 0 /\ TopicEventSupported(r.topic)
              ELSE r.interval >= minimum
           /\ r.silence # 0 => r.delivery = 1 /\ r.silence >= minimum
      ELSE /\ r.command = "SUBSCRIBE_WITH_MODE" => r.mode \in {0, 1}
           /\ r.interval \in minimum .. MaxInterval

\* Mutant of ServiceInterval: an event subscription keeps its interval of 0.
ServiceIntervalRaw(r) == r.interval

\* interval_ms of the slot after the ACK: how often poll() has to serve it.  0
\* would mark the slot free while the controller streams for it.
ServiceInterval(r) ==
  LET polled == IF r.interval = 0 THEN 10 ELSE r.interval
  IN  IF r.command # "SUBSCRIBE_CONFIGURED" THEN r.interval
      ELSE IF r.silence # 0 /\ r.silence < polled THEN r.silence ELSE polled

\* The subscription commands; hasSlot says that findSubscription() or the
\* search for a free slot found one.
SubscriptionRejection(link, r, hasSlot) ==
  IF \/ r.topic = "MOTOR_FAULTS" /\ link.minor < 8
     \/ r.topic = "MOTOR_CURRENT" /\ link.minor < 7 THEN "UNSUPPORTED_COMMAND"
  ELSE IF ~TopicInfoValid(r.topic, r.index) THEN "INVALID_ARGUMENT"
  ELSE IF r.command = "UNSUBSCRIBE" THEN "NONE"
  ELSE IF ~SubscriptionArgumentsValid(r) THEN "INVALID_ARGUMENT"
  ELSE IF ~EventFits(r.topic, link.wire) THEN "FRAME_TOO_LARGE"
  ELSE IF link.profile.known /\ ~SupportsTopic(link, r.topic, r.index)
       THEN "SENSOR_NOT_AVAILABLE"
  ELSE IF ~hasSlot THEN "SUBSCRIPTION_LIMIT" ELSE "NONE"

PwmRejection(link, r) ==
  LET options == PwmFrequencyOptions(link)
  IN  IF link.profile.known /\ options = {} THEN "SENSOR_NOT_AVAILABLE"
      ELSE IF /\ r.command = "SET_PWM_FREQUENCY"
              /\ \/ options # {} /\ r.frequency \notin options
                 \/ ~PwmFrequencyValid(r.frequency)
           THEN "INVALID_ARGUMENT" ELSE "NONE"

CurrentLimitRejection(link, r) ==
  LET options == CurrentLimitOptions(link, r.index)
  IN  IF r.index > 3 THEN "INVALID_ARGUMENT"
      ELSE IF link.profile.known /\ options = {} THEN "SENSOR_NOT_AVAILABLE"
      ELSE IF /\ r.command = "SET_MOTOR_CURRENT_LIMIT"
              /\ \/ r.threshold = 0
                 \/ options # {} /\ r.threshold \notin options
                 \/ /\ options # {} /\ ~r.enabled
                    /\ ~link.profile.motors[r.index].canDisable
           THEN "INVALID_ARGUMENT" ELSE "NONE"

\* Pull reads of a motor's faults and current, and clearing its faults.
MotorReadRejection(link, r) ==
  IF r.index > 3 THEN "INVALID_ARGUMENT"
  ELSE IF /\ link.profile.known
          /\ ~(IF r.command = "GET_MOTOR_CURRENT"
               THEN SupportsMotorCurrent(link, r.index)
               ELSE SupportsMotorFaults(link, r.index))
       THEN "SENSOR_NOT_AVAILABLE" ELSE "NONE"

\* Mutant of SensorReadRejection: the index is not looked at.
SensorReadRejectionAnyIndex(link, r) ==
  IF link.profile.known /\ link.profile.temperature \cup link.profile.imu = {}
  THEN "SENSOR_NOT_AVAILABLE" ELSE "NONE"

\* Mutant of SensorReadRejection: a board that is not known has no sensors.
SensorReadRejectionGuess(link, r) ==
  IF \/ ~link.profile.known
     \/ r.index \notin link.profile.temperature \cup link.profile.imu
  THEN "SENSOR_NOT_AVAILABLE" ELSE "NONE"

SensorReadRejection(link, r) ==
  LET sensor == IF r.command = "GET_TEMPERATURE" THEN "TEMPERATURE" ELSE "IMU"
  IN  IF link.profile.known /\ ~HasSensor(link.profile, sensor, r.index)
      THEN "SENSOR_NOT_AVAILABLE" ELSE "NONE"

\* Every check request() makes before it allocates an ID, in its order.
Rejection(link, r, hasSlot) ==
  IF ~link.ready THEN "NOT_READY"
  ELSE IF link.minor < RequiredMinor(r.command) THEN "UNSUPPORTED_COMMAND"
  ELSE IF r.command \in Subscribing \cup {"UNSUBSCRIBE"}
       THEN SubscriptionRejection(link, r, hasSlot)
  ELSE IF r.command \in {"GET_PWM_FREQUENCY", "SET_PWM_FREQUENCY"}
       THEN PwmRejection(link, r)
  ELSE IF r.command \in {"GET_MOTOR_CURRENT_LIMIT", "SET_MOTOR_CURRENT_LIMIT"}
       THEN CurrentLimitRejection(link, r)
  ELSE IF r.command \in {"GET_MOTOR_FAULTS", "CLEAR_MOTOR_FAULTS", "GET_MOTOR_CURRENT"}
       THEN MotorReadRejection(link, r)
  ELSE IF r.command \in {"GET_TEMPERATURE", "GET_IMU"}
       THEN SensorReadRejection(link, r)
  ELSE IF /\ r.command = "SUBSCRIBE_ODOMETRY" /\ r.source = 4
          /\ link.wire < 38
       THEN "FRAME_TOO_LARGE" ELSE "NONE"

\* The KinisiErrorCode stored beside a local refusal: the hardware gates pass
\* the matching code, the session and subscription gates leave NONE.
RejectionCode(r, failure) ==
  IF /\ failure \in {"INVALID_ARGUMENT", "SENSOR_NOT_AVAILABLE"}
     /\ r.command \notin Subscribing \cup {"UNSUBSCRIBE"}
  THEN failure ELSE "NONE"
=============================================================================
