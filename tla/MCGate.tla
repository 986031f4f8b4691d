------------------------------- MODULE MCGate -------------------------------
(***************************************************************************)
(* Every board profile (and none), every protocol minor, and Wire buffers  *)
(* on both sides of the sizes the gates compare with; requests with values *)
(* on both sides of every limit.                                           *)
(***************************************************************************)
EXTENDS GateCheck

Minors == 1 .. 14
Wires == {20, 24, 32, 39, 40, 52, 64}

Known == {LookupBoardProfile(b) : b \in {<<1, 0, 1, 0>>, <<1, 0, 3, 0>>, <<1, 0, 4, 0>>}}

AllLinks ==
  [ready : {TRUE}, minor : Minors, profile : Known \cup {NoProfile}, wire : Wires]
  \cup {[ready |-> FALSE, minor |-> 0, profile |-> NoProfile, wire |-> 32]}

MotorQuestions ==
  [command : {"GET_MOTOR_CURRENT", "GET_MOTOR_FAULTS", "CLEAR_MOTOR_FAULTS",
              "GET_MOTOR_CURRENT_LIMIT"}, index : {0, 3, 4}]
  \cup [command : {"SET_MOTOR_CURRENT_LIMIT"}, index : {0, 4},
        enabled : BOOLEAN, threshold : {0, 4000, 4001}]

OtherQuestions ==
  [command : {"GET_TEMPERATURE", "GET_IMU"}, index : {0, 1}]
  \cup [command : {"SET_PWM_FREQUENCY"}, frequency : {20000, 20001}]
  \cup [command : {"GET_PWM_FREQUENCY", "SET_MOTOR_POSITION", "STOP_MOTOR",
                   "INITIALIZE_MOTOR_POSITION_PID_CONTROLLER"}]
  \cup [command : {"SUBSCRIBE_ODOMETRY"}, source : {0, 4, 5}]

Intervals(topic) == {0, TopicMinimum[topic] - 1, TopicMinimum[topic], MaxInterval + 1}

SubscriptionQuestions ==
  UNION {[command : {"SUBSCRIBE"}, topic : {t}, index : {0, 1, 4},
          interval : Intervals(t)] : t \in Topics}
  \cup UNION {[command : {"SUBSCRIBE_WITH_MODE"}, topic : {t}, index : {0},
               interval : {TopicMinimum[t]}, mode : {1, 2}] : t \in Topics}
  \cup [command : {"UNSUBSCRIBE"}, topic : Topics \cup {"UNKNOWN"}, index : {0, 4}]

ConfiguredQuestions ==
  UNION {[command : {"SUBSCRIBE_CONFIGURED"}, topic : {t}, index : {0},
          interval : {0, 1000}, trigger : {0, 1, 2}, delivery : {0, 1},
          silence : {0, 1, TopicMinimum[t]}] : t \in Topics}

AllQuestions ==
  MotorQuestions \cup OtherQuestions \cup SubscriptionQuestions \cup ConfiguredQuestions

RetiredQuestions == [command : {"SUBSCRIBE_ODOMETRY"}, source : {0, 4, 5}]
=============================================================================
