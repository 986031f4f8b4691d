------------------------------ MODULE MCSystem ------------------------------
(***************************************************************************)
(* Instances of KinisiSystem for TLC: one board, one encoder source that   *)
(* both kinds of subscription can name, and one sensor.                    *)
(***************************************************************************)
EXTENDS KinisiSystem

Board04 == [board |-> <<1, 0, 4, 0>>, major |-> 2, minor |-> 13]
Unknown26 == [board |-> <<9, 0, 0, 0>>, major |-> 2, minor |-> 6]
Plain21 == [board |-> <<1, 0, 1, 0>>, major |-> 2, minor |-> 1]
Major3 == [board |-> <<1, 0, 4, 0>>, major |-> 3, minor |-> 0]

Encoder == [command |-> "SUBSCRIBE", topic |-> "ENCODER_ODOMETRY", index |-> 0,
            interval |-> 100]
EncoderOff == [command |-> "UNSUBSCRIBE", topic |-> "ENCODER_ODOMETRY", index |-> 0]
Temperature == [command |-> "SUBSCRIBE", topic |-> "TEMPERATURE", index |-> 0,
                interval |-> 250]
LegacyEncoder == [command |-> "SUBSCRIBE_ODOMETRY", source |-> 0, interval |-> 100]
LegacyEncoderOff == [command |-> "UNSUBSCRIBE_ODOMETRY", source |-> 0]
MonitorOff == [command |-> "SET_HEARTBEAT_CONFIG", enabled |-> FALSE, timeout |-> 0]
Stop == [command |-> "STOP_MOTOR", index |-> 0]

ControllerState == [command |-> "GET_MOTOR_CONTROLLER_STATE", index |-> 0]
Current == [command |-> "GET_MOTOR_CURRENT", index |-> 0]
FastEncoder == [Encoder EXCEPT !.interval = 1]
FaultEvents == [command |-> "SUBSCRIBE_CONFIGURED", topic |-> "MOTOR_FAULTS", index |-> 0,
                interval |-> 0, trigger |-> 1, delivery |-> 1, silence |-> 5000]

OneBoard == {Board04}
AllBoards == {Board04, Unknown26, Plain21, Major3}
AllRequests == {Encoder, EncoderOff, Temperature, LegacyEncoder,
                LegacyEncoderOff, MonitorOff, Stop}
FewRequests == {Encoder, Stop}
GatedRequests == {Encoder, FastEncoder, Temperature, FaultEvents, Current, ControllerState}
=============================================================================
