------------------------- MODULE KinisiBoardProfiles -------------------------
(***************************************************************************)
(* The bundled hardware profiles and their lookup by exact board revision  *)
(* (kinisi_board_profiles.cpp/.h).  A profile keeps what a gate looks at.  *)
(***************************************************************************)
EXTENDS Integers

\* No profile: profile_known_ is false (unknown board, or no session).
NoProfile == [known |-> FALSE]

AllPwm == {10000, 20000, 25000, 50000, 100000}

\* motor_features of a board whose motors have no sensing.
PlainMotor == [currentSense |-> FALSE, faultReporting |-> FALSE,
               thresholds |-> {}, canDisable |-> FALSE]

\* motor_features of a board whose motors have every feature.
FullMotor == [currentSense |-> TRUE, faultReporting |-> TRUE,
              thresholds |-> {4000, 5400, 6500, 7000}, canDisable |-> TRUE]

\* The generated table, keyed by <<model, major, minor, patch>>.
Profiles ==
  LET plain(encoders) ==
        [known |-> TRUE, encoders |-> encoders, pwm |-> AllPwm,
         motors |-> [m \in 0 .. 3 |-> PlainMotor],
         temperature |-> {}, imu |-> {}]
  IN  [b \in {<<1, 0, minor, 0>> : minor \in 1 .. 4} |->
         CASE b[3] = 1 -> plain(1)
           [] b[3] \in {2, 3} -> plain(4)
           [] b[3] = 4 -> [plain(4) EXCEPT !.motors = [m \in 0 .. 3 |-> FullMotor],
                                           !.temperature = {0}, !.imu = {0}]]

\* kinisiLookupBoardProfile: exact match on the whole revision, no fallback.
LookupBoardProfile(board) ==
  IF board \in DOMAIN Profiles THEN Profiles[board] ELSE NoProfile

\* KinisiBoardProfile::hasSensor.
HasSensor(profile, sensor, index) ==
  \/ sensor = "TEMPERATURE" /\ index \in profile.temperature
  \/ sensor = "IMU" /\ index \in profile.imu
=============================================================================
