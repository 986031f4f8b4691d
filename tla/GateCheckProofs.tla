--------------------------- MODULE GateCheckProofs ---------------------------
(***************************************************************************)
(* Proofs about GateCheck, for every board profile, protocol minor, Wire   *)
(* buffer and request, where the run has tables of them.                   *)
(***************************************************************************)
EXTENDS GateCheck, TLAPS

Link == [ready : BOOLEAN, minor : Nat, profile : BoardProfiles, wire : Nat]

\* What was asked is a question, and the verdict is the gate's.
AskedInv ==
  /\ link \in Links /\ request \in Questions /\ room \in BOOLEAN
  /\ verdict \in {"PENDING", Rejection(link, request, room)}

\* It stays so.
LEMMA AskedInvariant == Spec => []AskedInv
<1>1. Init => AskedInv
  BY DEF Init, AskedInv
<1>2. AskedInv /\ [Ask]_vars => AskedInv'
  BY DEF AskedInv, Ask, vars
<1>. QED
  BY <1>1, <1>2, PTL DEF Spec

\* Minors are compared as numbers.
LEMMA RequiredMinorType ==
  ASSUME NEW command
  PROVE  RequiredMinor(command) \in Nat
BY DEF RequiredMinor

----------------------------------------------------------------------------
(* A later protocol minor *)

\* Each helper and each group of checks only compares the minor from below.
LEMMA SupportsNewer ==
  ASSUME NEW k \in Link, NEW l \in Link, NEW topic, NEW index,
         l.minor >= k.minor, l.ready = k.ready, l.profile = k.profile, l.wire = k.wire
  PROVE  /\ SupportsMotorCurrent(k, index) => SupportsMotorCurrent(l, index)
         /\ SupportsMotorFaults(k, index) => SupportsMotorFaults(l, index)
         /\ SupportsTopic(k, topic, index) => SupportsTopic(l, topic, index)
<1>1. k.minor \in Nat /\ l.minor \in Nat
  BY DEF Link
<1>2. SupportsMotorCurrent(k, index) => SupportsMotorCurrent(l, index)
  BY <1>1 DEF SupportsMotorCurrent
<1>3. SupportsMotorFaults(k, index) => SupportsMotorFaults(l, index)
  BY <1>1 DEF SupportsMotorFaults
<1>4. SupportsTopic(k, topic, index) => SupportsTopic(l, topic, index)
  <2>. SUFFICES ASSUME SupportsTopic(k, topic, index) PROVE SupportsTopic(l, topic, index)
    OBVIOUS
  <2>1. l.ready /\ l.profile.known /\ l.minor >= 6
    BY <1>1 DEF SupportsTopic
  <2>2. TopicInfoValid(topic, index) /\ EventFits(topic, l.wire)
    BY DEF SupportsTopic
  <2>3. topic \in {"ENCODER_ODOMETRY", "PLATFORM_ODOMETRY", "TEMPERATURE", "IMU"}
    => SupportsTopic(l, topic, index)
    BY <2>1, <2>2 DEF SupportsTopic
  <2>4. topic \in {"MOTOR_FAULTS", "MOTOR_CURRENT"} => SupportsTopic(l, topic, index)
    BY <1>2, <1>3, <2>1, <2>2 DEF SupportsTopic
  <2>. QED
    BY <2>2, <2>3, <2>4 DEF TopicInfoValid, Topics
<1>. QED
  BY <1>2, <1>3, <1>4

\* So does every check of request().
LEMMA NewerRefusesNoMore ==
  ASSUME NEW k \in Link, NEW l \in Link, NEW r, NEW hasSlot \in BOOLEAN,
         l.minor >= k.minor, l.ready = k.ready, l.profile = k.profile, l.wire = k.wire,
         Rejection(k, r, hasSlot) = "NONE"
  PROVE  Rejection(l, r, hasSlot) = "NONE"
<1>1. k.minor \in Nat /\ l.minor \in Nat
  BY DEF Link
<1>2. l.ready /\ ~(l.minor < RequiredMinor(r.command))
  BY <1>1, RequiredMinorType DEF Rejection
<1>3. SubscriptionRejection(k, r, hasSlot) = "NONE" =>
        SubscriptionRejection(l, r, hasSlot) = "NONE"
  BY <1>1, SupportsNewer DEF SubscriptionRejection
<1>4. PwmRejection(l, r) = PwmRejection(k, r)
  BY DEF PwmRejection, PwmFrequencyOptions
<1>5. CurrentLimitRejection(l, r) = CurrentLimitRejection(k, r)
  BY DEF CurrentLimitRejection, CurrentLimitOptions
<1>6. MotorReadRejection(k, r) = "NONE" => MotorReadRejection(l, r) = "NONE"
  BY SupportsNewer DEF MotorReadRejection
<1>7. SensorReadRejection(l, r) = SensorReadRejection(k, r)
  BY DEF SensorReadRejection
<1>. QED
  BY <1>2, <1>3, <1>4, <1>5, <1>6, <1>7 DEF Rejection

\* A firmware update loses no command, for any two minors, any board and buffer.
THEOREM FirmwareUpdateLosesNothing == Spec => []NewerFirmwareRefusesNoMore
<1>1. AskedInv => NewerFirmwareRefusesNoMore
  <2>. SUFFICES ASSUME AskedInv, verdict = "NONE", NEW l \in Links,
                       l.minor >= link.minor, [l EXCEPT !.minor = link.minor] = link
                PROVE  Rejection(l, request, room) = "NONE"
    BY DEF NewerFirmwareRefusesNoMore
  <2>1. link \in Link /\ l \in Link
    BY LinkAssumption DEF AskedInv, Link
  <2>2. l.ready = link.ready /\ l.profile = link.profile /\ l.wire = link.wire
    BY <2>1 DEF Link
  <2>3. Rejection(link, request, room) = "NONE" /\ room \in BOOLEAN
    BY DEF AskedInv
  <2>. QED
    BY <2>1, <2>2, <2>3, NewerRefusesNoMore
<1>. QED
  BY <1>1, AskedInvariant, PTL

----------------------------------------------------------------------------
(* A board without a bundled profile *)

\* No check of the hardware refuses what it would pass for some known board.
LEMMA UnknownPasses ==
  ASSUME NEW k \in Link, NEW l \in Link, NEW r, NEW hasSlot \in BOOLEAN,
         k.profile = NoProfile, l.minor = k.minor, l.ready = k.ready, l.wire = k.wire,
         Rejection(l, r, hasSlot) = "NONE"
  PROVE  Rejection(k, r, hasSlot) = "NONE"
<1>1. ~k.profile.known
  BY DEF NoProfile
<1>2. SubscriptionRejection(l, r, hasSlot) = "NONE" =>
        SubscriptionRejection(k, r, hasSlot) = "NONE"
  BY <1>1 DEF SubscriptionRejection
<1>3. PwmRejection(l, r) = "NONE" => PwmRejection(k, r) = "NONE"
  BY <1>1 DEF PwmRejection, PwmFrequencyOptions
<1>4. CurrentLimitRejection(l, r) = "NONE" => CurrentLimitRejection(k, r) = "NONE"
  BY <1>1 DEF CurrentLimitRejection, CurrentLimitOptions
<1>5. MotorReadRejection(l, r) = "NONE" => MotorReadRejection(k, r) = "NONE"
  BY <1>1 DEF MotorReadRejection
<1>6. SensorReadRejection(k, r) = "NONE"
  BY <1>1 DEF SensorReadRejection
<1>. QED
  BY <1>2, <1>3, <1>4, <1>5, <1>6 DEF Rejection

\* A board without a bundled profile is never treated more strictly than one of any
\* other profile: its hardware is for the controller to judge.
THEOREM UnknownBoardIsNotGuessed == Spec => []UnknownBoardNotGuessed
<1>1. AskedInv => UnknownBoardNotGuessed
  <2>. SUFFICES ASSUME AskedInv, verdict \notin {"PENDING", "NONE"}, ~link.profile.known,
                       NEW l \in Links, [l EXCEPT !.profile = NoProfile] = link
                PROVE  Rejection(l, request, room) # "NONE"
    BY DEF UnknownBoardNotGuessed
  <2>1. link \in Link /\ l \in Link
    BY LinkAssumption DEF AskedInv, Link
  <2>2. /\ link.profile = NoProfile
        /\ l.minor = link.minor /\ l.ready = link.ready /\ l.wire = link.wire
    BY <2>1 DEF Link
  <2>3. Rejection(link, request, room) # "NONE" /\ room \in BOOLEAN
    BY DEF AskedInv
  <2>. QED
    BY <2>1, <2>2, <2>3, UnknownPasses
<1>. QED
  BY <1>1, AskedInvariant, PTL

----------------------------------------------------------------------------
(* Subscriptions that are accepted *)

\* The bounds of a subscription's interval, whose value the proofs below need not see.
LEMMA Intervals ==
  /\ MaxInterval \in Nat /\ MaxInterval >= 250
  /\ \A topic \in Topics : TopicMinimum[topic] \in 2 .. 250
BY SMT DEF MaxInterval, Topics, TopicMinimum

\* A subscription that is accepted can be served, for every interval, silence, trigger
\* and Wire buffer: its slot counts as taken, poll() comes round in time and its events
\* fit both buffers.
THEOREM AcceptedIsServed == Spec => []AcceptedSubscriptionIsServed
<1>1. AskedInv => AcceptedSubscriptionIsServed
  <2>. SUFFICES ASSUME AskedInv, verdict = "NONE", request.command \in Subscribing
                PROVE  /\ ServiceInterval(request) \in 1 .. MaxInterval
                       /\ request.command = "SUBSCRIBE_CONFIGURED" /\ request.silence # 0 =>
                            ServiceInterval(request) <= request.silence
                       /\ TopicSize[request.topic] + 6 <= link.wire
                       /\ TopicSize[request.topic] + 6 <= 64
    BY DEF AcceptedSubscriptionIsServed
  <2>1. SubscriptionRejection(link, request, room) = "NONE"
    BY DEF AskedInv, Rejection
  <2>2. /\ request.topic \in Topics
        /\ SubscriptionArgumentsValid(request) /\ EventFits(request.topic, link.wire)
    BY <2>1 DEF SubscriptionRejection, Subscribing, TopicInfoValid
  <2>3. TopicMinimum[request.topic] \in 2 .. 250
    BY <2>2, Intervals
  <2>4. /\ request.interval \in Nat
        /\ request.command = "SUBSCRIBE_CONFIGURED" => request.silence \in Nat
    BY QuestionAssumption DEF AskedInv
  <2>5. CASE request.command = "SUBSCRIBE_CONFIGURED"
    <3>1. /\ request.interval <= MaxInterval /\ request.silence <= MaxInterval
      BY <2>2, <2>5 DEF SubscriptionArgumentsValid
    <3>. QED
      BY <2>2, <2>4, <2>5, <3>1, Intervals DEF ServiceInterval, EventFits
  <2>6. CASE request.command # "SUBSCRIBE_CONFIGURED"
    <3>1. request.interval \in TopicMinimum[request.topic] .. MaxInterval
      BY <2>2, <2>6 DEF SubscriptionArgumentsValid
    <3>. QED
      BY <2>2, <2>3, <2>4, <2>6, <3>1, Intervals DEF ServiceInterval, EventFits
  <2>. QED
    BY <2>5, <2>6
<1>. QED
  BY <1>1, AskedInvariant, PTL

----------------------------------------------------------------------------
(* Frame shapes *)

\* An entry of the first table is found there.
LEMMA BesideFirst ==
  ASSUME NEW f, NEW g, NEW c \in DOMAIN f
  PROVE  c \in DOMAIN Beside(f, g) /\ Beside(f, g)[c] = f[c]
BY DEF Beside

\* An entry that only the second table has is found in it.
LEMMA BesideSecond ==
  ASSUME NEW f, NEW g, NEW c \in DOMAIN g, c \notin DOMAIN f
  PROVE  c \in DOMAIN Beside(f, g) /\ Beside(f, g)[c] = g[c]
BY DEF Beside

\* The tables have the shapes of the commands below; no command is in two of them.
LEMMA TableShapes ==
  /\ \A c \in DOMAIN SensorShapes : Shapes[c] = SensorShapes[c]
  /\ \A c \in DOMAIN HardwareLimitShapes : Shapes[c] = HardwareLimitShapes[c]
  /\ \A c \in DOMAIN SubscriptionShapes : Shapes[c] = SubscriptionShapes[c]
<1>. DEFINE others == Beside(MotorShapes, Beside(EncoderShapes, Beside(BoardIoShapes,
                        Beside(PlatformShapes, Beside(ConnectionShapes,
                        Beside(PositionShapes, InitShape))))))
            rest == Beside(SubscriptionShapes, others)
            limits == Beside(HardwareLimitShapes, rest)
<1>1. Shapes = Beside(SensorShapes, limits)
  BY DEF Shapes
<1>. HIDE DEF others
<1>2. \A c \in DOMAIN HardwareLimitShapes : c \notin DOMAIN SensorShapes
  BY DEF HardwareLimitShapes, SensorShapes
<1>3. \A c \in DOMAIN SubscriptionShapes :
        c \notin DOMAIN SensorShapes /\ c \notin DOMAIN HardwareLimitShapes
  BY DEF SubscriptionShapes, HardwareLimitShapes, SensorShapes
<1>. HIDE DEF rest
<1>4. \A c \in DOMAIN HardwareLimitShapes :
        c \in DOMAIN limits /\ limits[c] = HardwareLimitShapes[c]
  BY BesideFirst
<1>5. \A c \in DOMAIN SubscriptionShapes :
        c \in DOMAIN rest /\ rest[c] = SubscriptionShapes[c]
  BY BesideFirst DEF rest
<1>6. \A c \in DOMAIN SubscriptionShapes :
        c \in DOMAIN limits /\ limits[c] = SubscriptionShapes[c]
  BY <1>3, <1>5, BesideSecond
<1>. HIDE DEF limits
<1>. QED
  BY <1>1, <1>2, <1>3, <1>4, <1>6, BesideFirst, BesideSecond

\* The Wire buffer each offered command needs, its ERROR frame of 6 bytes included.
LEMMA FitsFrom ==
  ASSUME NEW wire \in Nat
  PROVE  /\ FrameFits("GET_TEMPERATURE", wire) <=> wire >= 12
         /\ FrameFits("GET_IMU", wire) <=> wire >= 52
         /\ FrameFits("GET_MOTOR_CURRENT", wire) <=> wire >= 12
         /\ FrameFits("GET_MOTOR_FAULTS", wire) <=> wire >= 14
         /\ FrameFits("GET_PWM_FREQUENCY", wire) <=> wire >= 8
         /\ FrameFits("SET_PWM_FREQUENCY", wire) <=> wire >= 8
         /\ FrameFits("GET_MOTOR_CURRENT_LIMIT", wire) <=> wire >= 7
         /\ FrameFits("SET_MOTOR_CURRENT_LIMIT", wire) <=> wire >= 8
         /\ FrameFits("SUBSCRIBE", wire) <=> wire >= 10
<1>1. /\ Shapes["GET_TEMPERATURE"] = <<1, 8>>
      /\ Shapes["GET_IMU"] = <<1, 48>>
      /\ Shapes["GET_MOTOR_CURRENT"] = <<1, 8>>
      /\ Shapes["GET_MOTOR_FAULTS"] = <<1, 10>>
  BY TableShapes DEF SensorShapes
<1>2. /\ Shapes["GET_PWM_FREQUENCY"] = <<0, 4>>
      /\ Shapes["SET_PWM_FREQUENCY"] = <<4, 4>>
      /\ Shapes["GET_MOTOR_CURRENT_LIMIT"] = <<1, 3>>
      /\ Shapes["SET_MOTOR_CURRENT_LIMIT"] = <<4, 3>>
  BY TableShapes DEF HardwareLimitShapes
<1>3. Shapes["SUBSCRIBE"] = <<6, 0>>
  BY TableShapes DEF SubscriptionShapes
<1>. QED
  BY <1>1, <1>2, <1>3 DEF FrameFits

----------------------------------------------------------------------------
(* What the helpers offer *)

\* The arms of Offered, one command each.
LEMMA OfferedArms ==
  ASSUME NEW l, NEW r, Offered(l, r)
  PROVE  \/ r.command = "GET_TEMPERATURE" /\ SupportsSensor(l, "TEMPERATURE", r.index)
         \/ r.command = "GET_IMU" /\ SupportsSensor(l, "IMU", r.index)
         \/ r.command = "GET_MOTOR_CURRENT" /\ SupportsMotorCurrent(l, r.index)
         \/ r.command = "GET_MOTOR_FAULTS" /\ SupportsMotorFaults(l, r.index)
         \/ r.command = "GET_PWM_FREQUENCY" /\ SupportsPwmFrequency(l)
         \/ /\ r.command = "SET_PWM_FREQUENCY"
            /\ SupportsPwmFrequency(l) /\ r.frequency \in PwmFrequencyOptions(l)
         \/ /\ r.command = "GET_MOTOR_CURRENT_LIMIT"
            /\ SupportsMotorCurrentLimit(l, r.index)
         \/ /\ r.command = "SET_MOTOR_CURRENT_LIMIT"
            /\ SupportsMotorCurrentLimit(l, r.index)
            /\ r.threshold \in CurrentLimitOptions(l, r.index)
            /\ r.enabled \/ l.profile.motors[r.index].canDisable
         \/ /\ r.command = "SUBSCRIBE"
            /\ SupportsTopic(l, r.topic, r.index)
            /\ r.interval \in TopicMinimum[r.topic] .. MaxInterval
BY Zenon DEF Offered

\* The minors of the commands below.
LEMMA OfferedMinors ==
  /\ RequiredMinor("GET_TEMPERATURE") = 4
  /\ RequiredMinor("GET_IMU") = 5
  /\ RequiredMinor("GET_MOTOR_CURRENT") = 7
  /\ RequiredMinor("GET_MOTOR_FAULTS") = 8
  /\ RequiredMinor("GET_PWM_FREQUENCY") = 13
  /\ RequiredMinor("SET_PWM_FREQUENCY") = 13
  /\ RequiredMinor("GET_MOTOR_CURRENT_LIMIT") = 11
  /\ RequiredMinor("SET_MOTOR_CURRENT_LIMIT") = 11
  /\ RequiredMinor("SUBSCRIBE") = 6
BY Zenon DEF RequiredMinor

\* Ready and new enough, an offered request gets to the checks of its group.
LEMMA OfferedIsNew ==
  ASSUME NEW l \in Link, NEW r, Offered(l, r)
  PROVE  l.ready /\ ~(l.minor < RequiredMinor(r.command)) /\ FrameFits(r.command, l.wire)
<1>1. l.minor \in Nat /\ l.wire \in Nat
  BY DEF Link
<1>2. CASE r.command \in {"GET_TEMPERATURE", "GET_IMU"}
  <2>1. \/ r.command = "GET_TEMPERATURE" /\ l.ready /\ l.minor >= 4 /\ l.wire >= 12
        \/ r.command = "GET_IMU" /\ l.ready /\ l.minor >= 5 /\ l.wire >= 52
    BY <1>2, OfferedArms DEF SupportsSensor
  <2>. QED
    BY <1>1, <2>1, OfferedMinors, FitsFrom
<1>3. CASE r.command \in {"GET_MOTOR_CURRENT", "GET_MOTOR_FAULTS"}
  <2>1. \/ r.command = "GET_MOTOR_CURRENT" /\ l.ready /\ l.minor >= 7 /\ l.wire >= 12
        \/ r.command = "GET_MOTOR_FAULTS" /\ l.ready /\ l.minor >= 8 /\ l.wire >= 14
    BY <1>3, OfferedArms DEF SupportsMotorCurrent, SupportsMotorFaults
  <2>. QED
    BY <1>1, <2>1, OfferedMinors, FitsFrom
<1>4. CASE r.command \in {"GET_PWM_FREQUENCY", "SET_PWM_FREQUENCY"}
  <2>1. l.ready /\ l.minor >= 13 /\ l.wire >= 8
    BY <1>4, OfferedArms DEF SupportsPwmFrequency
  <2>. QED
    BY <1>1, <1>4, <2>1, OfferedMinors, FitsFrom
<1>5. CASE r.command \in {"GET_MOTOR_CURRENT_LIMIT", "SET_MOTOR_CURRENT_LIMIT"}
  <2>1. l.ready /\ l.minor >= 11 /\ l.wire >= 8
    BY <1>5, OfferedArms DEF SupportsMotorCurrentLimit
  <2>. QED
    BY <1>1, <1>5, <2>1, OfferedMinors, FitsFrom
<1>6. CASE r.command = "SUBSCRIBE"
  <2>1. /\ l.ready /\ l.minor >= 6
        /\ TopicInfoValid(r.topic, r.index) /\ EventFits(r.topic, l.wire)
    BY <1>6, OfferedArms DEF SupportsTopic
  <2>2. l.wire >= 10
    BY <1>1, <2>1 DEF TopicInfoValid, Topics, EventFits, TopicSize
  <2>. QED
    BY <1>1, <1>6, <2>1, <2>2, OfferedMinors, FitsFrom
<1>. QED
  BY <1>2, <1>3, <1>4, <1>5, <1>6, OfferedArms

\* What is known of a known board.
LEMMA KnownBoard ==
  ASSUME NEW p \in BoardProfiles, p.known
  PROVE  /\ p.pwm \subseteq AllPwm
         /\ DOMAIN p.motors = 0 .. 3
         /\ \A m \in 0 .. 3 : p.motors[m].thresholds \subseteq Nat \ {0}
<1>1. p # NoProfile
  BY DEF NoProfile
<1>2. p \in [known : {TRUE}, encoders : Nat, pwm : SUBSET AllPwm,
             motors : [0 .. 3 -> MotorFeatures],
             temperature : SUBSET Nat, imu : SUBSET Nat]
  BY <1>1 DEF BoardProfiles
<1>3. p.pwm \subseteq AllPwm /\ p.motors \in [0 .. 3 -> MotorFeatures]
  BY <1>2
<1>4. \A f \in MotorFeatures : f.thresholds \subseteq Nat \ {0}
  BY DEF MotorFeatures
<1>5. DOMAIN p.motors = 0 .. 3 /\ \A m \in 0 .. 3 : p.motors[m] \in MotorFeatures
  BY <1>3
<1>. QED
  BY <1>3, <1>4, <1>5

\* Nor does a check of its group refuse it.
LEMMA OfferedPasses ==
  ASSUME NEW l \in Link, NEW r, NEW hasSlot \in BOOLEAN, Offered(l, r),
         r.command = "SUBSCRIBE" => r.index \in Nat /\ r.interval \in Nat
  PROVE  Rejection(l, r, hasSlot)
           \in {"NONE"} \cup IF hasSlot THEN {} ELSE {"SUBSCRIPTION_LIMIT"}
<1>1. l.ready /\ ~(l.minor < RequiredMinor(r.command))
  BY OfferedIsNew
<1>2. l.minor \in Nat /\ l.profile \in BoardProfiles
  BY DEF Link
<1>3. CASE r.command \in {"GET_TEMPERATURE", "GET_IMU"}
  <2>1. SensorReadRejection(l, r) = "NONE"
    BY <1>3, OfferedArms DEF SensorReadRejection, SupportsSensor
  <2>. QED
    BY <1>1, <1>3, <2>1 DEF Rejection, Subscribing
<1>4. CASE r.command \in {"GET_MOTOR_CURRENT", "GET_MOTOR_FAULTS"}
  <2>1. /\ r.command = "GET_MOTOR_CURRENT" => SupportsMotorCurrent(l, r.index)
        /\ r.command = "GET_MOTOR_FAULTS" => SupportsMotorFaults(l, r.index)
    BY <1>4, OfferedArms, Zenon
  <2>2. l.profile.known /\ r.index \in DOMAIN l.profile.motors
    BY <1>4, <2>1, Zenon DEF SupportsMotorCurrent, SupportsMotorFaults
  <2>3. r.index \in 0 .. 3
    BY <1>2, <2>2, KnownBoard, Zenon
  <2>4. MotorReadRejection(l, r) = "NONE"
    BY <1>4, <2>1, <2>3 DEF MotorReadRejection
  <2>. QED
    BY <1>1, <1>4, <2>4 DEF Rejection, Subscribing
<1>5. CASE r.command \in {"GET_PWM_FREQUENCY", "SET_PWM_FREQUENCY"}
  <2>1. /\ PwmFrequencyOptions(l) # {}
        /\ r.command = "SET_PWM_FREQUENCY" => r.frequency \in PwmFrequencyOptions(l)
    BY <1>5, OfferedArms DEF SupportsPwmFrequency
  <2>2. l.profile.known /\ PwmFrequencyOptions(l) = l.profile.pwm
    BY <2>1, Zenon DEF PwmFrequencyOptions
  <2>3. PwmFrequencyOptions(l) \subseteq AllPwm
    BY <1>2, <2>2, KnownBoard, Zenon
  <2>4. \A hz \in PwmFrequencyOptions(l) : PwmFrequencyValid(hz)
    BY <2>3 DEF AllPwm, PwmFrequencyValid
  <2>5. PwmRejection(l, r) = "NONE"
    BY <2>1, <2>4 DEF PwmRejection
  <2>. QED
    BY <1>1, <1>5, <2>5 DEF Rejection, Subscribing
<1>6. CASE r.command \in {"GET_MOTOR_CURRENT_LIMIT", "SET_MOTOR_CURRENT_LIMIT"}
  <2>1. /\ CurrentLimitOptions(l, r.index) # {}
        /\ r.command = "SET_MOTOR_CURRENT_LIMIT" =>
             /\ r.threshold \in CurrentLimitOptions(l, r.index)
             /\ r.enabled \/ l.profile.motors[r.index].canDisable
    BY <1>6, OfferedArms DEF SupportsMotorCurrentLimit
  <2>2. /\ l.profile.known /\ r.index \in DOMAIN l.profile.motors
        /\ CurrentLimitOptions(l, r.index) = l.profile.motors[r.index].thresholds
    BY <2>1, Zenon DEF CurrentLimitOptions
  <2>3. r.index \in 0 .. 3 /\ CurrentLimitOptions(l, r.index) \subseteq Nat \ {0}
    BY <1>2, <2>2, KnownBoard, Zenon
  <2>4. ~(r.index > 3)
    BY <2>3
  <2>5. \A t \in CurrentLimitOptions(l, r.index) : t # 0
    BY <2>3
  <2>6. CurrentLimitRejection(l, r) = "NONE"
    BY <1>6, <2>1, <2>2, <2>4, <2>5, Zenon DEF CurrentLimitRejection
  <2>. QED
    BY <1>1, <1>6, <2>6 DEF Rejection, Subscribing
<1>7. CASE r.command = "SUBSCRIBE"
  <2>1. /\ SupportsTopic(l, r.topic, r.index)
        /\ r.interval \in TopicMinimum[r.topic] .. MaxInterval
    BY <1>7, OfferedArms
  <2>2. TopicInfoValid(r.topic, r.index) /\ EventFits(r.topic, l.wire)
    BY <2>1 DEF SupportsTopic
  <2>3. /\ r.topic = "MOTOR_FAULTS" => SupportsMotorFaults(l, r.index)
        /\ r.topic = "MOTOR_CURRENT" => SupportsMotorCurrent(l, r.index)
    BY <2>1, Zenon DEF SupportsTopic
  <2>4. ~(r.topic = "MOTOR_FAULTS" /\ l.minor < 8) /\ ~(r.topic = "MOTOR_CURRENT" /\ l.minor < 7)
    BY <1>2, <2>3 DEF SupportsMotorFaults, SupportsMotorCurrent
  <2>5. SubscriptionArgumentsValid(r)
    BY <1>7, <2>1 DEF SubscriptionArgumentsValid
  <2>6. SubscriptionRejection(l, r, hasSlot)
          \in {"NONE"} \cup IF hasSlot THEN {} ELSE {"SUBSCRIPTION_LIMIT"}
    BY <1>7, <2>1, <2>2, <2>4, <2>5 DEF SubscriptionRejection
  <2>. QED
    BY <1>1, <1>7, <2>6 DEF Rejection, Subscribing
<1>. QED
  BY <1>3, <1>4, <1>5, <1>6, <1>7, OfferedArms

\* What supports...() and the option lists offer passes every local check of request()
\* and fits in send(), for every Wire buffer, firmware, board and request.
THEOREM OfferIsKept == Spec => []OfferedIsAccepted
<1>1. AskedInv => OfferedIsAccepted
  <2>. SUFFICES ASSUME AskedInv, verdict # "PENDING", Offered(link, request)
                PROVE  /\ verdict \in {"NONE"} \cup IF room THEN {} ELSE {"SUBSCRIPTION_LIMIT"}
                       /\ FrameFits(request.command, link.wire)
    BY DEF OfferedIsAccepted
  <2>1. link \in Link /\ room \in BOOLEAN /\ verdict = Rejection(link, request, room)
    BY LinkAssumption DEF AskedInv, Link
  <2>2. request.command = "SUBSCRIBE" => request.index \in Nat /\ request.interval \in Nat
    BY QuestionAssumption DEF AskedInv, Subscribing
  <2>. QED
    BY <2>1, <2>2, OfferedIsNew, OfferedPasses
<1>. QED
  BY <1>1, AskedInvariant, PTL

\* A read that request() sends to a known board in a frame that fits is one the helper
\* offers: no sensor that is not fitted is read.
THEOREM NoUnfittedSensorRead == Spec => []AcceptedReadIsOffered
<1>1. AskedInv => AcceptedReadIsOffered
  <2>. SUFFICES ASSUME AskedInv, verdict = "NONE", request.command \in Reads, link.profile.known,
                       FrameFits(request.command, link.wire)
                PROVE  Offered(link, request)
    BY DEF AcceptedReadIsOffered
  <2>1. link \in Link /\ Rejection(link, request, room) = "NONE"
    BY LinkAssumption DEF AskedInv, Link
  <2>2. link.minor \in Nat /\ link.wire \in Nat
    BY <2>1 DEF Link
  <2>3. link.ready /\ ~(link.minor < RequiredMinor(request.command))
    BY <2>1 DEF Rejection
  <2>4. CASE request.command = "GET_TEMPERATURE"
    <3>1. SensorReadRejection(link, request) = "NONE"
      BY <2>1, <2>4 DEF Rejection, Subscribing
    <3>2. HasSensor(link.profile, "TEMPERATURE", request.index)
      BY <2>4, <3>1 DEF SensorReadRejection
    <3>3. link.minor >= 4 /\ link.wire >= 12
      BY <2>2, <2>3, <2>4, OfferedMinors, FitsFrom
    <3>4. SupportsSensor(link, "TEMPERATURE", request.index)
      BY <2>3, <3>2, <3>3 DEF SupportsSensor
    <3>. QED
      BY <2>4, <3>4, Zenon DEF Offered
  <2>5. CASE request.command = "GET_IMU"
    <3>1. SensorReadRejection(link, request) = "NONE"
      BY <2>1, <2>5 DEF Rejection, Subscribing
    <3>2. HasSensor(link.profile, "IMU", request.index)
      BY <2>5, <3>1 DEF SensorReadRejection
    <3>3. link.minor >= 5 /\ link.wire >= 52
      BY <2>2, <2>3, <2>5, OfferedMinors, FitsFrom
    <3>4. SupportsSensor(link, "IMU", request.index)
      BY <2>3, <3>2, <3>3 DEF SupportsSensor
    <3>. QED
      BY <2>5, <3>4, Zenon DEF Offered
  <2>6. CASE request.command \in {"GET_MOTOR_CURRENT", "GET_MOTOR_FAULTS"}
    <3>1. MotorReadRejection(link, request) = "NONE"
      BY <2>1, <2>6 DEF Rejection, Subscribing
    <3>2. /\ request.command = "GET_MOTOR_CURRENT" => SupportsMotorCurrent(link, request.index)
          /\ request.command = "GET_MOTOR_FAULTS" => SupportsMotorFaults(link, request.index)
      BY <2>6, <3>1 DEF MotorReadRejection
    <3>. QED
      BY <2>6, <3>2, Zenon DEF Offered
  <2>. QED
    BY <2>4, <2>5, <2>6 DEF Reads
<1>. QED
  BY <1>1, AskedInvariant, PTL
=============================================================================
