----------------------------- MODULE GateCheck -----------------------------
(***************************************************************************)
(* One question put to request(): a link, a request, and whether the       *)
(* subscription table has room.  The properties relate its answer to what  *)
(* the supports...() helpers told the sketch, to other boards and firmware *)
(* versions, and to what poll() and the Wire buffer can serve afterwards.  *)
(***************************************************************************)
EXTENDS KinisiGate

CONSTANTS
  Links,              \* links [ready, minor, profile, wire]
  Questions           \* requests

\* A link has the fields request() reads, and its profile those of the bundled table:
\* any features of its four motors, with limits other than 0, and PWM frequencies of
\* the catalog.
MotorFeatures == [currentSense : BOOLEAN, faultReporting : BOOLEAN,
                  thresholds : SUBSET {t \in Nat : t # 0}, canDisable : BOOLEAN]

BoardProfiles ==
  {NoProfile} \cup [known : {TRUE}, encoders : Nat, pwm : SUBSET AllPwm,
                   motors : [0 .. 3 -> MotorFeatures],
                   temperature : SUBSET Nat, imu : SUBSET Nat]

ASSUME LinkAssumption ==
  Links \subseteq [ready : BOOLEAN, minor : Nat, profile : BoardProfiles, wire : Nat]

\* A question has the payload fields of its command, with unsigned values.
ASSUME QuestionAssumption ==
  \A r \in Questions :
    /\ r.command \in STRING
    /\ r.command \in Subscribing \cup {"UNSUBSCRIBE"} =>
         r.topic \in STRING /\ r.index \in Nat
    /\ r.command \in Subscribing => r.interval \in Nat
    /\ r.command = "SUBSCRIBE_CONFIGURED" => r.silence \in Nat

VARIABLES link, request, room, verdict

vars == <<link, request, room, verdict>>

Init ==
  /\ link \in Links /\ request \in Questions /\ room \in BOOLEAN
  /\ verdict = "PENDING"

Ask ==
  /\ verdict = "PENDING"
  /\ verdict' = Rejection(link, request, room)
  /\ UNCHANGED <<link, request, room>>

Spec == Init /\ [][Ask]_vars

----------------------------------------------------------------------------

Reads == {"GET_TEMPERATURE", "GET_IMU", "GET_MOTOR_CURRENT", "GET_MOTOR_FAULTS"}

\* What the helper for this request answers.
Offered(l, r) ==
  CASE r.command = "GET_TEMPERATURE" -> SupportsSensor(l, "TEMPERATURE", r.index)
    [] r.command = "GET_IMU" -> SupportsSensor(l, "IMU", r.index)
    [] r.command = "GET_MOTOR_CURRENT" -> SupportsMotorCurrent(l, r.index)
    [] r.command = "GET_MOTOR_FAULTS" -> SupportsMotorFaults(l, r.index)
    [] r.command = "GET_PWM_FREQUENCY" -> SupportsPwmFrequency(l)
    [] r.command = "SET_PWM_FREQUENCY" ->
         SupportsPwmFrequency(l) /\ r.frequency \in PwmFrequencyOptions(l)
    [] r.command = "GET_MOTOR_CURRENT_LIMIT" -> SupportsMotorCurrentLimit(l, r.index)
    [] r.command = "SET_MOTOR_CURRENT_LIMIT" ->
         /\ SupportsMotorCurrentLimit(l, r.index)
         /\ r.threshold \in CurrentLimitOptions(l, r.index)
         /\ r.enabled \/ l.profile.motors[r.index].canDisable
    [] r.command = "SUBSCRIBE" ->
         /\ SupportsTopic(l, r.topic, r.index)
         /\ r.interval \in TopicMinimum[r.topic] .. MaxInterval
    [] OTHER -> FALSE

\* A sketch that asks the helper first is not refused: whatever supports...()
\* and the option lists offer for this board, firmware and Wire buffer passes
\* every local check of request(), and its frames fit in send().  The helpers
\* and the gate are separate code, each with its own copy of the minors and of
\* the frame sizes.
OfferedIsAccepted ==
  verdict # "PENDING" /\ Offered(link, request) =>
    /\ verdict \in {"NONE"} \cup IF room THEN {} ELSE {"SUBSCRIPTION_LIMIT"}
    /\ FrameFits(request.command, link.wire)

\* And the converse on a known board: a read that request() sends in a frame
\* that fits is one the helper offered, so no sensor that is not fitted is read.
AcceptedReadIsOffered ==
  verdict = "NONE" /\ request.command \in Reads /\ link.profile.known
    /\ FrameFits(request.command, link.wire) => Offered(link, request)

\* A firmware update loses no command: what passes with one protocol minor
\* passes with every later one of major 2.
NewerFirmwareRefusesNoMore ==
  verdict = "NONE" =>
    \A l \in Links :
      l.minor >= link.minor /\ [l EXCEPT !.minor = link.minor] = link =>
        Rejection(l, request, room) = "NONE"

\* A board without a bundled profile is never treated more strictly than a
\* known one: its hardware is for the controller to judge.
UnknownBoardNotGuessed ==
  verdict \notin {"PENDING", "NONE"} /\ link.ready /\ ~link.profile.known =>
    \A l \in Links :
      [l EXCEPT !.profile = NoProfile] = link =>
        Rejection(l, request, room) # "NONE"

\* A subscription that is accepted can be served: its slot counts as taken
\* (interval_ms is not 0, also for event triggers, which ask for interval 0),
\* poll() comes round before the longest silence it asked for, and its events
\* fit the Wire buffer and the 64-byte scratch of receive().
AcceptedSubscriptionIsServed ==
  verdict = "NONE" /\ request.command \in Subscribing =>
    /\ ServiceInterval(request) \in 1 .. MaxInterval
    /\ request.command = "SUBSCRIBE_CONFIGURED" /\ request.silence # 0 =>
         ServiceInterval(request) <= request.silence
    /\ TopicSize[request.topic] + 6 <= link.wire
    /\ TopicSize[request.topic] + 6 <= 64

\* docs/connection-monitoring.md:63: "oversized subscriptions are rejected
\* before transmission".  The retired subscriptions stream 23-byte encoder and
\* 38-byte platform events (same page, line 65).
OversizedSubscriptionsRejected ==
  verdict = "NONE" /\ request.command = "SUBSCRIBE_ODOMETRY"
    /\ FrameFits(request.command, link.wire) =>
      /\ request.source \in 0 .. 3 => 23 <= link.wire
      /\ request.source = 4 => 38 <= link.wire
=============================================================================
