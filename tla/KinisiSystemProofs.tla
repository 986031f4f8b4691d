------------------------- MODULE KinisiSystemProofs -------------------------
(***************************************************************************)
(* Proofs about KinisiSystem, for every number of slots, IDs, calls and    *)
(* buffered frames, every set of requests and every controller identity.   *)
(***************************************************************************)
EXTENDS KinisiSystem, SequenceTheorems, TLAPS

----------------------------------------------------------------------------
(* Facts about single operators *)

\* A local refusal is one of the library's failures.
LEMMA RejectionType ==
  ASSUME NEW link, NEW r, NEW hasSlot
  PROVE  Rejection(link, r, hasSlot) \in Failures \cup {"NONE"}
<1>1. SubscriptionRejection(link, r, hasSlot) \in Failures \cup {"NONE"}
  BY DEF SubscriptionRejection, Failures
<1>2. PwmRejection(link, r) \in Failures \cup {"NONE"}
  BY DEF PwmRejection, Failures
<1>3. CurrentLimitRejection(link, r) \in Failures \cup {"NONE"}
  BY DEF CurrentLimitRejection, Failures
<1>4. MotorReadRejection(link, r) \in Failures \cup {"NONE"}
  BY DEF MotorReadRejection, Failures
<1>5. SensorReadRejection(link, r) \in Failures \cup {"NONE"}
  BY DEF SensorReadRejection, Failures
<1>. QED
  BY <1>1, <1>2, <1>3, <1>4, <1>5 DEF Rejection, Failures

\* The code beside a refusal is an error code or none.
LEMMA RejectionCodeType ==
  ASSUME NEW r, NEW failure
  PROVE  RejectionCode(r, failure) \in ErrorCodes \cup {"NONE"}
BY DEF RejectionCode, ErrorCodes

\* findSubscription returns 0 or an active slot of that topic and index.
LEMMA FindSubscriptionResult ==
  ASSUME NEW key
  PROVE  \/ /\ FindSubscription(key) = 0
            /\ \A i \in SlotIndex : Active(slots[i]) => slots[i].key # key
         \/ /\ FindSubscription(key) \in SlotIndex
            /\ Active(slots[FindSubscription(key)])
            /\ slots[FindSubscription(key)].key = key
BY ProtocolAssumption DEF FindSubscription, SlotIndex

\* The search for a free slot returns 0 or an inactive slot.
LEMMA FreeSlotResult ==
  \/ FreeSlot = 0
  \/ FreeSlot \in SlotIndex /\ ~Active(slots[FreeSlot])
BY ProtocolAssumption DEF FreeSlot, SlotIndex

\* The slot a request works on is a slot of the table, or none.
LEMMA SubscriptionSlotType ==
  ASSUME NEW r
  PROVE  SubscriptionSlot(r) \in {0} \cup SlotIndex
BY FindSubscriptionResult, FreeSlotResult DEF SubscriptionSlot

\* allocateId never leaves the range of IDs.
LEMMA SuccessorType ==
  ASSUME NEW id \in Ids
  PROVE  Successor(id) \in Ids
BY ProtocolAssumption DEF Successor, Ids

\* The requests of begin() and poll() are requests like those of a sketch.
LEMMA RequestTypes ==
  /\ Requests \subseteq AnyRequest /\ Begin0 \in AnyRequest
  /\ Ping \in AnyRequest /\ PollTelemetry \in AnyRequest
  /\ \A t \in Timeouts \cup {0} : Monitor(t) \in AnyRequest
  /\ \A r \in AnyRequest : r.command \in Commands
  /\ "PING" \in Commands /\ "INIT" \in Commands /\ "READY" \in Commands
<1>1. /\ Requests \subseteq AnyRequest /\ Begin0 \in AnyRequest
      /\ Ping \in AnyRequest /\ PollTelemetry \in AnyRequest
      /\ \A t \in Timeouts \cup {0} : Monitor(t) \in AnyRequest
  BY DEF AnyRequest, Own
<1>2. /\ \A r \in AnyRequest : r.command \in Commands
      /\ "READY" \in Commands
  BY DEF Commands
<1>3. Ping.command = "PING" /\ Begin0.command = "INIT"
  BY DEF Begin0, Ping
<1>. QED
  BY <1>1, <1>2, <1>3

\* Requests have the payload fields their command's ACK is applied with.
LEMMA RequestFields ==
  ASSUME NEW r \in AnyRequest
  PROVE  /\ r.command = "SET_HEARTBEAT_CONFIG" => r.timeout \in Nat
         /\ r.command \in Subscribing \cup {"UNSUBSCRIBE"} => Key(r) \in Keys
         /\ r.command = "SUBSCRIBE_ODOMETRY" => r.interval \in Nat
<1>1. CASE r \in Requests
  BY <1>1, RequestAssumption DEF Keys, Subscribing
<1>2. CASE r \in {Begin0, Ping, PollTelemetry}
  BY <1>2 DEF Begin0, Ping, PollTelemetry, Subscribing
<1>3. CASE r \in {Monitor(t) : t \in Timeouts \cup {0}}
  BY <1>3, ProtocolAssumption DEF Monitor, Subscribing
<1>. QED
  BY <1>1, <1>2, <1>3 DEF AnyRequest, Own

\* The fields a command that the controller serves is served with.
LEMMA HeartbeatFields ==
  ASSUME NEW r \in AnyRequest, r.command = "SET_HEARTBEAT_CONFIG"
  PROVE  r.enabled \in BOOLEAN
<1>1. CASE r \in Requests
  BY <1>1, RequestAssumption, Zenon
<1>2. CASE r \in {Monitor(t) : t \in Timeouts \cup {0}}
  <2>1. r.enabled = TRUE
    BY <1>2 DEF Monitor
  <2>. QED
    BY <2>1
<1>3. CASE r \in {Begin0, Ping, PollTelemetry}
  BY <1>3 DEF Begin0, Ping, PollTelemetry
<1>. QED
  BY <1>1, <1>2, <1>3 DEF AnyRequest, Own

\* A request of the generic commands names a key.
LEMMA SubscriptionFields ==
  ASSUME NEW r \in AnyRequest,
         r.command \in {"SUBSCRIBE", "SUBSCRIBE_WITH_MODE", "SUBSCRIBE_CONFIGURED", "UNSUBSCRIBE"}
  PROVE  <<r.topic, r.index>> \in Keys
BY RequestFields DEF Key, Subscribing

\* Between calls the call is Idle.
LEMMA IdleType == Idle \in Call
BY RequestTypes DEF Idle, Call

\* A free slot is a slot.
LEMMA EmptySlotType == EmptySlot \in [key : Keys \cup {NoKey}, sample : Stamps, since : Stamps]
BY DEF EmptySlot, Stamps, NoSample

----------------------------------------------------------------------------
(* Types: the pieces the actions are built from *)

\* clearSession() keeps the types.
LEMMA ClearSessionType ==
  ASSUME ClearSession
  PROVE  SessionTypeOK'
<1>1. slots' \in [SlotIndex -> [key : Keys \cup {NoKey}, sample : Stamps, since : Stamps]]
  BY EmptySlotType, Zenon DEF ClearSession, ClearTables
<1>2. subscriptionMs' \in [Sources -> Nat]
  BY DEF ClearSession, ClearTables
<1>. QED
  BY <1>1, <1>2 DEF ClearSession, ClearTables, SessionTypeOK

\* A failure that is reported has its type.
LEMMA ReportType ==
  ASSUME CallTypeOK,
         NEW c, c.request \in AnyRequest, c.id \in {0} \cup Ids,
         NEW failure \in Failures, NEW code \in ErrorCodes \cup {"NONE"},
         Report(c, failure, code)
  PROVE  /\ error' \in [failure : Failures \cup {"NONE"},
                        code : ErrorCodes \cup {"NONE"},
                        command : Commands \cup {"NONE", "INITIALIZE_MOTOR_CONTROLLER"},
                        id : {0} \cup Ids]
         /\ call' \in Call
BY RequestTypes, IdleType DEF Report

\* So has what it leaves of the session.
LEMMA SettleType ==
  ASSUME SessionTypeOK, NEW c, c.begin \in BOOLEAN, Settle(c)
  PROVE  SessionTypeOK'
<1>1. CASE Fatal(error')
  BY <1>1, ClearSessionType DEF Settle
<1>2. CASE ~Fatal(error')
  BY <1>2 DEF Settle, SessionTypeOK
<1>. QED
  BY <1>1, <1>2

\* fail() keeps the types.
LEMMA FailType ==
  ASSUME TypeOK,
         NEW failure \in Failures, NEW code \in ErrorCodes \cup {"NONE"},
         Fail(call, failure, code), UNCHANGED <<nextId, issued, legacySamples>>
  PROVE  CallTypeOK' /\ SessionTypeOK'
<1>1. call.request \in AnyRequest /\ call.id \in {0} \cup Ids /\ call.begin \in BOOLEAN
  BY DEF TypeOK, CallTypeOK, Call
<1>2. SessionTypeOK'
  BY <1>1, SettleType DEF Fail, TypeOK
<1>3. /\ error' \in [failure : Failures \cup {"NONE"},
                     code : ErrorCodes \cup {"NONE"},
                     command : Commands \cup {"NONE", "INITIALIZE_MOTOR_CONTROLLER"},
                     id : {0} \cup Ids]
      /\ call' \in Call
  BY <1>1, ReportType DEF Fail, TypeOK
<1>. QED
  BY <1>2, <1>3 DEF TypeOK, CallTypeOK

\* The call begin() or request() makes, its frame, and the counters after it.
LEMMA NewCallType ==
  ASSUME TypeOK, Allocate,
         NEW phase \in {"init", "reply"}, NEW r \in AnyRequest,
         NEW slot \in {0} \cup SlotIndex, NEW begin \in BOOLEAN,
         NEW timeout \in Timeouts \cup {0},
         NEW c, c = NewCall(phase, r, slot, begin, timeout)
  PROVE  /\ c \in Call /\ c.id \in Ids /\ c.begin = begin
         /\ FrameOf(c) \in CommandFrames
         /\ nextId' \in Ids /\ issued' \in 0 .. MaxCalls
<1>1. issued \in Nat /\ MaxCalls \in Nat /\ issued < MaxCalls /\ nextId \in Ids
  BY ProtocolAssumption DEF TypeOK, CallTypeOK, Allocate
<1>2. issued + 1 \in Serials
  BY <1>1 DEF Serials
<1>3. c \in Call /\ c.id \in Ids /\ c.begin = begin
  BY <1>1, <1>2 DEF NewCall, Call
<1>4. FrameOf(c) \in CommandFrames
  BY <1>1, <1>2, RequestTypes DEF FrameOf, NewCall, CommandFrames
<1>5. nextId' \in Ids /\ issued' \in 0 .. MaxCalls
  BY <1>1, SuccessorType DEF Allocate
<1>. QED
  BY <1>3, <1>4, <1>5

\* send() puts a typed frame on the wire, or fails.
LEMMA TransmitType ==
  ASSUME TypeOK, NEW c \in Call, FrameOf(c) \in CommandFrames,
         Sent(c) \/ NotSent(c)
  PROVE  /\ toController' \in Seq(CommandFrames)
         /\ error' \in [failure : Failures \cup {"NONE"},
                        code : ErrorCodes \cup {"NONE"},
                        command : Commands \cup {"NONE", "INITIALIZE_MOTOR_CONTROLLER"},
                        id : {0} \cup Ids]
         /\ call' \in Call
<1>1. toController \in Seq(CommandFrames)
  BY DEF TypeOK, WireTypeOK
<1>2. WireSend(FrameOf(c)) => toController' \in Seq(CommandFrames)
  BY <1>1 DEF WireSend
<1>3. c.request \in AnyRequest /\ c.id \in {0} \cup Ids
  BY DEF Call
<1>4. CASE Sent(c)
  BY <1>2, <1>4 DEF Sent, NoError
<1>5. CASE NotSent(c)
  <2>1. toController' \in Seq(CommandFrames)
    BY <1>1, <1>2, <1>5 DEF NotSent, WireSendFails
  <2>2. \E failure \in Failures : Report(c, failure, "NONE")
    BY <1>5 DEF NotSent, Failures
  <2>. QED
    BY <1>3, <2>1, <2>2, ReportType DEF TypeOK
<1>. QED
  BY <1>4, <1>5

\* A call that is issued is typed, and so is its frame.
LEMMA IssueType ==
  ASSUME TypeOK,
         NEW phase \in {"init", "reply"}, NEW r \in AnyRequest,
         NEW slot \in {0} \cup SlotIndex, NEW begin \in BOOLEAN,
         NEW timeout \in Timeouts \cup {0},
         Issue(NewCall(phase, r, slot, begin, timeout))
  PROVE  WireTypeOK' /\ SessionTypeOK' /\ CallTypeOK'
<1>. DEFINE c == NewCall(phase, r, slot, begin, timeout)
<1>1. Allocate /\ (Sent(c) \/ NotSent(c))
  BY DEF Issue
<1>2. /\ c \in Call /\ c.id \in Ids /\ c.begin = begin
      /\ FrameOf(c) \in CommandFrames
      /\ nextId' \in Ids /\ issued' \in 0 .. MaxCalls
  BY <1>1, NewCallType
<1>3. SessionTypeOK'
  <2>1. CASE UNCHANGED session
    BY <2>1 DEF session, SessionTypeOK, TypeOK
  <2>2. CASE Settle(c)
    BY <1>2, <2>2, SettleType DEF TypeOK
  <2>. QED
    BY <2>1, <2>2 DEF Issue
<1>4. UNCHANGED <<legacySamples, toClient>>
  BY DEF Issue
<1>. HIDE DEF c
<1>. QED
  BY <1>1, <1>2, <1>3, <1>4, TransmitType DEF TypeOK, WireTypeOK, CallTypeOK

----------------------------------------------------------------------------
(* Types: the steps of the library *)

\* What a read leaves behind, and what each kind of frame carries.
LEMMA ReadType ==
  ASSUME TypeOK, Read
  PROVE  /\ WireTypeOK' /\ UNCHANGED <<nextId, issued>>
         /\ Frame.kind = "REPLY" => Frame.identity \in Firmwares \cup {NoIdentity}
         /\ Frame.kind = "ERROR" => Frame.code \in ErrorCodes
         /\ Frame.kind = "EVENT" => Frame.stamp \in Stamps
         /\ Frame.kind = "LEGACY_EVENT" => Frame.stamp \in Stamps /\ Frame.source \in Sources
<1>1. toClient \in Seq(ReplyFrames) /\ toClient # <<>> /\ toClient' = Tail(toClient)
  BY DEF TypeOK, WireTypeOK, Read, WireReceive
<1>2. Frame \in ReplyFrames /\ toClient' \in Seq(ReplyFrames)
  BY <1>1 DEF Frame
<1>3. WireTypeOK' /\ UNCHANGED <<nextId, issued>>
  BY <1>2 DEF TypeOK, WireTypeOK, Read
<1>. QED
  BY <1>2, <1>3 DEF ReplyFrames, Stamps

\* What a call in progress remembers is typed.
LEMMA CallFields ==
  ASSUME TypeOK
  PROVE  /\ call.request \in AnyRequest /\ call.slot \in {0} \cup SlotIndex
         /\ call.timeout \in Timeouts \cup {0} /\ call.begin \in BOOLEAN
         /\ call.serial \in Stamps
         /\ \A p \in {"ready", "configure"} : [call EXCEPT !.phase = p] \in Call
BY DEF TypeOK, CallTypeOK, Call, Stamps, NoSample

\* A phase is all that begin() changes of its call.
LEMMA CallShape ==
  ASSUME TypeOK, NEW p, call' = [call EXCEPT !.phase = p]
  PROVE  call'.begin = call.begin /\ call'.phase = p /\ call'.request = call.request
BY DEF TypeOK, CallTypeOK, Call

\* The calls of the sketch, and the second request of begin().
LEMMA SketchCallsType ==
  ASSUME TypeOK, SketchCalls \/ Configure
  PROVE  WireTypeOK' /\ SessionTypeOK' /\ CallTypeOK'
<1>. USE DEF TypeOK
<1>1. ASSUME NEW t \in Timeouts, Begin(t)
      PROVE  WireTypeOK' /\ SessionTypeOK' /\ CallTypeOK'
  <2>. DEFINE c == NewCall("init", Begin0, 0, TRUE, t)
  <2>1. /\ c \in Call /\ FrameOf(c) \in CommandFrames
        /\ nextId' \in Ids /\ issued' \in 0 .. MaxCalls
    BY <1>1, NewCallType, RequestTypes DEF Begin
  <2>2. Sent(c) \/ NotSent(c)
    BY <1>1 DEF Begin
  <2>3. SessionTypeOK' /\ UNCHANGED <<legacySamples, toClient>>
    BY <1>1, ClearSessionType DEF Begin
  <2>. HIDE DEF c
  <2>. QED
    BY <2>1, <2>2, <2>3, TransmitType DEF WireTypeOK, CallTypeOK
<1>2. ASSUME NEW r \in Requests, Request(r)
      PROVE  WireTypeOK' /\ SessionTypeOK' /\ CallTypeOK'
  BY <1>2, IssueType, SubscriptionSlotType, RequestTypes DEF Request
<1>3. ASSUME NEW r \in Requests, Refuse(r)
      PROVE  WireTypeOK' /\ SessionTypeOK' /\ CallTypeOK'
  <2>1. UNCHANGED <<nextId, session, legacySamples, call, issued, wireVars>>
    BY <1>3 DEF Refuse
  <2>2. PICK f \in Failures :
          error' = [failure |-> f, code |-> RejectionCode(r, f),
                    command |-> r.command, id |-> 0]
    BY <1>3, RejectionType DEF Refuse
  <2>3. RejectionCode(r, f) \in ErrorCodes \cup {"NONE"} /\ r.command \in Commands
    BY <1>3, RejectionCodeType, RequestTypes
  <2>. QED
    BY <2>1, <2>2, <2>3 DEF WireTypeOK, SessionTypeOK, CallTypeOK, session, wireVars
<1>4. CASE RefuseTuning
  BY <1>4 DEF RefuseTuning, WireTypeOK, SessionTypeOK, CallTypeOK, session,
              wireVars, Failures, ErrorCodes
<1>5. CASE PollNotReady
  BY <1>5, RequestTypes DEF PollNotReady, WireTypeOK, SessionTypeOK, CallTypeOK, session,
              wireVars, Failures
<1>6. CASE Poll
  BY <1>6, IssueType, RequestTypes DEF Poll
<1>7. CASE Configure
  BY <1>7, CallFields, IssueType, RequestTypes DEF Configure
<1>. QED
  BY <1>1, <1>2, <1>3, <1>4, <1>5, <1>6, <1>7 DEF SketchCalls

\* A wait that goes on, or a step of begin(): the call stays a call.
LEMMA WaitType ==
  ASSUME TypeOK, Read, SessionTypeOK', legacySamples' \in [Sources -> Stamps],
         error' = error, call' \in Call
  PROVE  WireTypeOK' /\ SessionTypeOK' /\ CallTypeOK'
BY ReadType DEF TypeOK, CallTypeOK

\* An ACK that completes the call and rewrites the tables.
LEMMA SucceedType ==
  ASSUME TypeOK, Read, Succeed, UNCHANGED legacySamples,
         heartbeat' \in Nat, subscriptionMs' \in [Sources -> Nat],
         sampleMask' \subseteq Sources,
         slots' \in [SlotIndex -> [key : Keys \cup {NoKey}, sample : Stamps, since : Stamps]]
  PROVE  WireTypeOK' /\ SessionTypeOK' /\ CallTypeOK'
<1>1. SessionTypeOK'
  BY DEF TypeOK, SessionTypeOK, Succeed
<1>2. call' \in Call /\ error' = error /\ legacySamples' \in [Sources -> Stamps]
  BY IdleType DEF Succeed, TypeOK, CallTypeOK
<1>. QED
  BY <1>1, <1>2, WaitType

\* A frame that ends the call with a failure.
LEMMA FailedReadType ==
  ASSUME TypeOK, Read, UNCHANGED legacySamples,
         NEW failure \in Failures, NEW code \in ErrorCodes \cup {"NONE"},
         Fail(call, failure, code)
  PROVE  WireTypeOK' /\ SessionTypeOK' /\ CallTypeOK'
BY ReadType, FailType

\* receive() and what follows from a frame keep the types.
LEMMA ReceiveType ==
  ASSUME TypeOK, Receive
  PROVE  WireTypeOK' /\ SessionTypeOK' /\ CallTypeOK'
<1>0. /\ SessionTypeOK /\ CallTypeOK /\ WireTypeOK
      /\ call \in Call /\ legacySamples \in [Sources -> Stamps]
  BY DEF TypeOK, CallTypeOK
<1>1. CASE ReceiveStale
  <2>1. SessionTypeOK'
    BY <1>0, <1>1 DEF ReceiveStale, session, SessionTypeOK
  <2>. QED
    BY <1>0, <1>1, <2>1, WaitType DEF ReceiveStale, KeepWaiting
<1>2. CASE ReceiveEvent
  <2>1. Frame.stamp \in Stamps
    BY <1>2, ReadType DEF ReceiveEvent
  <2>2. slots' \in [SlotIndex -> [key : Keys \cup {NoKey}, sample : Stamps, since : Stamps]]
    BY <1>0, <1>2, <2>1, FindSubscriptionResult DEF ReceiveEvent, SessionTypeOK
  <2>3. SessionTypeOK'
    BY <1>0, <1>2, <2>2 DEF ReceiveEvent, SessionTypeOK
  <2>. QED
    BY <1>0, <1>2, <2>3, WaitType DEF ReceiveEvent, KeepWaiting
<1>3. CASE ReceiveLegacyEvent
  <2>1. Frame.stamp \in Stamps /\ Frame.source \in Sources
    BY <1>3, ReadType DEF ReceiveLegacyEvent
  <2>2. SessionTypeOK'
    BY <1>0, <1>3, <2>1 DEF ReceiveLegacyEvent, SessionTypeOK
  <2>3. legacySamples' \in [Sources -> Stamps]
    BY <1>0, <1>3, <2>1 DEF ReceiveLegacyEvent
  <2>. QED
    BY <1>0, <1>3, <2>2, <2>3, WaitType DEF ReceiveLegacyEvent, KeepWaiting
<1>4. CASE ReceiveError
  <2>1. Frame.code \in ErrorCodes /\ "CONTROLLER" \in Failures /\ "MALFORMED_RESPONSE" \in Failures
    BY <1>4, ReadType DEF ReceiveError, Failures
  <2>. QED
    BY <1>4, <2>1, FailedReadType DEF ReceiveError
<1>5. CASE ReceiveMismatch
  BY <1>5, FailedReadType DEF ReceiveMismatch, Failures
<1>6. CASE ReceiveInit
  <2>1. CASE Fail(call, "INCOMPATIBLE_PROTOCOL", "NONE")
    BY <1>6, <2>1, FailedReadType DEF ReceiveInit, Answered, Failures
  <2>2. CASE /\ identity' = Frame.identity
             /\ call' = [call EXCEPT !.phase = "ready"]
             /\ UNCHANGED <<ready, profile, heartbeat, subscriptionMs,
                            sampleMask, slots, error>>
    <3>1. call' \in Call
      BY <2>2, CallFields
    <3>2. identity' \in Firmwares \cup {NoIdentity}
      BY <1>6, <2>2, ReadType DEF ReceiveInit, Answered
    <3>3. SessionTypeOK'
      BY <1>0, <2>2, <3>2 DEF SessionTypeOK
    <3>. QED
      BY <1>0, <1>6, <2>2, <3>1, <3>3, WaitType DEF ReceiveInit, Answered
  <2>. QED
    BY <1>6, <2>1, <2>2 DEF ReceiveInit
<1>7. CASE ReceiveReady
  <2>1. call' \in Call
    BY <1>7, CallFields, IdleType DEF ReceiveReady
  <2>2. SessionTypeOK'
    BY <1>0, <1>7 DEF ReceiveReady, SessionTypeOK
  <2>. QED
    BY <1>0, <1>7, <2>1, <2>2, WaitType DEF ReceiveReady, Answered
<1>8. CASE ReceiveHeartbeatAck
  <2>1. Read /\ Succeed /\ UNCHANGED legacySamples
    BY <1>8 DEF ReceiveHeartbeatAck, Answered
  <2>2. heartbeat' \in Nat
    BY <1>8, CallFields, RequestFields DEF ReceiveHeartbeatAck
  <2>3. /\ subscriptionMs' \in [Sources -> Nat] /\ sampleMask' \subseteq Sources
    BY <1>0, <1>8 DEF ReceiveHeartbeatAck, ClearTables, SessionTypeOK
  <2>4. \/ UNCHANGED slots
        \/ slots' = [i \in SlotIndex |-> EmptySlot]
    BY <1>8 DEF ReceiveHeartbeatAck, ClearTables
  <2>5. slots' \in [SlotIndex -> [key : Keys \cup {NoKey}, sample : Stamps, since : Stamps]]
    BY <1>0, <2>4, EmptySlotType, Zenon DEF SessionTypeOK
  <2>. QED
    BY <2>1, <2>2, <2>3, <2>5, SucceedType
<1>9. CASE ReceiveSubscriptionAck
  <2>. DEFINE Slot == [key : Keys \cup {NoKey}, sample : Stamps, since : Stamps]
              new == NewSlot(call.request)
  <2>1. Read /\ Succeed /\ UNCHANGED <<legacySamples, heartbeat>>
    BY <1>9 DEF ReceiveSubscriptionAck, Answered
  <2>2. subscriptionMs' \in [Sources -> Nat] /\ sampleMask' \subseteq Sources
    BY <1>0, <1>9 DEF ReceiveSubscriptionAck, SessionTypeOK
  <2>3. Key(call.request) \in Keys /\ call.serial \in Stamps
    BY <1>9, CallFields, RequestFields DEF ReceiveSubscriptionAck
  <2>4. new \in Slot
    BY <2>3, EmptySlotType DEF NewSlot, Stamps, NoSample
  <2>5. slots' = [i \in SlotIndex |-> IF i = call.slot THEN new ELSE slots[i]]
    BY <1>9 DEF ReceiveSubscriptionAck
  <2>. HIDE DEF new
  <2>6. slots' \in [SlotIndex -> Slot]
    BY <1>0, <2>4, <2>5 DEF SessionTypeOK
  <2>. QED
    BY <1>0, <2>1, <2>2, <2>6, SucceedType DEF SessionTypeOK
<1>10. CASE ReceiveLegacyAck
  <2>1. Read /\ Succeed /\ UNCHANGED <<legacySamples, heartbeat>>
    BY <1>10 DEF ReceiveLegacyAck, Answered
  <2>2. \/ call.request.command = "UNSUBSCRIBE_ODOMETRY"
        \/ call.request.interval \in Nat
    BY <1>10, CallFields, RequestFields DEF ReceiveLegacyAck
  <2>3. subscriptionMs' \in [Sources -> Nat] /\ sampleMask' \subseteq Sources
    BY <1>0, <1>10, <2>2 DEF ReceiveLegacyAck, SessionTypeOK
  <2>4. slots' \in [SlotIndex -> [key : Keys \cup {NoKey}, sample : Stamps, since : Stamps]]
    BY <1>0, <1>10, EmptySlotType DEF ReceiveLegacyAck, SessionTypeOK
  <2>. QED
    BY <1>0, <2>1, <2>3, <2>4, SucceedType DEF SessionTypeOK
<1>11. CASE ReceiveOtherAck
  BY <1>0, <1>11, SucceedType DEF ReceiveOtherAck, Answered, SessionTypeOK
<1>12. CASE ReceiveGarbage
  BY <1>12, FailedReadType DEF ReceiveGarbage, Failures
<1>13. CASE ReceiveFails
  <2>1. SessionTypeOK' /\ CallTypeOK'
    BY <1>13, FailType DEF ReceiveFails, Failures
  <2>2. toClient \in Seq(ReplyFrames) /\ toController \in Seq(CommandFrames)
    BY <1>0 DEF WireTypeOK
  <2>3. toClient' = toClient \/ (toClient # <<>> /\ toClient' = Tail(toClient))
    BY <1>13 DEF ReceiveFails, WireReceiveFails, WireReceive
  <2>4. toClient' \in Seq(ReplyFrames)
    BY <2>2, <2>3
  <2>5. WireTypeOK'
    BY <1>13, <2>2, <2>4 DEF ReceiveFails, WireTypeOK
  <2>. QED
    BY <2>1, <2>5
<1>14. CASE Timeout
  <2>1. SessionTypeOK' /\ CallTypeOK'
    BY <1>14, FailType DEF Timeout, Failures
  <2>2. WireTypeOK'
    BY <1>0, <1>14 DEF Timeout, WireTypeOK, wireVars
  <2>. QED
    BY <2>1, <2>2
<1>. QED
  BY <1>1, <1>2, <1>3, <1>4, <1>5, <1>6, <1>7, <1>8, <1>9, <1>10, <1>11,
     <1>12, <1>13, <1>14 DEF Receive

\* The constructor keeps the types.
LEMMA RestartType ==
  ASSUME TypeOK, Restart
  PROVE  WireTypeOK' /\ SessionTypeOK' /\ CallTypeOK'
<1>1. SessionTypeOK'
  BY ClearSessionType DEF Restart
<1>2. /\ nextId' \in Ids /\ call' \in Call
      /\ legacySamples' \in [Sources -> Stamps]
  BY IdleType, ProtocolAssumption DEF Restart, Ids, Stamps, NoSample
<1>3. CallTypeOK'
  BY <1>2 DEF Restart, TypeOK, CallTypeOK, NoError
<1>4. WireTypeOK'
  BY DEF Restart, TypeOK, WireTypeOK, wireVars
<1>. QED
  BY <1>1, <1>3, <1>4

----------------------------------------------------------------------------
(* Types: the steps of the controller *)

\* Serving a command: its serial is recorded and these frames are queued.
LEMMA AnswerType ==
  ASSUME TypeOK, NEW frames \in Seq(ReplyFrames), Answer(frames)
  PROVE  WireTypeOK'
<1>1. /\ toController \in Seq(CommandFrames) /\ toController # <<>>
      /\ toController' = Tail(toController)
      /\ toClient \in Seq(ReplyFrames) /\ toClient' = toClient \o frames
  BY DEF TypeOK, WireTypeOK, Answer
<1>. QED
  BY <1>1 DEF WireTypeOK

\* The command at the head of the queue is typed.
LEMMA CommandType ==
  ASSUME TypeOK, toController # <<>>
  PROVE  /\ Command.command \in Commands /\ Command.id \in Ids
         /\ Command.request \in AnyRequest /\ Command.request.command = Command.command
         /\ Command.serial \in Serials
         /\ Append(executed, Command.serial) \in Seq(Serials)
<1>1. Command \in CommandFrames
  BY DEF TypeOK, WireTypeOK, Command
<1>2. Command.serial \in Serials
  BY <1>1 DEF CommandFrames
<1>. QED
  BY <1>1, <1>2 DEF CommandFrames, TypeOK, ControllerTypeOK

\* So is a reply to it,
LEMMA ReplyType ==
  ASSUME TypeOK, toController # <<>>, NEW command \in Commands,
         NEW id \in Firmwares \cup {NoIdentity}
  PROVE  Reply(command, id) \in ReplyFrames
BY CommandType DEF Reply, ReplyFrames

\* and its ACK,
LEMMA AckType ==
  ASSUME TypeOK, toController # <<>>
  PROVE  Ack \in ReplyFrames
BY CommandType, ReplyType DEF Ack

\* and an event of a subscription.
LEMMA EventType ==
  ASSUME TypeOK, NEW sub \in subs
  PROVE  EventOf(sub) \in ReplyFrames
<1>1. \/ sub \in [key : Keys, legacy : {FALSE}, stamp : Serials]
      \/ sub \in [key : LegacyKeys, legacy : {TRUE}, stamp : Serials]
  BY DEF TypeOK, ControllerTypeOK
<1>2. CASE sub \in [key : Keys, legacy : {FALSE}, stamp : Serials]
  BY <1>2 DEF EventOf, ReplyFrames
<1>3. CASE sub \in [key : LegacyKeys, legacy : {TRUE}, stamp : Serials]
  <2>1. \E s \in Sources : KeyOf(s) = sub.key
    BY <1>3 DEF LegacyKeys
  <2>2. (CHOOSE s \in Sources : KeyOf(s) = sub.key) \in Sources
    BY <2>1
  <2>. QED
    BY <1>3, <2>2 DEF EventOf, ReplyFrames
<1>. QED
  BY <1>1, <1>2, <1>3

\* What Serve leaves of the controller's state for its actions to fill in.
LEMMA ServeType ==
  ASSUME TypeOK, NEW commands, Serve(commands), Answer(<<Ack>>),
         watchdog' \in BOOLEAN,
         subs' \subseteq [key : Keys, legacy : {FALSE}, stamp : Serials]
                         \cup [key : LegacyKeys, legacy : {TRUE}, stamp : Serials]
  PROVE  WireTypeOK' /\ ControllerTypeOK'
<1>1. <<Ack>> \in Seq(ReplyFrames)
  BY AckType DEF Serve
<1>2. executed' \in Seq(Serials)
  BY CommandType DEF Serve, Executed
<1>. QED
  BY <1>1, <1>2, AnswerType DEF Serve, TypeOK, ControllerTypeOK

\* The controller keeps the types.
LEMMA ControllerType ==
  ASSUME TypeOK, ControllerNext
  PROVE  WireTypeOK' /\ ControllerTypeOK'
<1>. DEFINE Subs == [key : Keys, legacy : {FALSE}, stamp : Serials]
                    \cup [key : LegacyKeys, legacy : {TRUE}, stamp : Serials]
<1>0. /\ WireTypeOK /\ ControllerTypeOK /\ subs \subseteq Subs
      /\ firmware \in Firmwares /\ up \in BOOLEAN /\ watchdog \in BOOLEAN
      /\ executed \in Seq(Serials)
  BY DEF TypeOK, ControllerTypeOK
<1>1. CASE ServeInit
  <2>1. toController # <<>> /\ "INIT" \in Commands /\ "READY" \in Commands
    BY <1>1, RequestTypes DEF ServeInit
  <2>2. Reply("INIT", firmware) \in ReplyFrames /\ Reply("READY", NoIdentity) \in ReplyFrames
    BY <1>0, <2>1, ReplyType
  <2>3. <<Reply("INIT", firmware), Reply("READY", NoIdentity)>> \in Seq(ReplyFrames)
    BY <2>2
  <2>4. executed' \in Seq(Serials)
    BY <2>1, <1>1, CommandType DEF ServeInit, Executed
  <2>. QED
    BY <1>0, <1>1, <2>3, <2>4, AnswerType DEF ServeInit, ControllerTypeOK
<1>2. CASE ServeError
  <2>1. PICK code \in ErrorCodes :
          Answer(<<[kind |-> "ERROR", command |-> Command.command,
                    id |-> Command.id, code |-> code, serial |-> Command.serial]>>)
    BY <1>2, ControllerAssumption DEF ServeError, ErrorCodes
  <2>2. <<[kind |-> "ERROR", command |-> Command.command,
           id |-> Command.id, code |-> code, serial |-> Command.serial]>> \in Seq(ReplyFrames)
    BY <1>2, CommandType DEF ServeError, ReplyFrames
  <2>. QED
    BY <1>0, <1>2, <2>1, <2>2, AnswerType DEF ServeError, ControllerTypeOK, controllerVars
<1>3. CASE ServeHeartbeat
  <2>1. toController # <<>> /\ Command.command = "SET_HEARTBEAT_CONFIG"
    BY <1>3 DEF ServeHeartbeat, Serve
  <2>2. Command.request.enabled \in BOOLEAN
    BY <2>1, CommandType, HeartbeatFields
  <2>3. watchdog' \in BOOLEAN
    BY <1>3, <2>2, Zenon DEF ServeHeartbeat
  <2>4. subs' \subseteq Subs
    BY <1>0, <1>3 DEF ServeHeartbeat
  <2>. QED
    BY <1>3, <2>3, <2>4, ServeType DEF ServeHeartbeat
<1>4. CASE ServeSubscription
  <2>. DEFINE key == <<Command.request.topic, Command.request.index>>
              new == [key |-> key, legacy |-> FALSE, stamp |-> Command.serial]
  <2>1. subs' \subseteq subs \/ subs' \subseteq subs \cup {new}
    BY <1>4 DEF ServeSubscription, Replaced
  <2>2. new \in Subs
    BY <1>4, CommandType, SubscriptionFields DEF ServeSubscription, Serve
  <2>. QED
    BY <1>0, <1>4, <2>1, <2>2, ServeType DEF ServeSubscription
<1>5. CASE ServeLegacy
  <2>. DEFINE key == KeyOf(Command.request.source)
              new == [key |-> key, legacy |-> TRUE, stamp |-> Command.serial]
  <2>1. subs' \subseteq subs \/ subs' \subseteq subs \cup {new}
    BY <1>5 DEF ServeLegacy, Replaced
  <2>2. new \in Subs
    BY <1>5, CommandType DEF ServeLegacy, Serve, LegacyKeys
  <2>. QED
    BY <1>0, <1>5, <2>1, <2>2, ServeType DEF ServeLegacy
<1>6. CASE ServePoll
  <2>1. CASE Answer(<<Ack>>)
    BY <1>0, <1>6, <2>1, ServeType DEF ServePoll
  <2>2. CASE \E sub \in subs : Answer(<<EventOf(sub), Ack>>)
    <3>1. PICK sub \in subs : Answer(<<EventOf(sub), Ack>>)
      BY <2>2
    <3>2. toController # <<>> /\ UNCHANGED <<firmware, up, watchdog, subs>>
      BY <1>6 DEF ServePoll, Serve
    <3>3. Ack \in ReplyFrames /\ EventOf(sub) \in ReplyFrames
      BY <3>2, AckType, EventType
    <3>4. <<EventOf(sub), Ack>> \in Seq(ReplyFrames)
      BY <3>3
    <3>5. executed' \in Seq(Serials)
      BY <3>2, <1>6, CommandType DEF ServePoll, Serve, Executed
    <3>. QED
      BY <1>0, <3>1, <3>2, <3>4, <3>5, AnswerType DEF ControllerTypeOK
  <2>. QED
    BY <1>6, <2>1, <2>2 DEF ServePoll
<1>7. CASE ServeOther
  BY <1>0, <1>7, ServeType DEF ServeOther
<1>8. CASE EmitEvent
  <2>1. PICK sub \in subs : toClient' = Append(toClient, EventOf(sub))
    BY <1>8 DEF EmitEvent
  <2>2. toClient' \in Seq(ReplyFrames)
    BY <1>0, <2>1, EventType DEF WireTypeOK
  <2>3. WireTypeOK'
    BY <1>0, <1>8, <2>2 DEF EmitEvent, WireTypeOK
  <2>4. ControllerTypeOK'
    BY <1>0, <1>8 DEF EmitEvent, ControllerTypeOK, controllerVars
  <2>. QED
    BY <2>3, <2>4
<1>9. CASE Expire
  BY <1>0, <1>9 DEF Expire, WireTypeOK, ControllerTypeOK, wireVars
<1>10. CASE Reboot
  <2>1. toController' \in Seq(CommandFrames) /\ toClient' \in Seq(ReplyFrames)
    BY <1>10 DEF Reboot
  <2>. QED
    BY <1>0, <1>10, <2>1 DEF Reboot, WireTypeOK, ControllerTypeOK
<1>. QED
  BY <1>1, <1>2, <1>3, <1>4, <1>5, <1>6, <1>7, <1>8, <1>9, <1>10 DEF ControllerNext

----------------------------------------------------------------------------
(* Types: the theorem *)

\* The start is typed.
LEMMA InitType == Init => TypeOK
<1>. SUFFICES ASSUME Init PROVE TypeOK
  OBVIOUS
<1>1. WireTypeOK
  BY DEF Init, WireInit, WireTypeOK
<1>2. SessionTypeOK
  <2>1. slots \in [SlotIndex -> [key : Keys \cup {NoKey}, sample : Stamps, since : Stamps]]
    BY EmptySlotType, Zenon DEF Init, ClientInit
  <2>. QED
    BY <2>1 DEF Init, ClientInit, SessionTypeOK
<1>3. CallTypeOK
  BY IdleType, ProtocolAssumption DEF Init, ClientInit, CallTypeOK, NoError, Ids, Stamps, NoSample
<1>4. ControllerTypeOK
  <2>1. executed \in Seq(Serials)
    BY DEF Init, ControllerInit
  <2>. QED
    BY <2>1 DEF Init, ControllerInit, ControllerTypeOK
<1>. QED
  BY <1>1, <1>2, <1>3, <1>4 DEF TypeOK

\* Every step keeps the types.
LEMMA StepType ==
  ASSUME TypeOK, [Next]_vars
  PROVE  TypeOK'
<1>1. CASE Client
  <2>1. WireTypeOK' /\ SessionTypeOK' /\ CallTypeOK'
    BY <1>1, SketchCallsType, ReceiveType, RestartType DEF Client
  <2>2. ControllerTypeOK'
    BY <1>1 DEF Client, TypeOK, ControllerTypeOK, controllerVars
  <2>. QED
    BY <2>1, <2>2 DEF TypeOK
<1>2. CASE Controller
  <2>1. WireTypeOK' /\ ControllerTypeOK'
    BY <1>2, ControllerType DEF Controller
  <2>2. SessionTypeOK' /\ CallTypeOK'
    BY <1>2 DEF Controller, TypeOK, SessionTypeOK, CallTypeOK, clientVars, session
  <2>. QED
    BY <2>1, <2>2 DEF TypeOK
<1>3. CASE UNCHANGED vars
  BY <1>3 DEF vars, clientVars, session, wireVars, controllerVars, TypeOK,
              WireTypeOK, SessionTypeOK, CallTypeOK, ControllerTypeOK
<1>. QED
  BY <1>1, <1>2, <1>3 DEF Next

\* Whatever the buffers, the number of slots, IDs and calls, the requests, the
\* controller's firmware and the order of events, the library's variables and
\* the frames on the wire keep their types, and no cached sample or event
\* carries a stamp that is not of a call.
THEOREM TypeCorrect == Spec => []TypeOK
BY InitType, StepType, PTL DEF Spec

----------------------------------------------------------------------------
(* The subscription tables: what the gate and the slot search establish *)

\* No topic and index of a request or of an odometry source is NoKey.
LEMMA KeysAreKeys ==
  /\ \A r : r.topic \in Topics => Key(r) # NoKey
  /\ \A s \in Sources : KeyOf(s) # NoKey
BY DEF Key, NoKey, KeyOf, Topics

\* A subscription request that passes the gate names a topic and has a slot.
LEMMA Accepted ==
  ASSUME NEW r, Rejection(Link, r, SubscriptionSlot(r) # 0) = "NONE"
  PROVE  /\ ready
         /\ r.command \in Subscribing =>
              r.topic \in Topics /\ SubscriptionSlot(r) \in SlotIndex
         /\ r.command = "UNSUBSCRIBE" => r.topic \in Topics
<1>1. ready
  BY DEF Rejection, Link
<1>2. ASSUME r.command \in Subscribing \cup {"UNSUBSCRIBE"}
      PROVE  SubscriptionRejection(Link, r, SubscriptionSlot(r) # 0) = "NONE"
  BY <1>2 DEF Rejection
<1>3. ASSUME r.command \in Subscribing
      PROVE  r.topic \in Topics /\ SubscriptionSlot(r) # 0
  BY <1>2, <1>3 DEF SubscriptionRejection, TopicInfoValid, Subscribing
<1>4. ASSUME r.command = "UNSUBSCRIBE"
      PROVE  r.topic \in Topics
  BY <1>2, <1>4 DEF SubscriptionRejection, TopicInfoValid
<1>. QED
  BY <1>1, <1>3, <1>4, SubscriptionSlotType

\* The slot chosen for a request is free or already serves its source, and no
\* other slot serves it.
LEMMA ChosenSlot ==
  ASSUME TypeOK, SlotsDistinct, NEW r, r.topic \in Topics,
         (r.command \in Subscribing /\ SubscriptionSlot(r) # 0) \/ r.command = "UNSUBSCRIBE"
  PROVE  /\ r.command \in Subscribing => slots[SubscriptionSlot(r)].key \in {NoKey, Key(r)}
         /\ OnlySlot(SubscriptionSlot(r), Key(r))
<1>. DEFINE found == FindSubscription(Key(r))
<1>0. Key(r) # NoKey
  BY KeysAreKeys
<1>1. CASE found # 0
  <2>1. found \in SlotIndex /\ Active(slots[found]) /\ slots[found].key = Key(r)
    BY <1>1, FindSubscriptionResult
  <2>2. SubscriptionSlot(r) = found
    BY <1>1 DEF SubscriptionSlot, Subscribing
  <2>. QED
    BY <2>1, <2>2 DEF SlotsDistinct, OnlySlot
<1>2. CASE found = 0
  <2>1. \A i \in SlotIndex : slots[i].key # Key(r)
    BY <1>0, <1>2, FindSubscriptionResult, ProtocolAssumption DEF Active, SlotIndex
  <2>2. r.command \in Subscribing => SubscriptionSlot(r) = FreeSlot
    BY <1>2 DEF SubscriptionSlot, Subscribing
  <2>3. r.command \in Subscribing => slots[SubscriptionSlot(r)].key = NoKey
    BY <2>2, FreeSlotResult DEF Active, Subscribing
  <2>. QED
    BY <2>1, <2>3 DEF OnlySlot
<1>. QED
  BY <1>1, <1>2

----------------------------------------------------------------------------
(* The subscription tables: what the steps preserve *)

\* Nothing is kept of a session: its tables, its heartbeat and its profile.
Cleared ==
  /\ \A i \in SlotIndex : slots[i] = EmptySlot
  /\ \A s \in Sources : subscriptionMs[s] = 0
  /\ heartbeat = 0 /\ profile = NoProfile

\* clearSession() leaves nothing in the tables.
LEMMA ClearedTables ==
  ASSUME ClearSession
  PROVE  Cleared' /\ ~ready'
BY DEF ClearSession, ClearTables, Cleared, SlotIndex, Sources

\* Empty tables meet the three properties.
LEMMA ClearedIsFine ==
  ASSUME Cleared'
  PROVE  NothingOutlivesSession' /\ SlotsDistinct' /\ OneDeliveryPerSource'
<1>1. \A i \in SlotIndex : slots'[i].key = NoKey
  BY DEF Cleared, EmptySlot
<1>. QED
  BY <1>1, KeysAreKeys DEF Cleared, NothingOutlivesSession, SlotsDistinct,
                           OneDeliveryPerSource, Active

\* Between calls there is nothing for CallConsistent to say.
LEMMA IdleIsConsistent ==
  ASSUME call' = Idle
  PROVE  CallConsistent'
BY DEF Idle, CallConsistent

\* A failure leaves the tables as they are, or empty.
LEMMA FailTable ==
  ASSUME TableInv, NEW c, c.begin => Cleared,
         NEW failure, NEW code, Report(c, failure, code), Settle(c)
  PROVE  TableInv'
<1>1. CallConsistent'
  BY IdleIsConsistent DEF Report
<1>2. CASE Fatal(error')
  BY <1>1, <1>2, ClearedTables, ClearedIsFine DEF Settle, TableInv
<1>3. CASE ~Fatal(error') /\ c.begin
  <2>1. Cleared'
    BY <1>3 DEF Settle, Cleared
  <2>. QED
    BY <1>1, <2>1, ClearedIsFine DEF TableInv
<1>4. CASE ~Fatal(error') /\ ~c.begin
  BY <1>1, <1>4 DEF Settle, TableInv, NothingOutlivesSession, SlotsDistinct,
                    OneDeliveryPerSource, Active
<1>. QED
  BY <1>2, <1>3, <1>4

\* A call in progress of begin() has nothing to lose.
LEMMA BeginIsCleared ==
  ASSUME TableInv, call.begin
  PROVE  Cleared
BY DEF TableInv, CallConsistent, Cleared

\* Issuing a call changes no table; the call it makes knows them.
LEMMA IssueTable ==
  ASSUME TableInv, NEW phase, NEW r, NEW slot, NEW begin, NEW timeout,
         Issue(NewCall(phase, r, slot, begin, timeout)),
         begin => Cleared,
         (call' = NewCall(phase, r, slot, begin, timeout) /\ UNCHANGED session)
           => CallConsistent'
  PROVE  TableInv'
<1>. DEFINE c == NewCall(phase, r, slot, begin, timeout)
<1>1. c.begin = begin
  BY DEF NewCall
<1>2. CASE Sent(c) /\ UNCHANGED session
  <2>1. CallConsistent'
    BY <1>2 DEF Sent
  <2>. QED
    BY <1>2, <2>1 DEF TableInv, session, NothingOutlivesSession, SlotsDistinct,
                      OneDeliveryPerSource, Active
<1>3. CASE NotSent(c) /\ Settle(c)
  <2>. HIDE DEF c
  <2>1. PICK failure : Report(c, failure, "NONE")
    BY <1>3 DEF NotSent
  <2>. QED
    BY <1>1, <1>3, <2>1, FailTable
<1>. QED
  BY <1>2, <1>3 DEF Issue

\* A call finds its slot and sends, and leaves the tables alone.
LEMMA SketchCallsTable ==
  ASSUME TypeOK, TableInv, SketchCalls \/ Configure
  PROVE  TableInv'
<1>1. ASSUME NEW t \in Timeouts, Begin(t)
      PROVE  TableInv'
  <2>. DEFINE c == NewCall("init", Begin0, 0, TRUE, t)
  <2>1. Cleared'
    BY <1>1, ClearedTables DEF Begin
  <2>2. call' = c \/ call' = Idle
    BY <1>1 DEF Begin, Sent, NotSent, Report
  <2>3. CallConsistent'
    BY <2>1, <2>2, IdleIsConsistent DEF NewCall, CallConsistent, Cleared
  <2>. QED
    BY <2>1, <2>3, ClearedIsFine DEF TableInv
<1>2. ASSUME NEW r \in Requests, Request(r)
      PROVE  TableInv'
  <2>. DEFINE slot == SubscriptionSlot(r)
              c == NewCall("reply", r, slot, FALSE, 0)
  <2>1. Issue(c) /\ Rejection(Link, r, slot # 0) = "NONE"
    BY <1>2 DEF Request
  <2>2. /\ ready
        /\ r.command \in Subscribing =>
             /\ r.topic \in Topics /\ slot \in SlotIndex
             /\ slots[slot].key \in {NoKey, Key(r)}
             /\ OnlySlot(slot, Key(r))
        /\ r.command = "UNSUBSCRIBE" => r.topic \in Topics /\ OnlySlot(slot, Key(r))
    BY <2>1, Accepted, ChosenSlot, ProtocolAssumption DEF TableInv, SlotIndex
  <2>3. c.phase = "reply" /\ c.begin = FALSE /\ c.request = r /\ c.slot = slot
    BY DEF NewCall
  <2>. HIDE DEF c, slot
  <2>4. ASSUME call' = c, UNCHANGED session
        PROVE  CallConsistent'
    BY <2>2, <2>3, <2>4 DEF session, CallConsistent, OnlySlot
  <2>. QED
    BY <2>1, <2>4, IssueTable DEF c
<1>3. ASSUME UNCHANGED <<session, call>>
      PROVE  TableInv'
  BY <1>3 DEF session, TableInv, NothingOutlivesSession, SlotsDistinct,
              OneDeliveryPerSource, Active, CallConsistent, OnlySlot
<1>4. CASE (\E r \in Requests : Refuse(r)) \/ RefuseTuning \/ PollNotReady
  BY <1>3, <1>4 DEF Refuse, RefuseTuning, PollNotReady
<1>5. ASSUME NEW r \in {Ping, PollTelemetry}, ready,
             Issue(NewCall("reply", r, 0, FALSE, 0))
      PROVE  TableInv'
  <2>1. r.command \notin Subscribing \cup {"UNSUBSCRIBE"}
    BY DEF Ping, PollTelemetry, Subscribing
  <2>2. ASSUME call' = NewCall("reply", r, 0, FALSE, 0), UNCHANGED session
        PROVE  CallConsistent'
    BY <1>5, <2>1, <2>2 DEF session, CallConsistent, NewCall
  <2>. QED
    BY <1>5, <2>2, IssueTable
<1>6. CASE Poll
  BY <1>5, <1>6 DEF Poll
<1>7. CASE Configure
  <2>. DEFINE r == Monitor(call.timeout)
  <2>1. call.begin /\ call.phase = "configure" /\ Issue(NewCall("reply", r, 0, TRUE, call.timeout))
    BY <1>7 DEF Configure, TableInv, CallConsistent
  <2>2. Cleared /\ call.timeout \in Timeouts \cup {0}
    BY <2>1, BeginIsCleared, CallFields
  <2>3. r.command \notin Subscribing \cup {"UNSUBSCRIBE"}
    BY DEF Monitor, Subscribing
  <2>4. ready
    BY <2>1 DEF TableInv, CallConsistent
  <2>5. ASSUME call' = NewCall("reply", r, 0, TRUE, call.timeout), UNCHANGED session
        PROVE  CallConsistent'
    <3>. HIDE DEF r
    <3>1. r \in {Monitor(t) : t \in Timeouts \cup {0}}
      BY <2>2 DEF r
    <3>. QED
      BY <2>2, <2>3, <2>4, <2>5, <3>1 DEF session, CallConsistent, NewCall, Cleared
  <2>. QED
    BY <2>1, <2>2, <2>5, IssueTable
<1>. QED
  BY <1>1, <1>2, <1>4, <1>6, <1>7 DEF SketchCalls

\* A read that ends the call with a failure, or the timeout.
LEMMA FailedReadTable ==
  ASSUME TableInv, NEW failure, NEW code, Fail(call, failure, code)
  PROVE  TableInv'
BY FailTable, BeginIsCleared DEF Fail

\* A wait that goes on, with no slot given to another source.
LEMMA WaitTable ==
  ASSUME TypeOK, TableInv, UNCHANGED <<ready, heartbeat, profile, subscriptionMs, call>>,
         Cleared => Cleared',
         \A i \in SlotIndex : slots'[i].key = slots[i].key,
         ~ready => UNCHANGED slots
  PROVE  TableInv'
<1>1. CallConsistent'
  BY CallFields, BeginIsCleared DEF TableInv, CallConsistent, Cleared, OnlySlot
<1>. QED
  BY <1>1 DEF TableInv, NothingOutlivesSession, SlotsDistinct,
              OneDeliveryPerSource, Active

\* An ACK that completes the call in a session that is ready.
LEMMA SucceedTable ==
  ASSUME TableInv, Succeed, call.phase = "reply", SlotsDistinct', OneDeliveryPerSource'
  PROVE  TableInv'
<1>1. CallConsistent'
  BY IdleIsConsistent DEF Succeed
<1>2. ready'
  BY DEF Succeed, TableInv, CallConsistent
<1>. QED
  BY <1>1, <1>2 DEF TableInv, NothingOutlivesSession

\* An ACK writes the slot that was chosen for it, and takes the other kind out.
LEMMA ReceiveTable ==
  ASSUME TypeOK, TableInv, Receive
  PROVE  TableInv'
<1>0. /\ SlotsDistinct /\ OneDeliveryPerSource /\ NothingOutlivesSession
      /\ slots \in [SlotIndex -> [key : Keys \cup {NoKey}, sample : Stamps, since : Stamps]]
      /\ subscriptionMs \in [Sources -> Nat]
  BY DEF TableInv, TypeOK, SessionTypeOK
<1>1. CASE ReceiveStale
  BY <1>1, WaitTable DEF ReceiveStale, KeepWaiting, session, Cleared
<1>2. CASE ReceiveEvent
  <2>. DEFINE slot == FindSubscription(Frame.key)
  <2>1. \A i \in SlotIndex : slots'[i].key = slots[i].key
    BY <1>0, <1>2 DEF ReceiveEvent
  <2>2. Cleared => slot = 0
    BY FindSubscriptionResult DEF Cleared, EmptySlot, Active
  <2>3. Cleared => Cleared'
    BY <1>2, <2>2 DEF ReceiveEvent, Cleared
  <2>4. ~ready => UNCHANGED slots
    BY <1>2 DEF ReceiveEvent
  <2>. QED
    BY <1>2, <2>1, <2>3, <2>4, WaitTable DEF ReceiveEvent, KeepWaiting
<1>3. CASE ReceiveLegacyEvent
  BY <1>3, WaitTable DEF ReceiveLegacyEvent, KeepWaiting, Cleared
<1>4. CASE ReceiveError
  BY <1>4, FailedReadTable DEF ReceiveError
<1>5. CASE ReceiveMismatch
  BY <1>5, FailedReadTable DEF ReceiveMismatch
<1>6. CASE ReceiveInit
  <2>1. CASE Fail(call, "INCOMPATIBLE_PROTOCOL", "NONE")
    BY <2>1, FailedReadTable
  <2>2. CASE /\ call' = [call EXCEPT !.phase = "ready"]
             /\ UNCHANGED <<ready, profile, heartbeat, subscriptionMs, slots>>
    <3>1. call.phase = "init" /\ call.begin
      BY <1>6 DEF ReceiveInit, Answered, TableInv, CallConsistent
    <3>2. call'.begin /\ call'.phase = "ready" /\ call'.request = call.request
      BY <2>2, <3>1, CallShape
    <3>3. Cleared'
      BY <2>2, <3>1, BeginIsCleared DEF Cleared
    <3>4. CallConsistent'
      BY <3>1, <3>2, <3>3 DEF CallConsistent, TableInv, Cleared
    <3>. QED
      BY <3>3, <3>4, ClearedIsFine DEF TableInv
  <2>. QED
    BY <1>6, <2>1, <2>2 DEF ReceiveInit
<1>7. CASE ReceiveReady
  <2>1. call.phase = "ready" /\ call.begin /\ Cleared /\ ready'
    BY <1>7, BeginIsCleared DEF ReceiveReady, Answered, TableInv, CallConsistent
  <2>2. UNCHANGED <<subscriptionMs, slots, heartbeat>>
    BY <1>7 DEF ReceiveReady
  <2>3. CASE call' = Idle
    BY <1>0, <2>1, <2>2, <2>3, IdleIsConsistent DEF TableInv, SlotsDistinct,
         OneDeliveryPerSource, Active, NothingOutlivesSession
  <2>4. CASE call' = [call EXCEPT !.phase = "configure"] /\ UNCHANGED profile
    <3>1. call'.begin /\ call'.phase = "configure" /\ call'.request = call.request
      BY <2>1, <2>4, CallShape
    <3>2. Cleared'
      BY <2>1, <2>2, <2>4 DEF Cleared
    <3>3. CallConsistent'
      BY <2>1, <3>1, <3>2 DEF CallConsistent, TableInv, Cleared
    <3>. QED
      BY <3>2, <3>3, ClearedIsFine DEF TableInv
  <2>. QED
    BY <1>7, <2>3, <2>4 DEF ReceiveReady
<1>8. CASE ReceiveHeartbeatAck
  <2>1. Succeed /\ call.phase = "reply"
    BY <1>8 DEF ReceiveHeartbeatAck, Answered
  <2>2. \/ UNCHANGED <<subscriptionMs, slots>>
        \/ /\ subscriptionMs' = [s \in Sources |-> 0]
           /\ \A i \in SlotIndex : slots'[i] = EmptySlot
    BY <1>8, Zenon DEF ReceiveHeartbeatAck, ClearTables
  <2>3. SlotsDistinct' /\ OneDeliveryPerSource'
    BY <1>0, <2>2 DEF SlotsDistinct, OneDeliveryPerSource, Active, EmptySlot
  <2>. QED
    BY <2>1, <2>3, SucceedTable
<1>9. CASE ReceiveSubscriptionAck
  <2>. DEFINE key == Key(call.request)
  <2>1. Succeed /\ call.phase = "reply" /\ call.request.command \in Subscribing \cup {"UNSUBSCRIBE"}
    BY <1>9 DEF ReceiveSubscriptionAck, Answered
  <2>2. /\ \A i \in SlotIndex : i # call.slot => slots'[i].key = slots[i].key
        /\ slots'[call.slot].key \in {NoKey, key} \/ call.slot \notin SlotIndex
    BY <1>9 DEF ReceiveSubscriptionAck, NewSlot, EmptySlot
  <2>3. \A s \in Sources : subscriptionMs'[s] # 0 => subscriptionMs[s] # 0 /\ KeyOf(s) # key
    BY <1>9 DEF ReceiveSubscriptionAck, Superseded
  <2>4. \A j \in SlotIndex : j # call.slot => slots[j].key # key
    BY <2>1 DEF TableInv, CallConsistent, OnlySlot
  <2>. HIDE DEF key
  <2>5. SlotsDistinct'
    BY <1>0, <2>2, <2>4 DEF SlotsDistinct, Active
  <2>6. OneDeliveryPerSource'
    BY <1>0, <2>2, <2>3, KeysAreKeys DEF OneDeliveryPerSource
  <2>. QED
    BY <2>1, <2>5, <2>6, SucceedTable
<1>10. CASE ReceiveLegacyAck
  <2>. DEFINE source == call.request.source
              slot == FindSubscription(KeyOf(source))
  <2>1. Succeed /\ call.phase = "reply"
    BY <1>10 DEF ReceiveLegacyAck, Answered
  <2>2. CASE source \in Sources
    <3>1. \A i \in SlotIndex : slots'[i].key = IF i = slot THEN NoKey ELSE slots[i].key
      BY <1>10, <2>2 DEF ReceiveLegacyAck, EmptySlot
    <3>2. \A i \in SlotIndex : i # slot => slots[i].key # KeyOf(source)
      BY <1>0, <2>2, FindSubscriptionResult, KeysAreKeys DEF SlotsDistinct, Active
    <3>3. \A s \in Sources : s # source => subscriptionMs'[s] = subscriptionMs[s]
      BY <1>0, <1>10, <2>2 DEF ReceiveLegacyAck
    <3>. HIDE DEF source, slot
    <3>4. SlotsDistinct'
      BY <1>0, <3>1 DEF SlotsDistinct, Active
    <3>5. OneDeliveryPerSource'
      BY <1>0, <2>2, <3>1, <3>2, <3>3, KeysAreKeys DEF OneDeliveryPerSource
    <3>. QED
      BY <2>1, <3>4, <3>5, SucceedTable
  <2>3. CASE source \notin Sources
    <3>1. UNCHANGED <<subscriptionMs, slots>>
      BY <1>10, <2>3 DEF ReceiveLegacyAck
    <3>. QED
      BY <1>0, <2>1, <3>1, SucceedTable DEF SlotsDistinct, OneDeliveryPerSource, Active
  <2>. QED
    BY <2>2, <2>3
<1>11. CASE ReceiveOtherAck
  BY <1>0, <1>11, SucceedTable DEF ReceiveOtherAck, Answered, SlotsDistinct, OneDeliveryPerSource, Active
<1>12. CASE ReceiveGarbage
  BY <1>12, FailedReadTable DEF ReceiveGarbage
<1>13. CASE ReceiveFails
  BY <1>13, FailedReadTable DEF ReceiveFails
<1>14. CASE Timeout
  BY <1>14, FailedReadTable DEF Timeout
<1>. QED
  BY <1>1, <1>2, <1>3, <1>4, <1>5, <1>6, <1>7, <1>8, <1>9, <1>10, <1>11,
     <1>12, <1>13, <1>14 DEF Receive

----------------------------------------------------------------------------
(* The subscription tables: the theorems *)

\* The tables are empty at the start.
LEMMA InitTable == Init => TableInv
<1>. SUFFICES ASSUME Init PROVE TableInv
  OBVIOUS
<1>1. Cleared /\ call = Idle
  BY DEF Init, ClientInit, Cleared
<1>2. \A i \in SlotIndex : slots[i].key = NoKey
  BY <1>1 DEF Cleared, EmptySlot
<1>. QED
  BY <1>1, <1>2, KeysAreKeys DEF Cleared, TableInv, NothingOutlivesSession, SlotsDistinct,
     OneDeliveryPerSource, Active, CallConsistent, Idle

\* Every step keeps the tables.
LEMMA StepTable ==
  ASSUME TypeOK, TableInv, [Next]_vars
  PROVE  TableInv'
<1>1. CASE SketchCalls \/ Configure
  BY <1>1, SketchCallsTable
<1>2. CASE Receive
  BY <1>2, ReceiveTable
<1>3. CASE Restart
  BY <1>3, ClearedTables, ClearedIsFine, IdleIsConsistent DEF Restart, TableInv
<1>4. CASE UNCHANGED clientVars
  BY <1>4 DEF clientVars, session, TableInv, NothingOutlivesSession, SlotsDistinct,
              OneDeliveryPerSource, Active, CallConsistent, OnlySlot
<1>. QED
  BY <1>1, <1>2, <1>3, <1>4 DEF Next, Client, Controller, vars

\* The tables and what a call in progress knows of them, between a slot search and the
\* ACK that fills the slot.
THEOREM TablesInvariant == Spec => []TableInv
BY TypeCorrect, InitTable, StepTable, PTL DEF Spec

\* No fatal failure, failed begin() or restart leaves anything of the session
\* behind, at whatever point of whatever call it strikes.
THEOREM SessionEndsClean == Spec => []NothingOutlivesSession
BY TablesInvariant, PTL DEF TableInv

\* No number of subscription requests, ACKs, refusals and lost sessions ever
\* gives two slots to one topic and index.
THEOREM SlotsStayDistinct == Spec => []SlotsDistinct
BY TablesInvariant, PTL DEF TableInv

\* A source moves between generic and retired delivery, and is never on both.
THEOREM OneDelivery == Spec => []OneDeliveryPerSource
BY TablesInvariant, PTL DEF TableInv

----------------------------------------------------------------------------
(* At most once: calls are written, queued and executed in their order *)

\* What is compared are numbers.
LEMMA SerialsAreNumbers ==
  ASSUME TypeOK
  PROVE  /\ \A i \in 1 .. Len(executed) : executed[i] \in Nat
         /\ \A j \in 1 .. Len(toController) : toController[j].serial \in Nat
         /\ toController \in Seq(CommandFrames) /\ Len(toController) \in Nat
         /\ executed \in Seq(Serials) /\ Len(executed) \in Nat
         /\ issued \in Nat
<1>1. toController \in Seq(CommandFrames) /\ executed \in Seq(Serials) /\ issued \in Nat
  BY ProtocolAssumption DEF TypeOK, WireTypeOK, CallTypeOK, ControllerTypeOK
<1>2. \A x \in Serials : x \in Nat
  BY ProtocolAssumption DEF Serials
<1>3. \A i \in 1 .. Len(executed) : executed[i] \in Serials
  BY <1>1, ElementOfSeq
<1>4. \A j \in 1 .. Len(toController) : toController[j] \in CommandFrames
  BY <1>1, ElementOfSeq
<1>5. \A f \in CommandFrames : f.serial \in Serials
  BY DEF CommandFrames
<1>. QED
  BY <1>1, <1>2, <1>3, <1>4, <1>5, LenProperties

\* A call that is sent is the youngest.
LEMMA SendOrder ==
  ASSUME TypeOK, InOrder, Allocate, UNCHANGED executed, NEW f,
         f.serial = issued + 1,
         \/ UNCHANGED toController
         \/ toController' = Append(toController, f)
  PROVE  InOrder'
<1>. DEFINE n == Len(toController)
<1>1. /\ toController \in Seq(CommandFrames) /\ n \in Nat
      /\ issued \in Nat /\ issued' = issued + 1
      /\ \A j \in 1 .. n : toController[j].serial \in Nat
  BY SerialsAreNumbers DEF Allocate
<1>2. \A i \in 1 .. Len(executed) : executed[i] \in Nat
  BY SerialsAreNumbers
<1>3. CASE UNCHANGED toController
  BY <1>1, <1>2, <1>3 DEF InOrder, ExecutedAtMostOnce
<1>4. CASE toController' = Append(toController, f)
  <2>1. /\ Len(toController') = n + 1
        /\ \A j \in 1 .. n : toController'[j].serial = toController[j].serial
        /\ toController'[n + 1].serial = issued + 1
    BY <1>1, <1>4
  <2>2. ASSUME NEW i \in 1 .. n + 1, NEW j \in 1 .. n + 1, i < j
        PROVE  toController'[i].serial < toController'[j].serial
    <3>1. i \in 1 .. n /\ toController[i].serial <= issued
      BY <1>1, <2>2 DEF InOrder
    <3>2. CASE j = n + 1
      BY <1>1, <2>1, <3>1, <3>2
    <3>3. CASE j \in 1 .. n
      BY <2>1, <2>2, <3>1, <3>3 DEF InOrder
    <3>. QED
      BY <1>1, <3>2, <3>3
  <2>3. \A i \in 1 .. Len(executed), j \in 1 .. n + 1 : executed[i] < toController'[j].serial
    BY <1>1, <1>2, <2>1 DEF InOrder
  <2>4. \A j \in 1 .. n + 1 : toController'[j].serial <= issued'
    BY <1>1, <2>1 DEF InOrder
  <2>5. \A i \in 1 .. Len(executed) : executed[i] <= issued'
    BY <1>1, <1>2 DEF InOrder
  <2>. QED
    BY <2>1, <2>2, <2>3, <2>4, <2>5 DEF InOrder, ExecutedAtMostOnce
<1>. QED
  BY <1>3, <1>4

\* The oldest is served first.
LEMMA ServeOrder ==
  ASSUME TypeOK, InOrder, UNCHANGED issued,
         toController # <<>>, toController' = Tail(toController),
         \/ UNCHANGED executed
         \/ executed' = Append(executed, Command.serial)
  PROVE  InOrder'
<1>. DEFINE n == Len(toController)
            m == Len(executed)
<1>1. /\ toController \in Seq(CommandFrames) /\ n \in Nat /\ n >= 1
      /\ issued \in Nat /\ executed \in Seq(Serials) /\ m \in Nat
      /\ \A j \in 1 .. n : toController[j].serial \in Nat
  BY SerialsAreNumbers
<1>2. /\ Len(toController') = n - 1
      /\ \A j \in 1 .. n - 1 : toController'[j] = toController[j + 1]
      /\ Command = toController[1]
  BY <1>1 DEF Command
<1>3. \A i \in 1 .. m : executed[i] \in Nat
  BY SerialsAreNumbers
<1>4. /\ \A i, j \in 1 .. n - 1 : i < j => toController'[i].serial < toController'[j].serial
      /\ \A i \in 1 .. m, j \in 1 .. n - 1 : executed[i] < toController'[j].serial
      /\ \A j \in 1 .. n - 1 : toController'[j].serial <= issued'
      /\ \A j \in 1 .. n - 1 : Command.serial < toController'[j].serial
  BY <1>1, <1>2, <1>3 DEF InOrder
<1>5. CASE UNCHANGED executed
  BY <1>2, <1>4, <1>5 DEF InOrder, ExecutedAtMostOnce
<1>6. CASE executed' = Append(executed, Command.serial)
  <2>1. /\ Len(executed') = m + 1
        /\ \A i \in 1 .. m : executed'[i] = executed[i]
        /\ executed'[m + 1] = Command.serial
    BY <1>1, <1>2, <1>6
  <2>2. /\ \A i \in 1 .. m : executed[i] < Command.serial
        /\ Command.serial <= issued' /\ Command.serial \in Nat
    BY <1>1, <1>2 DEF InOrder
  <2>3. ASSUME NEW i \in 1 .. m + 1, NEW j \in 1 .. m + 1, i < j
        PROVE  executed'[i] < executed'[j]
    <3>1. i \in 1 .. m
      BY <1>1, <2>3
    <3>2. CASE j = m + 1
      BY <2>1, <2>2, <3>1, <3>2
    <3>3. CASE j \in 1 .. m
      BY <2>1, <2>3, <3>1, <3>3 DEF InOrder, ExecutedAtMostOnce
    <3>. QED
      BY <1>1, <3>2, <3>3
  <2>4. \A i \in 1 .. m + 1, j \in 1 .. n - 1 : executed'[i] < toController'[j].serial
    <3>1. \A i \in 1 .. m + 1 : i \in 1 .. m \/ i = m + 1
      BY <1>1
    <3>. QED
      BY <1>4, <2>1, <3>1
  <2>5. \A i \in 1 .. m + 1 : executed'[i] <= issued'
    <3>1. \A i \in 1 .. m + 1 : i \in 1 .. m \/ i = m + 1
      BY <1>1
    <3>. QED
      BY <2>1, <2>2, <3>1 DEF InOrder
  <2>. QED
    BY <1>2, <1>4, <2>1, <2>3, <2>4, <2>5 DEF InOrder, ExecutedAtMostOnce
<1>. QED
  BY <1>5, <1>6

\* Whatever moves neither queue nor count keeps the order.
LEMMA KeptOrder ==
  ASSUME InOrder, UNCHANGED <<toController, executed, issued>>
  PROVE  InOrder'
BY DEF InOrder, ExecutedAtMostOnce

\* At the start nothing has been sent.
LEMMA InitOrder == Init => InOrder
BY DEF Init, WireInit, ClientInit, ControllerInit, InOrder, ExecutedAtMostOnce

\* Every step keeps the order.
LEMMA StepOrder ==
  ASSUME TypeOK, InOrder, [Next]_vars
  PROVE  InOrder'
<1>1. ASSUME UNCHANGED executed, NEW phase, NEW r, NEW slot, NEW begin, NEW timeout,
             Allocate,
             \/ Sent(NewCall(phase, r, slot, begin, timeout))
             \/ NotSent(NewCall(phase, r, slot, begin, timeout))
      PROVE  InOrder'
  <2>. DEFINE f == FrameOf(NewCall(phase, r, slot, begin, timeout))
  <2>1. f.serial = issued + 1
    BY DEF FrameOf, NewCall
  <2>2. UNCHANGED toController \/ toController' = Append(toController, f)
    BY <1>1 DEF Sent, NotSent, WireSend, WireSendFails
  <2>. HIDE DEF f
  <2>. QED
    BY <1>1, <2>1, <2>2, SendOrder
<1>2. CASE Client /\ (SketchCalls \/ Configure)
  <2>1. UNCHANGED executed
    BY <1>2 DEF Client, controllerVars
  <2>2. ASSUME NEW t, Begin(t) PROVE InOrder'
    BY <1>1, <2>1, <2>2 DEF Begin
  <2>3. ASSUME NEW r, Request(r) PROVE InOrder'
    BY <1>1, <2>1, <2>3 DEF Request, Issue
  <2>4. CASE (\E r \in Requests : Refuse(r)) \/ RefuseTuning \/ PollNotReady
    BY <2>1, <2>4, KeptOrder DEF Refuse, RefuseTuning, PollNotReady, wireVars
  <2>5. CASE Poll \/ Configure
    BY <1>1, <2>1, <2>5 DEF Poll, Configure, Issue
  <2>. QED
    BY <1>2, <2>2, <2>3, <2>4, <2>5 DEF SketchCalls
<1>3. CASE Client /\ (Receive \/ Restart)
  <2>1. UNCHANGED <<toController, issued>>
    BY <1>3 DEF Receive, ReceiveStale, ReceiveEvent, ReceiveLegacyEvent, ReceiveError,
       ReceiveMismatch, ReceiveInit, ReceiveReady, ReceiveHeartbeatAck,
       ReceiveSubscriptionAck, ReceiveLegacyAck, ReceiveOtherAck, ReceiveGarbage,
       ReceiveFails, Timeout, Restart, Answered, Read, wireVars
  <2>. QED
    BY <1>3, <2>1, KeptOrder DEF Client, controllerVars
<1>4. CASE Controller /\ (ServeInit \/ ServeError \/ ServeHeartbeat \/ ServeSubscription
                          \/ ServeLegacy \/ ServePoll \/ ServeOther)
  <2>1. /\ toController # <<>> /\ toController' = Tail(toController)
        /\ UNCHANGED executed \/ executed' = Append(executed, Command.serial)
    BY <1>4 DEF ServeInit, ServeError, ServeHeartbeat, ServeSubscription, ServeLegacy,
       ServePoll, ServeOther, Serve, Executed, Answer, controllerVars
  <2>. QED
    BY <1>4, <2>1, ServeOrder DEF Controller, clientVars
<1>5. CASE Controller /\ (EmitEvent \/ Expire)
  BY <1>5, KeptOrder DEF Controller, clientVars, EmitEvent, Expire, controllerVars, wireVars
<1>6. CASE Controller /\ Reboot
  <2>1. toController' = <<>> /\ UNCHANGED <<executed, issued>>
    BY <1>6 DEF Controller, clientVars, Reboot
  <2>. QED
    BY <2>1 DEF InOrder, ExecutedAtMostOnce
<1>7. CASE UNCHANGED vars
  BY <1>7, KeptOrder DEF vars, clientVars, wireVars, controllerVars
<1>. QED
  BY <1>2, <1>3, <1>4, <1>5, <1>6, <1>7 DEF Next, Client, Controller, ControllerNext

\* What is queued is in order, younger than what was executed and no younger than what
\* was issued.
THEOREM OrderInvariant == Spec => []InOrder
BY TypeCorrect, InitOrder, StepOrder, PTL DEF Spec

\* Whatever fails or is repeated by the sketch, the controller never executes
\* one call twice, and never a call after a later one.
THEOREM AtMostOnceExecution == Spec => []ExecutedAtMostOnce
BY OrderInvariant, PTL DEF InOrder
=============================================================================
