--------------------------- MODULE KinisiProtocol ---------------------------
(***************************************************************************)
(* The class KinisiProtocol (kinisi_protocol.cpp): one blocking client of  *)
(* a Kinisi controller.  A call of begin(), poll() or a command method is  *)
(* a sequence of Wire transactions; everything the code does between two   *)
(* transactions is one action here, so that the controller, the bus and    *)
(* the clock can act between any two of them.                              *)
(*                                                                         *)
(* "call" is the call in progress, the program counter of the sketch:      *)
(*   idle       no call, the sketch runs its own code                      *)
(*   init       begin() waits for the INIT reply                           *)
(*   ready      begin() waits for READY                                    *)
(*   configure  begin() is ready and about to send SET_HEARTBEAT_CONFIG    *)
(*   reply      request() waits for its reply ("begin" says for whom)      *)
(*                                                                         *)
(* The clock is abstract: a call may time out whenever it waits, and poll()*)
(* finds its service interval or its heartbeat interval due or not due.    *)
(***************************************************************************)
EXTENDS KinisiGate, KinisiWire, FiniteSets

CONSTANTS
  MaxSubscriptions,   \* KINISI_MAX_SUBSCRIPTIONS
  MaxId,              \* the last message ID before the counter wraps to 1
  Requests,           \* the requests a sketch makes through the methods
  Timeouts,           \* heartbeat timeouts it gives to begin(), 0 to opt out
  MaxCalls            \* bound: calls that put a frame on the bus

ASSUME ProtocolAssumption ==
  /\ MaxSubscriptions \in 1 .. 16
  /\ MaxId \in Nat \ {0}
  /\ Timeouts \subseteq Nat
  /\ MaxCalls \in Nat

\* A request has the payload fields of its command, with unsigned values.  INIT
\* is sent by begin() alone, READY by the controller alone.
ASSUME RequestAssumption ==
  \A r \in Requests :
    /\ r.command \in STRING \ {"INIT", "READY"}
    /\ r.command \in Subscribing \cup {"UNSUBSCRIBE"} =>
         r.topic \in STRING /\ r.index \in Nat
    /\ r.command \in Subscribing \cup {"SUBSCRIBE_ODOMETRY"} => r.interval \in Nat
    /\ r.command \in {"SUBSCRIBE_ODOMETRY", "UNSUBSCRIBE_ODOMETRY"} => r.source \in Nat
    /\ r.command = "SET_HEARTBEAT_CONFIG" => r.enabled \in BOOLEAN /\ r.timeout \in Nat

VARIABLES
  nextId,             \* next_id_
  ready,              \* ready_
  identity,           \* identity_: the board and the protocol minor
  profile,            \* profile_ and profile_known_
  error,              \* error_
  heartbeat,          \* heartbeat_ms_
  subscriptionMs,     \* subscription_ms_: the retired odometry subscriptions
  sampleMask,         \* sample_mask_, as the set of sources whose bit is set
  legacySamples,      \* encoder_samples_ and platform_sample_
  slots,              \* subscriptions_: the generic subscriptions
  call,               \* the call in progress
  issued              \* history: how many calls put a frame on the bus

session == <<ready, identity, profile, heartbeat, subscriptionMs,
             sampleMask, slots>>
clientVars == <<nextId, session, legacySamples, error, call, issued>>

----------------------------------------------------------------------------
(* Values *)

NoError == [failure |-> "NONE", code |-> "NONE", command |-> "NONE", id |-> 0]
NoKey == <<"NONE", 0>>
NoSample == 0
SlotIndex == 1 .. MaxSubscriptions

\* A slot whose interval_ms is 0.  "since" is history: the call that filled it.
EmptySlot == [key |-> NoKey, sample |-> NoSample, since |-> 0]

Begin0 == [command |-> "INIT"]
Ping == [command |-> "PING"]
PollTelemetry == [command |-> "POLL_TELEMETRY"]
Monitor(t) == [command |-> "SET_HEARTBEAT_CONFIG", enabled |-> TRUE, timeout |-> t]

Idle == [phase |-> "idle", request |-> Ping, id |-> 0, slot |-> 0,
         begin |-> FALSE, timeout |-> 0, serial |-> 0]

Waiting == call.phase \in {"init", "ready", "reply"}

Link == [ready |-> ready, minor |-> identity.minor, profile |-> profile,
         wire |-> WireBufferSize]

Active(slot) == slot.key # NoKey

\* findSubscription: the slot of a topic and index, 0 when there is none.
FindSubscription(key) ==
  IF \E i \in SlotIndex : Active(slots[i]) /\ slots[i].key = key
  THEN CHOOSE i \in SlotIndex : Active(slots[i]) /\ slots[i].key = key
  ELSE 0

\* Mutant of FreeSlot: the search runs one slot too far.
FreeSlotPastEnd ==
  IF \E i \in SlotIndex : ~Active(slots[i])
  THEN CHOOSE i \in SlotIndex : ~Active(slots[i])
  ELSE MaxSubscriptions + 1

\* A slot whose interval_ms is 0, 0 when there is none.  The code takes the
\* first; nothing outside the table can tell which one it took.
FreeSlot ==
  IF \E i \in SlotIndex : ~Active(slots[i])
  THEN CHOOSE i \in SlotIndex : ~Active(slots[i])
  ELSE 0

Key(r) == <<r.topic, r.index>>

\* Mutant of SubscriptionSlot: a subscription always takes a free slot.
SubscriptionSlotFresh(r) ==
  IF r.command \in Subscribing THEN FreeSlot
  ELSE IF r.command = "UNSUBSCRIBE" THEN FindSubscription(Key(r)) ELSE 0

\* subscription_slot: chosen before the request is sent, used after its ACK.
SubscriptionSlot(r) ==
  CASE r.command \in Subscribing ->
         IF FindSubscription(Key(r)) # 0 THEN FindSubscription(Key(r)) ELSE FreeSlot
    [] r.command = "UNSUBSCRIBE" -> FindSubscription(Key(r))
    [] OTHER -> 0

\* Mutant of Successor: the counter wraps to zero.
SuccessorToZero(id) == (id + 1) % (MaxId + 1)

\* allocateId: zero is never an ID.
Successor(id) == IF id = MaxId THEN 1 ELSE id + 1

----------------------------------------------------------------------------
(* fail() *)

\* Mutant of Fatal: a timeout leaves the session usable.
FatalNotTimeout(e) ==
  \/ e.failure \in {"TRANSPORT", "MALFORMED_RESPONSE", "INCOMPATIBLE_PROTOCOL"}
  \/ e.code \in {"INIT_REQUIRED", "CLOCK_NOT_READY"}

Fatal(e) ==
  \/ e.failure \in {"TIMEOUT", "TRANSPORT", "MALFORMED_RESPONSE",
                    "INCOMPATIBLE_PROTOCOL"}
  \/ e.code \in {"INIT_REQUIRED", "CLOCK_NOT_READY"}

\* Mutant of ClearTables: the generic subscriptions are left.
ClearTablesKeepsSlots ==
  /\ sampleMask' = {}
  /\ subscriptionMs' = [s \in Sources |-> 0]
  /\ UNCHANGED slots

\* clearSubscriptions() and the two resets that always come with it.
ClearTables ==
  /\ sampleMask' = {}
  /\ subscriptionMs' = [s \in Sources |-> 0]
  /\ slots' = [i \in SlotIndex |-> EmptySlot]

ClearSession ==
  /\ ready' = FALSE
  /\ identity' = NoIdentity
  /\ profile' = NoProfile
  /\ heartbeat' = 0
  /\ ClearTables

\* fail() stores what went wrong and unwinds to the sketch; c is the call.
Report(c, failure, code) ==
  /\ error' = [failure |-> failure, code |-> code,
               command |-> c.request.command, id |-> c.id]
  /\ call' = Idle

\* What fail() does to the session.  A begin() whose heartbeat request fails
\* returns not ready, whatever the failure.
Settle(c) ==
  IF Fatal(error')
  THEN ClearSession
  ELSE /\ ready' = (ready /\ ~c.begin)
       /\ UNCHANGED <<identity, profile, heartbeat, subscriptionMs,
                      sampleMask, slots>>

Fail(c, failure, code) == Report(c, failure, code) /\ Settle(c)

----------------------------------------------------------------------------
(* send() *)

\* The call that request() or begin() is about to make with the next ID.
NewCall(phase, r, slot, begin, timeout) ==
  [phase |-> phase, request |-> r, id |-> nextId, slot |-> slot,
   begin |-> begin, timeout |-> timeout, serial |-> issued + 1]

FrameOf(c) == [command |-> c.request.command, id |-> c.id,
               request |-> c.request, serial |-> c.serial]

\* allocateId; the ID is spent even when the frame then does not fit.
Allocate ==
  /\ issued < MaxCalls
  /\ issued' = issued + 1
  /\ nextId' = Successor(nextId)

Sent(c) ==
  /\ FrameFits(c.request.command, WireBufferSize)
  /\ WireSend(FrameOf(c))
  /\ call' = c
  /\ error' = NoError

NotSent(c) ==
  \/ /\ ~FrameFits(c.request.command, WireBufferSize)
     /\ UNCHANGED toController
     /\ Report(c, "FRAME_TOO_LARGE", "NONE")
  \/ /\ FrameFits(c.request.command, WireBufferSize)
     /\ WireSendFails(FrameOf(c))
     /\ Report(c, "TRANSPORT", "NONE")

\* The part of request() after its local checks, up to the wait in receive().
Issue(c) ==
  /\ Allocate
  /\ \/ Sent(c) /\ UNCHANGED session
     \/ NotSent(c) /\ Settle(c)
  /\ UNCHANGED <<legacySamples, toClient>>

----------------------------------------------------------------------------
(* Calls the sketch makes *)

\* Mutant of Begin: a new session numbers its messages from 1 again.
BeginRestartsIds(timeout) ==
  /\ call = Idle
  /\ ClearSession
  /\ issued < MaxCalls /\ issued' = issued + 1 /\ nextId' = 2
  /\ LET c == [NewCall("init", Begin0, 0, TRUE, timeout) EXCEPT !.id = 1]
     IN  Sent(c) \/ NotSent(c)
  /\ UNCHANGED <<legacySamples, toClient>>

\* begin(timeout_ms, heartbeat_timeout_ms) up to its wait for the INIT reply.
Begin(timeout) ==
  /\ call = Idle
  /\ ClearSession
  /\ Allocate
  /\ LET c == NewCall("init", Begin0, 0, TRUE, timeout)
     IN  Sent(c) \/ NotSent(c)
  /\ UNCHANGED <<legacySamples, toClient>>

\* A command method whose request() passes its local checks.
Request(r) ==
  /\ call = Idle
  /\ Rejection(Link, r, SubscriptionSlot(r) # 0) = "NONE"
  /\ Issue(NewCall("reply", r, SubscriptionSlot(r), FALSE, 0))

\* A command method whose request() refuses it locally.
Refuse(r) ==
  /\ call = Idle
  /\ LET refusal == Rejection(Link, r, SubscriptionSlot(r) # 0)
     IN  /\ refusal # "NONE"
         /\ error' = [failure |-> refusal, code |-> RejectionCode(r, refusal),
                      command |-> r.command, id |-> 0]
  /\ UNCHANGED <<nextId, session, legacySamples, call, issued, wireVars>>

\* A method that checks its gains first (validateVelocityTuning), before it
\* even looks at readiness.
RefuseTuning ==
  /\ call = Idle
  /\ error' = [failure |-> "INVALID_ARGUMENT", code |-> "INVALID_ARGUMENT",
               command |-> "INITIALIZE_MOTOR_CONTROLLER", id |-> 0]
  /\ UNCHANGED <<nextId, session, legacySamples, call, issued, wireVars>>

Streaming == \/ \E s \in Sources : subscriptionMs[s] # 0
             \/ \E i \in SlotIndex : Active(slots[i])

\* poll() without a session.
PollNotReady ==
  /\ call = Idle /\ ~ready
  /\ error' = [failure |-> "NOT_READY", code |-> "NONE",
               command |-> "PING", id |-> 0]
  /\ UNCHANGED <<nextId, session, legacySamples, call, issued, wireVars>>

\* poll() when a subscription is due for service, or the link has been idle.
Poll ==
  /\ call = Idle /\ ready
  /\ \/ Streaming /\ Issue(NewCall("reply", PollTelemetry, 0, FALSE, 0))
     \/ heartbeat # 0 /\ Issue(NewCall("reply", Ping, 0, FALSE, 0))

\* begin() once READY has come: the nested request for the heartbeat.
Configure ==
  /\ call.phase = "configure"
  /\ Issue(NewCall("reply", Monitor(call.timeout), 0, TRUE, call.timeout))

----------------------------------------------------------------------------
(* receive(): one Wire read while a call waits *)

Frame == Head(toClient)

\* A read that returned a whole frame.
Read == Waiting /\ WireReceive /\ UNCHANGED <<nextId, issued, toController>>

\* The wait goes on.
KeepWaiting == UNCHANGED <<error, call>>

\* A frame that answers neither this call nor any subscription is skipped.
ReceiveStale ==
  /\ Read
  /\ Frame.kind \in {"REPLY", "ERROR"} /\ Frame.id # call.id
  /\ KeepWaiting
  /\ UNCHANGED <<session, legacySamples>>

\* telemetry(): a generic event is cached when its slot exists.
ReceiveEvent ==
  /\ Read
  /\ Frame.kind = "EVENT"
  /\ LET slot == FindSubscription(Frame.key)
     IN  slots' = IF ready /\ slot # 0
                  THEN [slots EXCEPT ![slot].sample = Frame.stamp]
                  ELSE slots
  /\ KeepWaiting
  /\ UNCHANGED <<ready, identity, profile, heartbeat, subscriptionMs,
                 sampleMask, legacySamples>>

\* Mutant of ReceiveLegacyEvent: an event read before READY is shown as well.
ReceiveLegacyEventEarly ==
  /\ Read
  /\ Frame.kind = "LEGACY_EVENT"
  /\ legacySamples' = [legacySamples EXCEPT ![Frame.source] = Frame.stamp]
  /\ sampleMask' = sampleMask \cup {Frame.source}
  /\ KeepWaiting
  /\ UNCHANGED <<ready, identity, profile, heartbeat, subscriptionMs, slots>>

\* telemetry(): a retired event is always stored, and shown when ready.
ReceiveLegacyEvent ==
  /\ Read
  /\ Frame.kind = "LEGACY_EVENT"
  /\ legacySamples' = [legacySamples EXCEPT ![Frame.source] = Frame.stamp]
  /\ sampleMask' = IF ready THEN sampleMask \cup {Frame.source} ELSE sampleMask
  /\ KeepWaiting
  /\ UNCHANGED <<ready, identity, profile, heartbeat, subscriptionMs, slots>>

\* An ERROR frame with this call's ID.
ReceiveError ==
  /\ Read
  /\ Frame.kind = "ERROR" /\ Frame.id = call.id
  /\ IF Frame.command = call.request.command
     THEN Fail(call, "CONTROLLER", Frame.code)
     ELSE Fail(call, "MALFORMED_RESPONSE", "NONE")
  /\ UNCHANGED legacySamples

ExpectedCommand == IF call.phase = "ready" THEN "READY" ELSE call.request.command

\* A reply with this call's ID and another command.
ReceiveMismatch ==
  /\ Read
  /\ Frame.kind = "REPLY" /\ Frame.id = call.id
  /\ Frame.command # ExpectedCommand
  /\ Fail(call, "MALFORMED_RESPONSE", "NONE")
  /\ UNCHANGED legacySamples

\* Mutant of Answered: any reply of the expected command will do.
AnsweredAnyId(phase) ==
  /\ call.phase = phase
  /\ Read
  /\ Frame.kind = "REPLY"
  /\ Frame.command = ExpectedCommand
  /\ UNCHANGED legacySamples

\* The reply this call waits for.
Answered(phase) ==
  /\ call.phase = phase
  /\ Read
  /\ Frame.kind = "REPLY" /\ Frame.id = call.id
  /\ Frame.command = ExpectedCommand
  /\ UNCHANGED legacySamples

\* begin(): the INIT reply brings the identity of the board.
ReceiveInit ==
  /\ Answered("init")
  /\ IF Frame.identity.major # 2 \/ Frame.identity.minor < 1
     THEN Fail(call, "INCOMPATIBLE_PROTOCOL", "NONE")
     ELSE /\ identity' = Frame.identity
          /\ call' = [call EXCEPT !.phase = "ready"]
          /\ UNCHANGED <<ready, profile, heartbeat, subscriptionMs,
                         sampleMask, slots, error>>

\* begin(): READY; without a heartbeat to configure the session is complete.
ReceiveReady ==
  /\ Answered("ready")
  /\ ready' = TRUE
  /\ IF call.timeout # 0
     THEN call' = [call EXCEPT !.phase = "configure"] /\ UNCHANGED profile
     ELSE call' = Idle /\ profile' = LookupBoardProfile(identity.board)
  /\ UNCHANGED <<identity, heartbeat, subscriptionMs, sampleMask, slots, error>>

\* request() returns true to its caller; in begin() that completes the session.
Succeed ==
  /\ call' = Idle
  /\ profile' = IF call.begin THEN LookupBoardProfile(identity.board) ELSE profile
  /\ UNCHANGED <<ready, identity, error>>

\* Monitoring set: without it the controller streams nothing.
ReceiveHeartbeatAck ==
  LET r == call.request
      timeout == IF r.enabled THEN r.timeout ELSE 0
  IN  /\ Answered("reply") /\ r.command = "SET_HEARTBEAT_CONFIG"
      /\ heartbeat' = timeout
      /\ IF timeout = 0
         THEN ClearTables
         ELSE UNCHANGED <<subscriptionMs, sampleMask, slots>>
      /\ Succeed

\* Mutant of NewSlot: a replaced subscription keeps its cached sample.
NewSlotKeepsSample(r) ==
  IF r.command = "UNSUBSCRIBE" THEN EmptySlot
  ELSE [key |-> Key(r), sample |-> slots[call.slot].sample, since |-> call.serial]

\* What the slot chosen before the request holds after its ACK.
NewSlot(r) ==
  IF r.command = "UNSUBSCRIBE" THEN EmptySlot
  ELSE [key |-> Key(r), sample |-> NoSample, since |-> call.serial]

\* Mutant of Superseded: a generic subscription replaces only its own kind.
SupersededNone(r) == {}

\* Mutant of Superseded: the index is taken for an encoder's whatever the topic.
SupersededByIndex(r) == {s \in Sources : s = r.index}

\* The retired subscriptions that a generic one of their source replaces.
Superseded(r) == {s \in Sources : KeyOf(s) = Key(r)}

\* A generic subscription set or removed: its slot starts afresh, and a retired
\* subscription of the same source is forgotten.
ReceiveSubscriptionAck ==
  LET r == call.request
  IN  /\ Answered("reply") /\ r.command \in Subscribing \cup {"UNSUBSCRIBE"}
      /\ slots' = [i \in SlotIndex |-> IF i = call.slot THEN NewSlot(r) ELSE slots[i]]
      /\ subscriptionMs' = [s \in Sources |->
                              IF s \in Superseded(r) THEN 0 ELSE subscriptionMs[s]]
      /\ sampleMask' = sampleMask \ Superseded(r)
      /\ UNCHANGED heartbeat
      /\ Succeed

\* A retired odometry subscription set or removed: a generic one of the same
\* source is forgotten.
ReceiveLegacyAck ==
  LET r == call.request
      unsubscribing == r.command = "UNSUBSCRIBE_ODOMETRY"
  IN  /\ Answered("reply")
      /\ r.command \in {"SUBSCRIBE_ODOMETRY", "UNSUBSCRIBE_ODOMETRY"}
      /\ IF r.source \in Sources
         THEN /\ subscriptionMs' = [subscriptionMs EXCEPT ![r.source] =
                                      IF unsubscribing THEN 0 ELSE r.interval]
              /\ sampleMask' = IF unsubscribing THEN sampleMask \ {r.source}
                               ELSE sampleMask
              /\ slots' = [i \in SlotIndex |->
                             IF i = FindSubscription(KeyOf(r.source))
                             THEN EmptySlot ELSE slots[i]]
         ELSE UNCHANGED <<subscriptionMs, sampleMask, slots>>
      /\ UNCHANGED heartbeat
      /\ Succeed

\* Any other command changes nothing the session keeps.
ReceiveOtherAck ==
  /\ Answered("reply")
  /\ call.request.command \notin
       Subscribing \cup {"UNSUBSCRIBE", "SUBSCRIBE_ODOMETRY",
                         "UNSUBSCRIBE_ODOMETRY", "SET_HEARTBEAT_CONFIG"}
  /\ UNCHANGED <<heartbeat, subscriptionMs, sampleMask, slots>>
  /\ Succeed

\* A frame that fails a check of its shape or its values: too short, a wrong
\* length, an event with an ID, a value that is not finite.
ReceiveGarbage ==
  /\ Read
  /\ Fail(call, "MALFORMED_RESPONSE", "NONE")
  /\ UNCHANGED legacySamples

\* The Wire read itself fails.
ReceiveFails ==
  /\ Waiting
  /\ WireReceiveFails
  /\ Fail(call, "TRANSPORT", "NONE")
  /\ UNCHANGED <<nextId, issued, legacySamples, toController>>

\* Mutant of Timeout: the request is sent again before giving up.
TimeoutResends ==
  /\ Waiting
  /\ \/ /\ Fail(call, "TIMEOUT", "NONE")
        /\ UNCHANGED <<nextId, issued, legacySamples, wireVars>>
     \/ /\ WireSend(FrameOf(call))
        /\ UNCHANGED <<nextId, issued, legacySamples, toClient, session, error, call>>

\* timeout_ms_ has passed since the call was sent.
Timeout ==
  /\ Waiting
  /\ Fail(call, "TIMEOUT", "NONE")
  /\ UNCHANGED <<nextId, issued, legacySamples, wireVars>>

Receive ==
  \/ ReceiveStale \/ ReceiveEvent \/ ReceiveLegacyEvent
  \/ ReceiveError \/ ReceiveMismatch \/ ReceiveInit \/ ReceiveReady
  \/ ReceiveHeartbeatAck \/ ReceiveSubscriptionAck \/ ReceiveLegacyAck
  \/ ReceiveOtherAck
  \/ ReceiveGarbage \/ ReceiveFails \/ Timeout

----------------------------------------------------------------------------
(* Samples as the sketch sees them *)

\* getSubscriptionSample: NoSample when it returns false.
SubscriptionSample(key) ==
  LET slot == FindSubscription(key)
  IN  IF ready /\ slot # 0 THEN slots[slot].sample ELSE NoSample

\* getSubscribedEncoderOdometry, getSubscribedPlatformOdometry: no look at
\* ready_, only at the source's bit.
SubscribedOdometry(source) ==
  IF source \in sampleMask THEN legacySamples[source] ELSE NoSample

----------------------------------------------------------------------------
\* Mutant of Restart: the constructor leaves the members of the session as the
\* memory happens to hold them.
RestartKeepsSession ==
  /\ nextId' = 1
  /\ legacySamples' = [s \in Sources |-> NoSample]
  /\ error' = NoError
  /\ call' = Idle
  /\ UNCHANGED <<session, issued, wireVars>>

\* The Arduino restarts: the constructor runs again, the bus does not notice.
Restart ==
  /\ nextId' = 1
  /\ ClearSession
  /\ legacySamples' = [s \in Sources |-> NoSample]
  /\ error' = NoError
  /\ call' = Idle
  /\ UNCHANGED <<issued, wireVars>>

ClientInit ==
  /\ nextId = 1
  /\ ready = FALSE
  /\ identity = NoIdentity
  /\ profile = NoProfile
  /\ error = NoError
  /\ heartbeat = 0
  /\ subscriptionMs = [s \in Sources |-> 0]
  /\ sampleMask = {}
  /\ legacySamples = [s \in Sources |-> NoSample]
  /\ slots = [i \in SlotIndex |-> EmptySlot]
  /\ call = Idle
  /\ issued = 0
=============================================================================
