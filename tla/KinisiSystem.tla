---------------------------- MODULE KinisiSystem ----------------------------
(***************************************************************************)
(* The library, the wire and the controller together, and what the library *)
(* promises the sketch about its session, its subscriptions and its calls. *)
(***************************************************************************)
EXTENDS KinisiProtocol, KinisiController

CONSTANTS
  CanRestart          \* the Arduino may restart

ASSUME SystemAssumption == CanRestart \in BOOLEAN

vars == <<clientVars, wireVars, controllerVars>>

Init == WireInit /\ ClientInit /\ ControllerInit

----------------------------------------------------------------------------
(* IDs are recycled after MaxId calls.  The library relies on no frame of  *)
(* the previous use of an ID being anywhere on its way by then: with 65535 *)
(* IDs and a controller that holds a few frames, 65535 calls would have to *)
(* go by without one of them draining the controller.                      *)

Outstanding(id) ==
  \/ \E i \in 1 .. Len(toController) : toController[i].id = id
  \/ \E i \in 1 .. Len(toClient) :
       toClient[i].kind \in {"REPLY", "ERROR"} /\ toClient[i].id = id

Recycled == issued >= MaxId
IdsDrain == Recycled /\ issued' # issued => ~Outstanding(nextId)

SketchCalls ==
  \/ \E t \in Timeouts : Begin(t)
  \/ \E r \in Requests : Request(r) \/ Refuse(r)
  \/ RefuseTuning \/ PollNotReady \/ Poll

Client ==
  /\ SketchCalls \/ Configure \/ Receive \/ (CanRestart /\ Restart)
  /\ UNCHANGED controllerVars

Controller == ControllerNext /\ UNCHANGED clientVars

Next ==
  /\ Client \/ Controller
  /\ IdsDrain

Spec == Init /\ [][Next]_vars

----------------------------------------------------------------------------
(* Types *)

Own == {Begin0, Ping, PollTelemetry} \cup {Monitor(t) : t \in Timeouts \cup {0}}
AnyRequest == Requests \cup Own

Keys == {Key(r) : r \in {q \in Requests : q.command \in Subscribing \cup {"UNSUBSCRIBE"}}}
LegacyKeys == {KeyOf(s) : s \in Sources}
Serials == 1 .. MaxCalls
Stamps == {NoSample} \cup Serials
Ids == 1 .. MaxId

\* The commands of those requests, and READY, which only answers.
Commands == {r.command : r \in AnyRequest} \cup {"READY"}

CommandFrames ==
  {f \in [command : Commands, id : Ids, request : AnyRequest, serial : Serials] :
     f.command = f.request.command}

ReplyFrames ==
  [kind : {"REPLY"}, command : Commands, id : Ids,
   identity : Firmwares \cup {NoIdentity}, serial : Serials]
  \cup [kind : {"ERROR"}, command : Commands, id : Ids, code : ErrorCodes, serial : Serials]
  \cup [kind : {"EVENT"}, key : Keys, stamp : Serials]
  \cup [kind : {"LEGACY_EVENT"}, source : Sources, stamp : Serials]

Call == [phase : {"idle", "init", "ready", "configure", "reply"},
         request : AnyRequest, id : {0} \cup Ids, slot : {0} \cup SlotIndex,
         begin : BOOLEAN, timeout : Timeouts \cup {0}, serial : {0} \cup Serials]

WireTypeOK ==
  /\ toController \in Seq(CommandFrames)
  /\ toClient \in Seq(ReplyFrames)

SessionTypeOK ==
  /\ ready \in BOOLEAN
  /\ identity \in Firmwares \cup {NoIdentity}
  /\ heartbeat \in Nat
  /\ subscriptionMs \in [Sources -> Nat]
  /\ sampleMask \subseteq Sources
  /\ slots \in [SlotIndex -> [key : Keys \cup {NoKey}, sample : Stamps, since : Stamps]]

CallTypeOK ==
  /\ nextId \in Ids
  /\ error \in [failure : Failures \cup {"NONE"}, code : ErrorCodes \cup {"NONE"},
                command : Commands \cup {"NONE", "INITIALIZE_MOTOR_CONTROLLER"},
                id : {0} \cup Ids]
  /\ legacySamples \in [Sources -> Stamps]
  /\ call \in Call
  /\ issued \in 0 .. MaxCalls

ControllerTypeOK ==
  /\ firmware \in Firmwares
  /\ up \in BOOLEAN /\ watchdog \in BOOLEAN
  /\ subs \subseteq [key : Keys, legacy : {FALSE}, stamp : Serials]
                   \cup [key : LegacyKeys, legacy : {TRUE}, stamp : Serials]
  /\ executed \in Seq(Serials)

\* Every variable has a value its C++ type can hold, every frame has a shape
\* the other side understands, every sample was sent by the controller.
TypeOK == WireTypeOK /\ SessionTypeOK /\ CallTypeOK /\ ControllerTypeOK

----------------------------------------------------------------------------
(* Safety *)

\* Losing the session loses everything that depended on it: after any fatal
\* failure, a failed begin() or a restart, no subscription with its sample, no
\* profile and no heartbeat of the old session is left for the sketch or for
\* poll() to use.
NothingOutlivesSession ==
  ~ready => /\ \A i \in SlotIndex : slots[i] = EmptySlot
            /\ \A s \in Sources : subscriptionMs[s] = 0
            /\ heartbeat = 0
            /\ profile = NoProfile

\* Two slots never serve the same topic and index, though the slot of a
\* subscription is chosen before its request is sent and filled after the ACK.
SlotsDistinct ==
  \A i, j \in SlotIndex :
    Active(slots[i]) /\ slots[i].key = slots[j].key => i = j

\* An odometry source is streamed by a generic or by a retired subscription,
\* never by both: each ACK of the one kind removes the other.
OneDeliveryPerSource ==
  \A s \in Sources, i \in SlotIndex :
    subscriptionMs[s] # 0 => slots[i].key # KeyOf(s)

\* A cached sample was delivered for the subscription that now holds the slot:
\* not for the one it replaced, not for one of an earlier session, whatever
\* events were still queued when the ACK came.
SamplesOfThisSubscription ==
  \A i \in SlotIndex : slots[i].sample \in {NoSample, slots[i].since}

\* The retired getters show a source only while it is subscribed, however late
\* its last event is read.  They do not look at ready_: without a session
\* nothing is subscribed, and this is what keeps them from showing a sample.
LegacySamplesSubscribed ==
  \A s \in sampleMask : subscriptionMs[s] # 0

\* Between two calls of a live session, the library and the controller agree
\* on what is streamed, for whom, and on whether the watchdog runs.
TablesAgree ==
  call = Idle /\ ready /\ up =>
    /\ subs = {[key |-> slots[i].key, legacy |-> FALSE, stamp |-> slots[i].since] :
                  i \in {j \in SlotIndex : Active(slots[j])}}
             \cup {t \in subs : t.legacy}
    /\ {t.key : t \in {u \in subs : u.legacy}}
         = {KeyOf(s) : s \in {q \in Sources : subscriptionMs[q] # 0}}
    /\ watchdog = (heartbeat # 0)

\* The controller never streams more generic sources than the library has slots
\* to cache them in: not while a request for one more is on its way, not after
\* the session was lost and its tables were cleared, whatever was given up or
\* refused before the table was full.
StreamsFitSlots ==
  Cardinality({s \in subs : ~s.legacy}) <= MaxSubscriptions

\* The controller executes each call at most once and never out of order: the
\* library does not resend a request that may have been executed.
ExecutedAtMostOnce ==
  \A i, j \in 1 .. Len(executed) : i < j => executed[i] < executed[j]

----------------------------------------------------------------------------
(* Why the slots stay distinct: while a subscription request is on its way *)
(* the table it was checked against does not change under it.              *)

\* No slot but slot i serves the key.
OnlySlot(i, key) == \A j \in SlotIndex \ {i} : slots[j].key # key

\* What a call in progress knows of the session.  A begin() finds it empty;
\* any other call runs in a ready session, and the slot it chose when it was
\* issued is still the right one.
CallConsistent ==
  /\ call.begin =>
       /\ call.request \in {Begin0} \cup {Monitor(t) : t \in Timeouts \cup {0}}
       /\ \A i \in SlotIndex : slots[i] = EmptySlot
       /\ \A s \in Sources : subscriptionMs[s] = 0
       /\ heartbeat = 0 /\ profile = NoProfile
  /\ call.phase \in {"init", "ready", "configure"} => call.begin
  /\ call.phase \in {"configure", "reply"} => ready
  /\ call.phase = "reply" /\ call.request.command \in Subscribing =>
       /\ call.request.topic \in Topics
       /\ call.slot \in SlotIndex
       /\ slots[call.slot].key \in {NoKey, Key(call.request)}
       /\ OnlySlot(call.slot, Key(call.request))
  /\ call.phase = "reply" /\ call.request.command = "UNSUBSCRIBE" =>
       /\ call.request.topic \in Topics
       /\ OnlySlot(call.slot, Key(call.request))

\* The inductive invariant of the subscription tables.
TableInv ==
  NothingOutlivesSession /\ SlotsDistinct /\ OneDeliveryPerSource /\ CallConsistent

\* The inductive invariant of ExecutedAtMostOnce: what waits to be executed is
\* younger than all that was, and was issued.
InOrder ==
  /\ ExecutedAtMostOnce
  /\ \A i, j \in 1 .. Len(toController) :
       i < j => toController[i].serial < toController[j].serial
  /\ \A i \in 1 .. Len(executed), j \in 1 .. Len(toController) :
       executed[i] < toController[j].serial
  /\ \A i \in 1 .. Len(executed) : executed[i] <= issued
  /\ \A j \in 1 .. Len(toController) : toController[j].serial <= issued

----------------------------------------------------------------------------
(* What the sketch may rely on, without IDs, frames or sessions            *)

\* How the last operation ended, "none" while one is in progress.
Result ==
  IF call # Idle THEN "none" ELSE IF error.failure = "NONE" THEN "ok" ELSE "failed"

Calls == INSTANCE AtMostOnce WITH
  MaxCalls <- MaxCalls,
  pending  <- call.serial,
  last     <- issued,
  done     <- {executed[i] : i \in 1 .. Len(executed)},
  outcome  <- Result

\* The library, wire and controller implement at-most-once calls: a call that
\* reports success was executed, the reply that completed it was the reply to
\* that very call and not a late one to an earlier call, and nothing is ever
\* executed that was not issued.
CallsAtMostOnce == Calls!Spec

----------------------------------------------------------------------------
(* What the sketch may rely on, without slots, masks and ACKs              *)

Served == Keys \cup LegacyKeys

\* The subscription of a source and the sample its getter shows.
Entry(key) ==
  LET slot == FindSubscription(key)
      retired == {s \in Sources : KeyOf(s) = key /\ subscriptionMs[s] # 0}
      shown == IF key \in LegacyKeys
               THEN SubscribedOdometry(CHOOSE s \in Sources : KeyOf(s) = key) ELSE NoSample
  IN [delivery |-> CASE slot = 0 /\ retired = {} -> "none"
                     [] slot = 0 /\ retired # {} -> "retired"
                     [] slot # 0 /\ retired = {} -> "generic"
                     [] OTHER -> "both",
      since |-> IF slot = 0 THEN 0 ELSE slots[slot].since,
      sample |-> IF slot = 0 THEN shown ELSE slots[slot].sample]

\* The change that the call in progress asks for.
Change ==
  LET r == call.request
      To(key, delivery) ==
        [kind |-> "change", key |-> key, delivery |-> delivery, since |-> call.serial]
  IN CASE call = Idle -> [kind |-> "idle"]
       [] call # Idle /\ call.begin -> [kind |-> "begin"]
       [] OTHER ->
            CASE r.command \in Subscribing -> To(Key(r), "generic")
              [] r.command = "UNSUBSCRIBE" -> To(Key(r), "none")
              [] r.command = "SUBSCRIBE_ODOMETRY" /\ r.source \in Sources ->
                   To(KeyOf(r.source), "retired")
              [] r.command = "UNSUBSCRIBE_ODOMETRY" /\ r.source \in Sources ->
                   To(KeyOf(r.source), "none")
              [] r.command = "SET_HEARTBEAT_CONFIG" /\ ~(r.enabled /\ r.timeout # 0) ->
                   [kind |-> "end"]
              [] OTHER -> [kind |-> "other"]

Registry == INSTANCE SubscriptionRegistry WITH
  Keys     <- Served,
  Capacity <- MaxSubscriptions,
  Stamps   <- Serials,
  table    <- [k \in Served |-> Entry(k)],
  request  <- Change,
  result   <- Result

\* The slots, the retired tables and the sample marks together are one table from
\* sources to subscriptions: a call that succeeds has changed the entry it names
\* and no other, a refused or failed one none unless the session went, and a
\* getter shows a sample only of the subscription that is in the table.
RegistryKept == Registry!Spec
=============================================================================
