------------------------- MODULE KinisiStreamProofs -------------------------
(***************************************************************************)
(* Proofs that the tables and the samples of the library are those of the  *)
(* subscriptions that the controller serves, with the events, refusals and *)
(* ACKs that are still on their way between them.                          *)
(***************************************************************************)
EXTENDS KinisiQueueProofs

----------------------------------------------------------------------------
(* The subscriptions, as the library and as the controller have them *)

\* <<key, call>> of the generic and the sources of the retired subscriptions.
Generic == {<<slots[i].key, slots[i].since>> : i \in {j \in SlotIndex : Active(slots[j])}}
Retired == {s \in Sources : subscriptionMs[s] # 0}

ServedGeneric == {<<u.key, u.stamp>> : u \in {t \in subs : ~t.legacy}}
ServedRetired == {s \in Sources : \E u \in subs : u.legacy /\ u.key = KeyOf(s)}

\* What becomes of them when request r, the call n, is executed.
EndsStreams(r) == r.command = "SET_HEARTBEAT_CONFIG" /\ ~(r.enabled /\ r.timeout # 0)

GenericAfter(g, r, n) ==
  IF EndsStreams(r) THEN {}
  ELSE IF r.command \in Subscribing THEN {e \in g : e[1] # Key(r)} \cup {<<Key(r), n>>}
  ELSE IF r.command = "UNSUBSCRIBE" THEN {e \in g : e[1] # Key(r)}
  ELSE IF r.command \in {"SUBSCRIBE_ODOMETRY", "UNSUBSCRIBE_ODOMETRY"}
       THEN {e \in g : e[1] # KeyOf(r.source)}
  ELSE g

RetiredAfter(d, r) ==
  IF EndsStreams(r) THEN {}
  ELSE IF r.command \in Subscribing \cup {"UNSUBSCRIBE"} THEN {s \in d : KeyOf(s) # Key(r)}
  ELSE IF r.command = "SUBSCRIBE_ODOMETRY" THEN d \cup {r.source}
  ELSE IF r.command = "UNSUBSCRIBE_ODOMETRY" THEN d \ {r.source}
  ELSE d

MonitoredAfter(m, r) ==
  IF r.command = "SET_HEARTBEAT_CONFIG" THEN ~EndsStreams(r) ELSE m

\* The ACK of the call is among the first n frames to the library.
AckedBy(n) == \E i \in Answers : i <= n /\ toClient[i].kind = "REPLY"
Acked == AckedBy(Len(toClient))

\* The library's tables as they will be once it has read n frames.
GenericAt(n) ==
  IF AckedBy(n) THEN GenericAfter(Generic, call.request, call.serial) ELSE Generic
RetiredAt(n) == IF AckedBy(n) THEN RetiredAfter(Retired, call.request) ELSE Retired
MonitoredAt(n) ==
  IF AckedBy(n) THEN MonitoredAfter(heartbeat # 0, call.request) ELSE heartbeat # 0

\* What the controller asks of a request for a retired subscription.
LegacyServed(r) ==
  /\ r.command \in {"SUBSCRIBE_ODOMETRY", "UNSUBSCRIBE_ODOMETRY"} => r.source \in Sources
  /\ r.command = "SUBSCRIBE_ODOMETRY" => r.interval # 0

\* Without a session the controller streams nothing.
DownIsSilent == ~up => subs = {} /\ ~watchdog

\* What the library has, and what its unread ACK will make of it, is what the
\* controller serves, as long as there is a session on both sides.
InStep ==
  ready /\ up =>
    /\ ServedGeneric = GenericAt(Len(toClient))
    /\ ServedRetired = RetiredAt(Len(toClient))
    /\ watchdog = MonitoredAt(Len(toClient))

\* An ACK has come only to a request that the controller could serve.
AckedWasServed == ready /\ Acked => LegacyServed(call.request)

\* Every event is of a subscription that the library has when it reads it.
EventsExpected ==
  ready =>
    \A p \in 1 .. Len(toClient) :
      /\ toClient[p].kind = "EVENT" => <<toClient[p].key, toClient[p].stamp>> \in GenericAt(p)
      /\ toClient[p].kind = "LEGACY_EVENT" => toClient[p].source \in RetiredAt(p)

----------------------------------------------------------------------------
(* What an ACK makes of the library's tables *)

\* The slot of a key has been emptied, or it had none.
LEMMA WithoutKey ==
  ASSUME NEW k, k # NoKey,
         \A i \in SlotIndex :
           IF slots[i].key = k THEN slots'[i].key = NoKey
           ELSE slots'[i].key = slots[i].key /\ slots'[i].since = slots[i].since
  PROVE  Generic' = {e \in Generic : e[1] # k}
BY DEF Generic, Active

\* A slot has been given to the key, free before or of that key.
LEMMA WithKey ==
  ASSUME NEW k, k # NoKey, NEW n, NEW slot \in SlotIndex,
         slots'[slot].key = k, slots'[slot].since = n, slots[slot].key \in {NoKey, k},
         \A i \in SlotIndex : i # slot =>
           slots[i].key # k /\ slots'[i].key = slots[i].key /\ slots'[i].since = slots[i].since
  PROVE  Generic' = {e \in Generic : e[1] # k} \cup {<<k, n>>}
BY DEF Generic, Active

\* The two tables depend on these two variables.
LEMMA SameTables ==
  ASSUME UNCHANGED <<slots, subscriptionMs>>
  PROVE  Generic' = Generic /\ Retired' = Retired
BY DEF Generic, Retired, Active

\* Without subscriptions they are empty.
LEMMA EmptyTables ==
  ASSUME \A i \in SlotIndex : slots[i] = EmptySlot, \A s \in Sources : subscriptionMs[s] = 0
  PROVE  Generic = {} /\ Retired = {}
BY DEF Generic, Retired, Active, EmptySlot

\* Clearing makes them empty.
LEMMA EmptiedTables ==
  ASSUME ClearTables
  PROVE  Generic' = {} /\ Retired' = {}
<1>1. \A i \in SlotIndex : slots'[i] = EmptySlot
  BY Zenon DEF ClearTables
<1>2. \A s \in Sources : subscriptionMs'[s] = 0
  BY DEF ClearTables
<1>. QED
  BY <1>1, <1>2 DEF Generic, Retired, Active, EmptySlot

\* An odometry source is named by one key.
LEMMA KeyOfInjective == \A s, t \in Sources : KeyOf(s) = KeyOf(t) => s = t
BY DEF KeyOf, Sources

\* The ACK of SET_HEARTBEAT_CONFIG.
LEMMA HeartbeatTables ==
  ASSUME TypeOK, ReceiveHeartbeatAck
  PROVE  /\ Generic' = GenericAfter(Generic, call.request, call.serial)
         /\ Retired' = RetiredAfter(Retired, call.request)
         /\ (heartbeat' # 0) = MonitoredAfter(heartbeat # 0, call.request)
<1>. DEFINE r == call.request
<1>1. r \in AnyRequest /\ r.command = "SET_HEARTBEAT_CONFIG"
  BY CallFields DEF ReceiveHeartbeatAck
<1>2. r.timeout \in Nat /\ r.enabled \in BOOLEAN
  BY <1>1, RequestFields, HeartbeatFields
<1>3. heartbeat' = (IF r.enabled THEN r.timeout ELSE 0)
  BY DEF ReceiveHeartbeatAck
<1>4. CASE r.enabled /\ r.timeout # 0
  <2>1. ~EndsStreams(r) /\ heartbeat' # 0
    BY <1>3, <1>4 DEF EndsStreams
  <2>2. UNCHANGED <<slots, subscriptionMs>>
    BY <1>3, <1>4 DEF ReceiveHeartbeatAck
  <2>. QED
    BY <1>1, <2>1, <2>2, SameTables DEF GenericAfter, RetiredAfter, MonitoredAfter, Subscribing
<1>5. CASE ~(r.enabled /\ r.timeout # 0)
  <2>1. EndsStreams(r) /\ heartbeat' = 0
    BY <1>1, <1>2, <1>3, <1>5 DEF EndsStreams
  <2>2. ClearTables
    BY <1>3, <2>1 DEF ReceiveHeartbeatAck
  <2>. QED
    BY <1>1, <2>1, <2>2, EmptiedTables DEF GenericAfter, RetiredAfter, MonitoredAfter
<1>. QED
  BY <1>4, <1>5

\* The ACK of a generic subscription.
LEMMA SubscriptionTables ==
  ASSUME TypeOK, TableInv, CallInv, ReceiveSubscriptionAck, call.phase = "reply"
  PROVE  /\ Generic' = GenericAfter(Generic, call.request, call.serial)
         /\ Retired' = RetiredAfter(Retired, call.request)
         /\ (heartbeat' # 0) = MonitoredAfter(heartbeat # 0, call.request)
<1>. DEFINE r == call.request
            key == Key(call.request)
<1>1. r.command \in Subscribing \cup {"UNSUBSCRIBE"} /\ UNCHANGED heartbeat
  BY DEF ReceiveSubscriptionAck
<1>2. /\ r.topic \in Topics /\ key # NoKey /\ OnlySlot(call.slot, key)
      /\ r.command \in Subscribing =>
           call.slot \in SlotIndex /\ slots[call.slot].key \in {NoKey, key}
      /\ r.command = "UNSUBSCRIBE" /\ call.slot # 0 => slots[call.slot].key = key
  BY <1>1, KeysAreKeys DEF TableInv, CallConsistent, CallInv
<1>3. \A i \in SlotIndex : slots'[i] = IF i = call.slot THEN NewSlot(r) ELSE slots[i]
  BY DEF ReceiveSubscriptionAck
<1>4. \A i \in SlotIndex : i # call.slot => slots[i].key # key /\ slots'[i] = slots[i]
  BY <1>2, <1>3 DEF OnlySlot
<1>5. ~EndsStreams(r)
  BY <1>1 DEF EndsStreams, Subscribing
<1>6. Retired' = {s \in Retired : KeyOf(s) # key}
  <2>1. \A s \in Sources : subscriptionMs'[s] =
          IF KeyOf(s) = key THEN 0 ELSE subscriptionMs[s]
    BY DEF ReceiveSubscriptionAck, Superseded
  <2>. QED
    BY <2>1 DEF Retired
<1>7. CASE r.command \in Subscribing
  <2>1. slots'[call.slot].key = key /\ slots'[call.slot].since = call.serial
    BY <1>2, <1>3, <1>7 DEF NewSlot, Subscribing
  <2>. HIDE DEF r, key
  <2>2. Generic' = {e \in Generic : e[1] # key} \cup {<<key, call.serial>>}
    BY <1>2, <1>4, <1>7, <2>1, WithKey
  <2>. QED
    BY <1>1, <1>5, <1>6, <1>7, <2>2 DEF GenericAfter, RetiredAfter, MonitoredAfter, Subscribing, r, key
<1>8. CASE r.command = "UNSUBSCRIBE"
  <2>1. \A i \in SlotIndex : IF slots[i].key = key THEN slots'[i].key = NoKey
           ELSE slots'[i].key = slots[i].key /\ slots'[i].since = slots[i].since
    <3>1. 0 \notin SlotIndex
      BY ProtocolAssumption DEF SlotIndex
    <3>2. \A i \in SlotIndex : i = call.slot => slots'[i].key = NoKey /\ slots[i].key = key
      BY <1>2, <1>3, <1>8, <3>1 DEF NewSlot, EmptySlot
    <3>. QED
      BY <1>4, <3>2
  <2>. HIDE DEF r, key
  <2>2. Generic' = {e \in Generic : e[1] # key}
    BY <1>2, <2>1, WithoutKey
  <2>. QED
    BY <1>1, <1>5, <1>6, <1>8, <2>2 DEF GenericAfter, RetiredAfter, MonitoredAfter, Subscribing, r, key
<1>. QED
  BY <1>1, <1>7, <1>8

\* The ACK of a retired one that the controller could serve.
LEMMA LegacyTables ==
  ASSUME TypeOK, TableInv, ReceiveLegacyAck, call.request.source \in Sources,
         call.request.command = "SUBSCRIBE_ODOMETRY" => call.request.interval # 0
  PROVE  /\ Generic' = GenericAfter(Generic, call.request, call.serial)
         /\ Retired' = RetiredAfter(Retired, call.request)
         /\ (heartbeat' # 0) = MonitoredAfter(heartbeat # 0, call.request)
<1>. DEFINE r == call.request
            key == KeyOf(call.request.source)
            slot == FindSubscription(key)
<1>1. r.command \in {"SUBSCRIBE_ODOMETRY", "UNSUBSCRIBE_ODOMETRY"} /\ UNCHANGED heartbeat
  BY DEF ReceiveLegacyAck
<1>2. key # NoKey
  BY KeysAreKeys
<1>3. ~EndsStreams(r) /\ r.command \notin Subscribing \cup {"UNSUBSCRIBE"}
  BY <1>1 DEF EndsStreams, Subscribing
<1>4. \A i \in SlotIndex : slots'[i] = IF i = slot THEN EmptySlot ELSE slots[i]
  BY DEF ReceiveLegacyAck
<1>5. \A i \in SlotIndex : slots[i].key = key <=> i = slot
  BY <1>2, FindSubscriptionResult, ProtocolAssumption DEF TableInv, SlotsDistinct, Active, SlotIndex
<1>6. Generic' = {e \in Generic : e[1] # key}
  <2>1. \A i \in SlotIndex : IF slots[i].key = key THEN slots'[i].key = NoKey
           ELSE slots'[i].key = slots[i].key /\ slots'[i].since = slots[i].since
    BY <1>4, <1>5 DEF EmptySlot
  <2>. HIDE DEF key, slot
  <2>. QED
    BY <1>2, <2>1, WithoutKey
<1>7. \A s \in Sources : subscriptionMs'[s] =
        IF s = r.source THEN (IF r.command = "UNSUBSCRIBE_ODOMETRY" THEN 0 ELSE r.interval)
        ELSE subscriptionMs[s]
  BY DEF ReceiveLegacyAck, TypeOK, SessionTypeOK
<1>. HIDE DEF key, slot
<1>8. CASE r.command = "SUBSCRIBE_ODOMETRY"
  <2>1. Retired' = Retired \cup {r.source}
    BY <1>7, <1>8 DEF Retired
  <2>. QED
    BY <1>1, <1>3, <1>6, <1>8, <2>1 DEF GenericAfter, RetiredAfter, MonitoredAfter, key
<1>9. CASE r.command = "UNSUBSCRIBE_ODOMETRY"
  <2>1. Retired' = Retired \ {r.source}
    BY <1>7, <1>9 DEF Retired
  <2>. QED
    BY <1>1, <1>3, <1>6, <1>9, <2>1 DEF GenericAfter, RetiredAfter, MonitoredAfter, key
<1>. QED
  BY <1>1, <1>8, <1>9

\* An ACK does to the library's tables what serving its request is to do.
LEMMA AckTables ==
  ASSUME TypeOK, TableInv, CallInv, TakesAck, LegacyServed(call.request)
  PROVE  /\ Generic' = GenericAfter(Generic, call.request, call.serial)
         /\ Retired' = RetiredAfter(Retired, call.request)
         /\ (heartbeat' # 0) = MonitoredAfter(heartbeat # 0, call.request)
<1>1. CASE ReceiveHeartbeatAck
  BY <1>1, HeartbeatTables
<1>2. CASE ReceiveSubscriptionAck
  BY <1>2, SubscriptionTables DEF TakesAck
<1>3. CASE ReceiveLegacyAck
  BY <1>3, LegacyTables DEF ReceiveLegacyAck, LegacyServed
<1>4. CASE ReceiveOtherAck
  <2>1. UNCHANGED <<heartbeat, slots, subscriptionMs>>
    BY <1>4 DEF ReceiveOtherAck
  <2>2. call.request.command \notin
          Subscribing \cup {"UNSUBSCRIBE", "SUBSCRIBE_ODOMETRY", "UNSUBSCRIBE_ODOMETRY",
                            "SET_HEARTBEAT_CONFIG"}
    BY <1>4 DEF ReceiveOtherAck
  <2>. QED
    BY <2>1, <2>2, SameTables DEF EndsStreams, GenericAfter, RetiredAfter, MonitoredAfter
<1>. QED
  BY <1>1, <1>2, <1>3, <1>4 DEF TakesAck, Acking

----------------------------------------------------------------------------
(* What serving a command makes of the controller's subscriptions *)

\* Executing a command, which is not INIT.
Executing ==
  \/ ServeHeartbeat \/ ServeSubscription \/ ServeLegacy \/ ServePoll \/ ServeOther

\* What the controller serves depends on subs alone.
LEMMA SameServed ==
  ASSUME UNCHANGED subs
  PROVE  ServedGeneric' = ServedGeneric /\ ServedRetired' = ServedRetired
BY DEF ServedGeneric, ServedRetired

\* Without subscriptions it serves nothing.
LEMMA NothingServed ==
  ASSUME subs = {}
  PROVE  ServedGeneric = {} /\ ServedRetired = {}
BY DEF ServedGeneric, ServedRetired

\* Removing the subscriptions of a source.
LEMMA ReplacedServed ==
  ASSUME TypeOK, NEW k, subs' = Replaced(k)
  PROVE  /\ ServedGeneric' = {e \in ServedGeneric : e[1] # k}
         /\ ServedRetired' = {s \in ServedRetired : KeyOf(s) # k}
BY DEF ServedGeneric, ServedRetired, Replaced

\* Replacing them by a generic one.
LEMMA GenericServed ==
  ASSUME TypeOK, NEW k, NEW n, subs' = Replaced(k) \cup {[key |-> k, legacy |-> FALSE, stamp |-> n]}
  PROVE  /\ ServedGeneric' = {e \in ServedGeneric : e[1] # k} \cup {<<k, n>>}
         /\ ServedRetired' = {s \in ServedRetired : KeyOf(s) # k}
<1>1. /\ [key |-> k, legacy |-> FALSE, stamp |-> n].key = k
      /\ ~[key |-> k, legacy |-> FALSE, stamp |-> n].legacy
      /\ [key |-> k, legacy |-> FALSE, stamp |-> n].stamp = n
  OBVIOUS
<1>. DEFINE u == [key |-> k, legacy |-> FALSE, stamp |-> n]
<1>. HIDE DEF u
<1>2. u.key = k /\ ~u.legacy /\ u.stamp = n /\ subs' = Replaced(k) \cup {u}
  BY <1>1 DEF u
<1>. QED
  BY <1>2 DEF ServedGeneric, ServedRetired, Replaced

\* Replacing them by a retired one.
LEMMA RetiredServed ==
  ASSUME TypeOK, NEW source \in Sources, NEW n,
         subs' = Replaced(KeyOf(source)) \cup {[key |-> KeyOf(source), legacy |-> TRUE, stamp |-> n]}
  PROVE  /\ ServedGeneric' = {e \in ServedGeneric : e[1] # KeyOf(source)}
         /\ ServedRetired' = ServedRetired \cup {source}
<1>. DEFINE k == KeyOf(source)
            u == [key |-> k, legacy |-> TRUE, stamp |-> n]
<1>1. u.key = k /\ u.legacy /\ u.stamp = n /\ subs' = Replaced(k) \cup {u}
  OBVIOUS
<1>2. \A s \in Sources : KeyOf(s) = k <=> s = source
  BY KeyOfInjective
<1>. HIDE DEF u, k
<1>3. ServedGeneric' = {e \in ServedGeneric : e[1] # k}
  BY <1>1 DEF ServedGeneric, Replaced
<1>4. ServedRetired' = ServedRetired \cup {source}
  BY <1>1, <1>2 DEF ServedRetired, Replaced
<1>. QED
  BY <1>3, <1>4 DEF k

\* Executing a command changes what is served as an ACK changes the tables.
LEMMA ServeTables ==
  ASSUME TypeOK, Executing
  PROVE  /\ ServedGeneric' = GenericAfter(ServedGeneric, Command.request, Command.serial)
         /\ ServedRetired' = RetiredAfter(ServedRetired, Command.request)
         /\ watchdog' = MonitoredAfter(watchdog, Command.request)
         /\ LegacyServed(Command.request)
         /\ up /\ UNCHANGED up /\ toController # <<>>
<1>. DEFINE r == Command.request
            key == <<r.topic, r.index>>
<1>1. up /\ UNCHANGED up /\ toController # <<>>
  BY DEF Executing, ServeHeartbeat, ServeSubscription, ServeLegacy, ServePoll, ServeOther, Serve
<1>2. r \in AnyRequest /\ r.command = Command.command
  BY <1>1, CommandType
<1>3. CASE ServeHeartbeat
  <2>1. r.command = "SET_HEARTBEAT_CONFIG" /\ (r.enabled => r.timeout # 0)
    BY <1>2, <1>3 DEF ServeHeartbeat, Serve
  <2>2. watchdog' = r.enabled /\ subs' = (IF watchdog' THEN subs ELSE {})
    BY <1>3 DEF ServeHeartbeat
  <2>3. r.enabled \in BOOLEAN
    BY <1>2, <2>1, HeartbeatFields
  <2>4. EndsStreams(r) <=> ~r.enabled
    BY <2>1 DEF EndsStreams
  <2>5. CASE r.enabled
    <3>1. ServedGeneric' = ServedGeneric /\ ServedRetired' = ServedRetired /\ watchdog' = TRUE
      BY <2>2, <2>3, <2>5, SameServed
    <3>. QED
      BY <1>1, <2>1, <2>4, <2>5, <3>1 DEF GenericAfter, RetiredAfter, MonitoredAfter, LegacyServed, Subscribing
  <2>6. CASE ~r.enabled
    <3>1. subs' = {} /\ watchdog' = FALSE
      BY <2>2, <2>3, <2>6
    <3>2. ServedGeneric' = {} /\ ServedRetired' = {}
      BY <3>1 DEF ServedGeneric, ServedRetired
    <3>. QED
      BY <1>1, <2>1, <2>4, <2>6, <3>1, <3>2 DEF GenericAfter, RetiredAfter, MonitoredAfter, LegacyServed
  <2>. QED
    BY <2>5, <2>6
<1>4. CASE ServeSubscription
  <2>1. r.command \in Subscribing \cup {"UNSUBSCRIBE"} /\ UNCHANGED watchdog
    BY <1>2, <1>4 DEF ServeSubscription, Serve, Subscribing
  <2>2. ~EndsStreams(r) /\ LegacyServed(r) /\ key = Key(r)
    BY <2>1 DEF EndsStreams, LegacyServed, Subscribing, Key
  <2>3. IF r.command = "UNSUBSCRIBE" THEN subs' = Replaced(key)
        ELSE subs' = Replaced(key) \cup {[key |-> key, legacy |-> FALSE, stamp |-> Command.serial]}
    BY <1>4 DEF ServeSubscription
  <2>. HIDE DEF key
  <2>4. CASE r.command = "UNSUBSCRIBE"
    <3>1. /\ ServedGeneric' = {e \in ServedGeneric : e[1] # key}
          /\ ServedRetired' = {s \in ServedRetired : KeyOf(s) # key}
      BY <2>3, <2>4, ReplacedServed
    <3>. QED
      BY <1>1, <2>1, <2>2, <2>4, <3>1 DEF GenericAfter, RetiredAfter, MonitoredAfter, Subscribing
  <2>5. CASE r.command \in Subscribing
    <3>1. r.command # "UNSUBSCRIBE"
      BY <2>5 DEF Subscribing
    <3>2. /\ ServedGeneric' = {e \in ServedGeneric : e[1] # key} \cup {<<key, Command.serial>>}
          /\ ServedRetired' = {s \in ServedRetired : KeyOf(s) # key}
      BY <2>3, <3>1, GenericServed
    <3>. QED
      BY <1>1, <2>1, <2>2, <2>5, <3>2 DEF GenericAfter, RetiredAfter, MonitoredAfter, Subscribing
  <2>. QED
    BY <2>1, <2>4, <2>5
<1>5. CASE ServeLegacy
  <2>1. /\ r.command \in {"SUBSCRIBE_ODOMETRY", "UNSUBSCRIBE_ODOMETRY"} /\ UNCHANGED watchdog
        /\ r.source \in Sources
    BY <1>2, <1>5 DEF ServeLegacy, Serve
  <2>2. ~EndsStreams(r) /\ r.command \notin Subscribing \cup {"UNSUBSCRIBE"}
    BY <2>1 DEF EndsStreams, Subscribing
  <2>3. CASE r.command = "UNSUBSCRIBE_ODOMETRY"
    <3>1. subs' = Replaced(KeyOf(r.source))
      BY <1>5, <2>3 DEF ServeLegacy
    <3>2. /\ ServedGeneric' = {e \in ServedGeneric : e[1] # KeyOf(r.source)}
          /\ ServedRetired' = {s \in ServedRetired : KeyOf(s) # KeyOf(r.source)}
      BY <3>1, ReplacedServed
    <3>3. ServedRetired' = ServedRetired \ {r.source}
      BY <2>1, <3>2, KeyOfInjective DEF ServedRetired
    <3>. QED
      BY <1>1, <2>1, <2>2, <2>3, <3>2, <3>3 DEF GenericAfter, RetiredAfter, MonitoredAfter, LegacyServed
  <2>4. CASE r.command = "SUBSCRIBE_ODOMETRY"
    <3>1. /\ subs' = Replaced(KeyOf(r.source)) \cup
               {[key |-> KeyOf(r.source), legacy |-> TRUE, stamp |-> Command.serial]}
          /\ r.interval # 0
      BY <1>5, <2>4 DEF ServeLegacy
    <3>2. /\ ServedGeneric' = {e \in ServedGeneric : e[1] # KeyOf(r.source)}
          /\ ServedRetired' = ServedRetired \cup {r.source}
      BY <2>1, <3>1, RetiredServed
    <3>. QED
      BY <1>1, <2>1, <2>2, <2>4, <3>1, <3>2 DEF GenericAfter, RetiredAfter, MonitoredAfter, LegacyServed
  <2>. QED
    BY <2>1, <2>3, <2>4
<1>6. CASE ServePoll \/ ServeOther
  <2>1. /\ UNCHANGED <<watchdog, subs>>
        /\ r.command \notin Subscribing \cup {"UNSUBSCRIBE", "SET_HEARTBEAT_CONFIG",
                              "SUBSCRIBE_ODOMETRY", "UNSUBSCRIBE_ODOMETRY"}
    BY <1>2, <1>6 DEF ServePoll, ServeOther, Serve, Subscribing
  <2>. QED
    BY <1>1, <2>1, SameServed DEF EndsStreams, GenericAfter, RetiredAfter, MonitoredAfter, LegacyServed
<1>. QED
  BY <1>3, <1>4, <1>5, <1>6 DEF Executing

----------------------------------------------------------------------------
(* The library and the controller stay in step *)

\* The library's tables after n frames are the same as ever when no ACK is
\* among them, and the ACK's when one is.
LEMMA TablesAt ==
  ASSUME NEW n
  PROVE  /\ ~AckedBy(n) => /\ GenericAt(n) = Generic /\ RetiredAt(n) = Retired
                           /\ MonitoredAt(n) = (heartbeat # 0)
         /\ AckedBy(n) =>
              /\ GenericAt(n) = GenericAfter(Generic, call.request, call.serial)
              /\ RetiredAt(n) = RetiredAfter(Retired, call.request)
              /\ MonitoredAt(n) = MonitoredAfter(heartbeat # 0, call.request)
BY DEF GenericAt, RetiredAt, MonitoredAt

\* The same of the next state.
LEMMA TablesAtNext ==
  ASSUME NEW n
  PROVE  /\ ~AckedBy(n)' => /\ GenericAt(n)' = Generic' /\ RetiredAt(n)' = Retired'
                            /\ MonitoredAt(n)' = (heartbeat' # 0)
         /\ AckedBy(n)' =>
              /\ GenericAt(n)' = GenericAfter(Generic', call'.request, call'.serial)
              /\ RetiredAt(n)' = RetiredAfter(Retired', call'.request)
              /\ MonitoredAt(n)' = MonitoredAfter(heartbeat' # 0, call'.request)
BY DEF GenericAt, RetiredAt, MonitoredAt

\* Tables that n frames lead to are the same before and after the step.
SameAt(n, m) ==
  GenericAt(n)' = GenericAt(m) /\ RetiredAt(n)' = RetiredAt(m) /\ MonitoredAt(n)' = MonitoredAt(m)

\* InStep, for a name n of the length of the queue.
LEMMA AtEnd ==
  ASSUME NEW n, n = Len(toClient'),
         up' /\ ready' => /\ ServedGeneric' = GenericAt(n)' /\ ServedRetired' = RetiredAt(n)'
                         /\ watchdog' = MonitoredAt(n)'
  PROVE  InStep'
<1>1. AckedBy(n)' = AckedBy(Len(toClient))'
  BY DEF AckedBy
<1>2. /\ GenericAt(n)' = GenericAt(Len(toClient))' /\ RetiredAt(n)' = RetiredAt(Len(toClient))'
      /\ MonitoredAt(n)' = MonitoredAt(Len(toClient))'
  BY <1>1 DEF GenericAt, RetiredAt, MonitoredAt
<1>. QED
  BY <1>2 DEF InStep

\* The frames in the queue are those that were there, d places further on.
Moved(d) ==
  /\ Len(toClient') = Len(toClient) - d
  /\ \A p \in 1 .. Len(toClient') : p + d \in 1 .. Len(toClient) /\ toClient'[p] = toClient[p + d]

\* The queue to the library is left alone.
LEMMA MovedByNone ==
  ASSUME TypeOK, UNCHANGED toClient
  PROVE  Moved(0)
BY QueueTypes DEF Moved

\* A read moves every frame up by one.
LEMMA MovedByRead ==
  ASSUME TypeOK, Taken
  PROVE  Moved(1)
BY AfterRead DEF Moved, Taken

\* What was expected of a frame is expected of it after it has moved.
LEMMA MovedStreams ==
  ASSUME TypeOK, InStep, EventsExpected, ready, NEW d \in {0, 1}, Moved(d),
         UNCHANGED <<subs, watchdog, up>>,
         \A n \in 0 .. Len(toClient') : SameAt(n, n + d)
  PROVE  InStep' /\ EventsExpected'
<1>1. Len(toClient) \in Nat /\ Len(toClient') \in Nat /\ Len(toClient') + d = Len(toClient)
  BY QueueTypes DEF Moved
<1>2. InStep'
  <2>1. ASSUME NEW n, n = Len(toClient')
        PROVE  SameAt(n, Len(toClient))
    <3>1. n \in 0 .. Len(toClient') /\ n + d = Len(toClient)
      BY <1>1, <2>1
    <3>. QED
      BY <3>1
  <2>2. ServedGeneric' = ServedGeneric /\ ServedRetired' = ServedRetired
    BY SameServed
  <2>3. ASSUME NEW n, n = Len(toClient')
        PROVE  InStep'
    <3>1. SameAt(n, Len(toClient))
      BY <2>1, <2>3
    <3>2. up /\ ready' => ServedGeneric' = GenericAt(n)' /\ ServedRetired' = RetiredAt(n)'
                         /\ watchdog' = MonitoredAt(n)'
      BY <2>2, <3>1 DEF SameAt, InStep
    <3>. QED
      BY <2>3, <3>2, AtEnd
  <2>. QED
    BY <2>3
<1>3. ASSUME NEW p \in 1 .. Len(toClient')
      PROVE  /\ toClient'[p].kind = "EVENT" => <<toClient'[p].key, toClient'[p].stamp>> \in GenericAt(p)'
             /\ toClient'[p].kind = "LEGACY_EVENT" => toClient'[p].source \in RetiredAt(p)'
  <2>1. p \in 0 .. Len(toClient') /\ p + d \in 1 .. Len(toClient) /\ toClient'[p] = toClient[p + d]
    BY <1>1 DEF Moved
  <2>. QED
    BY <2>1 DEF SameAt, EventsExpected
<1>. QED
  BY <1>2, <1>3 DEF EventsExpected

\* A sample in a slot changes no table.
LEMMA SameKeys ==
  ASSUME UNCHANGED subscriptionMs,
         \A i \in SlotIndex : slots'[i].key = slots[i].key /\ slots'[i].since = slots[i].since
  PROVE  Generic' = Generic /\ Retired' = Retired
BY DEF Generic, Retired, Active

\* The tables after n frames are what they were after m, with the same ACK before.
LEMMA SameAtKept ==
  ASSUME NEW n, NEW m, AckedBy(n)' <=> AckedBy(m),
         AckedBy(m) => UNCHANGED call,
         Generic' = Generic, Retired' = Retired, UNCHANGED heartbeat
  PROVE  SameAt(n, m)
<1>1. CASE AckedBy(m)
  <2>1. AckedBy(n)' /\ UNCHANGED call
    BY <1>1
  <2>. QED
    BY <1>1, <2>1, TablesAt, TablesAtNext DEF SameAt
<1>2. CASE ~AckedBy(m)
  <2>1. ~AckedBy(n)'
    BY <1>2
  <2>. QED
    BY <1>2, <2>1, TablesAt, TablesAtNext DEF SameAt
<1>. QED
  BY <1>1, <1>2

\* Whether an ACK is among the first frames, when frames that are none are read.
LEMMA AckedMoved ==
  ASSUME TypeOK, NEW d \in {0, 1}, Moved(d), d = 1 => 1 \notin Answers,
         NEW n \in 0 .. Len(toClient')
  PROVE  AckedBy(n)' <=> AckedBy(n + d)
<1>1. Len(toClient) \in Nat /\ Len(toClient') \in Nat /\ Len(toClient') + d = Len(toClient)
  BY QueueTypes DEF Moved
<1>2. ASSUME NEW i \in Answers', i <= n, toClient'[i].kind = "REPLY"
      PROVE  AckedBy(n + d)
  <2>1. i + d \in Answers /\ i + d <= n + d /\ toClient[i + d].kind = "REPLY"
    BY <1>1, <1>2 DEF Moved, Answers
  <2>. QED
    BY <2>1 DEF AckedBy
<1>3. ASSUME NEW i \in Answers, i <= n + d, toClient[i].kind = "REPLY"
      PROVE  AckedBy(n)'
  <2>1. i \in 1 .. Len(toClient) /\ (d = 1 => i # 1)
    BY <1>3 DEF Answers
  <2>2. i - d \in 1 .. Len(toClient') /\ i - d <= n /\ (i - d) + d = i
    BY <1>1, <1>3, <2>1
  <2>3. toClient'[i - d] = toClient[i]
    BY <2>2 DEF Moved
  <2>4. i - d \in Answers' /\ i - d <= n /\ toClient'[i - d].kind = "REPLY"
    BY <1>3, <2>2, <2>3 DEF Answers
  <2>. QED
    BY <2>4 DEF AckedBy
<1>. QED
  BY <1>2, <1>3 DEF AckedBy

\* An event is of a subscription that is served.
LEMMA EventOfServed ==
  ASSUME TypeOK, NEW sub \in subs
  PROVE  /\ EventOf(sub).kind = "EVENT" =>
              <<EventOf(sub).key, EventOf(sub).stamp>> \in ServedGeneric
         /\ EventOf(sub).kind = "LEGACY_EVENT" => EventOf(sub).source \in ServedRetired
<1>1. CASE ~sub.legacy
  BY <1>1 DEF EventOf, ServedGeneric
<1>2. CASE sub.legacy
  <2>1. sub \in [key : LegacyKeys, legacy : {TRUE}, stamp : Serials]
    BY <1>2 DEF TypeOK, ControllerTypeOK
  <2>2. \E s \in Sources : KeyOf(s) = sub.key
    BY <2>1 DEF LegacyKeys
  <2>. DEFINE source == CHOOSE s \in Sources : KeyOf(s) = sub.key
  <2>3. source \in Sources /\ KeyOf(source) = sub.key
    BY <2>2
  <2>4. EventOf(sub).kind = "LEGACY_EVENT" /\ EventOf(sub).source = source
    BY <1>2 DEF EventOf
  <2>. HIDE DEF source
  <2>. QED
    BY <1>2, <2>3, <2>4 DEF ServedRetired
<1>. QED
  BY <1>1, <1>2

\* Executing a command ends with its ACK; an event may come before it.
LEMMA ExecutingShape ==
  ASSUME TypeOK, Executing
  PROVE  /\ Len(toClient) \in Nat /\ Len(toClient') \in Nat /\ Len(toClient') > Len(toClient)
         /\ toClient'[Len(toClient')] = Ack
         /\ \A p \in 1 .. Len(toClient') :
              \/ p \in 1 .. Len(toClient) /\ toClient'[p] = toClient[p]
              \/ p = Len(toClient')
              \/ \E sub \in subs : toClient'[p] = EventOf(sub)
<1>1. Len(toClient) \in Nat /\ toClient \in Seq(ReplyFrames)
  BY QueueTypes
<1>2. CASE Answer(<<Ack>>)
  <2>1. toClient' = toClient \o <<Ack>>
    BY <1>2 DEF Answer
  <2>2. /\ Len(toClient') = Len(toClient) + 1 /\ toClient'[Len(toClient) + 1] = Ack
        /\ \A p \in 1 .. Len(toClient) : toClient'[p] = toClient[p]
    BY <1>1, <2>1
  <2>. QED
    BY <1>1, <2>2
<1>3. ASSUME NEW sub \in subs, Answer(<<EventOf(sub), Ack>>)
      PROVE  /\ Len(toClient') = Len(toClient) + 2 /\ toClient'[Len(toClient) + 2] = Ack
             /\ \A p \in 1 .. Len(toClient') :
                  \/ p \in 1 .. Len(toClient) /\ toClient'[p] = toClient[p]
                  \/ p = Len(toClient')
                  \/ toClient'[p] = EventOf(sub)
  <2>1. toClient' = toClient \o <<EventOf(sub), Ack>>
    BY <1>3 DEF Answer
  <2>2. /\ Len(toClient') = Len(toClient) + 2
        /\ toClient'[Len(toClient) + 1] = EventOf(sub)
        /\ toClient'[Len(toClient) + 2] = Ack
        /\ \A p \in 1 .. Len(toClient) : toClient'[p] = toClient[p]
    BY <1>1, <2>1
  <2>. QED
    BY <1>1, <2>2
<1>4. Answer(<<Ack>>) \/ \E sub \in subs : Answer(<<EventOf(sub), Ack>>)
  BY DEF Executing, ServeHeartbeat, ServeSubscription, ServeLegacy, ServePoll, ServeOther
<1>5. CASE \E sub \in subs : Answer(<<EventOf(sub), Ack>>)
  <2>1. PICK sub \in subs : Answer(<<EventOf(sub), Ack>>)
    BY <1>5
  <2>. QED
    BY <1>1, <1>3, <2>1
<1>. QED
  BY <1>2, <1>4, <1>5

----------------------------------------------------------------------------
(* The steps *)

Streams == InStep /\ AckedWasServed /\ EventsExpected

\* Without a session nothing is claimed.
LEMMA NotReadyStreams == ~ready' => Streams'
BY DEF Streams, InStep, AckedWasServed, EventsExpected

\* Reads and steps that leave tables, session and the controller as they are.
LEMMA KeptStreams ==
  ASSUME TypeOK, TypeOK', Streams, ready, NEW d \in {0, 1}, Moved(d), d = 1 => 1 \notin Answers,
         UNCHANGED <<subs, watchdog, up, ready, heartbeat>>,
         Generic' = Generic, Retired' = Retired, Answers = {} \/ UNCHANGED call
  PROVE  Streams'
<1>1. Len(toClient) \in Nat /\ Len(toClient') \in Nat /\ Len(toClient') + d = Len(toClient)
  BY QueueTypes DEF Moved
<1>2. \A n \in 0 .. Len(toClient') : SameAt(n, n + d)
  <2>1. ASSUME NEW n \in 0 .. Len(toClient')
        PROVE  SameAt(n, n + d)
    <3>1. AckedBy(n)' <=> AckedBy(n + d)
      BY AckedMoved
    <3>2. AckedBy(n + d) => UNCHANGED call
      BY DEF AckedBy
    <3>. QED
      BY <3>1, <3>2, SameAtKept
  <2>. QED
    BY <2>1
<1>3. InStep' /\ EventsExpected'
  BY <1>2, MovedStreams DEF Streams
<1>4. AckedWasServed'
  <2>1. ASSUME NEW n, n = Len(toClient'), AckedBy(n)'
        PROVE  LegacyServed(call'.request)
    <3>1. AckedBy(n + d) /\ n + d = Len(toClient)
      BY <1>1, <2>1, AckedMoved
    <3>2. Acked
      BY <3>1 DEF Acked
    <3>3. UNCHANGED call
      BY <3>2 DEF Acked, AckedBy
    <3>. QED
      BY <3>2, <3>3 DEF Streams, AckedWasServed
  <2>2. Acked' => \E n : n = Len(toClient') /\ AckedBy(n)'
    BY DEF Acked, AckedBy
  <2>. QED
    BY <2>1, <2>2 DEF AckedWasServed
<1>. QED
  BY <1>3, <1>4 DEF Streams

\* An answer has been read and no other is there: the tables are what the
\* controller serves.
LEMMA AnsweredStreams ==
  ASSUME TypeOK, TypeOK', Streams, ready, Taken, Answers = {1},
         UNCHANGED <<subs, watchdog, up>>,
         \A n \in Nat : /\ GenericAt(n + 1) = Generic' /\ RetiredAt(n + 1) = Retired'
                        /\ MonitoredAt(n + 1) = (heartbeat' # 0)
  PROVE  Streams'
<1>1. Answers' = {}
  BY ShiftedByRead DEF Shifted, Answers
<1>2. \A n \in Nat : SameAt(n, n + 1)
  <2>1. \A n \in Nat : ~AckedBy(n)'
    BY <1>1 DEF AckedBy
  <2>. QED
    BY <2>1, TablesAtNext DEF SameAt
<1>3. Len(toClient') \in Nat
  BY AfterRead DEF Taken
<1>4. InStep' /\ EventsExpected'
  BY <1>2, <1>3, MovedByRead, MovedStreams DEF Streams
<1>5. AckedWasServed'
  BY <1>1 DEF AckedWasServed, Acked, AckedBy
<1>. QED
  BY <1>4, <1>5 DEF Streams

\* The command of a ready session is refused: its ERROR changes nothing.
LEMMA RefusedStreams ==
  ASSUME TypeOK, TypeOK', OwnFrames, AnswersInOrder, Quiet, Streams, ready, ServeError,
         UNCHANGED clientVars
  PROVE  Streams'
<1>1. PICK frames \in Seq(ReplyFrames) : AnsweredWith(frames)
  BY ServeShape DEF Serving
<1>2. toController # <<>> /\ UNCHANGED <<executed, subs, watchdog, up>>
  BY DEF ServeError, controllerVars
<1>3. Answers = {}
  BY <1>2, NothingAnswered
<1>4. executed' # Append(executed, Command.serial)
  BY <1>2, SerialsAreNumbers
<1>5. \A i \in Answers' : toClient'[i].kind # "REPLY"
  BY <1>1, <1>3, <1>4, AnswersAfterServe
<1>6. \A n \in Nat : ~AckedBy(n) /\ ~AckedBy(n)'
  BY <1>3, <1>5 DEF AckedBy
<1>7. Generic' = Generic /\ Retired' = Retired /\ UNCHANGED <<heartbeat, call>>
  BY SameTables DEF clientVars, session
<1>8. /\ Len(toClient) \in Nat /\ Len(toClient') \in Nat
      /\ \A p \in 1 .. Len(toClient) : toClient'[p] = toClient[p]
      /\ \A p \in 1 .. Len(toClient') : p \notin 1 .. Len(toClient) => p \in Answers'
  <2>1. /\ Len(toClient) \in Nat /\ Len(frames) \in Nat
        /\ Len(toClient') = Len(toClient) + Len(frames)
        /\ \A i \in 1 .. Len(toClient) : toClient'[i] = toClient[i]
    BY <1>1, AfterAppend DEF AnsweredWith, Answer
  <2>2. PICK e : toClient' = Append(toClient, e) /\ e.kind = "ERROR"
    <3>1. PICK code : toClient' = toClient \o <<[kind |-> "ERROR", command |-> Command.command,
                 id |-> Command.id, code |-> code, serial |-> Command.serial]>>
      BY DEF ServeError, Answer
    <3>. DEFINE e == [kind |-> "ERROR", command |-> Command.command,
                      id |-> Command.id, code |-> code, serial |-> Command.serial]
    <3>2. e.kind = "ERROR" /\ toClient' = toClient \o <<e>>
      BY <3>1
    <3>. HIDE DEF e
    <3>3. toClient' = Append(toClient, e)
      BY <3>2, QueueTypes
    <3>. QED
      BY <3>2, <3>3
  <2>3. Len(toClient') = Len(toClient) + 1 /\ toClient'[Len(toClient) + 1] = e
    BY <2>2, QueueTypes
  <2>4. \A p \in 1 .. Len(toClient') : p \notin 1 .. Len(toClient) => p = Len(toClient) + 1
    BY <2>1, <2>3
  <2>. QED
    BY <2>1, <2>2, <2>3, <2>4 DEF Answers
<1>9. ASSUME NEW n \in Nat
      PROVE  SameAt(n, Len(toClient)) /\ SameAt(n, n)
  <2>1. ~AckedBy(n) /\ ~AckedBy(n)' /\ ~AckedBy(Len(toClient))
    BY <1>6, <1>8
  <2>. QED
    BY <1>7, <2>1, SameAtKept
<1>10. InStep'
  <2>1. ASSUME NEW n, n = Len(toClient')
        PROVE  InStep'
    <3>1. SameAt(n, Len(toClient))
      BY <1>8, <1>9, <2>1
    <3>2. ServedGeneric' = ServedGeneric /\ ServedRetired' = ServedRetired
      BY <1>2, SameServed
    <3>3. up' /\ ready' => ServedGeneric' = GenericAt(n)' /\ ServedRetired' = RetiredAt(n)'
                           /\ watchdog' = MonitoredAt(n)'
      BY <1>2, <3>1, <3>2 DEF SameAt, InStep, Streams
    <3>. QED
      BY <2>1, <3>3, AtEnd
  <2>. QED
    BY <2>1
<1>11. ASSUME NEW p \in 1 .. Len(toClient')
       PROVE  /\ toClient'[p].kind = "EVENT" => <<toClient'[p].key, toClient'[p].stamp>> \in GenericAt(p)'
              /\ toClient'[p].kind = "LEGACY_EVENT" => toClient'[p].source \in RetiredAt(p)'
  <2>1. CASE p \in 1 .. Len(toClient)
    <3>1. SameAt(p, p) /\ toClient'[p] = toClient[p]
      BY <1>8, <1>9, <2>1
    <3>. QED
      BY <2>1, <3>1 DEF SameAt, EventsExpected, Streams
  <2>2. CASE p \notin 1 .. Len(toClient)
    BY <1>8, <2>2 DEF Answers
  <2>. QED
    BY <2>1, <2>2
<1>12. AckedWasServed'
  BY <1>5 DEF AckedWasServed, Acked, AckedBy
<1>. QED
  BY <1>10, <1>11, <1>12 DEF Streams, EventsExpected

\* The command of a ready session is executed: its ACK is the last frame.
LEMMA ExecutedStreams ==
  ASSUME TypeOK, TypeOK', OwnFrames, AnswersInOrder, Quiet, Streams, ready, Executing,
         UNCHANGED clientVars
  PROVE  Streams'
<1>1. /\ ServedGeneric' = GenericAfter(ServedGeneric, Command.request, Command.serial)
      /\ ServedRetired' = RetiredAfter(ServedRetired, Command.request)
      /\ watchdog' = MonitoredAfter(watchdog, Command.request)
      /\ LegacyServed(Command.request)
      /\ up /\ UNCHANGED up /\ toController # <<>>
  BY ServeTables
<1>2. Answers = {} /\ Command.serial = call.serial /\ Command.request = call.request
  BY <1>1, NothingAnswered
<1>3. Generic' = Generic /\ Retired' = Retired /\ UNCHANGED <<heartbeat, call, ready>>
  BY SameTables DEF clientVars, session
<1>4. /\ Len(toClient) \in Nat /\ Len(toClient') \in Nat /\ Len(toClient') > Len(toClient)
      /\ toClient'[Len(toClient')] = Ack
      /\ \A p \in 1 .. Len(toClient') :
           \/ p \in 1 .. Len(toClient) /\ toClient'[p] = toClient[p]
           \/ p = Len(toClient')
           \/ \E sub \in subs : toClient'[p] = EventOf(sub)
  BY ExecutingShape
<1>5. Answers' = {Len(toClient')}
  <2>1. \A i \in Answers' : i = Len(toClient')
    BY <1>2, <1>4, EventKind DEF Answers
  <2>2. Len(toClient') \in Answers'
    BY <1>4, AckFrame DEF Answers
  <2>. QED
    BY <2>1, <2>2
<1>6. /\ \A n \in Nat : ~AckedBy(n)
      /\ \A n \in Nat : AckedBy(n)' <=> Len(toClient') <= n
  BY <1>2, <1>4, <1>5, AckFrame DEF AckedBy
<1>7. /\ ServedGeneric = Generic /\ ServedRetired = Retired /\ watchdog = (heartbeat # 0)
  BY <1>1, <1>4, <1>6, TablesAt DEF InStep, Streams
<1>8. InStep'
  <2>1. ASSUME NEW n, n = Len(toClient')
        PROVE  InStep'
    <3>1. AckedBy(n)'
      BY <1>4, <1>6, <2>1
    <3>2. /\ GenericAt(n)' = GenericAfter(Generic, call.request, call.serial)
          /\ RetiredAt(n)' = RetiredAfter(Retired, call.request)
          /\ MonitoredAt(n)' = MonitoredAfter(heartbeat # 0, call.request)
      BY <1>3, <3>1, TablesAtNext
    <3>3. /\ ServedGeneric' = GenericAt(n)' /\ ServedRetired' = RetiredAt(n)'
          /\ watchdog' = MonitoredAt(n)'
      BY <1>1, <1>2, <1>7, <3>2
    <3>. QED
      BY <2>1, <3>3, AtEnd
  <2>. QED
    BY <2>1
<1>9. ASSUME NEW p \in 1 .. Len(toClient')
      PROVE  /\ toClient'[p].kind = "EVENT" => <<toClient'[p].key, toClient'[p].stamp>> \in GenericAt(p)'
             /\ toClient'[p].kind = "LEGACY_EVENT" => toClient'[p].source \in RetiredAt(p)'
  <2>1. p \in Nat
    OBVIOUS
  <2>2. CASE p = Len(toClient')
    BY <1>4, <2>2, AckFrame
  <2>3. CASE p # Len(toClient')
    <3>1. ~AckedBy(p)' /\ ~AckedBy(p)
      BY <1>4, <1>6, <2>1, <2>3
    <3>2. /\ GenericAt(p)' = Generic /\ RetiredAt(p)' = Retired
          /\ GenericAt(p) = Generic /\ RetiredAt(p) = Retired
      BY <1>3, <3>1, TablesAt, TablesAtNext
    <3>3. CASE p \in 1 .. Len(toClient) /\ toClient'[p] = toClient[p]
      BY <3>2, <3>3 DEF EventsExpected, Streams
    <3>4. CASE \E sub \in subs : toClient'[p] = EventOf(sub)
      BY <1>7, <3>2, <3>4, EventOfServed
    <3>. QED
      BY <1>4, <2>3, <3>3, <3>4
  <2>. QED
    BY <2>2, <2>3
<1>10. AckedWasServed'
  BY <1>1, <1>2, <1>3 DEF AckedWasServed
<1>. QED
  BY <1>8, <1>9, <1>10 DEF Streams, EventsExpected

\* An event of a served subscription is expected where it is appended.
LEMMA EmittedStreams ==
  ASSUME TypeOK, TypeOK', Streams, ready, EmitEvent, UNCHANGED clientVars
  PROVE  Streams'
<1>1. PICK sub \in subs : toClient' = Append(toClient, EventOf(sub))
  BY ShiftedByEvent
<1>2. EventOf(sub).kind \in {"EVENT", "LEGACY_EVENT"}
  BY EventKind
<1>. DEFINE m == Len(toClient)
<1>3. /\ m \in Nat /\ Len(toClient') = m + 1 /\ toClient'[m + 1] = EventOf(sub)
      /\ \A p \in 1 .. m : toClient'[p] = toClient[p]
  BY <1>1, QueueTypes
<1>4. Generic' = Generic /\ Retired' = Retired /\ UNCHANGED <<heartbeat, call, ready>>
  BY SameTables DEF clientVars, session
<1>5. UNCHANGED <<subs, watchdog, up>> /\ up
  BY DEF EmitEvent, controllerVars
<1>6. Answers' = Answers
  <2>1. \A i \in Answers' : i \in 1 .. m
    BY <1>2, <1>3 DEF Answers
  <2>2. \A i \in 1 .. m : i \in 1 .. Len(toClient')
    BY <1>3
  <2>3. \A i \in Answers' : i \in Answers
    BY <1>3, <2>1 DEF Answers
  <2>4. \A i \in Answers : i \in Answers'
    BY <1>3, <2>2 DEF Answers
  <2>. QED
    BY <2>3, <2>4
<1>7. \A i \in Answers : i \in 1 .. m /\ toClient'[i] = toClient[i]
  BY <1>3 DEF Answers
<1>8. ASSUME NEW n \in Nat
      PROVE  AckedBy(n)' <=> AckedBy(n)
  BY <1>6, <1>7 DEF AckedBy
<1>. HIDE DEF m
<1>9. ASSUME NEW n \in Nat
      PROVE  SameAt(n, n)
  BY <1>4, <1>8, SameAtKept
<1>10. ASSUME NEW n \in Nat, NEW k \in Nat, n = m + 1, k = m
       PROVE  SameAt(n, k)
  <2>1. ASSUME NEW l, l = m + 1
        PROVE  AckedBy(l)' <=> AckedBy(m)
    <3>1. AckedBy(l)' <=> \E i \in Answers' : i <= m + 1 /\ toClient'[i].kind = "REPLY"
      BY <2>1 DEF AckedBy
    <3>. QED
      BY <1>3, <1>6, <1>7, <3>1 DEF AckedBy
  <2>2. AckedBy(n)' <=> AckedBy(k)
    BY <1>10, <2>1
  <2>. QED
    BY <1>4, <2>2, SameAtKept
<1>11. ServedGeneric = GenericAt(m) /\ ServedRetired = RetiredAt(m) /\ watchdog = MonitoredAt(m)
  BY <1>5 DEF InStep, Streams, m
<1>12. ASSUME NEW n, n = Len(toClient')
       PROVE  InStep' /\ SameAt(n, m)
  <2>1. SameAt(n, m)
    BY <1>3, <1>10, <1>12
  <2>2. ServedGeneric' = ServedGeneric /\ ServedRetired' = ServedRetired
    BY <1>5, SameServed
  <2>3. /\ ServedGeneric' = GenericAt(n)' /\ ServedRetired' = RetiredAt(n)'
        /\ watchdog' = MonitoredAt(n)'
    BY <1>5, <1>11, <2>1, <2>2 DEF SameAt
  <2>. QED
    BY <1>12, <2>1, <2>3, AtEnd
<1>13. ASSUME NEW p \in 1 .. Len(toClient')
       PROVE  /\ toClient'[p].kind = "EVENT" => <<toClient'[p].key, toClient'[p].stamp>> \in GenericAt(p)'
              /\ toClient'[p].kind = "LEGACY_EVENT" => toClient'[p].source \in RetiredAt(p)'
  <2>1. CASE p = Len(toClient')
    <3>1. SameAt(p, m) /\ toClient'[p] = EventOf(sub)
      BY <1>3, <1>12, <2>1
    <3>. QED
      BY <1>11, <3>1, EventOfServed DEF SameAt
  <2>2. CASE p # Len(toClient')
    <3>1. p \in 1 .. m /\ p \in Nat
      BY <1>3, <2>2
    <3>2. SameAt(p, p)
      BY <1>9, <3>1
    <3>3. toClient'[p] = toClient[p]
      BY <1>3, <3>1
    <3>. QED
      BY <3>1, <3>2, <3>3 DEF SameAt, EventsExpected, Streams, m
  <2>. QED
    BY <2>1, <2>2
<1>14. AckedWasServed'
  <2>1. ASSUME NEW n, n = Len(toClient'), AckedBy(n)'
        PROVE  LegacyServed(call'.request)
    <3>1. Acked
      BY <1>3, <1>6, <1>7, <2>1 DEF Acked, AckedBy, m
    <3>. QED
      BY <1>4, <3>1 DEF Streams, AckedWasServed
  <2>2. Acked' => \E n : n = Len(toClient') /\ AckedBy(n)'
    BY DEF Acked, AckedBy
  <2>. QED
    BY <2>1, <2>2 DEF AckedWasServed
<1>15. InStep'
  BY <1>12
<1>. QED
  BY <1>13, <1>14, <1>15 DEF Streams, EventsExpected

\* No step lets the library and the controller get out of step.
LEMMA StepStreams ==
  ASSUME TypeOK, TypeOK', TableInv, CallInv, AnswersInOrder, InOrder, OwnFrames, ReadyIsLast,
         Quiet, Streams, [Next]_vars
  PROVE  Streams'
<1>1. ASSUME UNCHANGED <<subs, watchdog, up, session, call, toClient>>
      PROVE  Streams'
  <2>1. UNCHANGED <<ready, heartbeat>> /\ Generic' = Generic /\ Retired' = Retired
    BY <1>1, SameTables DEF session
  <2>2. CASE ready
    BY <1>1, <2>1, <2>2, MovedByNone, KeptStreams
  <2>. QED
    BY <2>1, <2>2, NotReadyStreams
<1>2. CASE UNCHANGED controllerVars /\ Local
  BY <1>1, <1>2 DEF Local, wireVars, controllerVars
<1>3. ASSUME NEW c, Issues(c), UNCHANGED controllerVars, ready'
      PROVE  Streams'
  <2>1. UNCHANGED session /\ ready /\ call.phase # "reply" /\ UNCHANGED toClient
    BY <1>3 DEF Issues
  <2>2. Answers = {}
    BY <2>1, QuietBeforeCall
  <2>3. UNCHANGED <<subs, watchdog, up, ready, heartbeat>> /\ Generic' = Generic /\ Retired' = Retired
    BY <1>3, <2>1, SameTables DEF session, controllerVars
  <2>. QED
    BY <2>1, <2>2, <2>3, MovedByNone, KeptStreams
<1>4. CASE /\ UNCHANGED controllerVars /\ Waiting /\ UNCHANGED <<toController, issued, nextId>>
           /\ Waits \/ Fails \/ TakesInit \/ TakesReady \/ TakesAck
  <2>0. UNCHANGED <<subs, watchdog, up>>
    BY <1>4 DEF controllerVars
  <2>1. CASE Waits /\ ready
    <3>1. 1 \notin Answers
      <4>1. ASSUME 1 \in Answers
            PROVE  FALSE
        <5>1. Frame.kind \in {"REPLY", "ERROR"}
          BY <2>1, <4>1, AfterRead DEF Waits, Taken
        <5>. QED
          BY <1>4, <2>1, <5>1, OwnAnswerIsAlone DEF Waits
      <4>. QED
        BY <4>1
    <3>2. Generic' = Generic /\ Retired' = Retired
      BY <2>1, SameKeys DEF Waits
    <3>. QED
      BY <2>0, <2>1, <3>1, <3>2, MovedByRead, KeptStreams DEF Waits
  <2>2. CASE Fails /\ ready'
    <3>1. /\ Taken /\ UNCHANGED session /\ Frame.kind = "ERROR"
      BY <2>2 DEF Fails
    <3>2. ready /\ UNCHANGED heartbeat /\ Generic' = Generic /\ Retired' = Retired
      BY <2>2, <3>1, SameTables DEF session
    <3>3. Answers = {1} /\ Frame = toClient[1]
      BY <1>4, <3>1, <3>2, OwnAnswerIsAlone
    <3>4. \A n \in Nat : ~AckedBy(n + 1)
      BY <3>1, <3>3 DEF AckedBy
    <3>5. \A n \in Nat : /\ GenericAt(n + 1) = Generic' /\ RetiredAt(n + 1) = Retired'
                         /\ MonitoredAt(n + 1) = (heartbeat' # 0)
      BY <3>2, <3>4, TablesAt
    <3>. QED
      BY <2>0, <3>1, <3>2, <3>3, <3>5, AnsweredStreams
  <2>3. CASE TakesReady
    <3>1. toClient' = <<>> /\ subs = {} /\ ~watchdog
      BY <2>3, ReadyIsAlone
    <3>2. call.begin
      BY <2>3 DEF TakesReady, TableInv, CallConsistent
    <3>3. /\ \A i \in SlotIndex : slots[i] = EmptySlot
          /\ \A s \in Sources : subscriptionMs[s] = 0
          /\ heartbeat = 0
      BY <3>2, BeginIsCleared DEF Cleared
    <3>4. Generic' = {} /\ Retired' = {} /\ heartbeat' = 0
      BY <2>3, <3>3, EmptyTables, SameTables DEF TakesReady
    <3>5. ServedGeneric' = {} /\ ServedRetired' = {} /\ watchdog' = FALSE
      BY <2>0, <3>1, NothingServed, SameServed DEF TypeOK, ControllerTypeOK
    <3>6. Answers' = {} /\ Len(toClient') = 0
      BY <3>1, ShiftedByReboot
    <3>7. \A n : ~AckedBy(n)'
      BY <3>6 DEF AckedBy
    <3>8. InStep'
      <4>1. ASSUME NEW n, n = Len(toClient')
            PROVE  InStep'
        BY <3>4, <3>5, <3>7, <4>1, TablesAtNext, AtEnd
      <4>. QED
        BY <4>1
    <3>9. EventsExpected' /\ AckedWasServed'
      BY <3>6 DEF EventsExpected, AckedWasServed, Acked, AckedBy
    <3>. QED
      BY <3>8, <3>9 DEF Streams
  <2>4. CASE TakesAck
    <3>1. ready /\ Taken /\ Frame.kind = "REPLY"
      BY <2>4 DEF TakesAck, TableInv, CallConsistent
    <3>2. Answers = {1} /\ Frame = toClient[1]
      BY <1>4, <3>1, OwnAnswerIsAlone
    <3>3. \A n \in Nat : AckedBy(n + 1)
      BY <3>1, <3>2 DEF AckedBy
    <3>4. Len(toClient) \in Nat /\ Len(toClient) >= 1
      BY <3>1, AfterRead DEF Taken
    <3>5. Acked
      BY <3>1, <3>2, <3>4 DEF Acked, AckedBy
    <3>6. /\ Generic' = GenericAfter(Generic, call.request, call.serial)
          /\ Retired' = RetiredAfter(Retired, call.request)
          /\ (heartbeat' # 0) = MonitoredAfter(heartbeat # 0, call.request)
      BY <2>4, <3>1, <3>5, AckTables DEF Streams, AckedWasServed
    <3>7. \A n \in Nat : /\ GenericAt(n + 1) = Generic' /\ RetiredAt(n + 1) = Retired'
                         /\ MonitoredAt(n + 1) = (heartbeat' # 0)
      BY <3>3, <3>6, TablesAt
    <3>. QED
      BY <2>0, <3>1, <3>2, <3>7, AnsweredStreams
  <2>5. CASE TakesInit
    BY <2>5, NotReadyStreams DEF TakesInit, CallInv
  <2>6. Waits /\ ~ready => ~ready'
    BY DEF Waits
  <2>. QED
    BY <1>4, <2>1, <2>2, <2>3, <2>4, <2>5, <2>6, NotReadyStreams
<1>5. CASE Restart
  BY <1>5, NotReadyStreams DEF Restart, ClearSession
<1>6. CASE UNCHANGED clientVars /\ Serving
  <2>1. UNCHANGED ready
    BY <1>6 DEF clientVars, session
  <2>2. CASE ready /\ ServeInit
    <3>1. toController # <<>> /\ Command.command = "INIT"
      BY <2>2 DEF ServeInit
    <3>2. call.phase = "reply" /\ Command.request = call.request /\ Command.request.command = "INIT"
      BY <2>2, <3>1, NothingAnswered, CommandType
    <3>. QED
      BY <3>2 DEF CallInv
  <2>3. CASE ready /\ ServeError
    BY <1>6, <2>3, RefusedStreams
  <2>4. CASE ready /\ Executing
    BY <1>6, <2>4, ExecutedStreams
  <2>. QED
    BY <1>6, <2>1, <2>2, <2>3, <2>4, NotReadyStreams DEF Serving, Executing
<1>7. CASE UNCHANGED clientVars /\ EmitEvent
  <2>1. UNCHANGED ready
    BY <1>7 DEF clientVars, session
  <2>. QED
    BY <1>7, <2>1, EmittedStreams, NotReadyStreams
<1>8. CASE UNCHANGED clientVars /\ Expire
  <2>1. UNCHANGED <<session, call, toClient>> /\ up' = FALSE
    BY <1>8 DEF clientVars, Expire, wireVars
  <2>2. Generic' = Generic /\ Retired' = Retired /\ UNCHANGED <<ready, heartbeat, call, toClient>>
    BY <2>1, SameTables DEF session
  <2>3. Answers' = Answers
    BY <2>1, SameAnswers
  <2>4. InStep' /\ AckedWasServed'
    BY <2>1, <2>2, <2>3 DEF InStep, AckedWasServed, Acked, AckedBy, Streams
  <2>5. ASSUME NEW p \in 1 .. Len(toClient')
        PROVE  SameAt(p, p)
    <3>1. AckedBy(p)' <=> AckedBy(p)
      BY <2>2, <2>3 DEF AckedBy
    <3>. QED
      BY <2>2, <3>1, SameAtKept
  <2>6. EventsExpected'
    BY <2>2, <2>5 DEF EventsExpected, SameAt, Streams
  <2>. QED
    BY <2>4, <2>6 DEF Streams
<1>9. CASE UNCHANGED clientVars /\ Reboot
  <2>1. up' = FALSE /\ toClient' = <<>> /\ Answers' = {} /\ Len(toClient') = 0
    BY <1>9, ShiftedByReboot DEF Reboot
  <2>. QED
    BY <2>1 DEF Streams, InStep, EventsExpected, AckedWasServed, Acked, AckedBy
<1>10. CASE UNCHANGED vars
  BY <1>1, <1>10 DEF vars, clientVars, session, wireVars, controllerVars
<1>. QED
  BY <1>2, <1>3, <1>4, <1>5, <1>6, <1>7, <1>8, <1>9, <1>10, StepShape, NotReadyStreams

\* The controller's own part: without a session it streams nothing.
LEMMA StepSilent ==
  ASSUME TypeOK, DownIsSilent, TableInv, CallInv, [Next]_vars
  PROVE  DownIsSilent'
<1>1. CASE UNCHANGED controllerVars
  BY <1>1 DEF controllerVars, DownIsSilent
<1>2. CASE Serving
  <2>1. CASE ServeInit
    BY <2>1 DEF ServeInit, DownIsSilent
  <2>2. CASE ServeError
    BY <1>1, <2>2 DEF ServeError
  <2>3. CASE Executing
    BY <2>3, ServeTables DEF DownIsSilent
  <2>. QED
    BY <1>2, <2>1, <2>2, <2>3 DEF Serving, Executing
<1>3. CASE EmitEvent \/ Expire \/ Reboot
  BY <1>3 DEF EmitEvent, Expire, Reboot, controllerVars, DownIsSilent
<1>. QED
  BY <1>1, <1>2, <1>3, StepShape DEF vars

----------------------------------------------------------------------------
(* The invariant *)

StreamInv == DownIsSilent /\ Streams

\* There is no session when the sketch starts.
LEMMA InitStreams == Init => StreamInv
<1>. SUFFICES ASSUME Init PROVE StreamInv
  OBVIOUS
<1>1. toClient = <<>> /\ ~ready /\ subs = {} /\ ~watchdog
  BY DEF Init, WireInit, ClientInit, ControllerInit
<1>. QED
  BY <1>1 DEF StreamInv, Streams, DownIsSilent, InStep, AckedWasServed, EventsExpected

\* What the library has and what it has yet to read is what the controller serves.
THEOREM StreamInvariant == Spec /\ [][FreshIds]_vars => []StreamInv
<1>1. TypeOK /\ TypeOK' /\ TableInv /\ InOrder /\ QueueInv /\ StreamInv /\ [Next]_vars => StreamInv'
  BY StepSilent, StepStreams DEF QueueInv, StreamInv
<1>. QED
  BY <1>1, TypeCorrect, TablesInvariant, OrderInvariant, QueueInvariant, InitStreams, PTL DEF Spec

----------------------------------------------------------------------------
(* Samples *)

Samples == SamplesOfThisSubscription /\ LegacySamplesSubscribed

\* The samples depend on these three variables.
LEMMA SameSamples ==
  ASSUME Samples, UNCHANGED <<slots, sampleMask, subscriptionMs>>
  PROVE  Samples'
BY DEF Samples, SamplesOfThisSubscription, LegacySamplesSubscribed

\* Cleared tables have no sample.
LEMMA ClearedSamples ==
  ASSUME ClearTables
  PROVE  Samples'
BY DEF ClearTables, Samples, SamplesOfThisSubscription, LegacySamplesSubscribed, EmptySlot

\* A failure leaves the samples alone or clears them.
LEMMA SettledSamples ==
  ASSUME Samples, NEW c, Settle(c)
  PROVE  Samples'
<1>1. CASE Fatal(error')
  BY <1>1, ClearedSamples DEF Settle, ClearSession
<1>2. CASE ~Fatal(error')
  BY <1>2, SameSamples DEF Settle
<1>. QED
  BY <1>1, <1>2

\* A call that goes out or fails to does the same.
LEMMA IssuedSamples ==
  ASSUME Samples, NEW c, Issue(c)
  PROVE  Samples'
BY SameSamples, SettledSamples DEF Issue, session

\* An event that is read first is of a subscription the library has now.
LEMMA EventIsExpected ==
  ASSUME TypeOK, Streams, ready, Taken, Frame.kind \in {"EVENT", "LEGACY_EVENT"}
  PROVE  /\ Frame.kind = "EVENT" => <<Frame.key, Frame.stamp>> \in Generic
         /\ Frame.kind = "LEGACY_EVENT" => Frame.source \in Retired
<1>1. Frame = toClient[1] /\ 1 \notin Answers /\ Len(toClient) \in Nat /\ Len(toClient) >= 1
  BY AfterRead DEF Taken
<1>2. ~AckedBy(1)
  BY <1>1 DEF AckedBy, Answers
<1>3. GenericAt(1) = Generic /\ RetiredAt(1) = Retired
  BY <1>2, TablesAt
<1>. QED
  BY <1>1, <1>3 DEF Streams, EventsExpected

\* A generic event is stored in the slot of its own subscription.
LEMMA EventSamples ==
  ASSUME TypeOK, TableInv, QueueInv, Streams, Samples, ReceiveEvent
  PROVE  Samples'
<1>. DEFINE slot == FindSubscription(Frame.key)
<1>1. UNCHANGED <<sampleMask, subscriptionMs>>
  BY DEF ReceiveEvent
<1>2. CASE ready /\ slot # 0
  <2>1. /\ slot \in SlotIndex /\ Active(slots[slot]) /\ slots[slot].key = Frame.key
    BY <1>2, FindSubscriptionResult
  <2>2. <<Frame.key, Frame.stamp>> \in Generic
    BY <1>2, EventIsExpected DEF ReceiveEvent, Read, WireReceive, Taken
  <2>3. PICK i \in SlotIndex : Active(slots[i]) /\ <<slots[i].key, slots[i].since>> = <<Frame.key, Frame.stamp>>
    BY <2>2 DEF Generic
  <2>4. i = slot
    BY <2>1, <2>3 DEF TableInv, SlotsDistinct
  <2>5. Frame.stamp = slots[slot].since
    BY <2>3, <2>4
  <2>6. slots' = [slots EXCEPT ![slot].sample = Frame.stamp]
    BY <1>2 DEF ReceiveEvent
  <2>7. slots \in [SlotIndex -> [key : Keys \cup {NoKey}, sample : Stamps, since : Stamps]]
    BY DEF TypeOK, SessionTypeOK
  <2>8. \A j \in SlotIndex :
          /\ j # slot => slots'[j] = slots[j]
          /\ j = slot => slots'[j].sample = Frame.stamp /\ slots'[j].since = slots[j].since
    BY <2>1, <2>6, <2>7
  <2>9. SamplesOfThisSubscription'
    BY <2>5, <2>8 DEF Samples, SamplesOfThisSubscription
  <2>. QED
    BY <1>1, <2>9 DEF Samples, LegacySamplesSubscribed
<1>3. CASE ~(ready /\ slot # 0)
  <2>1. UNCHANGED slots
    BY <1>3 DEF ReceiveEvent
  <2>. QED
    BY <1>1, <2>1, SameSamples
<1>. QED
  BY <1>2, <1>3

\* A retired event marks a source that is subscribed.
LEMMA LegacyEventSamples ==
  ASSUME TypeOK, TableInv, QueueInv, Streams, Samples, ReceiveLegacyEvent
  PROVE  Samples'
<1>1. UNCHANGED <<slots, subscriptionMs>>
  BY DEF ReceiveLegacyEvent
<1>2. CASE ready
  <2>1. Frame.source \in Retired
    BY <1>2, EventIsExpected DEF ReceiveLegacyEvent, Read, WireReceive, Taken
  <2>2. sampleMask' = sampleMask \cup {Frame.source}
    BY <1>2 DEF ReceiveLegacyEvent
  <2>. QED
    BY <1>1, <2>1, <2>2 DEF Samples, SamplesOfThisSubscription, LegacySamplesSubscribed, Retired
<1>3. CASE ~ready
  <2>1. UNCHANGED sampleMask
    BY <1>3 DEF ReceiveLegacyEvent
  <2>. QED
    BY <1>1, <2>1, SameSamples
<1>. QED
  BY <1>2, <1>3

\* A slot that is filled anew has no sample; a source taken over loses its mark.
LEMMA SubscriptionAckSamples ==
  ASSUME TypeOK, Samples, ReceiveSubscriptionAck
  PROVE  Samples'
<1>. DEFINE r == call.request
<1>1. /\ slots' = [i \in SlotIndex |-> IF i = call.slot THEN NewSlot(r) ELSE slots[i]]
      /\ subscriptionMs' = [s \in Sources |-> IF s \in Superseded(r) THEN 0 ELSE subscriptionMs[s]]
      /\ sampleMask' = sampleMask \ Superseded(r)
  BY DEF ReceiveSubscriptionAck
<1>2. NewSlot(r).sample = NoSample
  BY DEF NewSlot, EmptySlot
<1>3. SamplesOfThisSubscription'
  BY <1>1, <1>2 DEF Samples, SamplesOfThisSubscription
<1>4. sampleMask \subseteq Sources
  BY DEF TypeOK, SessionTypeOK
<1>5. LegacySamplesSubscribed'
  BY <1>1, <1>4 DEF Samples, LegacySamplesSubscribed
<1>. QED
  BY <1>3, <1>5 DEF Samples

\* The ACK of the call in progress is that of a request that was served.
LEMMA AckedRequest ==
  ASSUME TypeOK, TableInv, QueueInv, Streams, TakesAck
  PROVE  LegacyServed(call.request)
<1>1. ready /\ Taken /\ Waiting /\ Frame.kind = "REPLY" /\ Frame.id = call.id
  BY DEF TakesAck, TableInv, CallConsistent, Waiting
<1>2. 1 \in Answers /\ Frame = toClient[1]
  BY <1>1, ReplyIsOwn DEF QueueInv
<1>3. Len(toClient) \in Nat /\ Len(toClient) >= 1
  BY <1>1, AfterRead DEF Taken
<1>. QED
  BY <1>1, <1>2, <1>3 DEF Streams, AckedWasServed, Acked, AckedBy

\* A retired subscription that is set has an interval; one removed loses its mark.
LEMMA LegacyAckSamples ==
  ASSUME TypeOK, TableInv, QueueInv, Streams, Samples, ReceiveLegacyAck, TakesAck
  PROVE  Samples'
<1>. DEFINE r == call.request
            unsubscribing == r.command = "UNSUBSCRIBE_ODOMETRY"
<1>1. /\ r.command \in {"SUBSCRIBE_ODOMETRY", "UNSUBSCRIBE_ODOMETRY"}
      /\ r.source \in Sources
      /\ ~unsubscribing => r.interval # 0
  BY AckedRequest DEF ReceiveLegacyAck, LegacyServed
<1>2. /\ subscriptionMs' = [subscriptionMs EXCEPT ![r.source] =
                              IF unsubscribing THEN 0 ELSE r.interval]
      /\ sampleMask' = IF unsubscribing THEN sampleMask \ {r.source} ELSE sampleMask
      /\ slots' = [i \in SlotIndex |->
                     IF i = FindSubscription(KeyOf(r.source)) THEN EmptySlot ELSE slots[i]]
  BY <1>1 DEF ReceiveLegacyAck
<1>3. SamplesOfThisSubscription'
  BY <1>2 DEF Samples, SamplesOfThisSubscription, EmptySlot
<1>4. sampleMask \subseteq Sources /\ subscriptionMs \in [Sources -> Nat]
  BY DEF TypeOK, SessionTypeOK
<1>5. LegacySamplesSubscribed'
  <2>1. CASE unsubscribing
    BY <1>2, <1>4, <2>1 DEF Samples, LegacySamplesSubscribed
  <2>2. CASE ~unsubscribing
    BY <1>1, <1>2, <1>4, <2>2 DEF Samples, LegacySamplesSubscribed
  <2>. QED
    BY <2>1, <2>2
<1>. QED
  BY <1>3, <1>5 DEF Samples

\* No read puts a sample where it does not belong.
LEMMA ReceivedSamples ==
  ASSUME TypeOK, TableInv, QueueInv, Streams, Samples, Receive
  PROVE  Samples'
<1>1. ASSUME NEW failure, NEW code, Fail(call, failure, code)
      PROVE  Samples'
  BY <1>1, SettledSamples DEF Fail
<1>2. CASE ReceiveStale
  BY <1>2, SameSamples DEF ReceiveStale, session
<1>3. CASE ReceiveError \/ ReceiveMismatch \/ ReceiveGarbage \/ ReceiveFails \/ Timeout
  BY <1>1, <1>3 DEF ReceiveError, ReceiveMismatch, ReceiveGarbage, ReceiveFails, Timeout
<1>4. CASE ReceiveInit
  BY <1>1, <1>4, SameSamples DEF ReceiveInit
<1>5. CASE ReceiveReady
  BY <1>5, SameSamples DEF ReceiveReady
<1>6. CASE ReceiveHeartbeatAck
  BY <1>6, ClearedSamples, SameSamples DEF ReceiveHeartbeatAck
<1>7. CASE ReceiveOtherAck
  BY <1>7, SameSamples DEF ReceiveOtherAck
<1>8. CASE ReceiveLegacyAck
  <2>1. TakesAck
    BY <1>8 DEF ReceiveLegacyAck, TakesAck, Acking, Answered, Read, WireReceive, Taken,
         ExpectedCommand, Succeed
  <2>. QED
    BY <1>8, <2>1, LegacyAckSamples
<1>. QED
  BY <1>2, <1>3, <1>4, <1>5, <1>6, <1>7, <1>8, EventSamples, LegacyEventSamples,
     SubscriptionAckSamples DEF Receive

\* Nor does any other step.
LEMMA StepSamples ==
  ASSUME TypeOK, TableInv, QueueInv, Streams, Samples, [Next]_vars
  PROVE  Samples'
<1>1. CASE UNCHANGED session
  BY <1>1, SameSamples DEF session
<1>2. CASE SketchCalls
  <2>1. ASSUME NEW t \in Timeouts, Begin(t)
        PROVE  Samples'
    BY <2>1, ClearedSamples DEF Begin, ClearSession
  <2>2. ASSUME NEW r \in Requests, Request(r) \/ Refuse(r)
        PROVE  Samples'
    BY <1>1, <2>2, IssuedSamples DEF Request, Refuse
  <2>3. CASE RefuseTuning \/ PollNotReady \/ Poll
    BY <1>1, <2>3, IssuedSamples DEF RefuseTuning, PollNotReady, Poll
  <2>. QED
    BY <1>2, <2>1, <2>2, <2>3 DEF SketchCalls
<1>3. CASE Configure
  BY <1>3, IssuedSamples DEF Configure
<1>4. CASE Receive
  BY <1>4, ReceivedSamples
<1>5. CASE Restart
  BY <1>5, ClearedSamples DEF Restart, ClearSession
<1>6. CASE Controller \/ UNCHANGED vars
  BY <1>1, <1>6 DEF Controller, vars, clientVars
<1>. QED
  BY <1>2, <1>3, <1>4, <1>5, <1>6 DEF Next, Client

\* A cached sample is of the subscription that holds its slot, and a retired getter
\* shows a source only while it is subscribed: telemetry() looks neither at the time
\* nor at the age of an event, the order of the ACK and the events is what keeps an
\* old one out.
THEOREM SamplesInvariant == Spec /\ [][FreshIds]_vars => []Samples
<1>1. Init => Samples
  BY DEF Init, ClientInit, Samples, SamplesOfThisSubscription, LegacySamplesSubscribed,
     EmptySlot
<1>2. TypeOK /\ TableInv /\ QueueInv /\ StreamInv /\ Samples /\ [Next]_vars => Samples'
  BY StepSamples DEF StreamInv
<1>. QED
  BY <1>1, <1>2, TypeCorrect, TablesInvariant, QueueInvariant, StreamInvariant, PTL DEF Spec

\* The two properties by the names under which they are checked.
THEOREM SampleOfItsSubscription ==
  Spec /\ [][FreshIds]_vars => []SamplesOfThisSubscription
<1>1. Samples => SamplesOfThisSubscription
  BY DEF Samples
<1>. QED
  BY <1>1, SamplesInvariant, PTL

\* The retired getters show a source only while it is subscribed, in any session.
THEOREM RetiredSampleIsSubscribed ==
  Spec /\ [][FreshIds]_vars => []LegacySamplesSubscribed
<1>1. Samples => LegacySamplesSubscribed
  BY DEF Samples
<1>. QED
  BY <1>1, SamplesInvariant, PTL

----------------------------------------------------------------------------
(* Between two calls *)

\* Between two calls no ACK is on its way, so that the tables are equal now.
LEMMA AgreeWhenIdle ==
  ASSUME TypeOK, QueueInv, Streams
  PROVE  TablesAgree
<1>. SUFFICES ASSUME call = Idle, ready, up
              PROVE  /\ subs = {[key |-> slots[i].key, legacy |-> FALSE, stamp |-> slots[i].since] :
                                  i \in {j \in SlotIndex : Active(slots[j])}}
                                \cup {t \in subs : t.legacy}
                     /\ {t.key : t \in {u \in subs : u.legacy}}
                          = {KeyOf(s) : s \in {q \in Sources : subscriptionMs[q] # 0}}
                     /\ watchdog = (heartbeat # 0)
  BY DEF TablesAgree
<1>1. Answers = {}
  BY DEF QueueInv, Quiet, Idle
<1>2. ~AckedBy(Len(toClient))
  BY <1>1 DEF AckedBy
<1>3. ServedGeneric = Generic /\ ServedRetired = Retired /\ watchdog = (heartbeat # 0)
  BY <1>2, TablesAt DEF Streams, InStep
<1>4. \A t \in subs : \/ /\ ~t.legacy
                         /\ t = [key |-> t.key, legacy |-> FALSE, stamp |-> t.stamp]
                      \/ t.legacy /\ t.key \in LegacyKeys
  <2>. SUFFICES ASSUME NEW t \in subs
                PROVE  \/ ~t.legacy /\ t = [key |-> t.key, legacy |-> FALSE, stamp |-> t.stamp]
                       \/ t.legacy /\ t.key \in LegacyKeys
    OBVIOUS
  <2>1. t \in [key : Keys, legacy : {FALSE}, stamp : Serials]
        \/ t \in [key : LegacyKeys, legacy : {TRUE}, stamp : Serials]
    BY DEF TypeOK, ControllerTypeOK
  <2>2. CASE t \in [key : Keys, legacy : {FALSE}, stamp : Serials]
    BY <2>2
  <2>3. CASE t \in [key : LegacyKeys, legacy : {TRUE}, stamp : Serials]
    BY <2>3
  <2>. QED
    BY <2>1, <2>2, <2>3
<1>. DEFINE G == {[key |-> slots[i].key, legacy |-> FALSE, stamp |-> slots[i].since] :
                    i \in {j \in SlotIndex : Active(slots[j])}}
<1>5. ASSUME NEW t \in subs, ~t.legacy
      PROVE  t \in G
  <2>1. <<t.key, t.stamp>> \in Generic
    BY <1>3, <1>5 DEF ServedGeneric
  <2>2. PICK i \in SlotIndex : Active(slots[i]) /\ <<slots[i].key, slots[i].since>> = <<t.key, t.stamp>>
    BY <2>1 DEF Generic
  <2>3. t = [key |-> slots[i].key, legacy |-> FALSE, stamp |-> slots[i].since]
    BY <1>4, <1>5, <2>2
  <2>. QED
    BY <2>2, <2>3
<1>6. ASSUME NEW i \in SlotIndex, Active(slots[i])
      PROVE  [key |-> slots[i].key, legacy |-> FALSE, stamp |-> slots[i].since] \in subs
  <2>1. <<slots[i].key, slots[i].since>> \in ServedGeneric
    BY <1>3, <1>6 DEF Generic
  <2>2. PICK t \in subs : ~t.legacy /\ <<t.key, t.stamp>> = <<slots[i].key, slots[i].since>>
    BY <2>1 DEF ServedGeneric
  <2>3. t = [key |-> slots[i].key, legacy |-> FALSE, stamp |-> slots[i].since]
    BY <1>4, <2>2
  <2>. QED
    BY <2>3
<1>7. subs = G \cup {t \in subs : t.legacy}
  BY <1>5, <1>6
<1>8. {t.key : t \in {u \in subs : u.legacy}}
        = {KeyOf(s) : s \in {q \in Sources : subscriptionMs[q] # 0}}
  <2>1. ASSUME NEW t \in subs, t.legacy
        PROVE  \E s \in Retired : t.key = KeyOf(s)
    <3>1. PICK s \in Sources : t.key = KeyOf(s)
      BY <1>4, <2>1 DEF LegacyKeys
    <3>2. s \in ServedRetired
      BY <2>1, <3>1 DEF ServedRetired
    <3>. QED
      BY <1>3, <3>1, <3>2
  <2>2. ASSUME NEW s \in Retired
        PROVE  \E t \in subs : t.legacy /\ t.key = KeyOf(s)
    BY <1>3 DEF ServedRetired
  <2>. QED
    BY <2>1, <2>2 DEF Retired
<1>. QED
  BY <1>3, <1>7, <1>8

\* Between two calls the library and the controller have the same subscriptions, of
\* the same calls, and agree on the watchdog: no sequence of ACKs, refusals, lost
\* frames and new sessions lets the two tables drift apart.
THEOREM TablesStayInStep == Spec /\ [][FreshIds]_vars => []TablesAgree
<1>1. TypeOK /\ QueueInv /\ StreamInv => TablesAgree
  BY AgreeWhenIdle DEF StreamInv
<1>. QED
  BY <1>1, TypeCorrect, QueueInvariant, StreamInvariant, PTL

\* What the runs without a restart check, for all of them.
COROLLARY NoRestart ==
  ASSUME ~CanRestart
  PROVE  Spec => [](SamplesOfThisSubscription /\ LegacySamplesSubscribed /\ TablesAgree)
BY NoRestartNoReuse, SampleOfItsSubscription, RetiredSampleIsSubscribed,
   TablesStayInStep, PTL
=============================================================================
