------------------------ MODULE KinisiRegistryProofs ------------------------
(***************************************************************************)
(* Proof that the slots, the retired tables and the sample marks implement *)
(* SubscriptionRegistry: one table from sources to subscriptions.          *)
(***************************************************************************)
EXTENDS KinisiStreamProofs, FiniteSetTheorems

----------------------------------------------------------------------------
(* The entry of a source *)

Tables == TypeOK /\ TableInv /\ Samples

\* The search finds the slot of a key that is in use.
LEMMA SearchFinds ==
  ASSUME TableInv, NEW i \in SlotIndex, Active(slots[i])
  PROVE  FindSubscription(slots[i].key) = i
BY FindSubscriptionResult DEF TableInv, SlotsDistinct

\* 0 is no slot: it says that the search found none.
LEMMA SlotIsNotZero == \A i \in SlotIndex : i # 0
BY DEF SlotIndex

\* The key of an odometry source gives the source back.
LEMMA RetiredOf ==
  ASSUME NEW s \in Sources
  PROVE  /\ KeyOf(s) \in LegacyKeys
         /\ (CHOOSE t \in Sources : KeyOf(t) = KeyOf(s)) = s
BY KeyOfInjective DEF LegacyKeys

GenericEntry(i) ==
  [delivery |-> "generic", since |-> slots[i].since, sample |-> slots[i].sample]
RetiredEntry(s) ==
  [delivery |-> "retired", since |-> 0, sample |-> SubscribedOdometry(s)]
NoEntry == [delivery |-> "none", since |-> 0, sample |-> NoSample]

Holds(i, k) == k # NoKey /\ slots[i].key = k
Shows(s, k) == KeyOf(s) = k /\ subscriptionMs[s] # 0

\* The entry of a source that a slot serves.
LEMMA GenericEntries ==
  ASSUME Tables, NEW k, NEW i \in SlotIndex, Holds(i, k)
  PROVE  Entry(k) = GenericEntry(i)
<1>1. FindSubscription(k) = i /\ i # 0
  BY SearchFinds, SlotIsNotZero DEF Tables, Holds, Active
<1>2. {s \in Sources : KeyOf(s) = k /\ subscriptionMs[s] # 0} = {}
  BY DEF Tables, TableInv, OneDeliveryPerSource, Holds
<1>. QED
  BY <1>1, <1>2, Zenon DEF Entry, GenericEntry

\* The entry of a source that a retired subscription serves.
LEMMA RetiredEntries ==
  ASSUME Tables, NEW k, NEW s \in Sources, Shows(s, k)
  PROVE  Entry(k) = RetiredEntry(s)
<1>1. \A i \in SlotIndex : slots[i].key # k
  BY DEF Tables, TableInv, OneDeliveryPerSource, Shows
<1>2. FindSubscription(k) = 0
  BY <1>1, FindSubscriptionResult
<1>3. {t \in Sources : KeyOf(t) = k /\ subscriptionMs[t] # 0} # {}
  BY DEF Shows
<1>4. k \in LegacyKeys /\ (CHOOSE t \in Sources : KeyOf(t) = k) = s
  BY RetiredOf DEF Shows
<1>. QED
  BY <1>2, <1>3, <1>4, Zenon DEF Entry, RetiredEntry

\* The entry of a source that nothing serves.
LEMMA NoEntries ==
  ASSUME Tables, NEW k,
         \A i \in SlotIndex : ~Holds(i, k), \A s \in Sources : ~Shows(s, k)
  PROVE  Entry(k) = NoEntry
<1>1. FindSubscription(k) = 0
  BY FindSubscriptionResult, SlotIsNotZero DEF Holds, Active
<1>2. {s \in Sources : KeyOf(s) = k /\ subscriptionMs[s] # 0} = {}
  BY DEF Shows
<1>3. k \in LegacyKeys => SubscribedOdometry(CHOOSE t \in Sources : KeyOf(t) = k) = NoSample
  <2>. SUFFICES ASSUME k \in LegacyKeys
                PROVE  SubscribedOdometry(CHOOSE t \in Sources : KeyOf(t) = k) = NoSample
    OBVIOUS
  <2>1. PICK s \in Sources : KeyOf(s) = k
    BY DEF LegacyKeys
  <2>2. (CHOOSE t \in Sources : KeyOf(t) = k) = s
    BY <2>1, RetiredOf
  <2>3. s \notin sampleMask
    BY <2>1 DEF Tables, Samples, LegacySamplesSubscribed, Shows
  <2>. QED
    BY <2>2, <2>3 DEF SubscribedOdometry
<1>. QED
  BY <1>1, <1>2, <1>3, Zenon DEF Entry, NoEntry

EntryIs ==
  Tables =>
    \A k : /\ \A i \in SlotIndex : Holds(i, k) => Entry(k) = GenericEntry(i)
           /\ \A s \in Sources : Shows(s, k) => Entry(k) = RetiredEntry(s)
           /\ (\A i \in SlotIndex : ~Holds(i, k)) /\ (\A s \in Sources : ~Shows(s, k))
                => Entry(k) = NoEntry

\* The entry of every source, by what serves it.
LEMMA Entries == EntryIs
BY GenericEntries, RetiredEntries, NoEntries DEF EntryIs

\* The same of the next state.
LEMMA EntriesNext == EntryIs'
BY Entries, PTL

----------------------------------------------------------------------------
(* The table and how it changes *)

Table == [k \in Served |-> Entry(k)]

\* Nothing that serves k, or would, is touched.
KeepsEntry(k) ==
  /\ \A i \in SlotIndex : Holds(i, k) \/ Holds(i, k)' => slots'[i] = slots[i]
  /\ \A s \in Sources : KeyOf(s) = k =>
       /\ subscriptionMs'[s] # 0 <=> subscriptionMs[s] # 0
       /\ subscriptionMs[s] # 0 => SubscribedOdometry(s)' = SubscribedOdometry(s)

\* An entry stays as it is when what serves it is not touched.
LEMMA KeptEntry ==
  ASSUME Tables, Tables', NEW k, KeepsEntry(k)
  PROVE  Entry(k)' = Entry(k)
<1>1. CASE \E i \in SlotIndex : Holds(i, k)
  <2>1. PICK i \in SlotIndex : Holds(i, k)
    BY <1>1
  <2>2. slots'[i] = slots[i] /\ Holds(i, k)'
    BY <2>1 DEF KeepsEntry, Holds
  <2>. QED
    BY <2>1, <2>2, Entries, EntriesNext DEF EntryIs, GenericEntry
<1>2. CASE \E s \in Sources : Shows(s, k)
  <2>1. PICK s \in Sources : Shows(s, k)
    BY <1>2
  <2>2. Shows(s, k)' /\ SubscribedOdometry(s)' = SubscribedOdometry(s)
    BY <2>1 DEF KeepsEntry, Shows
  <2>. QED
    BY <2>1, <2>2, Entries, EntriesNext DEF EntryIs, RetiredEntry
<1>3. CASE (\A i \in SlotIndex : ~Holds(i, k)) /\ (\A s \in Sources : ~Shows(s, k))
  <2>1. (\A i \in SlotIndex : ~Holds(i, k)') /\ (\A s \in Sources : ~Shows(s, k)')
    BY <1>3 DEF KeepsEntry, Shows, Holds
  <2>. QED
    BY <1>3, <2>1, Entries, EntriesNext DEF EntryIs, NoEntry
<1>. QED
  BY <1>1, <1>2, <1>3

\* So does the whole table.
LEMMA KeptTable ==
  ASSUME Tables, Tables', \A k \in Served : KeepsEntry(k)
  PROVE  Table' = Table
BY KeptEntry DEF Table

\* A step that leaves slots, intervals, samples and their marks alone leaves the table.
LEMMA SameTable ==
  ASSUME Tables, Tables', UNCHANGED <<slots, subscriptionMs, sampleMask, legacySamples>>
  PROVE  Table' = Table
BY KeptTable DEF KeepsEntry, SubscribedOdometry

\* A step that touches what serves one source changes that entry only.
LEMMA ChangedTable ==
  ASSUME Tables, Tables', NEW key \in Served, \A k \in Served \ {key} : KeepsEntry(k)
  PROVE  Table' = [Table EXCEPT ![key] = Entry(key)']
BY KeptEntry DEF Table

\* With all slots free and no retired interval the table is empty.
LEMMA EmptyTable ==
  ASSUME Tables', \A i \in SlotIndex : slots'[i] = EmptySlot,
         \A s \in Sources : subscriptionMs'[s] = 0
  PROVE  Table' = Registry!Empty
<1>1. ASSUME NEW k \in Served
      PROVE  Entry(k)' = NoEntry
  BY EntriesNext DEF EntryIs, Holds, Shows, EmptySlot
<1>. QED
  BY <1>1 DEF Table, NoEntry, NoSample, Registry!Empty, Registry!Off, Registry!NoSample

\* clearTables() empties it.
LEMMA ClearedTable ==
  ASSUME Tables', ClearTables
  PROVE  Table' = Registry!Empty
<1>1. \A i \in SlotIndex : slots'[i] = EmptySlot
  BY Zenon DEF ClearTables
<1>2. \A s \in Sources : subscriptionMs'[s] = 0
  BY DEF ClearTables
<1>. QED
  BY <1>1, <1>2, EmptyTable

\* The end of a call leaves the table as it is or, with the session, empties it.
LEMMA SettledTable ==
  ASSUME Tables, Tables', NEW c, Settle(c), UNCHANGED legacySamples
  PROVE  Table' \in {Table, Registry!Empty}
<1>1. CASE Fatal(error')
  BY <1>1, ClearedTable DEF Settle, ClearSession
<1>2. CASE ~Fatal(error')
  BY <1>2, SameTable DEF Settle
<1>. QED
  BY <1>1, <1>2

----------------------------------------------------------------------------
(* What the call in progress asks for *)

To(key, delivery) == [kind |-> "change", key |-> key, delivery |-> delivery, since |-> call.serial]

ChangeIs ==
  /\ call = Idle => Change = Registry!Idle
  /\ call # Idle /\ call.begin => Change = Registry!Opening
  /\ call # Idle /\ ~call.begin =>
       /\ call.request.command \in Subscribing => Change = To(Key(call.request), "generic")
       /\ call.request.command = "UNSUBSCRIBE" => Change = To(Key(call.request), "none")
       /\ call.request.command = "SUBSCRIBE_ODOMETRY" /\ call.request.source \in Sources =>
            Change = To(KeyOf(call.request.source), "retired")
       /\ call.request.command = "UNSUBSCRIBE_ODOMETRY" /\ call.request.source \in Sources =>
            Change = To(KeyOf(call.request.source), "none")
       /\ EndsStreams(call.request) => Change = Registry!Closing
       /\ ~EndsStreams(call.request)
            /\ call.request.command \notin Subscribing \cup {"UNSUBSCRIBE"}
            /\ (call.request.command \in {"SUBSCRIBE_ODOMETRY", "UNSUBSCRIBE_ODOMETRY"} =>
                  call.request.source \notin Sources)
          => Change = Registry!Other

\* The change of a call, by its request.
LEMMA ChangeOf == ChangeIs
<1>. DEFINE r == call.request
<1>1. call = Idle => Change = Registry!Idle
  BY Zenon DEF Change, Registry!Idle
<1>2. call # Idle /\ call.begin => Change = Registry!Opening
  BY Zenon DEF Change, Registry!Opening
<1>3. "UNSUBSCRIBE" \notin Subscribing /\ "SUBSCRIBE_ODOMETRY" \notin Subscribing
      /\ "UNSUBSCRIBE_ODOMETRY" \notin Subscribing /\ "SET_HEARTBEAT_CONFIG" \notin Subscribing
  BY DEF Subscribing
<1>4. call # Idle /\ ~call.begin /\ r.command \in Subscribing => Change = To(Key(r), "generic")
  BY <1>3, Zenon DEF Change, To
<1>5. call # Idle /\ ~call.begin /\ r.command = "UNSUBSCRIBE" => Change = To(Key(r), "none")
  BY <1>3, Zenon DEF Change, To
<1>6. call # Idle /\ ~call.begin /\ r.command = "SUBSCRIBE_ODOMETRY" /\ r.source \in Sources =>
        Change = To(KeyOf(r.source), "retired")
  BY <1>3, Zenon DEF Change, To
<1>7. call # Idle /\ ~call.begin /\ r.command = "UNSUBSCRIBE_ODOMETRY" /\ r.source \in Sources =>
        Change = To(KeyOf(r.source), "none")
  BY <1>3, Zenon DEF Change, To
<1>8. call # Idle /\ ~call.begin /\ EndsStreams(r) => Change = Registry!Closing
  BY <1>3, Zenon DEF Change, EndsStreams, Registry!Closing
<1>9. call # Idle /\ ~call.begin
        /\ r.command \notin Subscribing \cup {"UNSUBSCRIBE"}
        /\ (r.command \in {"SUBSCRIBE_ODOMETRY", "UNSUBSCRIBE_ODOMETRY"} => r.source \notin Sources)
        /\ ~EndsStreams(r) => Change = Registry!Other
  BY Zenon DEF Change, EndsStreams, Registry!Other
<1>. QED
  BY <1>1, <1>2, <1>4, <1>5, <1>6, <1>7, <1>8, <1>9 DEF ChangeIs

\* The same of the next state.
LEMMA ChangeOfNext == ChangeIs'
BY ChangeOf, PTL

----------------------------------------------------------------------------
(* Room and age *)

\* A slot was filled by a call that has been issued.
SlotsAreOlder == \A i \in SlotIndex : slots[i].since <= issued

\* A free slot, or a slot of the key itself, is room for one more generic subscription.
LEMMA Room ==
  ASSUME Tables, NEW key, NEW slot \in SlotIndex, slots[slot].key \in {NoKey, key}
  PROVE  Cardinality({k \in Served : Entry(k).delivery = "generic"} \cup {key}) <= MaxSubscriptions
<1>. DEFINE g == [i \in 1 .. MaxSubscriptions |-> IF i = slot THEN key ELSE slots[i].key]
            T == {g[i] : i \in 1 .. MaxSubscriptions}
            G == {k \in Served : Entry(k).delivery = "generic"}
<1>1. MaxSubscriptions \in Nat /\ slot \in 1 .. MaxSubscriptions
  BY ProtocolAssumption DEF SlotIndex
<1>2. g \in Surjection(1 .. MaxSubscriptions, T)
  BY DEF Surjection
<1>3. ASSUME NEW k \in G
      PROVE  k \in T
  <2>1. PICK i \in SlotIndex : Holds(i, k)
    <3>1. ASSUME \A i \in SlotIndex : ~Holds(i, k)
          PROVE  Entry(k).delivery # "generic"
      BY <3>1, Entries DEF EntryIs, RetiredEntry, NoEntry
    <3>. QED
      BY <3>1
  <2>2. CASE i = slot
    <3>1. k = key
      BY <2>1, <2>2 DEF Holds
    <3>. QED
      BY <1>1, <3>1
  <2>3. CASE i # slot
    <3>1. g[i] = k /\ i \in 1 .. MaxSubscriptions
      BY <2>1, <2>3 DEF Holds, SlotIndex
    <3>. QED
      BY <3>1
  <2>. QED
    BY <2>2, <2>3
<1>4. G \cup {key} \in SUBSET T
  BY <1>1, <1>3
<1>. HIDE DEF g, T, G
<1>5. IsFiniteSet(1 .. MaxSubscriptions) /\ Cardinality(1 .. MaxSubscriptions) = MaxSubscriptions
  BY <1>1, FS_Interval, ProtocolAssumption
<1>6. IsFiniteSet(T) /\ Cardinality(T) <= MaxSubscriptions
  BY <1>2, <1>5, FS_Surjection
<1>7. IsFiniteSet(G \cup {key}) /\ Cardinality(G \cup {key}) <= Cardinality(T)
  BY <1>4, <1>6, FS_Subset
<1>8. Cardinality(T) \in Nat /\ Cardinality(G \cup {key}) \in Nat
  BY <1>6, <1>7, FS_CardinalityType
<1>. QED
  BY <1>1, <1>6, <1>7, <1>8 DEF G

\* No step brings in a slot of a later call.
LEMMA StepOlder ==
  ASSUME TypeOK, TypeOK', TableInv, CallInv, SlotsAreOlder, [Next]_vars
  PROVE  SlotsAreOlder'
<1>0. issued \in Nat /\ issued' \in Nat /\ \A i \in SlotIndex : slots[i].since \in Nat
  BY ProtocolAssumption DEF TypeOK, CallTypeOK, SessionTypeOK, Stamps, Serials, NoSample
<1>1. ASSUME issued' \in {issued, issued + 1},
             \A i \in SlotIndex : slots'[i].since \in {slots[i].since, 0, issued}
      PROVE  SlotsAreOlder'
  BY <1>0, <1>1 DEF SlotsAreOlder
<1>2. ASSUME issued' \in {issued, issued + 1}, UNCHANGED slots
      PROVE  SlotsAreOlder'
  BY <1>1, <1>2
<1>3. ASSUME issued' \in {issued, issued + 1}, ClearTables
      PROVE  SlotsAreOlder'
  <2>1. \A i \in SlotIndex : slots'[i] = EmptySlot
    BY <1>3, Zenon DEF ClearTables
  <2>. QED
    BY <1>1, <1>3, <2>1 DEF EmptySlot
<1>4. ASSUME issued' \in {issued, issued + 1}, NEW c, Settle(c)
      PROVE  SlotsAreOlder'
  BY <1>2, <1>3, <1>4 DEF Settle, ClearSession
<1>5. ASSUME NEW c, Issue(c)
      PROVE  SlotsAreOlder'
  BY <1>2, <1>4, <1>5 DEF Issue, Allocate, session
<1>6. CASE SketchCalls \/ Configure
  <2>1. ASSUME NEW t \in Timeouts, Begin(t)
        PROVE  SlotsAreOlder'
    BY <1>3, <2>1 DEF Begin, ClearSession, Allocate
  <2>2. ASSUME NEW r \in Requests, Request(r) \/ Refuse(r)
        PROVE  SlotsAreOlder'
    BY <1>2, <1>5, <2>2 DEF Request, Refuse, session
  <2>3. CASE RefuseTuning \/ PollNotReady \/ Poll \/ Configure
    BY <1>2, <1>5, <2>3 DEF RefuseTuning, PollNotReady, Poll, Configure, session
  <2>. QED
    BY <1>6, <2>1, <2>2, <2>3 DEF SketchCalls
<1>7. CASE Receive
  <2>0. UNCHANGED issued
    BY <1>7, ReceiveShape
  <2>1. ASSUME NEW failure, NEW code, Fail(call, failure, code)
        PROVE  SlotsAreOlder'
    BY <1>4, <2>0, <2>1 DEF Fail
  <2>2. CASE ReceiveError \/ ReceiveMismatch \/ ReceiveGarbage \/ ReceiveFails \/ Timeout
    BY <2>1, <2>2 DEF ReceiveError, ReceiveMismatch, ReceiveGarbage, ReceiveFails, Timeout
  <2>3. CASE ReceiveStale \/ ReceiveLegacyEvent \/ ReceiveReady \/ ReceiveOtherAck
    BY <1>2, <2>0, <2>3 DEF ReceiveStale, ReceiveLegacyEvent, ReceiveReady, ReceiveOtherAck, session
  <2>4. CASE ReceiveInit
    BY <1>2, <2>0, <2>1, <2>4 DEF ReceiveInit
  <2>5. CASE ReceiveHeartbeatAck
    BY <1>2, <1>3, <2>0, <2>5 DEF ReceiveHeartbeatAck
  <2>6. CASE ReceiveEvent
    <3>1. slots' = slots \/ \E k : slots' = [slots EXCEPT ![k].sample = Frame.stamp]
      BY <2>6 DEF ReceiveEvent
    <3>2. slots \in [SlotIndex -> [key : Keys \cup {NoKey}, sample : Stamps, since : Stamps]]
      BY DEF TypeOK, SessionTypeOK
    <3>3. \A i \in SlotIndex : slots'[i].since = slots[i].since
      BY <3>1, <3>2
    <3>. QED
      BY <1>1, <2>0, <3>3
  <2>7. CASE ReceiveSubscriptionAck
    <3>1. call.serial = issued
      BY <2>7 DEF ReceiveSubscriptionAck, Answered, CallInv, Idle
    <3>2. NewSlot(call.request).since \in {0, issued}
      BY <3>1 DEF NewSlot, EmptySlot
    <3>3. \A i \in SlotIndex : slots'[i] \in {slots[i], NewSlot(call.request)}
      BY <2>7 DEF ReceiveSubscriptionAck
    <3>. QED
      BY <1>1, <2>0, <3>2, <3>3
  <2>8. CASE ReceiveLegacyAck
    <3>1. \A i \in SlotIndex : slots'[i] \in {slots[i], EmptySlot}
      BY <2>8 DEF ReceiveLegacyAck
    <3>. QED
      BY <1>1, <2>0, <3>1 DEF EmptySlot
  <2>. QED
    BY <1>7, <2>2, <2>3, <2>4, <2>5, <2>6, <2>7, <2>8 DEF Receive
<1>8. CASE Restart
  BY <1>3, <1>8 DEF Restart, ClearSession
<1>9. CASE Controller \/ UNCHANGED vars
  BY <1>2, <1>9 DEF Controller, vars, clientVars, session
<1>. QED
  BY <1>6, <1>7, <1>8, <1>9 DEF Next, Client

----------------------------------------------------------------------------
(* The steps of the registry *)

\* Nothing the registry knows has changed.
LEMMA Stutters ==
  ASSUME Table' = Table, Change' = Change, Result' = Result
  PROVE  UNCHANGED Registry!vars
BY DEF Registry!vars, Table

\* The table and what depends on the call have not changed.
LEMMA SameRegistry ==
  ASSUME Table' = Table, UNCHANGED <<call, error>>
  PROVE  UNCHANGED Registry!vars
<1>1. Change' = Change
  BY Zenon DEF Change, EndsStreams
<1>2. Result' = Result
  BY DEF Result, Idle
<1>. QED
  BY <1>1, <1>2, Stutters

\* A call is refused or fails.
LEMMA Failing ==
  ASSUME Table' \in {Table, Registry!Empty}, call' = Idle, Failed'
  PROVE  Registry!Next
<1>1. Change' = Registry!Idle /\ Result' = "failed"
  BY ChangeOfNext, IdleResult DEF ChangeIs
<1>. QED
  BY <1>1 DEF Registry!Next, Registry!Fail, Table

\* It succeeds and has made its change.
LEMMA Succeeding ==
  ASSUME CallInv, call # Idle, call' = Idle, UNCHANGED error, Change # Registry!Idle,
         Change.kind = "change" => Table' = [Table EXCEPT ![Change.key] = Registry!Entry(Change)],
         Change.kind = "end" => Table' = Registry!Empty,
         Change.kind \notin {"change", "end"} => Table' = Table
  PROVE  Registry!Next
<1>1. Change' = Registry!Idle
  BY ChangeOfNext DEF ChangeIs
<1>2. Result' = "ok"
  BY IdleResult DEF Failed, CallInv, NoError
<1>3. Change.kind = "change" => Change.kind # "end"
  OBVIOUS
<1>4. CASE Change.kind = "change"
  BY <1>1, <1>2, <1>3, <1>4, Zenon DEF Registry!Next, Registry!Succeed, Table
<1>5. CASE Change.kind = "end"
  BY <1>1, <1>2, <1>3, <1>5, Zenon DEF Registry!Next, Registry!Succeed, Table
<1>6. CASE Change.kind \notin {"change", "end"}
  <2>1. Change.kind # "change" /\ Change.kind # "end"
    BY <1>6
  <2>. QED
    BY <1>1, <1>2, <1>6, <2>1, Zenon DEF Registry!Next, Registry!Succeed, Table
<1>. QED
  BY <1>4, <1>5, <1>6

\* A sample comes in for the source k.
LEMMA Delivering ==
  ASSUME NEW k \in Served, Entry(k).delivery # "none", NEW stamp,
         Entry(k).delivery = "generic" => stamp = Entry(k).since,
         Entry(k).delivery # "generic" => stamp \in Serials,
         Entry(k)' = [Entry(k) EXCEPT !.sample = stamp],
         Table' = [Table EXCEPT ![k] = Entry(k)'], UNCHANGED <<call, error>>
  PROVE  Registry!Next
<1>1. Change' = Change
  BY Zenon DEF Change, EndsStreams
<1>2. Result' = Result
  BY DEF Result, Idle
<1>3. Table[k] = Entry(k) /\ Table' = [Table EXCEPT ![k].sample = stamp]
  BY DEF Table
<1>4. \E st \in IF Entry(k).delivery = "generic" THEN {Entry(k).since} ELSE Serials :
        Table' = [Table EXCEPT ![k].sample = st]
  BY <1>3
<1>. QED
  BY <1>1, <1>2, <1>3, <1>4 DEF Registry!Next, Registry!Deliver, Table

----------------------------------------------------------------------------
(* What the ACKs do to the table *)

\* The entry a change makes, by its delivery.
LEMMA RegistryEntry ==
  ASSUME NEW k \in Served
  PROVE  /\ Registry!Entry(To(k, "none")) = NoEntry
         /\ Registry!Entry(To(k, "generic")) =
              [delivery |-> "generic", since |-> call.serial, sample |-> NoSample]
         /\ Registry!Entry(To(k, "retired")) =
              [delivery |-> "retired", since |-> 0,
               sample |-> IF Entry(k).delivery = "retired" THEN Entry(k).sample ELSE NoSample]
<1>1. /\ To(k, "none").delivery = "none" /\ To(k, "generic").delivery = "generic"
      /\ To(k, "retired").delivery = "retired"
      /\ \A d : To(k, d).key = k /\ To(k, d).since = call.serial
  BY DEF To
<1>2. "none" # "generic" /\ "none" # "retired" /\ "generic" # "retired"
  OBVIOUS
<1>3. Registry!NoSample = NoSample /\ NoEntry = Registry!Off
  BY DEF Registry!NoSample, NoSample, Registry!Off, NoEntry
<1>4. [k1 \in Served |-> Entry(k1)][k] = Entry(k)
  OBVIOUS
<1>5. Registry!Entry(To(k, "none")) = NoEntry
  BY <1>1, <1>2, <1>3, Zenon DEF Registry!Entry
<1>6. Registry!Entry(To(k, "generic")) =
        [delivery |-> "generic", since |-> call.serial, sample |-> NoSample]
  BY <1>1, <1>2, <1>3, Zenon DEF Registry!Entry
<1>7. Registry!Entry(To(k, "retired")) =
        [Registry!Off EXCEPT !.delivery = "retired",
           !.sample = IF Entry(k).delivery = "retired" THEN Entry(k).sample ELSE NoSample]
  BY <1>1, <1>2, <1>3, <1>4, Zenon DEF Registry!Entry
<1>8. Registry!Entry(To(k, "retired")) =
        [delivery |-> "retired", since |-> 0,
         sample |-> IF Entry(k).delivery = "retired" THEN Entry(k).sample ELSE NoSample]
  BY <1>7 DEF Registry!Off
<1>. QED
  BY <1>5, <1>6, <1>8

\* A change that is made is a step of the registry.
LEMMA Changing ==
  ASSUME Tables, Tables', CallInv, call # Idle, call' = Idle, UNCHANGED error,
         NEW key \in Served, NEW delivery, Change = To(key, delivery),
         \A k \in Served \ {key} : KeepsEntry(k),
         Entry(key)' = Registry!Entry(Change)
  PROVE  Registry!Next
<1>1. Change.kind = "change" /\ Change.key = key /\ Change # Registry!Idle
  BY DEF To, Registry!Idle
<1>2. Table' = [Table EXCEPT ![key] = Entry(key)']
  BY ChangedTable
<1>. QED
  BY <1>1, <1>2, Succeeding

\* A call that is no change succeeds with the table as it was.
LEMMA Leaving ==
  ASSUME CallInv, call # Idle, call' = Idle, UNCHANGED error,
         Change \in {Registry!Other, Registry!Opening}, Table' = Table
  PROVE  Registry!Next
<1>1. Change.kind \notin {"change", "end"} /\ Change # Registry!Idle
  BY DEF Registry!Other, Registry!Opening, Registry!Idle
<1>. QED
  BY <1>1, Succeeding

\* The sources of requests are in the table.
LEMMA ServedKeys ==
  ASSUME NEW r \in AnyRequest
  PROVE  /\ r.command \in Subscribing \cup {"UNSUBSCRIBE"} => r \in Requests /\ Key(r) \in Served
         /\ \A s \in Sources : KeyOf(s) \in Served
<1>1. r.command \in Subscribing \cup {"UNSUBSCRIBE"} => r \in Requests
  BY NotInit DEF AnyRequest, Own, Subscribing
<1>. QED
  BY <1>1 DEF Served, Keys, LegacyKeys

\* A generic subscription set or removed.
LEMMA SubscriptionStep ==
  ASSUME Tables, Tables', CallInv, ReceiveSubscriptionAck, TakesAck,
         NEW key, key = Key(call.request)
  PROVE  Registry!Next
<1>. DEFINE r == call.request
<1>0. TypeOK /\ TableInv /\ TypeOK'
  BY DEF Tables
<1>1. r \in AnyRequest /\ r.command \in Subscribing \cup {"UNSUBSCRIBE"}
  BY <1>0, CallFields DEF ReceiveSubscriptionAck
<1>2. key \in Served /\ key # NoKey /\ r.topic \in Topics
  BY <1>0, <1>1, ServedKeys, KeysAreKeys DEF TableInv, CallConsistent, TakesAck
<1>3. ~call.begin
  BY <1>0, <1>1, NotInit DEF TableInv, CallConsistent, Subscribing
<1>4. call # Idle /\ call' = Idle /\ UNCHANGED <<error, legacySamples>>
  BY DEF TakesAck, Idle, ReceiveSubscriptionAck, Answered
<1>5. /\ OnlySlot(call.slot, key)
      /\ r.command \in Subscribing =>
           call.slot \in SlotIndex /\ slots[call.slot].key \in {NoKey, key}
      /\ r.command = "UNSUBSCRIBE" /\ call.slot # 0 => slots[call.slot].key = key
  BY <1>0, <1>1 DEF TableInv, CallConsistent, CallInv, TakesAck
<1>6. /\ \A i \in SlotIndex : slots'[i] = IF i = call.slot THEN NewSlot(r) ELSE slots[i]
      /\ \A s \in Sources : subscriptionMs'[s] = IF KeyOf(s) = key THEN 0 ELSE subscriptionMs[s]
      /\ \A s \in Sources : KeyOf(s) # key => (s \in sampleMask' <=> s \in sampleMask)
  BY DEF ReceiveSubscriptionAck, Superseded
<1>7. NewSlot(r).key \in {NoKey, key}
  BY DEF NewSlot, EmptySlot
<1>8. ASSUME NEW k \in Served \ {key}
      PROVE  KeepsEntry(k)
  <2>1. ASSUME NEW i \in SlotIndex, i = call.slot
        PROVE  ~Holds(i, k) /\ ~Holds(i, k)'
    <3>1. slots[i].key \in {NoKey, key}
      BY <1>1, <1>5, <2>1, SlotIsNotZero
    <3>. QED
      BY <1>6, <1>7, <2>1, <3>1 DEF Holds
  <2>2. \A i \in SlotIndex : i # call.slot => slots'[i] = slots[i]
    BY <1>6
  <2>3. ASSUME NEW s \in Sources, KeyOf(s) = k
        PROVE  subscriptionMs'[s] = subscriptionMs[s]
               /\ SubscribedOdometry(s)' = SubscribedOdometry(s)
    BY <1>4, <1>6, <2>3 DEF SubscribedOdometry
  <2>. QED
    BY <2>1, <2>2, <2>3 DEF KeepsEntry
<1>9. CASE r.command \in Subscribing
  <2>1. Change = To(key, "generic")
    BY <1>3, <1>4, <1>9, ChangeOf DEF ChangeIs
  <2>2. PICK slot \in SlotIndex : slot = call.slot
    BY <1>5, <1>9
  <2>3. slots'[slot] = [key |-> key, sample |-> NoSample, since |-> call.serial]
    BY <1>6, <1>9, <2>2 DEF NewSlot, Subscribing
  <2>4. Holds(slot, key)'
    BY <1>2, <2>3 DEF Holds
  <2>5. Entry(key)' = [delivery |-> "generic", since |-> call.serial, sample |-> NoSample]
    BY <2>3, <2>4, EntriesNext DEF EntryIs, GenericEntry
  <2>6. Entry(key)' = Registry!Entry(Change)
    BY <1>2, <2>1, <2>5, RegistryEntry
  <2>. QED
    BY <1>2, <1>4, <1>8, <2>1, <2>6, Changing
<1>10. CASE r.command = "UNSUBSCRIBE"
  <2>1. Change = To(key, "none")
    BY <1>3, <1>4, <1>10, ChangeOf DEF ChangeIs
  <2>2. \A i \in SlotIndex : ~Holds(i, key)'
    BY <1>5, <1>6, <1>10 DEF Holds, OnlySlot, NewSlot, EmptySlot
  <2>3. \A s \in Sources : ~Shows(s, key)'
    BY <1>6 DEF Shows
  <2>4. Entry(key)' = NoEntry
    BY <2>2, <2>3, EntriesNext DEF EntryIs, NoEntry
  <2>5. Entry(key)' = Registry!Entry(Change)
    BY <1>2, <2>1, <2>4, RegistryEntry
  <2>. QED
    BY <1>2, <1>4, <1>8, <2>1, <2>5, Changing
<1>. QED
  BY <1>1, <1>9, <1>10

\* A retired subscription set or removed.
LEMMA LegacyStep ==
  ASSUME Tables, Tables', QueueInv, Streams, ReceiveLegacyAck, TakesAck,
         NEW source, source = call.request.source
  PROVE  Registry!Next
<1>. DEFINE r == call.request
            key == KeyOf(source)
<1>0. TypeOK /\ TableInv /\ TypeOK' /\ CallInv
  BY DEF Tables, QueueInv
<1>1. /\ r \in AnyRequest /\ r.command \in {"SUBSCRIBE_ODOMETRY", "UNSUBSCRIBE_ODOMETRY"}
      /\ source \in Sources
      /\ r.command = "SUBSCRIBE_ODOMETRY" => r.interval # 0
  BY <1>0, CallFields, AckedRequest DEF ReceiveLegacyAck, LegacyServed
<1>2. key \in Served /\ key # NoKey
  BY <1>1, ServedKeys, KeysAreKeys
<1>3. ~call.begin
  BY <1>0, <1>1, NotInit DEF TableInv, CallConsistent
<1>4. call # Idle /\ call' = Idle /\ UNCHANGED <<error, legacySamples>>
  BY DEF TakesAck, Idle, ReceiveLegacyAck, Answered
<1>5. subscriptionMs \in [Sources -> Nat] /\ sampleMask \subseteq Sources
  BY <1>0 DEF TypeOK, SessionTypeOK
<1>6. /\ \A i \in SlotIndex : slots'[i] = IF i = FindSubscription(key) THEN EmptySlot ELSE slots[i]
      /\ \A s \in Sources : s # source => subscriptionMs'[s] = subscriptionMs[s]
      /\ subscriptionMs'[source] = IF r.command = "UNSUBSCRIBE_ODOMETRY" THEN 0 ELSE r.interval
      /\ sampleMask' = IF r.command = "UNSUBSCRIBE_ODOMETRY" THEN sampleMask \ {source} ELSE sampleMask
  BY <1>1, <1>5 DEF ReceiveLegacyAck
<1>7. \A i \in SlotIndex : i = FindSubscription(key) <=> Holds(i, key)
  <2>1. \A i \in SlotIndex : i = FindSubscription(key) => Holds(i, key)
    BY <1>2, FindSubscriptionResult, SlotIsNotZero DEF Holds
  <2>2. \A i \in SlotIndex : Holds(i, key) => i = FindSubscription(key)
    BY <1>0, <1>2, SearchFinds DEF Holds, Active
  <2>. QED
    BY <2>1, <2>2
<1>8. ASSUME NEW k \in Served \ {key}
      PROVE  KeepsEntry(k)
  <2>1. \A i \in SlotIndex : Holds(i, k) \/ Holds(i, k)' => slots'[i] = slots[i]
    BY <1>6, <1>7 DEF Holds, EmptySlot
  <2>2. ASSUME NEW s \in Sources, KeyOf(s) = k
        PROVE  subscriptionMs'[s] = subscriptionMs[s]
               /\ SubscribedOdometry(s)' = SubscribedOdometry(s)
    <3>1. s # source
      BY <2>2
    <3>2. s \in sampleMask' <=> s \in sampleMask
      BY <1>6, <3>1
    <3>. QED
      BY <1>4, <1>6, <3>1, <3>2 DEF SubscribedOdometry
  <2>. QED
    BY <2>1, <2>2 DEF KeepsEntry
<1>9. \A i \in SlotIndex : ~Holds(i, key)'
  BY <1>6, <1>7 DEF Holds, EmptySlot
<1>10. CASE r.command = "SUBSCRIBE_ODOMETRY"
  <2>1. Change = To(key, "retired")
    BY <1>1, <1>3, <1>4, <1>10, ChangeOf DEF ChangeIs
  <2>2. PICK s \in Sources : s = source
    BY <1>1
  <2>3. Shows(s, key)'
    BY <1>1, <1>6, <1>10, <2>2 DEF Shows
  <2>4. Entry(key)' = [delivery |-> "retired", since |-> 0, sample |-> SubscribedOdometry(s)']
    BY <2>3, EntriesNext DEF EntryIs, RetiredEntry
  <2>5. SubscribedOdometry(s)' =
          IF Entry(key).delivery = "retired" THEN Entry(key).sample ELSE NoSample
    <3>1. SubscribedOdometry(s)' = SubscribedOdometry(s)
      BY <1>4, <1>6, <1>10 DEF SubscribedOdometry
    <3>2. CASE Shows(s, key)
      <4>1. Entry(key) = RetiredEntry(s)
        BY <3>2, Entries DEF EntryIs
      <4>. QED
        BY <3>1, <4>1 DEF RetiredEntry
    <3>3. CASE ~Shows(s, key)
      <4>1. SubscribedOdometry(s) = NoSample
        BY <2>2, <3>3 DEF Shows, Tables, Samples, LegacySamplesSubscribed, SubscribedOdometry
      <4>2. \A t \in Sources : ~Shows(t, key)
        BY <1>1, <2>2, <3>3, KeyOfInjective DEF Shows
      <4>3. Entry(key).delivery # "retired"
        BY <4>2, Entries DEF EntryIs, GenericEntry, NoEntry
      <4>. QED
        BY <3>1, <4>1, <4>3
    <3>. QED
      BY <3>2, <3>3
  <2>6. Entry(key)' = Registry!Entry(Change)
    BY <1>2, <2>1, <2>4, <2>5, RegistryEntry
  <2>. QED
    BY <1>0, <1>2, <1>4, <1>8, <2>1, <2>6, Changing
<1>11. CASE r.command = "UNSUBSCRIBE_ODOMETRY"
  <2>1. Change = To(key, "none")
    BY <1>1, <1>3, <1>4, <1>11, ChangeOf DEF ChangeIs
  <2>2. \A s \in Sources : ~Shows(s, key)'
    BY <1>1, <1>6, <1>11, KeyOfInjective DEF Shows
  <2>3. Entry(key)' = NoEntry
    BY <1>9, <2>2, EntriesNext DEF EntryIs, NoEntry
  <2>4. Entry(key)' = Registry!Entry(Change)
    BY <1>2, <2>1, <2>3, RegistryEntry
  <2>. QED
    BY <1>0, <1>2, <1>4, <1>8, <2>1, <2>4, Changing
<1>. QED
  BY <1>1, <1>10, <1>11

\* A session that begins, or has none yet, has an empty table.
LEMMA EmptyNow ==
  ASSUME Tables, \A i \in SlotIndex : slots[i] = EmptySlot, \A s \in Sources : subscriptionMs[s] = 0
  PROVE  Table = Registry!Empty
<1>1. ASSUME NEW k \in Served
      PROVE  Entry(k) = NoEntry
  BY Entries DEF EntryIs, Holds, Shows, EmptySlot
<1>. QED
  BY <1>1 DEF Table, NoEntry, NoSample, Registry!Empty, Registry!Off, Registry!NoSample

\* Monitoring set: the end of it empties the table.
LEMMA HeartbeatStep ==
  ASSUME Tables, Tables', CallInv, ReceiveHeartbeatAck, TakesAck
  PROVE  Registry!Next
<1>. DEFINE r == call.request
<1>0. TypeOK /\ TableInv
  BY DEF Tables
<1>1. r \in AnyRequest /\ r.command = "SET_HEARTBEAT_CONFIG"
  BY <1>0, CallFields DEF ReceiveHeartbeatAck
<1>2. r.timeout \in Nat /\ r.enabled \in BOOLEAN
  BY <1>1, RequestFields, HeartbeatFields
<1>3. call # Idle /\ call' = Idle /\ UNCHANGED <<error, legacySamples>>
  BY DEF TakesAck, Idle, ReceiveHeartbeatAck, Answered
<1>4. EndsStreams(r) => Table' = Registry!Empty
  <2>1. EndsStreams(r) => ClearTables
    BY <1>1, <1>2 DEF EndsStreams, ReceiveHeartbeatAck
  <2>. QED
    BY <2>1, ClearedTable
<1>5. ~EndsStreams(r) => Table' = Table
  <2>1. ~EndsStreams(r) => UNCHANGED <<slots, subscriptionMs, sampleMask>>
    BY <1>1, <1>2 DEF EndsStreams, ReceiveHeartbeatAck
  <2>. QED
    BY <1>3, <2>1, SameTable
<1>6. CASE call.begin
  <2>1. Change = Registry!Opening
    BY <1>3, <1>6, ChangeOf DEF ChangeIs
  <2>2. Table = Registry!Empty
    BY <1>0, <1>6, EmptyNow DEF TableInv, CallConsistent
  <2>3. Table' = Table
    BY <1>4, <1>5, <2>2
  <2>. QED
    BY <1>3, <2>1, <2>3, Leaving
<1>7. CASE ~call.begin /\ EndsStreams(r)
  <2>1. Change = Registry!Closing
    BY <1>3, <1>7, ChangeOf DEF ChangeIs
  <2>2. Change.kind = "end" /\ Change # Registry!Idle
    BY <2>1 DEF Registry!Closing, Registry!Idle
  <2>. QED
    BY <1>3, <1>4, <1>7, <2>2, Succeeding
<1>8. CASE ~call.begin /\ ~EndsStreams(r)
  <2>1. Change = Registry!Other
    BY <1>1, <1>3, <1>8, ChangeOf DEF ChangeIs, Subscribing
  <2>. QED
    BY <1>3, <1>5, <1>8, <2>1, Leaving
<1>. QED
  BY <1>6, <1>7, <1>8

\* Any other command leaves it alone.
LEMMA OtherStep ==
  ASSUME Tables, Tables', CallInv, ReceiveOtherAck, TakesAck
  PROVE  Registry!Next
<1>1. call # Idle /\ call' = Idle /\ UNCHANGED <<error, legacySamples>>
  BY DEF TakesAck, Idle, ReceiveOtherAck, Answered
<1>2. Table' = Table
  BY <1>1, SameTable DEF ReceiveOtherAck
<1>3. call.begin \in BOOLEAN
  BY CallFields DEF Tables
<1>4. Change \in {Registry!Other, Registry!Opening}
  BY <1>1, <1>3, ChangeOf DEF ChangeIs, ReceiveOtherAck, EndsStreams
<1>. QED
  BY <1>1, <1>2, <1>4, Leaving

----------------------------------------------------------------------------
(* What the events do to the table *)

\* A generic event is the sample of its subscription, or nothing.
LEMMA EventStep ==
  ASSUME Tables, Tables', QueueInv, Streams, ReceiveEvent
  PROVE  [Registry!Next]_(Registry!vars)
<1>. DEFINE slot == FindSubscription(Frame.key)
<1>0. TypeOK /\ TableInv
  BY DEF Tables
<1>1. UNCHANGED <<sampleMask, subscriptionMs, legacySamples, call, error>>
  BY DEF ReceiveEvent, KeepWaiting
<1>2. CASE ready /\ slot # 0
  <2>1. PICK i \in SlotIndex : i = slot /\ Active(slots[i]) /\ slots[i].key = Frame.key
    BY <1>2, FindSubscriptionResult
  <2>2. <<Frame.key, Frame.stamp>> \in Generic
    BY <1>0, <1>2, EventIsExpected DEF ReceiveEvent, Read, WireReceive, Taken
  <2>3. PICK j \in SlotIndex :
          Active(slots[j]) /\ <<slots[j].key, slots[j].since>> = <<Frame.key, Frame.stamp>>
    BY <2>2 DEF Generic
  <2>4. j = i
    BY <1>0, <2>1, <2>3 DEF TableInv, SlotsDistinct
  <2>. DEFINE k == slots[i].key
              stamp == slots[i].since
  <2>5. Frame.stamp = stamp
    BY <2>3, <2>4
  <2>6. slots \in [SlotIndex -> [key : Keys \cup {NoKey}, sample : Stamps, since : Stamps]]
    BY <1>0 DEF TypeOK, SessionTypeOK
  <2>7. /\ slots'[i] = [slots[i] EXCEPT !.sample = stamp]
        /\ \A m \in SlotIndex : m # i => slots'[m] = slots[m]
    BY <1>2, <2>1, <2>5, <2>6 DEF ReceiveEvent
  <2>8. k \in Served /\ Holds(i, k)
    BY <2>1, <2>6 DEF Active, Holds, Served
  <2>9. slots'[i].key = slots[i].key /\ slots'[i].since = slots[i].since /\ slots'[i].sample = stamp
    BY <2>6, <2>7
  <2>10. PICK key \in Served : key = k
    BY <2>8
  <2>11. Entry(key) = GenericEntry(i)
    BY <2>8, <2>10, Entries DEF EntryIs
  <2>12. Holds(i, key)'
    BY <2>8, <2>9, <2>10 DEF Holds
  <2>13. Entry(key)' = [delivery |-> "generic", since |-> stamp, sample |-> stamp]
    BY <2>9, <2>12, EntriesNext DEF EntryIs, GenericEntry
  <2>14. Entry(key)' = [Entry(key) EXCEPT !.sample = stamp]
    BY <2>11, <2>13 DEF GenericEntry
  <2>15. ASSUME NEW q \in Served \ {key}
         PROVE  KeepsEntry(q)
    <3>1. ~Holds(i, q) /\ ~Holds(i, q)'
      BY <2>9, <2>10 DEF Holds
    <3>2. \A s \in Sources : SubscribedOdometry(s)' = SubscribedOdometry(s)
      BY <1>1 DEF SubscribedOdometry
    <3>. QED
      BY <1>1, <2>7, <3>1, <3>2 DEF KeepsEntry
  <2>16. Table' = [Table EXCEPT ![key] = Entry(key)']
    BY <2>15, ChangedTable
  <2>17. Entry(key).delivery = "generic" /\ Entry(key).since = stamp
    BY <2>11 DEF GenericEntry
  <2>. QED
    BY <1>1, <2>14, <2>16, <2>17, Delivering
<1>3. CASE ~(ready /\ slot # 0)
  <2>1. UNCHANGED slots
    BY <1>3 DEF ReceiveEvent
  <2>. QED
    BY <1>1, <2>1, SameTable, SameRegistry
<1>. QED
  BY <1>2, <1>3

\* A retired event is the sample of its source, or not shown.
LEMMA LegacyEventStep ==
  ASSUME Tables, Tables', QueueInv, Streams, ReceiveLegacyEvent
  PROVE  [Registry!Next]_(Registry!vars)
<1>0. TypeOK /\ TableInv
  BY DEF Tables
<1>1. UNCHANGED <<slots, subscriptionMs, call, error>> /\ Taken
  BY DEF ReceiveLegacyEvent, KeepWaiting, Read, WireReceive, Taken
<1>2. legacySamples' = [legacySamples EXCEPT ![Frame.source] = Frame.stamp]
  BY DEF ReceiveLegacyEvent
<1>3. legacySamples \in [Sources -> Stamps]
  BY <1>0 DEF TypeOK, CallTypeOK
<1>4. CASE ready
  <2>1. Frame.source \in Retired
    BY <1>0, <1>1, <1>4, EventIsExpected DEF ReceiveLegacyEvent
  <2>2. PICK s \in Sources : s = Frame.source /\ subscriptionMs[s] # 0
    BY <2>1 DEF Retired
  <2>3. sampleMask' = sampleMask \cup {s}
    BY <1>4, <2>2 DEF ReceiveLegacyEvent
  <2>4. PICK stamp \in Serials : stamp = Frame.stamp
    <3>1. Frame \in ReplyFrames /\ Frame.kind = "LEGACY_EVENT"
      BY <1>0, <1>1, AfterRead, QueueTypes DEF ReceiveLegacyEvent, Taken
    <3>. QED
      BY <3>1 DEF ReplyFrames
  <2>5. PICK key \in Served : key = KeyOf(s)
    BY DEF Served, LegacyKeys
  <2>6. Shows(s, key) /\ Shows(s, key)'
    BY <1>1, <2>2, <2>5 DEF Shows
  <2>7. SubscribedOdometry(s)' = stamp
    BY <1>2, <1>3, <2>2, <2>3, <2>4 DEF SubscribedOdometry
  <2>8. Entry(key) = RetiredEntry(s)
    BY <2>6, Entries DEF EntryIs
  <2>9. Entry(key)' = [delivery |-> "retired", since |-> 0, sample |-> stamp]
    BY <2>6, <2>7, EntriesNext DEF EntryIs, RetiredEntry
  <2>10. Entry(key)' = [Entry(key) EXCEPT !.sample = stamp]
    BY <2>8, <2>9 DEF RetiredEntry
  <2>11. ASSUME NEW q \in Served \ {key}
         PROVE  KeepsEntry(q)
    <3>1. ASSUME NEW t \in Sources, KeyOf(t) = q
          PROVE  SubscribedOdometry(t)' = SubscribedOdometry(t)
      <4>1. t # s
        BY <2>5, <3>1
      <4>2. (t \in sampleMask' <=> t \in sampleMask) /\ legacySamples'[t] = legacySamples[t]
        BY <1>2, <1>3, <2>2, <2>3, <4>1
      <4>. QED
        BY <4>2 DEF SubscribedOdometry
    <3>. QED
      BY <1>1, <3>1 DEF KeepsEntry
  <2>12. Table' = [Table EXCEPT ![key] = Entry(key)']
    BY <2>11, ChangedTable
  <2>13. Entry(key).delivery = "retired"
    BY <2>8 DEF RetiredEntry
  <2>. QED
    BY <1>1, <2>10, <2>12, <2>13, Delivering
<1>5. CASE ~ready
  <2>1. \A s \in Sources : subscriptionMs[s] = 0
    BY <1>0, <1>5 DEF TableInv, NothingOutlivesSession
  <2>2. Table' = Table
    BY <1>1, <2>1, KeptTable DEF KeepsEntry
  <2>. QED
    BY <1>1, <2>2, SameRegistry
<1>. QED
  BY <1>4, <1>5

----------------------------------------------------------------------------
(* What going out and failing do to the table *)

\* A change that goes out is younger than what is in the table.
LEMMA Younger ==
  ASSUME Tables, SlotsAreOlder
  PROVE  \A k \in Served : Table[k].since < issued + 1
<1>1. issued \in Nat /\ \A i \in SlotIndex : slots[i].since \in Nat
  BY ProtocolAssumption DEF Tables, TypeOK, CallTypeOK, SessionTypeOK, Stamps, Serials, NoSample
<1>2. ASSUME NEW k \in Served
      PROVE  Entry(k).since < issued + 1
  <2>1. CASE \E i \in SlotIndex : Holds(i, k)
    BY <1>1, <2>1, Entries DEF EntryIs, GenericEntry, SlotsAreOlder
  <2>2. CASE \E s \in Sources : Shows(s, k)
    BY <1>1, <2>2, Entries DEF EntryIs, RetiredEntry
  <2>3. CASE (\A i \in SlotIndex : ~Holds(i, k)) /\ (\A s \in Sources : ~Shows(s, k))
    BY <1>1, <2>3, Entries DEF EntryIs, NoEntry
  <2>. QED
    BY <2>1, <2>2, <2>3
<1>. QED
  BY <1>2 DEF Table

\* The registry counts its generic subscriptions as anybody does.
LEMMA RegistryCounts == \A S : Registry!Cardinality(S) = Cardinality(S)
BY DEF Registry!Cardinality, Cardinality, Registry!IsFiniteSet, IsFiniteSet

\* A request that goes out starts what it asks for, and finds room for it.
LEMMA StartStep ==
  ASSUME Tables, Tables', SlotsAreOlder, call = Idle, UNCHANGED <<session, legacySamples>>,
         call'.phase = "reply", ~call'.begin, call'.serial = issued + 1, issued < MaxCalls
  PROVE  Registry!Next
<1>0. TypeOK /\ TypeOK' /\ TableInv'
  BY DEF Tables
<1>1. PICK r \in AnyRequest : r = call'.request
  BY <1>0 DEF TypeOK, CallTypeOK, Call
<1>2. PICK n \in Serials : n = issued + 1
  BY <1>0, ProtocolAssumption DEF TypeOK, CallTypeOK, Serials
<1>3. call' # Idle
  BY DEF Idle
<1>4. Change = Registry!Idle /\ Result' = "none"
  BY <1>3, ChangeOf, IdleResult DEF ChangeIs
<1>5. Table' = Table
  BY SameTable DEF session
<1>6. ASSUME Change' \in {Registry!Other, Registry!Closing}
      PROVE  Registry!Next
  <2>1. Change' # Registry!Opening /\ Change' \notin Registry!Changes
    BY <1>6 DEF Registry!Other, Registry!Closing, Registry!Opening, Registry!Changes
  <2>. QED
    BY <1>4, <1>5, <1>6, <2>1 DEF Registry!Next, Registry!Start, Table
<1>7. ASSUME NEW k \in Served, NEW d \in {"none", "generic", "retired"},
             Change' = [kind |-> "change", key |-> k, delivery |-> d, since |-> n],
             d = "generic" =>
               Cardinality({q \in Served : Entry(q).delivery = "generic"} \cup {k}) <= MaxSubscriptions
      PROVE  Registry!Next
  <2>1. Change' # Registry!Opening /\ Change' \in Registry!Changes
    BY <1>7 DEF Registry!Opening, Registry!Changes
  <2>2. Change'.since = n /\ Change'.key = k /\ Change'.delivery = d
    BY <1>7
  <2>3. Registry!Generic = {q \in Served : Entry(q).delivery = "generic"}
    BY DEF Registry!Generic
  <2>4. \A q \in Served : Table[q].since < Change'.since
    BY <1>2, <2>2, Younger
  <2>5. Change'.delivery = "generic" =>
          Registry!Cardinality(Registry!Generic \cup {Change'.key}) <= MaxSubscriptions
    <3>1. Change'.delivery = "generic" =>
            Cardinality(Registry!Generic \cup {Change'.key}) <= MaxSubscriptions
      BY <1>7, <2>2, <2>3, Zenon
    <3>. QED
      BY <3>1, RegistryCounts, Zenon
  <2>6. Registry!Start
    <3>1. Table' = IF Change' = Registry!Opening THEN Registry!Empty ELSE Table
      BY <1>5, <2>1
    <3>2. Change' \in {Registry!Other, Registry!Opening, Registry!Closing} \cup Registry!Changes
      BY <2>1
    <3>3. \A q \in Served : [k1 \in Served |-> Entry(k1)][q].since < Change'.since
      BY <2>4 DEF Table
    <3>. QED
      BY <1>4, <2>5, <3>1, <3>2, <3>3, Zenon DEF Registry!Start, Table
  <2>. QED
    BY <2>6 DEF Registry!Next
<1>8. /\ r.command \in Subscribing =>
           Change' = [kind |-> "change", key |-> Key(r), delivery |-> "generic", since |-> n]
      /\ r.command = "UNSUBSCRIBE" =>
           Change' = [kind |-> "change", key |-> Key(r), delivery |-> "none", since |-> n]
      /\ r.command = "SUBSCRIBE_ODOMETRY" /\ r.source \in Sources =>
           Change' = [kind |-> "change", key |-> KeyOf(r.source), delivery |-> "retired", since |-> n]
      /\ r.command = "UNSUBSCRIBE_ODOMETRY" /\ r.source \in Sources =>
           Change' = [kind |-> "change", key |-> KeyOf(r.source), delivery |-> "none", since |-> n]
      /\ EndsStreams(r) => Change' = Registry!Closing
      /\ ~EndsStreams(r) /\ r.command \notin Subscribing \cup {"UNSUBSCRIBE"}
            /\ (r.command \in {"SUBSCRIBE_ODOMETRY", "UNSUBSCRIBE_ODOMETRY"} => r.source \notin Sources)
          => Change' = Registry!Other
  BY <1>1, <1>2, <1>3, ChangeOfNext DEF ChangeIs, To
<1>9. CASE r.command \in Subscribing
  <2>1. PICK slot \in SlotIndex : slots[slot].key \in {NoKey, Key(r)}
    BY <1>0, <1>1, <1>9 DEF TableInv, CallConsistent, session
  <2>2. Key(r) \in Served
    BY <1>9, ServedKeys
  <2>. QED
    BY <1>7, <1>8, <1>9, <2>1, <2>2, Room
<1>10. CASE r.command = "UNSUBSCRIBE"
  BY <1>7, <1>8, <1>10, ServedKeys
<1>11. CASE r.command = "SUBSCRIBE_ODOMETRY" /\ r.source \in Sources
  BY <1>7, <1>8, <1>11, ServedKeys
<1>12. CASE r.command = "UNSUBSCRIBE_ODOMETRY" /\ r.source \in Sources
  BY <1>7, <1>8, <1>12, ServedKeys
<1>13. CASE EndsStreams(r)
  BY <1>6, <1>8, <1>13
<1>. QED
  BY <1>6, <1>8, <1>9, <1>10, <1>11, <1>12, <1>13

\* A call that fails to go out, or whose wait fails.
LEMMA SettleStep ==
  ASSUME Tables, Tables', NEW c, Settle(c), UNCHANGED legacySamples, call' = Idle, Failed'
  PROVE  Registry!Next
BY SettledTable, Failing

\* request() up to its wait, with no call in progress.
LEMMA IssueStep ==
  ASSUME Tables, Tables', SlotsAreOlder, call = Idle, NEW r, NEW slot,
         Issue(NewCall("reply", r, slot, FALSE, 0))
  PROVE  Registry!Next
<1>. DEFINE c == NewCall("reply", r, slot, FALSE, 0)
<1>1. c.phase = "reply" /\ ~c.begin /\ c.serial = issued + 1
  BY DEF NewCall
<1>. HIDE DEF c
<1>2. issued < MaxCalls /\ UNCHANGED legacySamples
  BY DEF Issue, Allocate
<1>3. CASE Sent(c) /\ UNCHANGED session
  <2>1. call' = c
    BY <1>3 DEF Sent
  <2>. QED
    BY <1>1, <1>2, <1>3, <2>1, StartStep
<1>4. CASE NotSent(c) /\ Settle(c)
  <2>1. call' = Idle /\ Failed'
    BY <1>4, FailedSend
  <2>. QED
    BY <1>2, <1>4, <2>1, SettleStep
<1>. QED
  BY <1>3, <1>4 DEF Issue, c

\* begin() empties the table, whether INIT goes out or not.
LEMMA BeginStep ==
  ASSUME Tables', NEW t, Begin(t)
  PROVE  Registry!Next
<1>. DEFINE c == NewCall("init", Begin0, 0, TRUE, t)
<1>1. c.begin /\ c.phase = "init"
  BY DEF NewCall
<1>. HIDE DEF c
<1>2. Table' = Registry!Empty
  BY ClearedTable DEF Begin, ClearSession
<1>3. CASE Sent(c)
  <2>1. call' = c /\ call' # Idle /\ call'.begin
    BY <1>1, <1>3 DEF Sent, Idle
  <2>2. Change' = Registry!Opening /\ Result' = "none"
    BY <2>1, ChangeOfNext, IdleResult DEF ChangeIs
  <2>3. Change = Registry!Idle
    BY ChangeOf DEF ChangeIs, Begin
  <2>4. Registry!Opening \notin Registry!Changes
    BY DEF Registry!Opening, Registry!Changes
  <2>. QED
    BY <1>2, <2>2, <2>3, <2>4 DEF Registry!Next, Registry!Start, Table
<1>4. CASE NotSent(c)
  <2>1. call' = Idle /\ Failed'
    BY <1>4 DEF NotSent, Report, Failed
  <2>. QED
    BY <1>2, <2>1, Failing
<1>. QED
  BY <1>3, <1>4 DEF Begin, c

\* The nested request of begin() is no new call to the sketch.
LEMMA ConfigureStep ==
  ASSUME Tables, Tables', CallInv, Configure
  PROVE  [Registry!Next]_(Registry!vars)
<1>. DEFINE c == NewCall("reply", Monitor(call.timeout), 0, TRUE, call.timeout)
<1>1. c.begin /\ c.phase = "reply"
  BY DEF NewCall
<1>. HIDE DEF c
<1>2. call # Idle /\ call.begin /\ UNCHANGED legacySamples
  BY DEF Configure, Idle, Tables, TableInv, CallConsistent, Issue
<1>3. CASE Sent(c) /\ UNCHANGED session
  <2>1. call' = c /\ call' # Idle /\ call'.begin
    BY <1>1, <1>3 DEF Sent, Idle
  <2>2. Change' = Change
    BY <1>2, <2>1, ChangeOf, ChangeOfNext DEF ChangeIs
  <2>3. Result' = Result
    BY <1>2, <2>1, IdleResult
  <2>4. Table' = Table
    BY <1>2, <1>3, SameTable DEF session
  <2>. QED
    BY <2>2, <2>3, <2>4, Stutters
<1>4. CASE NotSent(c) /\ Settle(c)
  <2>1. call' = Idle /\ Failed'
    BY <1>4, FailedSend
  <2>. QED
    BY <1>2, <1>4, <2>1, SettleStep
<1>. QED
  BY <1>3, <1>4 DEF Configure, Issue, c

----------------------------------------------------------------------------
(* Every step is a step of the registry, or none *)

\* The steps of the sketch.
LEMMA SketchStep ==
  ASSUME Tables, Tables', CallInv, SlotsAreOlder, SketchCalls
  PROVE  Registry!Next
<1>1. ASSUME UNCHANGED <<session, legacySamples>>, call' = Idle, Failed'
      PROVE  Registry!Next
  BY <1>1, SameTable, Failing DEF session
<1>2. ASSUME NEW t \in Timeouts, Begin(t)
      PROVE  Registry!Next
  BY <1>2, BeginStep
<1>3. ASSUME NEW r \in Requests, Request(r)
      PROVE  Registry!Next
  BY <1>3, IssueStep DEF Request
<1>4. ASSUME NEW r \in Requests, Refuse(r)
      PROVE  Registry!Next
  BY <1>1, <1>4 DEF Refuse, Failed
<1>5. CASE RefuseTuning \/ PollNotReady
  BY <1>1, <1>5 DEF RefuseTuning, PollNotReady, Failed
<1>6. CASE Poll
  BY <1>6, IssueStep DEF Poll
<1>. QED
  BY <1>2, <1>3, <1>4, <1>5, <1>6 DEF SketchCalls

\* READY completes the session or lets begin() configure it.
LEMMA ReadyStep ==
  ASSUME Tables, Tables', CallInv, ReceiveReady
  PROVE  [Registry!Next]_(Registry!vars)
<1>0. call # Idle /\ call.begin /\ call \in Call
  BY CallFields DEF ReceiveReady, Answered, Idle, Tables, TableInv, CallConsistent, TypeOK, CallTypeOK
<1>1. UNCHANGED <<slots, subscriptionMs, sampleMask, legacySamples, error>>
  BY DEF ReceiveReady, Answered
<1>2. Table' = Table /\ Change = Registry!Opening
  BY <1>0, <1>1, SameTable, ChangeOf DEF ChangeIs
<1>3. CASE call' = Idle
  BY <1>0, <1>1, <1>2, <1>3, Leaving
<1>4. CASE call' = [call EXCEPT !.phase = "configure"]
  <2>1. call' # Idle /\ call'.begin
    BY <1>0, <1>4 DEF Call, Idle
  <2>2. Change' = Change /\ Result' = Result
    BY <1>0, <1>2, <2>1, ChangeOfNext, IdleResult DEF ChangeIs
  <2>. QED
    BY <1>2, <2>2, Stutters
<1>. QED
  BY <1>3, <1>4 DEF ReceiveReady

\* The INIT reply changes nothing yet, or ends begin().
LEMMA InitStep ==
  ASSUME Tables, Tables', CallInv, ReceiveInit
  PROVE  [Registry!Next]_(Registry!vars)
<1>0. call # Idle /\ call.begin /\ call \in Call
  BY CallFields DEF ReceiveInit, Answered, Idle, Tables, TableInv, CallConsistent, TypeOK, CallTypeOK
<1>1. UNCHANGED legacySamples
  BY DEF ReceiveInit, Answered
<1>2. CASE Fail(call, "INCOMPATIBLE_PROTOCOL", "NONE")
  BY <1>1, <1>2, SettleStep, FatalFailures DEF Fail
<1>3. CASE /\ UNCHANGED <<subscriptionMs, sampleMask, slots, error>>
           /\ call' = [call EXCEPT !.phase = "ready"]
  <2>1. Table' = Table /\ call' # Idle /\ call'.begin
    BY <1>0, <1>1, <1>3, SameTable DEF Call, Idle
  <2>2. Change' = Change /\ Result' = Result
    BY <1>0, <2>1, ChangeOf, ChangeOfNext, IdleResult DEF ChangeIs
  <2>. QED
    BY <2>1, <2>2, Stutters
<1>. QED
  BY <1>2, <1>3 DEF ReceiveInit

\* The reads.
LEMMA ReadStep ==
  ASSUME Tables, Tables', QueueInv, Streams, Receive
  PROVE  [Registry!Next]_(Registry!vars)
<1>0. CallInv /\ TypeOK /\ TableInv
  BY DEF QueueInv, Tables
<1>1. ASSUME NEW failure, NEW code, Fail(call, failure, code), failure # "NONE",
             UNCHANGED legacySamples
      PROVE  Registry!Next
  <2>1. call' = Idle /\ Failed'
    BY <1>1 DEF Fail, Report, Failed
  <2>. QED
    BY <1>1, <2>1, SettleStep DEF Fail
<1>2. CASE ReceiveStale
  BY <1>2, SameTable, SameRegistry DEF ReceiveStale, KeepWaiting, session
<1>3. CASE ReceiveError \/ ReceiveMismatch \/ ReceiveGarbage \/ ReceiveFails \/ Timeout
  BY <1>1, <1>3 DEF ReceiveError, ReceiveMismatch, ReceiveGarbage, ReceiveFails, Timeout
<1>4. ASSUME Acking
      PROVE  TakesAck
  BY <1>4 DEF Acking, ReceiveHeartbeatAck, ReceiveSubscriptionAck, ReceiveLegacyAck,
       ReceiveOtherAck, TakesAck, Answered, Read, WireReceive, Taken, ExpectedCommand, Succeed
<1>5. CASE ReceiveSubscriptionAck
  BY <1>0, <1>4, <1>5, SubscriptionStep DEF Acking
<1>6. CASE ReceiveLegacyAck
  BY <1>4, <1>6, LegacyStep DEF Acking
<1>7. CASE ReceiveHeartbeatAck
  BY <1>0, <1>4, <1>7, HeartbeatStep DEF Acking
<1>8. CASE ReceiveOtherAck
  BY <1>0, <1>4, <1>8, OtherStep DEF Acking
<1>. QED
  BY <1>0, <1>2, <1>3, <1>5, <1>6, <1>7, <1>8, EventStep, LegacyEventStep, InitStep, ReadyStep
     DEF Receive

\* The Arduino starts over.
LEMMA RestartStep ==
  ASSUME Tables', Restart
  PROVE  Registry!Next
<1>1. Table' = Registry!Empty
  BY ClearedTable DEF Restart, ClearSession
<1>2. call' = Idle /\ error' = NoError
  BY DEF Restart
<1>3. Change' = Registry!Idle /\ Result' = "ok"
  BY <1>2, ChangeOfNext, IdleResult DEF ChangeIs, Failed, NoError
<1>. QED
  BY <1>1, <1>3 DEF Registry!Next, Registry!Restart, Table

\* Every step.
LEMMA StepRegistry ==
  ASSUME TypeOK, TypeOK', TableInv, TableInv', Samples, Samples', QueueInv, StreamInv,
         SlotsAreOlder, [Next]_vars
  PROVE  [Registry!Next]_(Registry!vars)
<1>0. Tables /\ Tables' /\ Streams
  BY DEF Tables, StreamInv
<1>1. CASE UNCHANGED clientVars
  BY <1>0, <1>1, SameTable, SameRegistry DEF clientVars, session
<1>. QED
  BY <1>0, <1>1, SketchStep, ConfigureStep, ReadStep, RestartStep
     DEF Next, Client, Controller, vars, QueueInv

\* Initial states are initial states.
LEMMA InitRegistry ==
  ASSUME Init
  PROVE  Registry!Init
<1>1. Tables
  BY InitType, InitTable DEF Tables, Samples, SamplesOfThisSubscription, LegacySamplesSubscribed,
     Init, ClientInit, EmptySlot
<1>2. Table = Registry!Empty
  BY <1>1, EmptyNow DEF Init, ClientInit
<1>3. Change = Registry!Idle /\ Result = "ok"
  BY ChangeOf, IdleResult DEF ChangeIs, Init, ClientInit, Failed, NoError
<1>. QED
  BY <1>2, <1>3 DEF Registry!Init, Table

\* The slots that are chosen before a request is sent and filled after its ACK, the
\* retired tables and the sample marks are one table from sources to subscriptions.
\* Each step of the library, the wire and the controller changes it as the registry
\* does: one entry at the success of the call that names it, a sample of the
\* subscription in the table at any time, and otherwise nothing or everything.
THEOREM ImplementsRegistry == Spec /\ [][FreshIds]_vars => RegistryKept
<1>1. Init => Registry!Init /\ SlotsAreOlder
  <2>1. Init => SlotsAreOlder
    BY DEF Init, ClientInit, SlotsAreOlder, EmptySlot
  <2>. QED
    BY <2>1, InitRegistry
<1>2. TypeOK /\ TypeOK' /\ TableInv /\ QueueInv /\ SlotsAreOlder /\ [Next]_vars => SlotsAreOlder'
  BY StepOlder DEF QueueInv
<1>3. TypeOK /\ TypeOK' /\ TableInv /\ TableInv' /\ Samples /\ Samples'
        /\ QueueInv /\ StreamInv /\ SlotsAreOlder /\ [Next]_vars
          => [Registry!Next]_(Registry!vars)
  BY StepRegistry
<1>. QED
  BY <1>1, <1>2, <1>3, TypeCorrect, TablesInvariant, QueueInvariant, StreamInvariant,
     SamplesInvariant, PTL DEF Spec, RegistryKept, Registry!Spec

\* Without a restart it needs no hypothesis on the IDs.
COROLLARY NoRestartRegistry == ASSUME ~CanRestart PROVE Spec => RegistryKept
BY NoRestartNoReuse, ImplementsRegistry, PTL
=============================================================================
