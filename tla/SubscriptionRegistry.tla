------------------------- MODULE SubscriptionRegistry -------------------------
(***************************************************************************)
(* What the library promises about subscriptions, without slots, masks and *)
(* ACKs: one table from sources to the subscription that serves each, and  *)
(* its latest sample.  A call changes the entry it names when it succeeds  *)
(* and no other; a call that fails changes nothing or, when it costs the   *)
(* session, empties the table; a sample belongs to the subscription that   *)
(* is in the table.                                                        *)
(***************************************************************************)
EXTENDS Integers, FiniteSets

CONSTANTS
  Keys,               \* the sources
  Capacity,           \* the generic subscriptions there is room for
  Stamps              \* the numbers of calls

VARIABLES
  table,              \* the entry of each source
  request,            \* the call in progress, with the change it asks for
  result              \* how the last operation ended

vars == <<table, request, result>>

NoSample == 0
Off == [delivery |-> "none", since |-> 0, sample |-> NoSample]
Empty == [k \in Keys |-> Off]

Idle == [kind |-> "idle"]
Other == [kind |-> "other"]    \* a call that leaves the table alone
Opening == [kind |-> "begin"]  \* begin(): empties it at once
Closing == [kind |-> "end"]    \* monitoring switched off: empties it in the end
Changes == [kind : {"change"}, key : Keys, delivery : {"none", "generic", "retired"},
            since : Stamps]

Generic == {k \in Keys : table[k].delivery = "generic"}

\* The entry that the change c makes.  A retired subscription that is renewed
\* keeps its sample, any other change starts without one.
Entry(c) ==
  CASE c.delivery = "none" -> Off
    [] c.delivery = "generic" ->
         [delivery |-> "generic", since |-> c.since, sample |-> NoSample]
    [] c.delivery = "retired" ->
         [Off EXCEPT !.delivery = "retired",
                     !.sample = IF table[c.key].delivery = "retired"
                                THEN table[c.key].sample ELSE NoSample]

Init == table = Empty /\ request = Idle /\ result = "ok"

----------------------------------------------------------------------------
\* A call goes out.  One that asks for a generic subscription finds room for it,
\* and is younger than any subscription in the table.
Start ==
  /\ request = Idle
  /\ request' \in {Other, Opening, Closing} \cup Changes
  /\ result' = "none"
  /\ table' = IF request' = Opening THEN Empty ELSE table
  /\ request' \in Changes =>
       /\ \A k \in Keys : table[k].since < request'.since
       /\ request'.delivery = "generic" =>
            Cardinality(Generic \cup {request'.key}) <= Capacity

Succeed ==
  /\ request # Idle
  /\ table' = CASE request.kind = "change" -> [table EXCEPT ![request.key] = Entry(request)]
                [] request.kind = "end" -> Empty
                [] OTHER -> table
  /\ request' = Idle /\ result' = "ok"

\* A call fails, or is refused at once; it may cost the session.
Fail ==
  /\ table' \in {table, Empty}
  /\ request' = Idle /\ result' = "failed"

\* A sample comes in, at any time.
Deliver ==
  /\ \E k \in Keys :
       /\ table[k].delivery # "none"
       /\ \E stamp \in IF table[k].delivery = "generic" THEN {table[k].since} ELSE Stamps :
            table' = [table EXCEPT ![k].sample = stamp]
  /\ UNCHANGED <<request, result>>

\* The sketch starts over.
Restart == table' = Empty /\ request' = Idle /\ result' = "ok"

Next == Start \/ Succeed \/ Fail \/ Deliver \/ Restart

Spec == Init /\ [][Next]_vars
=============================================================================
