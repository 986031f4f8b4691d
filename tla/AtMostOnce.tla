----------------------------- MODULE AtMostOnce -----------------------------
(***************************************************************************)
(* What request() promises: "Execute exactly one request; never retry an   *)
(* operation that might have executed."  A caller issues numbered calls,   *)
(* one at a time.  The other side executes issued calls in order, each at  *)
(* most once, perhaps long after the caller gave up.  A call ends well     *)
(* only after it was executed; one that failed may or may not have been.   *)
(* begin() is a chain: its second request follows its first at once.       *)
(***************************************************************************)
EXTENDS Integers

CONSTANT MaxCalls

VARIABLES
  pending,            \* the call in progress, 0 for none
  last,               \* the last call issued
  done,               \* the calls executed
  outcome             \* how the caller's last operation ended

vars == <<pending, last, done, outcome>>

Init == pending = 0 /\ last = 0 /\ done = {} /\ outcome = "ok"

\* A call goes out.
Issue ==
  /\ pending = 0 \/ pending \in done
  /\ last < MaxCalls
  /\ last' = last + 1 /\ pending' = last + 1 /\ outcome' = "none"
  /\ UNCHANGED done

\* A call fails as it goes out; it may have gone out all the same.
IssueFails ==
  /\ pending = 0 \/ pending \in done
  /\ last < MaxCalls
  /\ last' = last + 1 /\ pending' = 0 /\ outcome' = "failed"
  /\ UNCHANGED done

Execute ==
  /\ \E c \in 1 .. last : (\A d \in done : d < c) /\ done' = done \cup {c}
  /\ UNCHANGED <<pending, last, outcome>>

Succeed ==
  /\ pending \in done
  /\ pending' = 0 /\ outcome' = "ok"
  /\ UNCHANGED <<last, done>>

Fail ==
  /\ pending # 0
  /\ pending' = 0 /\ outcome' = "failed"
  /\ UNCHANGED <<last, done>>

\* An operation that is refused before anything goes out.
Refuse ==
  /\ pending = 0
  /\ outcome' = "failed"
  /\ UNCHANGED <<pending, last, done>>

Next == Issue \/ IssueFails \/ Execute \/ Succeed \/ Fail \/ Refuse

Spec == Init /\ [][Next]_vars
=============================================================================
