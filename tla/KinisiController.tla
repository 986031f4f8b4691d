-------------------------- MODULE KinisiController --------------------------
(***************************************************************************)
(* The motor controller, as the library uses it.  Its firmware is not in   *)
(* this repository; what is modelled is what the library's code relies on: *)
(* commands are served one at a time in the order they were written, each  *)
(* is answered by one ACK (the reply frame) or ERROR, INIT starts a fresh  *)
(* session and is answered by INIT and READY, events may come before any   *)
(* reply, and the session is lost when the watchdog expires or the board   *)
(* restarts.  Any command may be refused with an error code.               *)
(***************************************************************************)
EXTENDS KinisiTypes, KinisiWire

CONSTANTS
  Firmwares,          \* identities [board, major, minor] a controller may have
  Refusals            \* error codes a serving controller answers with

ASSUME ControllerAssumption ==
  /\ Refusals \subseteq ErrorCodes
  /\ \A f \in Firmwares : f.minor \in Nat

VARIABLES
  firmware,           \* the identity this controller reports
  up,                 \* a session has been initialised
  watchdog,           \* connection monitoring is on
  subs,               \* subscriptions [key, legacy, stamp]
  executed            \* history: the calls whose command was executed, in order

controllerVars == <<firmware, up, watchdog, subs, executed>>

Command == Head(toController)

Reply(command, identity) ==
  [kind |-> "REPLY", command |-> command, id |-> Command.id,
   identity |-> identity, serial |-> Command.serial]

EventOf(sub) ==
  IF sub.legacy
  THEN [kind |-> "LEGACY_EVENT", stamp |-> sub.stamp,
        source |-> CHOOSE s \in Sources : KeyOf(s) = sub.key]
  ELSE [kind |-> "EVENT", key |-> sub.key, stamp |-> sub.stamp]

\* Take the next command and answer with these frames.
Answer(frames) ==
  /\ toController # <<>>
  /\ Len(toClient) + Len(frames) <= ReplyBuffer
  /\ toController' = Tail(toController)
  /\ toClient' = toClient \o frames

Ack == Reply(Command.command, NoIdentity)

Executed == executed' = Append(executed, Command.serial)

\* A valid INIT: a fresh session, monitoring off, no subscriptions.
ServeInit ==
  /\ toController # <<>> /\ Command.command = "INIT"
  /\ Answer(<<Reply("INIT", firmware), Reply("READY", NoIdentity)>>)
  /\ up' = TRUE /\ watchdog' = FALSE /\ subs' = {}
  /\ Executed
  /\ UNCHANGED firmware

\* A command without a session, or one refused for its own reasons.
ServeError ==
  /\ toController # <<>>
  /\ \E code \in IF up \/ Command.command = "INIT" THEN Refusals
                 ELSE {"INIT_REQUIRED"} :
       Answer(<<[kind |-> "ERROR", command |-> Command.command,
                 id |-> Command.id, code |-> code, serial |-> Command.serial]>>)
  /\ UNCHANGED controllerVars

\* Execute the next command, of one of these kinds.
Serve(commands) ==
  /\ up
  /\ toController # <<>> /\ Command.command \in commands
  /\ Executed
  /\ UNCHANGED <<firmware, up>>

ServeHeartbeat ==
  /\ Serve({"SET_HEARTBEAT_CONFIG"})
  /\ Command.request.enabled => Command.request.timeout # 0
  /\ watchdog' = Command.request.enabled
  /\ subs' = IF watchdog' THEN subs ELSE {}
  /\ Answer(<<Ack>>)

\* One delivery per source: a subscription replaces any other of its source.
Replaced(key) == {s \in subs : s.key # key}

ServeSubscription ==
  LET r == Command.request
      key == <<r.topic, r.index>>
  IN  /\ Serve({"SUBSCRIBE", "SUBSCRIBE_WITH_MODE", "SUBSCRIBE_CONFIGURED", "UNSUBSCRIBE"})
      /\ IF r.command = "UNSUBSCRIBE"
         THEN subs' = Replaced(key)
         ELSE /\ watchdog
              /\ subs' = Replaced(key) \cup
                   {[key |-> key, legacy |-> FALSE, stamp |-> Command.serial]}
      /\ Answer(<<Ack>>)
      /\ UNCHANGED watchdog

ServeLegacy ==
  LET r == Command.request
      key == KeyOf(r.source)
  IN  /\ Serve({"SUBSCRIBE_ODOMETRY", "UNSUBSCRIBE_ODOMETRY"})
      /\ r.source \in Sources
      /\ IF r.command = "UNSUBSCRIBE_ODOMETRY"
         THEN subs' = Replaced(key)
         ELSE /\ watchdog /\ r.interval # 0
              /\ subs' = Replaced(key) \cup
                   {[key |-> key, legacy |-> TRUE, stamp |-> Command.serial]}
      /\ Answer(<<Ack>>)
      /\ UNCHANGED watchdog

\* POLL_TELEMETRY: at most one due event, then the ACK.
ServePoll ==
  /\ Serve({"POLL_TELEMETRY"})
  /\ \/ Answer(<<Ack>>)
     \/ \E sub \in subs : Answer(<<EventOf(sub), Ack>>)
  /\ UNCHANGED <<watchdog, subs>>

ServeOther ==
  /\ Serve(DOMAIN Shapes \ {"INIT", "SET_HEARTBEAT_CONFIG", "SUBSCRIBE",
       "SUBSCRIBE_WITH_MODE", "SUBSCRIBE_CONFIGURED", "UNSUBSCRIBE",
       "SUBSCRIBE_ODOMETRY", "UNSUBSCRIBE_ODOMETRY", "POLL_TELEMETRY"})
  /\ Answer(<<Ack>>)
  /\ UNCHANGED <<watchdog, subs>>

\* An event queued ahead of whatever is answered next.
EmitEvent ==
  /\ up
  /\ Len(toClient) < ReplyBuffer
  /\ \E sub \in subs : toClient' = Append(toClient, EventOf(sub))
  /\ UNCHANGED <<controllerVars, toController>>

\* The watchdog expires: motors stop, the session and its streams are gone.
Expire ==
  /\ up /\ watchdog
  /\ up' = FALSE /\ watchdog' = FALSE /\ subs' = {}
  /\ UNCHANGED <<firmware, executed, wireVars>>

\* The board restarts and loses everything it held.
Reboot ==
  /\ up' = FALSE /\ watchdog' = FALSE /\ subs' = {}
  /\ toController' = <<>> /\ toClient' = <<>>
  /\ UNCHANGED <<firmware, executed>>

ControllerInit ==
  /\ firmware \in Firmwares
  /\ up = FALSE /\ watchdog = FALSE /\ subs = {}
  /\ executed = <<>>

ControllerNext ==
  \/ ServeInit \/ ServeError \/ ServeHeartbeat \/ ServeSubscription
  \/ ServeLegacy \/ ServePoll \/ ServeOther
  \/ EmitEvent \/ Expire \/ Reboot
=============================================================================
