---------------------------- MODULE KinisiRestart ----------------------------
(***************************************************************************)
(* The Arduino restarts while the controller runs on.  The constructor     *)
(* starts the IDs at 1 again, and what the controller queued for an        *)
(* earlier life is still there, under the IDs of that life.  A stale reply *)
(* can then be taken for the answer to a call of the new life; this module *)
(* is about when that is over.                                             *)
(***************************************************************************)
EXTENDS KinisiSystem

CONSTANTS
  EarlierRequests     \* subscriptions an earlier life may have made

ASSUME RestartAssumption ==
  /\ ReplyBuffer >= 5
  /\ \A r \in EarlierRequests :
       \/ r.command = "SUBSCRIBE" /\ {"topic", "index"} \subseteq DOMAIN r
       \/ r.command = "SUBSCRIBE_ODOMETRY" /\ r.source \in Sources

VARIABLE
  reused              \* history: a call took an ID that a queued frame carried,
                      \* and no begin() has read the answer to its own INIT since

restartVars == <<vars, reused>>

----------------------------------------------------------------------------
(* An earlier life that issued begin() and one subscription and restarted  *)
(* before it read any answer of the last life.  Its calls are numbered     *)
(* below those that follow: the subscription is call -1.                   *)

Unread(command, id, identity0) ==
  [kind |-> "REPLY", command |-> command, id |-> id, identity |-> identity0,
   serial |-> id - 4]

EarlierStream(r) ==
  LET legacy == r.command = "SUBSCRIBE_ODOMETRY"
  IN [key |-> IF legacy THEN KeyOf(r.source) ELSE Key(r), legacy |-> legacy, stamp |-> -1]

\* The controller kept the answers to INIT, SET_HEARTBEAT_CONFIG and r, which
\* have the IDs 1, 2 and 3, and a first event.
LeftBehind(r) ==
  /\ toController = <<>>
  /\ toClient = <<Unread("INIT", 1, firmware), Unread("READY", 1, NoIdentity),
                  Unread("SET_HEARTBEAT_CONFIG", 2, NoIdentity),
                  Unread(r.command, 3, NoIdentity), EventOf(EarlierStream(r))>>
  /\ up = TRUE /\ watchdog = TRUE /\ subs = {EarlierStream(r)}
  /\ executed = <<>>

RestartInit ==
  /\ ClientInit /\ reused = FALSE
  /\ firmware \in Firmwares
  /\ (WireInit /\ ControllerInit) \/ \E r \in EarlierRequests : LeftBehind(r)

----------------------------------------------------------------------------
\* A call was sent with the ID of a frame that is still on its way.
TakesUsedId == issued' # issued /\ Outstanding(nextId)

\* begin() read the answer to its own INIT.  Answers come in the order of the
\* calls, so that all that was queued before has been read.
OwnInitAnswered ==
  /\ call.phase = "init" /\ call'.phase = "ready"
  /\ Frame.serial = call.serial

RestartNext ==
  /\ Next
  /\ reused' = ((reused \/ TakesUsedId) /\ ~OwnInitAnswered)

RestartSpec == RestartInit /\ [][RestartNext]_restartVars

----------------------------------------------------------------------------
\* One begin() that gets the answer to its own INIT puts an end to whatever a
\* restart confused: from there on, until the Arduino restarts on unread frames
\* again, the library and the controller agree between calls, although replies
\* and streams of the earlier life had been taken for the library's own.
TablesRecovered == reused \/ TablesAgree

\* The same of the samples: none of an earlier life, and none that a stale ACK
\* let in, is shown by a generic or a retired getter.
SamplesRecovered == reused \/ (SamplesOfThisSubscription /\ LegacySamplesSubscribed)
=============================================================================
