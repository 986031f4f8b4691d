----------------------------- MODULE KinisiWire -----------------------------
(***************************************************************************)
(* The I2C link between the library (master) and the controller (slave).   *)
(* The master writes whole frames and reads whole frames; the controller   *)
(* queues what it has to say until the master clocks it out, in order.     *)
(* A transaction can fail, and a failed one may or may not have moved its  *)
(* frame.  A frame read can also be garbage.                               *)
(*                                                                         *)
(* Frames to the controller   [command, id, request, serial]               *)
(* Frames to the library      [kind: REPLY, command, id, identity, serial] *)
(*                            [kind: ERROR, command, id, code, serial]     *)
(*                            [kind: EVENT, key, stamp]                    *)
(*                            [kind: LEGACY_EVENT, source, stamp]          *)
(*                                                                         *)
(* "serial" and "stamp" are history values no code sees: the number of the *)
(* call a frame was sent for, and the number of the call that created the  *)
(* subscription an event belongs to.                                       *)
(***************************************************************************)
EXTENDS Integers, Sequences

CONSTANTS
  CommandBuffer,      \* frames the controller holds unprocessed
  ReplyBuffer,        \* frames the controller holds unread
  WireBufferSize      \* KINISI_WIRE_BUFFER_SIZE

ASSUME WireAssumption ==
  /\ CommandBuffer \in Nat \ {0}
  /\ ReplyBuffer \in Nat \ {0}
  /\ WireBufferSize \in Nat

VARIABLES toController, toClient

wireVars == <<toController, toClient>>

WireInit == toController = <<>> /\ toClient = <<>>

HasRoom == Len(toController) < CommandBuffer

\* kinisiWireSend returned true: the controller has the whole frame.
WireSend(frame) == HasRoom /\ toController' = Append(toController, frame)

\* kinisiWireSend returned false: a short write or a NACK left nothing on
\* the bus, a bus timeout may come after the last byte was taken.
WireSendFails(frame) ==
  \/ UNCHANGED toController
  \/ WireSend(frame)

\* kinisiWireReceive returned one frame.
WireReceive == toClient # <<>> /\ toClient' = Tail(toClient)

\* kinisiWireReceive returned -1: the read timed out before or after the
\* controller let go of its frame.
WireReceiveFails ==
  \/ UNCHANGED toClient
  \/ WireReceive
=============================================================================
