------------------------- MODULE KinisiQueueProofs -------------------------
(***************************************************************************)
(* Proofs about what waits in the two queues of KinisiSystem, and from it  *)
(* that the library keeps the promise of AtMostOnce: for every length of   *)
(* the queues, every number of slots, IDs and calls, and every set of      *)
(* requests.                                                               *)
(***************************************************************************)
EXTENDS KinisiSystemProofs

----------------------------------------------------------------------------
(* The queues *)

\* No call takes an ID that a queued frame still carries.  IdsDrain asks it of
\* recycled IDs; a restart numbers calls from 1 again and may break it.
FreshIds == issued' # issued => ~Outstanding(nextId)

\* Where the replies and errors stand among the frames to the library.
Answers == {i \in 1 .. Len(toClient) : toClient[i].kind \in {"REPLY", "ERROR"}}

Done == {executed[i] : i \in 1 .. Len(executed)}

\* Replies and errors come in the order of the calls, before what is not yet
\* served; only INIT has two.  A reply is to a call that was executed.
AnswersInOrder ==
  /\ \A i, j \in Answers : i < j =>
       \/ toClient[i].serial < toClient[j].serial
       \/ /\ toClient[i].serial = toClient[j].serial
          /\ toClient[i].command = "INIT" /\ toClient[j].command = "READY"
  /\ \A i \in Answers, j \in 1 .. Len(toController) :
       toClient[i].serial < toController[j].serial
  /\ \A i \in Answers : toClient[i].serial <= issued
  /\ \A i \in Answers : toClient[i].kind = "REPLY" => toClient[i].serial \in Done

----------------------------------------------------------------------------
(* The call in progress *)

\* The call in progress is the last one issued.
CallInv ==
  /\ call.phase = "idle" => call = Idle
  /\ call # Idle => call.serial = issued /\ error = NoError
  /\ call.phase \in {"init", "ready"} => ~ready
  /\ call.phase \in {"init", "ready", "configure"} => call.request = Begin0
  /\ call.phase = "reply" => call.request.command # "INIT"
  /\ call.phase \in {"ready", "configure"} => call.serial \in Done
  /\ call.phase = "reply" /\ call.request.command = "UNSUBSCRIBE" /\ call.slot # 0 =>
       slots[call.slot].key = Key(call.request)

\* Its ID is on its own frames and on no other, and they are what it asked for.
OwnFrames ==
  /\ \A j \in 1 .. Len(toController) :
       /\ toController[j].serial = call.serial =>
            toController[j].id = call.id /\ toController[j].request = call.request
       /\ Waiting /\ toController[j].id = call.id => toController[j].serial = call.serial
  /\ \A i \in Answers :
       /\ toClient[i].serial = call.serial =>
            /\ toClient[i].id = call.id
            /\ \/ toClient[i].command = call.request.command
               \/ toClient[i].command = "READY" /\ call.request = Begin0
       /\ Waiting /\ toClient[i].id = call.id => toClient[i].serial = call.serial

\* When READY is on its way to begin(), nothing comes after it: the controller
\* streams nothing.
ReadyIsLast ==
  call.phase \in {"init", "ready"} =>
    \A i \in Answers :
      toClient[i].serial = call.serial /\ toClient[i].command = "READY" =>
        i = Len(toClient) /\ subs = {} /\ ~watchdog

\* A ready session has nothing of an earlier one in the queues: no command, no
\* reply and no error but those of the call that waits.
Quiet ==
  ready =>
    /\ \A j \in 1 .. Len(toController) :
         call.phase = "reply" /\ toController[j].serial = call.serial
    /\ \A i \in Answers : call.phase = "reply" /\ toClient[i].serial = call.serial

QueueInv == AnswersInOrder /\ CallInv /\ OwnFrames /\ ReadyIsLast /\ Quiet

\* Without a restart, IDs and calls are numbered alike until IDs are recycled.
IdsAreSerials ==
  issued <= MaxId =>
    /\ issued < MaxId => nextId = issued + 1
    /\ \A j \in 1 .. Len(toController) : toController[j].id = toController[j].serial
    /\ \A i \in Answers : toClient[i].id = toClient[i].serial

----------------------------------------------------------------------------
(* Facts about the queues and how they change *)

\* The shape of what is queued.
LEMMA QueueTypes ==
  ASSUME TypeOK
  PROVE  /\ toClient \in Seq(ReplyFrames) /\ Len(toClient) \in Nat
         /\ toController \in Seq(CommandFrames) /\ Len(toController) \in Nat
         /\ \A i \in 1 .. Len(toClient) : toClient[i] \in ReplyFrames
         /\ \A j \in 1 .. Len(toController) : toController[j] \in CommandFrames
<1>1. toClient \in Seq(ReplyFrames) /\ toController \in Seq(CommandFrames)
  BY DEF TypeOK, WireTypeOK
<1>. QED
  BY <1>1, ElementOfSeq, LenProperties

\* A serial number is a positive number.
LEMMA SerialType ==
  /\ \A n \in Serials : n \in Nat /\ n >= 1
  /\ \A f \in CommandFrames : f.serial \in Serials
  /\ \A f \in ReplyFrames : f.kind \in {"REPLY", "ERROR"} => f.serial \in Serials
<1>1. \A n \in Serials : n \in Nat /\ n >= 1
  BY ProtocolAssumption DEF Serials
<1>2. \A f \in CommandFrames : f.serial \in Serials
  BY DEF CommandFrames
<1>3. \A f \in ReplyFrames : f.kind \in {"REPLY", "ERROR"} => f.serial \in Serials
  BY DEF ReplyFrames
<1>. QED
  BY <1>1, <1>2, <1>3

\* The serials in both queues and the counter of calls are numbers.
LEMMA Numbers ==
  ASSUME TypeOK
  PROVE  /\ \A i \in Answers : toClient[i].serial \in Nat /\ toClient[i].serial >= 1
         /\ \A j \in 1 .. Len(toController) :
              toController[j].serial \in Nat /\ toController[j].serial >= 1
         /\ issued \in Nat
<1>1. issued \in Nat
  BY SerialsAreNumbers
<1>. QED
  BY <1>1, QueueTypes, SerialType DEF Answers

\* The same of the next state.
LEMMA NumbersNext ==
  ASSUME TypeOK'
  PROVE  /\ \A j \in 1 .. Len(toController') :
              toController'[j].serial \in Nat /\ toController'[j].serial >= 1
         /\ \A i \in Answers' : toClient'[i].serial \in Nat /\ toClient'[i].serial >= 1
         /\ issued' \in Nat
<1>1. /\ toController' \in Seq(CommandFrames) /\ toClient' \in Seq(ReplyFrames)
      /\ issued' \in 0 .. MaxCalls
  BY DEF TypeOK, WireTypeOK, CallTypeOK
<1>2. /\ \A j \in 1 .. Len(toController') : toController'[j] \in CommandFrames
      /\ \A i \in 1 .. Len(toClient') : toClient'[i] \in ReplyFrames
  BY <1>1, ElementOfSeq
<1>. QED
  BY <1>1, <1>2, SerialType, ProtocolAssumption DEF Answers

\* The first frame has been taken out.
LEMMA AfterRead ==
  ASSUME TypeOK, toClient # <<>>, toClient' = Tail(toClient)
  PROVE  /\ Len(toClient) \in Nat /\ Len(toClient) >= 1
         /\ Len(toClient') = Len(toClient) - 1
         /\ \A i \in 1 .. Len(toClient') : toClient'[i] = toClient[i + 1]
         /\ Answers' = {i \in 1 .. Len(toClient) - 1 : i + 1 \in Answers}
         /\ Frame = toClient[1]
         /\ Frame.kind \in {"REPLY", "ERROR"} <=> 1 \in Answers
<1>1. /\ Len(toClient) \in Nat /\ Len(toClient) >= 1
      /\ Len(toClient') = Len(toClient) - 1
      /\ \A i \in 1 .. Len(toClient') : toClient'[i] = toClient[i + 1]
      /\ Frame = toClient[1]
  BY QueueTypes DEF Frame
<1>2. Answers' = {i \in 1 .. Len(toClient) - 1 : i + 1 \in Answers}
  BY <1>1 DEF Answers
<1>. QED
  BY <1>1, <1>2 DEF Answers

\* Frames have been added.
LEMMA AfterAppend ==
  ASSUME TypeOK, NEW frames \in Seq(ReplyFrames), toClient' = toClient \o frames
  PROVE  /\ Len(toClient) \in Nat /\ Len(frames) \in Nat
         /\ Len(toClient') = Len(toClient) + Len(frames)
         /\ \A i \in 1 .. Len(toClient) : toClient'[i] = toClient[i]
         /\ \A i \in 1 .. Len(frames) : toClient'[Len(toClient) + i] = frames[i]
         /\ \A i \in 1 .. Len(toClient') :
              i \in 1 .. Len(toClient) \/ \E k \in 1 .. Len(frames) : i = Len(toClient) + k
<1>1. toClient \in Seq(ReplyFrames) /\ Len(toClient) \in Nat /\ Len(frames) \in Nat
  BY QueueTypes, LenProperties
<1>2. /\ Len(toClient') = Len(toClient) + Len(frames)
      /\ \A i \in 1 .. Len(toClient) : toClient'[i] = toClient[i]
      /\ \A i \in 1 .. Len(frames) : toClient'[Len(toClient) + i] = frames[i]
  BY <1>1
<1>3. ASSUME NEW i \in 1 .. Len(toClient'), i \notin 1 .. Len(toClient)
      PROVE  \E k \in 1 .. Len(frames) : i = Len(toClient) + k
  <2>1. i - Len(toClient) \in 1 .. Len(frames) /\ i = Len(toClient) + (i - Len(toClient))
    BY <1>1, <1>2, <1>3
  <2>. QED
    BY <2>1
<1>. QED
  BY <1>1, <1>2, <1>3

\* The next command has been taken out.
LEMMA AfterServe ==
  ASSUME TypeOK, toController # <<>>, toController' = Tail(toController)
  PROVE  /\ Len(toController) \in Nat /\ Len(toController) >= 1
         /\ Len(toController') = Len(toController) - 1
         /\ \A j \in 1 .. Len(toController') : toController'[j] = toController[j + 1]
         /\ Command = toController[1]
BY QueueTypes DEF Command

\* A command has been added.
LEMMA AfterSend ==
  ASSUME TypeOK, NEW f, toController' = Append(toController, f)
  PROVE  /\ Len(toController) \in Nat
         /\ Len(toController') = Len(toController) + 1
         /\ \A j \in 1 .. Len(toController) : toController'[j] = toController[j]
         /\ toController'[Len(toController) + 1] = f
         /\ \A j \in 1 .. Len(toController') :
              j \in 1 .. Len(toController) \/ j = Len(toController) + 1
BY QueueTypes

\* Where the answers stand when they are the same frames.
LEMMA SameAnswers == UNCHANGED toClient => Answers' = Answers
BY DEF Answers

\* What is executed stays executed.
LEMMA DoneGrows ==
  ASSUME TypeOK, NEW n, executed' = Append(executed, n)
  PROVE  Done' = Done \cup {n}
<1>1. executed \in Seq(Serials) /\ Len(executed) \in Nat
  BY SerialsAreNumbers
<1>2. /\ Len(executed') = Len(executed) + 1
      /\ \A i \in 1 .. Len(executed) : executed'[i] = executed[i]
      /\ executed'[Len(executed) + 1] = n
  BY <1>1
<1>3. Done \cup {n} \subseteq Done'
  <2>1. \A i \in 1 .. Len(executed) : i \in 1 .. Len(executed')
    BY <1>1, <1>2
  <2>2. Len(executed) + 1 \in 1 .. Len(executed')
    BY <1>1, <1>2
  <2>. QED
    BY <1>2, <2>1, <2>2 DEF Done
<1>4. Done' \subseteq Done \cup {n}
  <2>1. \A i \in 1 .. Len(executed') : i \in 1 .. Len(executed) \/ i = Len(executed) + 1
    BY <1>1, <1>2
  <2>. QED
    BY <1>2, <2>1 DEF Done
<1>. QED
  BY <1>3, <1>4

\* Done is a function of executed.
LEMMA SameDone == UNCHANGED executed => Done' = Done
BY DEF Done

----------------------------------------------------------------------------
(* What the steps do to the queues *)

\* The next command is answered with these frames.
AnsweredWith(frames) ==
  /\ Answer(frames)
  /\ UNCHANGED executed \/ executed' = Append(executed, Command.serial)
  /\ \A k \in 1 .. Len(frames) :
       \/ /\ frames[k].kind \in {"REPLY", "ERROR"}
          /\ frames[k].serial = Command.serial /\ frames[k].id = Command.id
          /\ \/ frames[k].command = Command.command
             \/ frames[k].command = "READY" /\ Command.command = "INIT"
          /\ frames[k].kind = "REPLY" => executed' = Append(executed, Command.serial)
          /\ frames[k].command = "READY" => k = Len(frames) /\ subs' = {} /\ ~watchdog'
       \/ frames[k].kind \in {"EVENT", "LEGACY_EVENT"}
  /\ \A k, l \in 1 .. Len(frames) :
       k < l /\ frames[k].kind \in {"REPLY", "ERROR"} /\ frames[l].kind \in {"REPLY", "ERROR"} =>
         frames[k].command = "INIT" /\ frames[l].command = "READY"

Serving == ServeInit \/ ServeError \/ ServeHeartbeat \/ ServeSubscription
           \/ ServeLegacy \/ ServePoll \/ ServeOther

\* READY is nobody's command.
LEMMA NoReadyCommand ==
  ASSUME TypeOK, toController # <<>>
  PROVE  Command.command # "READY"
<1>1. \A r \in AnyRequest : r.command # "READY"
  <2>1. \A r \in Requests : r.command # "READY"
    BY RequestAssumption, Zenon
  <2>. QED
    BY <2>1 DEF AnyRequest, Own, Begin0, Ping, PollTelemetry, Monitor
<1>. QED
  BY <1>1, CommandType

\* An event is neither a reply nor an error.
LEMMA EventKind ==
  ASSUME TypeOK, NEW sub \in subs
  PROVE  EventOf(sub).kind \in {"EVENT", "LEGACY_EVENT"}
BY DEF EventOf

\* The ACK carries the ID and the number of its command.
LEMMA AckFrame ==
  /\ Ack.kind = "REPLY" /\ Ack.serial = Command.serial /\ Ack.id = Command.id
  /\ Ack.command = Command.command
BY DEF Ack, Reply

\* One frame, an answer.
LEMMA OneAnswer ==
  ASSUME NEW f, Answer(<<f>>), f.kind \in {"REPLY", "ERROR"},
         f.serial = Command.serial, f.id = Command.id, f.command = Command.command,
         f.command # "READY",
         UNCHANGED executed \/ executed' = Append(executed, Command.serial),
         f.kind = "REPLY" => executed' = Append(executed, Command.serial)
  PROVE  AnsweredWith(<<f>>)
<1>1. Len(<<f>>) = 1 /\ <<f>>[1] = f
  OBVIOUS
<1>. DEFINE fs == <<f>>
<1>. HIDE DEF fs
<1>2. \A k \in 1 .. Len(fs) : k = 1 /\ fs[k] = f
  BY <1>1 DEF fs
<1>3. \A k, l \in 1 .. Len(fs) : ~(k < l)
  BY <1>1 DEF fs
<1>4. Answer(fs)
  BY DEF fs
<1>5. AnsweredWith(fs)
  BY <1>2, <1>3, <1>4 DEF AnsweredWith
<1>. QED
  BY <1>5 DEF fs

\* An event and an answer.
LEMMA EventAndAnswer ==
  ASSUME TypeOK, toController # <<>>, NEW e, e.kind \in {"EVENT", "LEGACY_EVENT"},
         Answer(<<e, Ack>>), Executed
  PROVE  AnsweredWith(<<e, Ack>>)
<1>. DEFINE fs == <<e, Ack>>
<1>1. Len(fs) = 2 /\ fs[1] = e /\ fs[2] = Ack
  OBVIOUS
<1>2. Answer(fs)
  OBVIOUS
<1>. HIDE DEF fs
<1>3. \A k \in 1 .. Len(fs) : fs[k] = e \/ fs[k] = Ack
  BY <1>1
<1>4. \A k, l \in 1 .. Len(fs) : k < l => fs[k] = e
  BY <1>1
<1>5. AnsweredWith(fs)
  BY <1>2, <1>3, <1>4, AckFrame, NoReadyCommand DEF AnsweredWith, Executed
<1>. QED
  BY <1>5 DEF fs

\* INIT is answered by two replies, READY last.
LEMMA InitAndReady ==
  ASSUME TypeOK, ServeInit
  PROVE  AnsweredWith(<<Reply("INIT", firmware), Reply("READY", NoIdentity)>>)
<1>. DEFINE fs == <<Reply("INIT", firmware), Reply("READY", NoIdentity)>>
<1>1. Len(fs) = 2 /\ fs[1] = Reply("INIT", firmware) /\ fs[2] = Reply("READY", NoIdentity)
  OBVIOUS
<1>2. Answer(fs) /\ Executed /\ subs' = {} /\ ~watchdog' /\ Command.command = "INIT"
  BY DEF ServeInit
<1>. HIDE DEF fs
<1>3. \A k \in 1 .. Len(fs) : /\ fs[k].kind = "REPLY" /\ fs[k].serial = Command.serial
                              /\ fs[k].id = Command.id
                              /\ \/ fs[k].command = "INIT"
                                 \/ k = Len(fs) /\ fs[k].command = "READY"
  BY <1>1 DEF Reply
<1>4. \A k, l \in 1 .. Len(fs) : k < l => fs[k].command = "INIT" /\ fs[l].command = "READY"
  BY <1>1 DEF Reply
<1>5. AnsweredWith(fs)
  BY <1>2, <1>3, <1>4 DEF AnsweredWith, Executed
<1>. QED
  BY <1>5 DEF fs

\* Every way to serve a command answers it in one of these forms.
LEMMA ServeShape ==
  ASSUME TypeOK, Serving
  PROVE  toController # <<>> /\ \E frames \in Seq(ReplyFrames) : AnsweredWith(frames)
<1>1. ASSUME Answer(<<Ack>>), Executed, toController # <<>>
      PROVE  \E frames \in Seq(ReplyFrames) : AnsweredWith(frames)
  <2>1. <<Ack>> \in Seq(ReplyFrames)
    BY <1>1, AckType
  <2>2. AnsweredWith(<<Ack>>)
    BY <1>1, OneAnswer, AckFrame, NoReadyCommand DEF Executed
  <2>. QED
    BY <2>1, <2>2
<1>2. CASE ServeInit
  <2>1. toController # <<>> /\ "INIT" \in Commands /\ "READY" \in Commands
        /\ firmware \in Firmwares
    BY <1>2, RequestTypes DEF ServeInit, TypeOK, ControllerTypeOK
  <2>2. <<Reply("INIT", firmware), Reply("READY", NoIdentity)>> \in Seq(ReplyFrames)
    BY <2>1, ReplyType
  <2>. QED
    BY <1>2, <2>1, <2>2, InitAndReady
<1>3. CASE ServeError
  <2>1. PICK code \in ErrorCodes :
          Answer(<<[kind |-> "ERROR", command |-> Command.command,
                    id |-> Command.id, code |-> code, serial |-> Command.serial]>>)
    BY <1>3, ControllerAssumption DEF ServeError, ErrorCodes
  <2>. DEFINE f == [kind |-> "ERROR", command |-> Command.command,
                    id |-> Command.id, code |-> code, serial |-> Command.serial]
  <2>2. toController # <<>> /\ UNCHANGED executed
    BY <1>3 DEF ServeError, controllerVars
  <2>3. f \in ReplyFrames
    BY <2>2, CommandType DEF ReplyFrames
  <2>4. /\ f.kind = "ERROR" /\ f.serial = Command.serial /\ f.id = Command.id
        /\ f.command = Command.command /\ Answer(<<f>>)
    BY <2>1
  <2>. HIDE DEF f
  <2>5. AnsweredWith(<<f>>) /\ <<f>> \in Seq(ReplyFrames)
    BY <2>2, <2>3, <2>4, OneAnswer, NoReadyCommand
  <2>. QED
    BY <2>2, <2>5
<1>4. CASE ServeHeartbeat
  BY <1>1, <1>4 DEF ServeHeartbeat, Serve
<1>5. CASE ServeSubscription
  BY <1>1, <1>5 DEF ServeSubscription, Serve
<1>6. CASE ServeLegacy
  BY <1>1, <1>6 DEF ServeLegacy, Serve
<1>7. CASE ServePoll
  <2>1. toController # <<>> /\ Executed
    BY <1>7 DEF ServePoll, Serve
  <2>2. CASE Answer(<<Ack>>)
    BY <1>1, <2>1, <2>2
  <2>3. ASSUME NEW sub \in subs, Answer(<<EventOf(sub), Ack>>)
        PROVE  \E frames \in Seq(ReplyFrames) : AnsweredWith(frames)
    <3>1. <<EventOf(sub), Ack>> \in Seq(ReplyFrames)
      BY <2>1, <2>3, EventType, AckType
    <3>2. AnsweredWith(<<EventOf(sub), Ack>>)
      BY <2>1, <2>3, EventKind, EventAndAnswer
    <3>. QED
      BY <3>1, <3>2
  <2>. QED
    BY <1>7, <2>1, <2>2, <2>3 DEF ServePoll
<1>8. CASE ServeOther
  BY <1>1, <1>8 DEF ServeOther, Serve
<1>. QED
  BY <1>2, <1>3, <1>4, <1>5, <1>6, <1>7, <1>8 DEF Serving

\* The answers that were there keep their places, those that are added are
\* answers to the command.
LEMMA AnswersAfterServe ==
  ASSUME TypeOK, NEW frames \in Seq(ReplyFrames), AnsweredWith(frames)
  PROVE  /\ \A i \in Answers : i \in 1 .. Len(toClient) /\ i \in Answers' /\ toClient'[i] = toClient[i]
         /\ \A i \in Answers' :
              \/ i \in Answers
              \/ /\ i > Len(toClient)
                 /\ toClient'[i].serial = Command.serial /\ toClient'[i].id = Command.id
                 /\ \/ toClient'[i].command = Command.command
                    \/ toClient'[i].command = "READY" /\ Command.command = "INIT"
                 /\ toClient'[i].kind = "REPLY" => executed' = Append(executed, Command.serial)
                 /\ toClient'[i].command = "READY" =>
                      i = Len(toClient') /\ subs' = {} /\ ~watchdog'
         /\ \A i, j \in Answers' : i > Len(toClient) /\ i < j =>
              toClient'[i].command = "INIT" /\ toClient'[j].command = "READY"
         /\ Len(toClient) \in Nat /\ Len(toClient') \in Nat /\ Len(toClient') >= Len(toClient)
<1>1. /\ Len(toClient) \in Nat /\ Len(frames) \in Nat
      /\ Len(toClient') = Len(toClient) + Len(frames)
      /\ \A i \in 1 .. Len(toClient) : toClient'[i] = toClient[i]
      /\ \A i \in 1 .. Len(frames) : toClient'[Len(toClient) + i] = frames[i]
      /\ \A i \in 1 .. Len(toClient') :
           i \in 1 .. Len(toClient) \/ \E k \in 1 .. Len(frames) : i = Len(toClient) + k
  BY AfterAppend DEF AnsweredWith, Answer
<1>2. \A i \in Answers : i \in 1 .. Len(toClient) /\ i \in Answers' /\ toClient'[i] = toClient[i]
  BY <1>1 DEF Answers
<1>3. ASSUME NEW i \in Answers', i \notin Answers
      PROVE  \E k \in 1 .. Len(frames) : i = Len(toClient) + k /\ toClient'[i] = frames[k]
                                         /\ frames[k].kind \in {"REPLY", "ERROR"}
  BY <1>1, <1>3 DEF Answers
<1>4. ASSUME NEW i \in Answers', i \notin Answers
      PROVE  /\ i > Len(toClient)
             /\ toClient'[i].serial = Command.serial /\ toClient'[i].id = Command.id
             /\ \/ toClient'[i].command = Command.command
                \/ toClient'[i].command = "READY" /\ Command.command = "INIT"
             /\ toClient'[i].kind = "REPLY" => executed' = Append(executed, Command.serial)
             /\ toClient'[i].command = "READY" =>
                  i = Len(toClient') /\ subs' = {} /\ ~watchdog'
  <2>1. PICK k \in 1 .. Len(frames) : i = Len(toClient) + k /\ toClient'[i] = frames[k]
                                      /\ frames[k].kind \in {"REPLY", "ERROR"}
    BY <1>3, <1>4
  <2>2. /\ frames[k].serial = Command.serial /\ frames[k].id = Command.id
        /\ \/ frames[k].command = Command.command
           \/ frames[k].command = "READY" /\ Command.command = "INIT"
        /\ frames[k].kind = "REPLY" => executed' = Append(executed, Command.serial)
        /\ frames[k].command = "READY" => k = Len(frames) /\ subs' = {} /\ ~watchdog'
    BY <2>1, Zenon DEF AnsweredWith
  <2>3. i > Len(toClient) /\ (k = Len(frames) => i = Len(toClient'))
    <3>1. Len(toClient) \in Nat /\ Len(frames) \in Nat /\ k \in 1 .. Len(frames)
      BY <1>1
    <3>2. Len(toClient') = Len(toClient) + Len(frames) /\ i = Len(toClient) + k
      BY <1>1, <2>1
    <3>. QED
      BY <3>1, <3>2
  <2>. QED
    BY <2>1, <2>2, <2>3
<1>5. ASSUME NEW i \in Answers', NEW j \in Answers', i > Len(toClient), i < j
      PROVE  toClient'[i].command = "INIT" /\ toClient'[j].command = "READY"
  <2>1. i \notin Answers /\ j \notin Answers
    BY <1>1, <1>5 DEF Answers
  <2>2. PICK k \in 1 .. Len(frames) : i = Len(toClient) + k /\ toClient'[i] = frames[k]
                                      /\ frames[k].kind \in {"REPLY", "ERROR"}
    BY <1>3, <2>1
  <2>3. PICK l \in 1 .. Len(frames) : j = Len(toClient) + l /\ toClient'[j] = frames[l]
                                      /\ frames[l].kind \in {"REPLY", "ERROR"}
    BY <1>3, <2>1
  <2>. QED
    BY <1>1, <1>5, <2>2, <2>3 DEF AnsweredWith
<1>. QED
  BY <1>1, <1>2, <1>4, <1>5

\* The sketch was told that something failed.
Failed == error.failure # "NONE"

\* Call c takes the next number and ID, and is written or fails to be.
Issues(c) ==
  /\ issued' = issued + 1 /\ nextId' = Successor(nextId)
  /\ c.serial = issued + 1 /\ c.id = nextId
  /\ call.phase \in {"idle", "configure"}
  /\ \/ c.phase = "init" /\ c.request = Begin0 /\ ~ready'
     \/ /\ c.phase = "reply" /\ c.request.command # "INIT"
        /\ ready /\ (~ready' \/ UNCHANGED session)
        /\ c.request.command = "UNSUBSCRIBE" /\ c.slot # 0 =>
             slots[c.slot].key = Key(c.request)
  /\ \/ /\ call' = c /\ error' = NoError /\ toController' = Append(toController, FrameOf(c))
        /\ c.phase = "reply" => UNCHANGED session
     \/ /\ call' = Idle /\ Failed'
        /\ \/ UNCHANGED toController
           \/ ~ready' /\ toController' = Append(toController, FrameOf(c))
  /\ UNCHANGED toClient

\* A step of the sketch that puts nothing on the bus.
Local ==
  /\ call = Idle /\ Failed'
  /\ UNCHANGED <<session, call, issued, nextId, wireVars>>

\* Nothing of a failed transaction is left to a session that goes on.
LEMMA FailedSend ==
  ASSUME NEW c, NotSent(c), Settle(c)
  PROVE  /\ call' = Idle /\ Failed'
         /\ \/ UNCHANGED toController
            \/ ~ready' /\ toController' = Append(toController, FrameOf(c))
<1>1. CASE ~FrameFits(c.request.command, WireBufferSize)
  BY <1>1 DEF NotSent, Report, Failed
<1>2. CASE FrameFits(c.request.command, WireBufferSize)
  <2>1. WireSendFails(FrameOf(c)) /\ Report(c, "TRANSPORT", "NONE")
    BY <1>2 DEF NotSent
  <2>2. ~ready'
    BY <2>1 DEF Settle, Report, Fatal, ClearSession
  <2>. QED
    BY <2>1, <2>2 DEF WireSendFails, WireSend, Report, Failed
<1>. QED
  BY <1>1, <1>2

\* A failure leaves the session alone or not ready.
LEMMA SettledSession ==
  ASSUME TypeOK, NEW c, c.begin \in BOOLEAN, Settle(c)
  PROVE  ~ready' \/ (UNCHANGED session /\ ~c.begin)
<1>1. CASE Fatal(error')
  BY <1>1 DEF Settle, ClearSession
<1>2. CASE ~Fatal(error') /\ c.begin
  BY <1>2 DEF Settle
<1>3. CASE ~Fatal(error') /\ ~c.begin
  BY <1>3 DEF Settle, session, TypeOK, SessionTypeOK
<1>. QED
  BY <1>1, <1>2, <1>3

\* request() up to its wait.
LEMMA IssueShape ==
  ASSUME TypeOK, NEW r, NEW slot, NEW begin \in BOOLEAN, NEW timeout,
         Issue(NewCall("reply", r, slot, begin, timeout)),
         ready, call.phase \in {"idle", "configure"}, r.command # "INIT",
         r.command = "UNSUBSCRIBE" /\ slot # 0 => slots[slot].key = Key(r)
  PROVE  \E c : Issues(c)
<1>. DEFINE c == NewCall("reply", r, slot, begin, timeout)
<1>1. /\ c.serial = issued + 1 /\ c.id = nextId /\ c.phase = "reply"
      /\ c.request = r /\ c.slot = slot /\ c.begin = begin
  BY DEF NewCall
<1>. HIDE DEF c
<1>2. issued' = issued + 1 /\ nextId' = Successor(nextId) /\ UNCHANGED toClient
  BY DEF Issue, Allocate
<1>3. CASE Sent(c) /\ UNCHANGED session
  <2>1. call' = c /\ error' = NoError /\ toController' = Append(toController, FrameOf(c))
    BY <1>3 DEF Sent, WireSend
  <2>. QED
    BY <1>1, <1>2, <1>3, <2>1 DEF Issues
<1>4. CASE NotSent(c) /\ Settle(c)
  <2>1. ~ready' \/ UNCHANGED session
    BY <1>1, <1>4, SettledSession
  <2>2. /\ call' = Idle /\ Failed'
        /\ \/ UNCHANGED toController
           \/ ~ready' /\ toController' = Append(toController, FrameOf(c))
    BY <1>4, FailedSend
  <2>. QED
    BY <1>1, <1>2, <2>1, <2>2 DEF Issues
<1>. QED
  BY <1>3, <1>4 DEF Issue, c

\* No request of a sketch is INIT, nor those of poll() and the monitoring.
LEMMA NotInit ==
  /\ \A r \in Requests : r.command # "INIT"
  /\ Ping.command = "PING" /\ PollTelemetry.command = "POLL_TELEMETRY"
  /\ \A t : Monitor(t).command = "SET_HEARTBEAT_CONFIG"
  /\ Begin0.command = "INIT"
<1>1. \A r \in Requests : r.command # "INIT"
  BY RequestAssumption, Zenon
<1>. QED
  BY <1>1 DEF Ping, PollTelemetry, Monitor, Begin0

\* Every step of the sketch stays local or issues one call.
LEMMA SendShape ==
  ASSUME TypeOK, TableInv, SketchCalls \/ Configure
  PROVE  Local \/ \E c : Issues(c)
<1>1. ASSUME NEW t \in Timeouts, Begin(t)
      PROVE  \E c : Issues(c)
  <2>. DEFINE c == NewCall("init", Begin0, 0, TRUE, t)
  <2>1. c.serial = issued + 1 /\ c.id = nextId /\ c.phase = "init" /\ c.request = Begin0
    BY DEF NewCall
  <2>2. /\ issued' = issued + 1 /\ nextId' = Successor(nextId) /\ UNCHANGED toClient
        /\ ~ready' /\ call.phase = "idle" /\ (Sent(c) \/ NotSent(c))
    BY <1>1 DEF Begin, Allocate, ClearSession, Idle
  <2>. HIDE DEF c
  <2>3. \/ call' = c /\ error' = NoError /\ toController' = Append(toController, FrameOf(c))
        \/ /\ call' = Idle /\ Failed'
           /\ UNCHANGED toController \/ toController' = Append(toController, FrameOf(c))
    BY <2>2 DEF Sent, NotSent, WireSend, WireSendFails, Report, Failed
  <2>. QED
    BY <2>1, <2>2, <2>3 DEF Issues
<1>2. ASSUME NEW r \in Requests, Request(r)
      PROVE  \E c : Issues(c)
  <2>1. ready /\ call.phase = "idle" /\ r.command # "INIT"
    BY <1>2, Accepted, NotInit DEF Request, Idle
  <2>2. r.command = "UNSUBSCRIBE" /\ SubscriptionSlot(r) # 0 =>
          slots[SubscriptionSlot(r)].key = Key(r)
    BY FindSubscriptionResult DEF SubscriptionSlot, Subscribing
  <2>. QED
    BY <1>2, <2>1, <2>2, IssueShape DEF Request
<1>3. CASE (\E r \in Requests : Refuse(r)) \/ RefuseTuning \/ PollNotReady
  BY <1>3 DEF Refuse, RefuseTuning, PollNotReady, Local, Failed
<1>4. CASE Poll
  <2>1. ready /\ call.phase = "idle"
    BY <1>4 DEF Poll, Idle
  <2>. QED
    BY <1>4, <2>1, NotInit, IssueShape DEF Poll
<1>5. CASE Configure
  <2>1. ready /\ call.phase = "configure"
    BY <1>5 DEF Configure, TableInv, CallConsistent
  <2>. QED
    BY <1>5, <2>1, NotInit, IssueShape DEF Configure
<1>. QED
  BY <1>1, <1>2, <1>3, <1>4, <1>5 DEF SketchCalls

----------------------------------------------------------------------------
(* What the reads of the library do *)

Taken == toClient # <<>> /\ toClient' = Tail(toClient)

\* A frame is read and the call goes on waiting.
Waits ==
  /\ Taken
  /\ UNCHANGED <<call, error, ready, heartbeat, subscriptionMs>>
  /\ \A i \in SlotIndex : slots'[i].key = slots[i].key /\ slots'[i].since = slots[i].since
  /\ Frame.kind \in {"REPLY", "ERROR"} => Frame.id # call.id

\* The call fails; only an ERROR that answers it leaves the session.
Fails ==
  /\ call' = Idle /\ Failed'
  /\ \/ ~ready' /\ (UNCHANGED toClient \/ Taken)
     \/ /\ Taken /\ UNCHANGED session /\ ~call.begin
        /\ Frame.kind = "ERROR" /\ Frame.id = call.id

\* The INIT reply and READY come.
TakesInit ==
  /\ call.phase = "init" /\ Taken
  /\ Frame.kind = "REPLY" /\ Frame.id = call.id /\ Frame.command = "INIT"
  /\ call' = [call EXCEPT !.phase = "ready"] /\ UNCHANGED <<ready, error>>

TakesReady ==
  /\ call.phase = "ready" /\ Taken /\ ready'
  /\ Frame.kind = "REPLY" /\ Frame.id = call.id /\ Frame.command = "READY"
  /\ call' = [call EXCEPT !.phase = "configure"] \/ call' = Idle
  /\ UNCHANGED <<error, heartbeat, subscriptionMs, slots>>

\* The ACK of the request comes.
Acking == ReceiveHeartbeatAck \/ ReceiveSubscriptionAck \/ ReceiveLegacyAck \/ ReceiveOtherAck

TakesAck ==
  /\ Acking /\ call.phase = "reply" /\ Taken
  /\ Frame.kind = "REPLY" /\ Frame.id = call.id
  /\ Frame.command = call.request.command
  /\ call' = Idle /\ UNCHANGED <<ready, error>>

\* These failures cost the session.
LEMMA FatalFailures ==
  ASSUME NEW failure \in {"TIMEOUT", "TRANSPORT", "MALFORMED_RESPONSE", "INCOMPATIBLE_PROTOCOL"},
         NEW code, Fail(call, failure, code)
  PROVE  call' = Idle /\ Failed' /\ ~ready'
BY DEF Fail, Report, Settle, Fatal, ClearSession, Failed

\* Every read is one of the five.
LEMMA ReceiveShape ==
  ASSUME TypeOK, TableInv, CallInv, Receive
  PROVE  /\ Waiting /\ UNCHANGED <<toController, issued, nextId>>
         /\ Waits \/ Fails \/ TakesInit \/ TakesReady \/ TakesAck
<1>1. Waiting /\ UNCHANGED <<toController, issued, nextId>>
  BY DEF Receive, ReceiveStale, ReceiveEvent, ReceiveLegacyEvent, ReceiveError,
       ReceiveMismatch, ReceiveInit, ReceiveReady, ReceiveHeartbeatAck,
       ReceiveSubscriptionAck, ReceiveLegacyAck, ReceiveOtherAck, ReceiveGarbage,
       ReceiveFails, Timeout, Answered, Read, wireVars
<1>. SUFFICES Waits \/ Fails \/ TakesInit \/ TakesReady \/ TakesAck
  BY <1>1
<1>2. CASE ReceiveStale
  BY <1>2 DEF ReceiveStale, Read, WireReceive, KeepWaiting, session, Waits, Taken
<1>3. CASE ReceiveEvent
  <2>1. Taken /\ UNCHANGED <<call, error, ready, heartbeat, subscriptionMs>> /\ Frame.kind = "EVENT"
    BY <1>3 DEF ReceiveEvent, Read, WireReceive, KeepWaiting, Taken
  <2>2. slots' = slots \/ \E s : slots' = [slots EXCEPT ![s].sample = Frame.stamp]
    BY <1>3 DEF ReceiveEvent
  <2>3. \A i \in SlotIndex : slots'[i].key = slots[i].key /\ slots'[i].since = slots[i].since
    <3>1. slots \in [SlotIndex -> [key : Keys \cup {NoKey}, sample : Stamps, since : Stamps]]
      BY DEF TypeOK, SessionTypeOK
    <3>. QED
      BY <2>2, <3>1
  <2>. QED
    BY <2>1, <2>3 DEF Waits
<1>4. CASE ReceiveLegacyEvent
  BY <1>4 DEF ReceiveLegacyEvent, Read, WireReceive, KeepWaiting, Waits, Taken
<1>5. CASE ReceiveError
  <2>1. Taken /\ Frame.kind = "ERROR" /\ Frame.id = call.id
    BY <1>5 DEF ReceiveError, Read, WireReceive, Taken
  <2>2. call.begin \in BOOLEAN
    BY CallFields
  <2>3. call' = Idle /\ Failed' /\ Settle(call)
    BY <1>5 DEF ReceiveError, Fail, Report, Failed
  <2>4. ~ready' \/ (UNCHANGED session /\ ~call.begin)
    BY <2>2, <2>3, SettledSession
  <2>. QED
    BY <2>1, <2>3, <2>4 DEF Fails
<1>6. CASE ReceiveMismatch
  BY <1>6, FatalFailures DEF ReceiveMismatch, Read, WireReceive, Fails, Taken
<1>7. CASE ReceiveInit
  <2>1. Taken /\ Frame.kind = "REPLY" /\ Frame.id = call.id /\ call.phase = "init"
        /\ Frame.command = call.request.command
    BY <1>7 DEF ReceiveInit, Answered, Read, WireReceive, Taken, ExpectedCommand
  <2>2. CASE Fail(call, "INCOMPATIBLE_PROTOCOL", "NONE")
    BY <2>1, <2>2, FatalFailures DEF Fails
  <2>3. CASE call' = [call EXCEPT !.phase = "ready"] /\ UNCHANGED <<ready, error>>
    <3>1. call.request.command = "INIT"
      BY <2>1, NotInit DEF CallInv
    <3>. QED
      BY <2>1, <2>3, <3>1 DEF TakesInit
  <2>. QED
    BY <1>7, <2>2, <2>3 DEF ReceiveInit
<1>8. CASE ReceiveReady
  BY <1>8 DEF ReceiveReady, Answered, Read, WireReceive, Taken, ExpectedCommand, TakesReady
<1>9. CASE Acking
  BY <1>9 DEF Acking, ReceiveHeartbeatAck, ReceiveSubscriptionAck, ReceiveLegacyAck, ReceiveOtherAck,
       Answered, Read, WireReceive, Taken, ExpectedCommand, Succeed, TakesAck
<1>10. CASE ReceiveGarbage
  BY <1>10, FatalFailures DEF ReceiveGarbage, Read, WireReceive, Fails, Taken
<1>11. CASE ReceiveFails
  BY <1>11, FatalFailures DEF ReceiveFails, WireReceiveFails, WireReceive, Fails, Taken
<1>12. CASE Timeout
  BY <1>12, FatalFailures DEF Timeout, wireVars, Fails
<1>. QED
  BY <1>2, <1>3, <1>4, <1>5, <1>6, <1>7, <1>8, <1>9, <1>10, <1>11, <1>12 DEF Receive, Acking

\* A step is a call or a read of the library, a restart, or a step of the controller.
LEMMA StepShape ==
  ASSUME TypeOK, TableInv, CallInv, [Next]_vars
  PROVE  \/ UNCHANGED controllerVars /\ Local
         \/ UNCHANGED controllerVars /\ \E c : Issues(c)
         \/ /\ UNCHANGED controllerVars /\ Waiting /\ UNCHANGED <<toController, issued, nextId>>
            /\ Waits \/ Fails \/ TakesInit \/ TakesReady \/ TakesAck
         \/ UNCHANGED controllerVars /\ Restart /\ CanRestart
         \/ UNCHANGED clientVars /\ (Serving \/ EmitEvent \/ Expire \/ Reboot)
         \/ UNCHANGED vars
<1>1. CASE Client /\ (SketchCalls \/ Configure)
  BY <1>1, SendShape DEF Client
<1>2. CASE Client /\ Receive
  BY <1>2, ReceiveShape DEF Client
<1>3. CASE Client /\ CanRestart /\ Restart
  BY <1>3 DEF Client
<1>4. CASE Controller
  BY <1>4 DEF Controller, ControllerNext, Serving
<1>. QED
  BY <1>1, <1>2, <1>3, <1>4 DEF Next, Client

----------------------------------------------------------------------------
(* The answers come in order *)

\* The answers in the queue are those that were there, d places further on.
Shifted(d) == \A i \in Answers' : i + d \in Answers /\ toClient'[i] = toClient[i + d]

\* The queue to the library is left alone.
LEMMA ShiftedByNone ==
  ASSUME UNCHANGED toClient
  PROVE  Shifted(0)
<1>1. \A i \in Answers' : i \in Int /\ i \in Answers
  BY SameAnswers DEF Answers
<1>. QED
  BY <1>1 DEF Shifted

\* A read takes its first frame.
LEMMA ShiftedByRead ==
  ASSUME TypeOK, Taken
  PROVE  Shifted(1)
<1>1. /\ Answers' = {i \in 1 .. Len(toClient) - 1 : i + 1 \in Answers}
      /\ Len(toClient') = Len(toClient) - 1
      /\ \A i \in 1 .. Len(toClient') : toClient'[i] = toClient[i + 1]
  BY AfterRead DEF Taken
<1>. QED
  BY <1>1 DEF Shifted

\* An event joins it, the replies stay where they are.
LEMMA ShiftedByEvent ==
  ASSUME TypeOK, EmitEvent
  PROVE  Shifted(0) /\ \E sub \in subs : toClient' = Append(toClient, EventOf(sub))
<1>1. PICK sub \in subs : toClient' = Append(toClient, EventOf(sub))
  BY DEF EmitEvent
<1>2. EventOf(sub).kind \notin {"REPLY", "ERROR"}
  BY EventKind
<1>. DEFINE n == Len(toClient)
<1>3. /\ n \in Nat /\ Len(toClient') = n + 1
      /\ \A i \in 1 .. n : toClient'[i] = toClient[i]
      /\ toClient'[n + 1] = EventOf(sub)
  BY <1>1, QueueTypes
<1>4. \A i \in Answers' : i \in 1 .. n /\ i + 0 = i
  BY <1>2, <1>3 DEF Answers
<1>5. \A i \in Answers' : i + 0 \in Answers /\ toClient'[i] = toClient[i + 0]
  BY <1>3, <1>4 DEF Answers
<1>. QED
  BY <1>1, <1>5 DEF Shifted

\* A reboot of the controller empties it.
LEMMA ShiftedByReboot ==
  ASSUME toClient' = <<>>
  PROVE  Answers' = {} /\ Shifted(0)
BY DEF Answers, Shifted

\* No frame has come that was not there, and no command that is not the newest.
LEMMA KeptAnswersInOrder ==
  ASSUME TypeOK, TypeOK', AnswersInOrder, NEW d \in {0, 1}, Shifted(d),
         issued' >= issued, Done' = Done,
         \A j \in 1 .. Len(toController') :
           \/ \E k \in 1 .. Len(toController) : toController'[j].serial = toController[k].serial
           \/ toController'[j].serial > issued
  PROVE  AnswersInOrder'
<1>1. /\ \A i \in Answers : i \in Int /\ toClient[i].serial \in Nat
      /\ \A j \in 1 .. Len(toController') : toController'[j].serial \in Nat
      /\ issued \in Nat /\ issued' \in Nat
  <2>1. \A i \in Answers : i \in Int /\ toClient[i].serial \in Nat
    BY Numbers DEF Answers
  <2>2. /\ \A i \in 1 .. Len(toController') : toController'[i].serial \in Nat
        /\ issued' \in Nat
    BY NumbersNext
  <2>. QED
    BY <2>1, <2>2, Numbers
<1>2. \A i \in Answers' : i \in Int /\ i + d \in Answers /\ toClient'[i] = toClient[i + d]
  BY DEF Shifted, Answers
<1>3. ASSUME NEW i \in Answers', NEW j \in Answers', i < j
      PROVE  \/ toClient'[i].serial < toClient'[j].serial
             \/ /\ toClient'[i].serial = toClient'[j].serial
                /\ toClient'[i].command = "INIT" /\ toClient'[j].command = "READY"
  <2>1. i + d < j + d
    BY <1>2, <1>3
  <2>. QED
    BY <1>2, <2>1, <1>3 DEF AnswersInOrder
<1>4. ASSUME NEW i \in Answers', NEW j \in 1 .. Len(toController')
      PROVE  toClient'[i].serial < toController'[j].serial
  <2>1. i + d \in Answers /\ toClient'[i] = toClient[i + d] /\ toClient[i + d].serial <= issued
    BY <1>2 DEF AnswersInOrder
  <2>2. CASE \E k \in 1 .. Len(toController) : toController'[j].serial = toController[k].serial
    BY <2>1, <2>2 DEF AnswersInOrder
  <2>3. CASE toController'[j].serial > issued
    BY <1>1, <2>1, <2>3
  <2>. QED
    BY <2>2, <2>3
<1>5. ASSUME NEW i \in Answers'
      PROVE  toClient'[i].serial <= issued' /\ (toClient'[i].kind = "REPLY" => toClient'[i].serial \in Done')
  <2>1. i + d \in Answers /\ toClient'[i] = toClient[i + d] /\ toClient[i + d].serial <= issued
    BY <1>2 DEF AnswersInOrder
  <2>. QED
    BY <1>1, <2>1 DEF AnswersInOrder
<1>. QED
  BY <1>3, <1>4, <1>5 DEF AnswersInOrder

\* Serving a command moves its number from one queue to the other.
LEMMA ServedAnswersInOrder ==
  ASSUME TypeOK, TypeOK', AnswersInOrder, InOrder, Serving, UNCHANGED issued
  PROVE  AnswersInOrder'
<1>1. PICK frames \in Seq(ReplyFrames) : AnsweredWith(frames)
  BY ServeShape
<1>2. toController # <<>> /\ toController' = Tail(toController)
      /\ (UNCHANGED executed \/ executed' = Append(executed, Command.serial))
  BY <1>1 DEF AnsweredWith, Answer
<1>3. /\ Len(toController) \in Nat /\ Len(toController) >= 1
      /\ Len(toController') = Len(toController) - 1
      /\ \A j \in 1 .. Len(toController') : toController'[j] = toController[j + 1]
      /\ Command = toController[1]
  BY <1>2, AfterServe
<1>4. /\ Command.serial \in Nat /\ Command.serial <= issued /\ issued \in Nat
      /\ \A i \in Answers : toClient[i].serial \in Nat /\ toClient[i].serial < Command.serial
      /\ \A j \in 1 .. Len(toController') :
           j + 1 \in 1 .. Len(toController) /\ Command.serial < toController'[j].serial
  <2>1. 1 \in 1 .. Len(toController) /\ \A j \in 1 .. Len(toController') : j + 1 \in 1 .. Len(toController) /\ 1 < j + 1
    BY <1>3
  <2>. QED
    BY <1>3, <2>1, Numbers DEF InOrder, AnswersInOrder
<1>5. Done \subseteq Done' /\ (executed' = Append(executed, Command.serial) => Command.serial \in Done')
  BY <1>2, DoneGrows, SameDone
<1>6. /\ \A i \in Answers : i \in 1 .. Len(toClient) /\ i \in Answers' /\ toClient'[i] = toClient[i]
      /\ \A i \in Answers' :
           \/ i \in Answers
           \/ /\ i > Len(toClient)
              /\ toClient'[i].serial = Command.serial
              /\ toClient'[i].kind = "REPLY" => executed' = Append(executed, Command.serial)
      /\ \A i, j \in Answers' : i > Len(toClient) /\ i < j =>
           toClient'[i].command = "INIT" /\ toClient'[j].command = "READY"
      /\ Len(toClient) \in Nat
  BY <1>1, AnswersAfterServe
<1>7. ASSUME NEW i \in Answers', NEW j \in Answers', i < j
      PROVE  \/ toClient'[i].serial < toClient'[j].serial
             \/ /\ toClient'[i].serial = toClient'[j].serial
                /\ toClient'[i].command = "INIT" /\ toClient'[j].command = "READY"
  <2>0. i \in Int /\ j \in Int
    BY DEF Answers
  <2>1. CASE i \in Answers /\ j \in Answers
    BY <1>6, <1>7, <2>1 DEF AnswersInOrder
  <2>2. CASE i \in Answers /\ j \notin Answers
    BY <1>4, <1>6, <2>2
  <2>3. CASE i \notin Answers /\ j \in Answers
    BY <1>6, <1>7, <2>0, <2>3
  <2>4. CASE i \notin Answers /\ j \notin Answers
    BY <1>6, <1>7, <2>4
  <2>. QED
    BY <2>1, <2>2, <2>3, <2>4
<1>8. ASSUME NEW i \in Answers', NEW j \in 1 .. Len(toController')
      PROVE  toClient'[i].serial < toController'[j].serial
  <2>1. toClient'[i].serial \in Nat /\ toClient'[i].serial <= Command.serial
    <3>1. CASE i \in Answers
      BY <1>4, <1>6, <3>1
    <3>2. CASE i \notin Answers
      BY <1>4, <1>6, <3>2
    <3>. QED
      BY <3>1, <3>2
  <2>2. toController'[j].serial \in Nat
    BY <1>3, <1>4, Numbers
  <2>. QED
    BY <1>4, <2>1, <2>2
<1>9. ASSUME NEW i \in Answers'
      PROVE  toClient'[i].serial <= issued' /\ (toClient'[i].kind = "REPLY" => toClient'[i].serial \in Done')
  BY <1>4, <1>5, <1>6 DEF AnswersInOrder
<1>. QED
  BY <1>7, <1>8, <1>9 DEF AnswersInOrder

\* No step disturbs the order of the answers.
LEMMA StepAnswers ==
  ASSUME TypeOK, TypeOK', TableInv, CallInv, AnswersInOrder, InOrder, [Next]_vars
  PROVE  AnswersInOrder'
<1>0. issued \in Nat
  BY Numbers
<1>1. ASSUME UNCHANGED <<toController, issued, executed>>, NEW d \in {0, 1}, Shifted(d)
      PROVE  AnswersInOrder'
  BY <1>0, <1>1, KeptAnswersInOrder, SameDone
<1>2. CASE UNCHANGED controllerVars /\ Local
  BY <1>1, <1>2, ShiftedByNone DEF Local, wireVars, controllerVars
<1>3. ASSUME NEW c, Issues(c), UNCHANGED controllerVars
      PROVE  AnswersInOrder'
  <2>1. /\ UNCHANGED <<toClient, executed>> /\ issued' = issued + 1 /\ FrameOf(c).serial = issued + 1
        /\ UNCHANGED toController \/ toController' = Append(toController, FrameOf(c))
    BY <1>3 DEF Issues, FrameOf, controllerVars
  <2>2. \A j \in 1 .. Len(toController') :
          \/ \E k \in 1 .. Len(toController) : toController'[j].serial = toController[k].serial
          \/ toController'[j].serial > issued
    <3>1. CASE UNCHANGED toController
      BY <3>1
    <3>2. CASE toController' = Append(toController, FrameOf(c))
      BY <1>0, <2>1, <3>2, AfterSend
    <3>. QED
      BY <2>1, <3>1, <3>2
  <2>. QED
    BY <1>0, <2>1, <2>2, ShiftedByNone, SameDone, KeptAnswersInOrder
<1>4. CASE /\ UNCHANGED controllerVars /\ UNCHANGED <<toController, issued, nextId>>
           /\ Waits \/ Fails \/ TakesInit \/ TakesReady \/ TakesAck
  <2>1. Taken \/ UNCHANGED toClient
    BY <1>4 DEF Waits, Fails, TakesInit, TakesReady, TakesAck
  <2>. QED
    BY <1>1, <1>4, <2>1, ShiftedByNone, ShiftedByRead DEF controllerVars
<1>5. CASE UNCHANGED controllerVars /\ Restart
  BY <1>1, <1>5, ShiftedByNone DEF Restart, wireVars, controllerVars
<1>6. CASE UNCHANGED clientVars /\ Serving
  BY <1>6, ServedAnswersInOrder DEF clientVars
<1>7. CASE UNCHANGED clientVars /\ EmitEvent
  BY <1>1, <1>7, ShiftedByEvent DEF clientVars, EmitEvent, controllerVars
<1>8. CASE UNCHANGED clientVars /\ Expire
  BY <1>1, <1>8, ShiftedByNone DEF clientVars, Expire, wireVars
<1>9. CASE UNCHANGED clientVars /\ Reboot
  <2>1. toClient' = <<>> /\ toController' = <<>> /\ Answers' = {}
    BY <1>9, ShiftedByReboot DEF Reboot
  <2>. QED
    BY <2>1 DEF AnswersInOrder
<1>10. CASE UNCHANGED vars
  BY <1>1, <1>10, ShiftedByNone DEF vars, wireVars, clientVars, controllerVars
<1>. QED
  BY <1>2, <1>3, <1>4, <1>5, <1>6, <1>7, <1>8, <1>9, <1>10, StepShape

----------------------------------------------------------------------------
(* The call in progress *)

\* The reply to the call that waits is the reply to no other.
LEMMA ReplyIsOwn ==
  ASSUME TypeOK, OwnFrames, AnswersInOrder, Waiting, Taken,
         Frame.kind \in {"REPLY", "ERROR"}, Frame.id = call.id
  PROVE  /\ 1 \in Answers /\ Frame = toClient[1] /\ toClient[1].serial = call.serial
         /\ Frame.kind = "REPLY" => call.serial \in Done
<1>1. 1 \in Answers /\ Frame = toClient[1]
  BY AfterRead DEF Taken
<1>. QED
  BY <1>1 DEF OwnFrames, AnswersInOrder

\* Between two calls there is nothing to know of one.
LEMMA IdleCall ==
  ASSUME call' = Idle
  PROVE  CallInv'
BY DEF CallInv, Idle

\* No step disturbs what is known of the call in progress.
LEMMA StepCall ==
  ASSUME TypeOK, TypeOK', TableInv, CallInv, OwnFrames, AnswersInOrder, [Next]_vars
  PROVE  CallInv'
<1>1. ASSUME UNCHANGED <<call, error, ready, issued>>, Done \subseteq Done',
             \A i \in SlotIndex : slots'[i].key = slots[i].key
      PROVE  CallInv'
  <2>1. call.slot # 0 => call.slot \in SlotIndex
    BY CallFields
  <2>. QED
    BY <1>1, <2>1 DEF CallInv
<1>2. UNCHANGED controllerVars => Done' = Done
  BY SameDone DEF controllerVars
<1>3. CASE UNCHANGED controllerVars /\ Local
  BY <1>3, IdleCall DEF Local
<1>4. ASSUME NEW c, Issues(c)
      PROVE  CallInv'
  <2>1. CASE call' = Idle
    BY <2>1, IdleCall
  <2>2. CASE /\ call' = c /\ error' = NoError
             /\ c.phase = "reply" => UNCHANGED session
    <3>1. c.phase = "reply" => UNCHANGED <<slots, ready>>
      BY <2>2 DEF session
    <3>2. c.phase \in {"init", "reply"} /\ c.serial = issued'
      BY <1>4 DEF Issues
    <3>3. c.phase = "init" => ~ready' /\ c.request = Begin0
      BY <1>4 DEF Issues
    <3>4. c.phase = "reply" => /\ c.request.command # "INIT"
                               /\ c.request.command = "UNSUBSCRIBE" /\ c.slot # 0 =>
                                    slots[c.slot].key = Key(c.request)
      BY <1>4 DEF Issues
    <3>. QED
      BY <2>2, <3>1, <3>2, <3>3, <3>4 DEF CallInv
  <2>. QED
    BY <1>4, <2>1, <2>2 DEF Issues
<1>5. CASE /\ UNCHANGED controllerVars /\ Waiting /\ UNCHANGED <<toController, issued, nextId>>
           /\ Waits \/ Fails \/ TakesInit \/ TakesReady \/ TakesAck
  <2>1. CASE Waits
    BY <1>1, <1>2, <1>5, <2>1 DEF Waits
  <2>2. CASE Fails \/ TakesAck
    BY <2>2, IdleCall DEF Fails, TakesAck
  <2>3. CASE TakesInit
    <3>1. call.serial \in Done
      BY <1>5, <2>3, ReplyIsOwn DEF TakesInit
    <3>2. call # Idle
      BY <2>3 DEF TakesInit, Idle
    <3>3. /\ call'.phase = "ready" /\ call'.request = call.request
          /\ call'.serial = call.serial
      BY <2>3 DEF TakesInit, TypeOK, CallTypeOK, Call
    <3>4. call'.phase = "ready" /\ call'.request = Begin0 /\ call'.serial = issued' /\ error' = NoError
          /\ ~ready' /\ call'.serial \in Done'
      BY <1>2, <1>5, <2>3, <3>1, <3>2, <3>3 DEF TakesInit, CallInv
    <3>. QED
      BY <3>4 DEF CallInv
  <2>4. CASE TakesReady
    <3>1. CASE call' = Idle
      BY <3>1, IdleCall
    <3>2. CASE call' = [call EXCEPT !.phase = "configure"]
      <4>1. /\ call'.phase = "configure" /\ call'.request = call.request
            /\ call'.serial = call.serial
        BY <3>2 DEF TypeOK, CallTypeOK, Call
      <4>2. call # Idle
        BY <2>4 DEF TakesReady, Idle
      <4>3. call'.request = Begin0 /\ call'.serial = issued' /\ error' = NoError
            /\ call'.serial \in Done'
        BY <1>2, <1>5, <2>4, <4>1, <4>2 DEF TakesReady, CallInv
      <4>. QED
        BY <4>1, <4>3 DEF CallInv
    <3>. QED
      BY <2>4, <3>1, <3>2 DEF TakesReady
  <2>. QED
    BY <1>5, <2>1, <2>2, <2>3, <2>4
<1>6. CASE Restart
  BY <1>6, IdleCall DEF Restart
<1>7. CASE UNCHANGED clientVars /\ Serving
  <2>1. UNCHANGED executed \/ executed' = Append(executed, Command.serial)
    BY <1>7, ServeShape DEF AnsweredWith
  <2>2. Done \subseteq Done'
    BY <2>1, DoneGrows, SameDone
  <2>. QED
    BY <1>1, <1>7, <2>2 DEF clientVars, session
<1>8. CASE UNCHANGED clientVars /\ (EmitEvent \/ Expire \/ Reboot)
  BY <1>1, <1>8, SameDone DEF clientVars, session, EmitEvent, Expire, Reboot, controllerVars
<1>9. CASE UNCHANGED vars
  BY <1>1, <1>2, <1>9 DEF vars, clientVars, session
<1>. QED
  BY <1>3, <1>4, <1>5, <1>6, <1>7, <1>8, <1>9, StepShape

----------------------------------------------------------------------------
(* The frames of the call in progress *)

\* No frame carries the number of no call.
LEMMA IdleOwnsNothing ==
  ASSUME TypeOK', call' = Idle
  PROVE  OwnFrames'
<1>1. ~Waiting' /\ call'.serial = 0
  BY DEF Idle, Waiting
<1>. QED
  BY <1>1, NumbersNext DEF OwnFrames

\* What is true of the frames that were there is true of them still.
LEMMA KeptOwnFrames ==
  ASSUME OwnFrames, NEW d \in {0, 1}, Shifted(d),
         call'.id = call.id, call'.serial = call.serial, call'.request = call.request,
         Waiting' => Waiting,
         \A j \in 1 .. Len(toController') :
           \E k \in 1 .. Len(toController) : toController'[j] = toController[k]
  PROVE  OwnFrames'
<1>1. ASSUME NEW j \in 1 .. Len(toController')
      PROVE  /\ toController'[j].serial = call'.serial =>
                  toController'[j].id = call'.id /\ toController'[j].request = call'.request
             /\ Waiting' /\ toController'[j].id = call'.id => toController'[j].serial = call'.serial
  BY DEF OwnFrames
<1>2. ASSUME NEW i \in Answers'
      PROVE  /\ toClient'[i].serial = call'.serial =>
                  /\ toClient'[i].id = call'.id
                  /\ \/ toClient'[i].command = call'.request.command
                     \/ toClient'[i].command = "READY" /\ call'.request = Begin0
             /\ Waiting' /\ toClient'[i].id = call'.id => toClient'[i].serial = call'.serial
  <2>1. i + d \in Answers /\ toClient'[i] = toClient[i + d]
    BY DEF Shifted
  <2>. QED
    BY <2>1 DEF OwnFrames
<1>. QED
  BY <1>1, <1>2 DEF OwnFrames

\* The only INIT is begin()'s.
LEMMA InitIsBegin ==
  ASSUME NEW r \in AnyRequest, r.command = "INIT"
  PROVE  r = Begin0
BY NotInit DEF AnyRequest, Own

\* Serving the call's command answers it with its ID.
LEMMA ServedOwnFrames ==
  ASSUME TypeOK, OwnFrames, Serving, UNCHANGED call
  PROVE  OwnFrames'
<1>1. PICK frames \in Seq(ReplyFrames) : AnsweredWith(frames)
  BY ServeShape
<1>2. toController # <<>> /\ toController' = Tail(toController)
  BY <1>1 DEF AnsweredWith, Answer
<1>3. /\ Len(toController) \in Nat /\ Len(toController) >= 1
      /\ Len(toController') = Len(toController) - 1
      /\ \A j \in 1 .. Len(toController') : toController'[j] = toController[j + 1]
      /\ Command = toController[1]
  BY <1>2, AfterServe
<1>4. /\ \A j \in 1 .. Len(toController') : j + 1 \in 1 .. Len(toController)
      /\ 1 \in 1 .. Len(toController)
  BY <1>3
<1>5. /\ Command.request \in AnyRequest /\ Command.request.command = Command.command
      /\ Command.serial = call.serial => Command.id = call.id /\ Command.request = call.request
      /\ Waiting /\ Command.id = call.id => Command.serial = call.serial
  BY <1>2, <1>3, <1>4, CommandType DEF OwnFrames
<1>6. \A i \in Answers' :
        \/ i \in Answers /\ toClient'[i] = toClient[i]
        \/ /\ toClient'[i].serial = Command.serial /\ toClient'[i].id = Command.id
           /\ \/ toClient'[i].command = Command.command
              \/ toClient'[i].command = "READY" /\ Command.command = "INIT"
  BY <1>1, AnswersAfterServe
<1>7. Waiting' = Waiting
  BY DEF Waiting
<1>8. ASSUME NEW i \in Answers'
      PROVE  /\ toClient'[i].serial = call'.serial =>
                  /\ toClient'[i].id = call'.id
                  /\ \/ toClient'[i].command = call'.request.command
                     \/ toClient'[i].command = "READY" /\ call'.request = Begin0
             /\ Waiting' /\ toClient'[i].id = call'.id => toClient'[i].serial = call'.serial
  <2>1. CASE i \in Answers /\ toClient'[i] = toClient[i]
    BY <1>7, <2>1 DEF OwnFrames
  <2>2. CASE /\ toClient'[i].serial = Command.serial /\ toClient'[i].id = Command.id
             /\ \/ toClient'[i].command = Command.command
                \/ toClient'[i].command = "READY" /\ Command.command = "INIT"
    BY <1>5, <1>7, <2>2, InitIsBegin
  <2>. QED
    BY <1>6, <2>1, <2>2
<1>9. ASSUME NEW j \in 1 .. Len(toController')
      PROVE  /\ toController'[j].serial = call'.serial =>
                  toController'[j].id = call'.id /\ toController'[j].request = call'.request
             /\ Waiting' /\ toController'[j].id = call'.id => toController'[j].serial = call'.serial
  BY <1>3, <1>4, <1>7 DEF OwnFrames
<1>. QED
  BY <1>8, <1>9 DEF OwnFrames

\* A call that is numbered finds its number and its ID nowhere on the way.
LEMMA IssuedOwnFrames ==
  ASSUME TypeOK, TypeOK', AnswersInOrder, InOrder, FreshIds, NEW c, Issues(c)
  PROVE  OwnFrames'
<1>1. CASE call' = Idle
  BY <1>1, IdleOwnsNothing
<1>2. CASE call' = c /\ toController' = Append(toController, FrameOf(c))
  <2>1. /\ issued \in Nat /\ issued' = issued + 1 /\ UNCHANGED toClient
        /\ c.serial = issued + 1 /\ c.id = nextId /\ ~Outstanding(nextId)
    BY Numbers DEF Issues, FreshIds
  <2>2. /\ FrameOf(c).id = c.id /\ FrameOf(c).serial = c.serial /\ FrameOf(c).request = c.request
    BY DEF FrameOf
  <2>3. \A j \in 1 .. Len(toController) : toController[j].serial # c.serial /\ toController[j].id # c.id
    BY <2>1, Numbers DEF Outstanding, InOrder
  <2>4. \A i \in Answers : toClient[i].serial # c.serial /\ toClient[i].id # c.id
    BY <2>1, Numbers DEF Outstanding, AnswersInOrder, Answers
  <2>5. \A j \in 1 .. Len(toController') :
          (j \in 1 .. Len(toController) /\ toController'[j] = toController[j])
          \/ toController'[j] = FrameOf(c)
    BY <1>2, AfterSend
  <2>6. Answers' = Answers
    BY <2>1, SameAnswers
  <2>. QED
    BY <1>2, <2>1, <2>2, <2>3, <2>4, <2>5, <2>6 DEF OwnFrames
<1>. QED
  BY <1>1, <1>2 DEF Issues

\* No step puts the ID of the call on another frame, given FreshIds.
LEMMA StepOwnFrames ==
  ASSUME TypeOK, TypeOK', TableInv, CallInv, AnswersInOrder, InOrder, OwnFrames,
         [Next]_vars, FreshIds
  PROVE  OwnFrames'
<1>1. ASSUME UNCHANGED <<call, toController>>, NEW d \in {0, 1}, Shifted(d)
      PROVE  OwnFrames'
  BY <1>1, KeptOwnFrames DEF Waiting
<1>2. CASE UNCHANGED controllerVars /\ Local
  BY <1>1, <1>2, ShiftedByNone DEF Local, wireVars
<1>3. ASSUME NEW c, Issues(c)
      PROVE  OwnFrames'
  BY <1>3, IssuedOwnFrames
<1>4. CASE /\ UNCHANGED controllerVars /\ Waiting /\ UNCHANGED <<toController, issued, nextId>>
           /\ Waits \/ Fails \/ TakesInit \/ TakesReady \/ TakesAck
  <2>1. CASE call' = Idle
    BY <2>1, IdleOwnsNothing
  <2>2. CASE Waits
    BY <1>1, <1>4, <2>2, ShiftedByRead DEF Waits
  <2>3. ASSUME NEW p, call' = [call EXCEPT !.phase = p], Taken
        PROVE  OwnFrames'
    <3>1. call'.id = call.id /\ call'.serial = call.serial /\ call'.request = call.request
      BY <2>3 DEF TypeOK, CallTypeOK, Call
    <3>. QED
      BY <1>4, <2>3, <3>1, ShiftedByRead, KeptOwnFrames
  <2>. QED
    BY <1>4, <2>1, <2>2, <2>3 DEF Fails, TakesInit, TakesReady, TakesAck
<1>5. CASE Restart
  BY <1>5, IdleOwnsNothing DEF Restart
<1>6. CASE UNCHANGED clientVars /\ Serving
  BY <1>6, ServedOwnFrames DEF clientVars
<1>7. CASE UNCHANGED clientVars /\ EmitEvent
  BY <1>1, <1>7, ShiftedByEvent DEF clientVars, EmitEvent
<1>8. CASE UNCHANGED clientVars /\ Expire
  BY <1>1, <1>8, ShiftedByNone DEF clientVars, Expire, wireVars
<1>9. CASE UNCHANGED clientVars /\ Reboot
  <2>1. toController' = <<>> /\ Answers' = {}
    BY <1>9, ShiftedByReboot DEF Reboot
  <2>. QED
    BY <2>1 DEF OwnFrames
<1>10. CASE UNCHANGED vars
  BY <1>1, <1>10, ShiftedByNone DEF vars, wireVars, clientVars
<1>. QED
  BY <1>2, <1>3, <1>4, <1>5, <1>6, <1>7, <1>8, <1>9, <1>10, StepShape

\* No step puts a frame behind READY.
LEMMA StepReady ==
  ASSUME TypeOK, TypeOK', TableInv, CallInv, AnswersInOrder, InOrder, ReadyIsLast,
         [Next]_vars
  PROVE  ReadyIsLast'
<1>1. ASSUME call'.phase \notin {"init", "ready"}
      PROVE  ReadyIsLast'
  BY <1>1 DEF ReadyIsLast
<1>2. ASSUME UNCHANGED <<call, toClient>>,
             UNCHANGED <<subs, watchdog>> \/ (subs' = {} /\ ~watchdog')
      PROVE  ReadyIsLast'
  BY <1>2, SameAnswers DEF ReadyIsLast
<1>3. CASE UNCHANGED controllerVars /\ Local
  BY <1>2, <1>3 DEF Local, wireVars, controllerVars
<1>4. ASSUME NEW c, Issues(c)
      PROVE  ReadyIsLast'
  <2>1. CASE call' = Idle
    BY <1>1, <2>1 DEF Idle
  <2>2. CASE call' = c
    <3>1. c.serial = issued + 1 /\ UNCHANGED toClient /\ issued \in Nat
      BY <1>4, Numbers DEF Issues
    <3>2. \A i \in Answers' : toClient'[i].serial # c.serial
      BY <3>1, SameAnswers, Numbers DEF AnswersInOrder
    <3>. QED
      BY <2>2, <3>2 DEF ReadyIsLast
  <2>. QED
    BY <1>4, <2>1, <2>2 DEF Issues
<1>5. ASSUME Taken, UNCHANGED controllerVars, call'.serial = call.serial,
             call'.phase \in {"init", "ready"} => call.phase \in {"init", "ready"}
      PROVE  ReadyIsLast'
  <2>1. /\ Len(toClient) \in Nat /\ Len(toClient') = Len(toClient) - 1
        /\ \A i \in Answers' : i \in Int /\ i + 1 \in Answers /\ toClient'[i] = toClient[i + 1]
    BY <1>5, AfterRead, ShiftedByRead DEF Taken, Shifted, Answers
  <2>2. UNCHANGED <<subs, watchdog>>
    BY <1>5 DEF controllerVars
  <2>3. ASSUME NEW i \in Answers', call'.phase \in {"init", "ready"},
               toClient'[i].serial = call'.serial, toClient'[i].command = "READY"
        PROVE  i = Len(toClient') /\ subs' = {} /\ ~watchdog'
    <3>1. i + 1 = Len(toClient) /\ subs = {} /\ ~watchdog
      BY <1>5, <2>1, <2>3 DEF ReadyIsLast
    <3>. QED
      BY <2>1, <2>2, <3>1
  <2>. QED
    BY <2>3 DEF ReadyIsLast
<1>6. CASE /\ UNCHANGED controllerVars /\ Waiting /\ UNCHANGED <<toController, issued, nextId>>
           /\ Waits \/ Fails \/ TakesInit \/ TakesReady \/ TakesAck
  <2>1. CASE Waits
    BY <1>5, <1>6, <2>1 DEF Waits
  <2>2. CASE call' = Idle
    BY <1>1, <2>2 DEF Idle
  <2>3. CASE TakesInit
    <3>1. call'.serial = call.serial /\ call.phase = "init"
      BY <2>3 DEF TakesInit, TypeOK, CallTypeOK, Call
    <3>. QED
      BY <1>5, <1>6, <2>3, <3>1 DEF TakesInit
  <2>4. CASE call' = [call EXCEPT !.phase = "configure"]
    BY <1>1, <2>4, CallShape
  <2>. QED
    BY <1>6, <2>1, <2>2, <2>3, <2>4 DEF Fails, TakesAck, TakesReady
<1>7. CASE Restart
  BY <1>1, <1>7 DEF Restart, Idle
<1>8. CASE UNCHANGED clientVars /\ Serving
  <2>1. PICK frames \in Seq(ReplyFrames) : AnsweredWith(frames)
    BY <1>8, ServeShape
  <2>2. toController # <<>> /\ Command = toController[1] /\ 1 \in 1 .. Len(toController)
    BY <2>1, AfterServe DEF AnsweredWith, Answer
  <2>3. UNCHANGED call
    BY <1>8 DEF clientVars
  <2>4. ASSUME NEW i \in Answers', call'.phase \in {"init", "ready"},
               toClient'[i].serial = call'.serial, toClient'[i].command = "READY"
        PROVE  i = Len(toClient') /\ subs' = {} /\ ~watchdog'
    <3>1. CASE i \in Answers
      <4>1. toClient[i].serial = issued
        BY <2>1, <2>3, <2>4, <3>1, AnswersAfterServe DEF CallInv, Idle
      <4>2. toClient[i].serial < toController[1].serial /\ toController[1].serial <= issued
        BY <2>2, <3>1 DEF AnswersInOrder, InOrder
      <4>. QED
        BY <2>2, <4>1, <4>2, Numbers
    <3>2. CASE i \notin Answers
      BY <2>1, <2>4, <3>2, AnswersAfterServe
    <3>. QED
      BY <3>1, <3>2
  <2>. QED
    BY <2>4 DEF ReadyIsLast
<1>9. CASE UNCHANGED clientVars /\ EmitEvent
  <2>1. subs # {} /\ UNCHANGED call
    BY <1>9 DEF EmitEvent, clientVars
  <2>2. \A i \in Answers' : i \in Answers /\ toClient'[i] = toClient[i]
    <3>1. \A i \in Answers' : i \in Int /\ i + 0 = i
      BY DEF Answers
    <3>. QED
      BY <1>9, <3>1, ShiftedByEvent DEF Shifted
  <2>. QED
    BY <2>1, <2>2 DEF ReadyIsLast
<1>10. CASE UNCHANGED clientVars /\ Expire
  BY <1>2, <1>10 DEF Expire, clientVars, wireVars
<1>11. CASE UNCHANGED clientVars /\ Reboot
  <2>1. Answers' = {}
    BY <1>11, ShiftedByReboot DEF Reboot
  <2>. QED
    BY <2>1 DEF ReadyIsLast
<1>12. CASE UNCHANGED vars
  BY <1>2, <1>12 DEF vars, clientVars, wireVars, controllerVars
<1>. QED
  BY <1>3, <1>4, <1>6, <1>7, <1>8, <1>9, <1>10, <1>11, <1>12, StepShape

----------------------------------------------------------------------------
(* A ready session is quiet but for its own call *)

\* When the answer to a request of a ready session is read, nothing else of
\* calls is on its way.
LEMMA OwnAnswerIsAlone ==
  ASSUME TypeOK, CallInv, OwnFrames, AnswersInOrder, Quiet, ready, Waiting, Taken,
         Frame.kind \in {"REPLY", "ERROR"}
  PROVE  /\ call.phase = "reply" /\ Frame.id = call.id
         /\ Answers = {1} /\ Frame = toClient[1] /\ toController = <<>>
<1>1. 1 \in Answers /\ Frame = toClient[1]
  BY AfterRead DEF Taken
<1>2. call.phase = "reply" /\ toClient[1].serial = call.serial
  BY <1>1 DEF Quiet
<1>3. toClient[1].id = call.id
  BY <1>1, <1>2 DEF OwnFrames
<1>4. call.request.command # "INIT" /\ call.request # Begin0
  BY <1>2, NotInit DEF CallInv
<1>5. ASSUME NEW i \in Answers
      PROVE  i = 1
  <2>1. i \in Nat /\ i >= 1 /\ toClient[i].serial = call.serial
    BY <1>5, QueueTypes DEF Quiet, Answers
  <2>2. toClient[1].command # "INIT"
    BY <1>1, <1>2, <1>4 DEF OwnFrames
  <2>3. ~(1 < i)
    BY <1>1, <1>2, <2>1, <2>2, Numbers DEF AnswersInOrder
  <2>. QED
    BY <2>1, <2>3
<1>6. Len(toController) = 0
  <2>1. ASSUME Len(toController) # 0
        PROVE  FALSE
    <3>1. 1 \in 1 .. Len(toController)
      BY <2>1, QueueTypes
    <3>2. toController[1].serial = call.serial /\ toClient[1].serial < toController[1].serial
      BY <1>1, <3>1 DEF Quiet, AnswersInOrder
    <3>. QED
      BY <1>1, <1>2, <3>2, Numbers
  <2>. QED
    BY <2>1
<1>. QED
  BY <1>1, <1>2, <1>3, <1>5, <1>6, QueueTypes

\* While a command waits to be served, its call has no answer yet.
LEMMA NothingAnswered ==
  ASSUME TypeOK, AnswersInOrder, OwnFrames, Quiet, ready, toController # <<>>
  PROVE  /\ Answers = {} /\ call.phase = "reply"
         /\ Command.serial = call.serial /\ Command.request = call.request
<1>1. 1 \in 1 .. Len(toController) /\ Command = toController[1]
  BY QueueTypes DEF Command
<1>2. call.phase = "reply" /\ Command.serial = call.serial /\ Command.request = call.request
  BY <1>1 DEF Quiet, OwnFrames
<1>3. ASSUME NEW i \in Answers
      PROVE  FALSE
  <2>1. toClient[i].serial = call.serial /\ toClient[i].serial < toController[1].serial
    BY <1>1 DEF Quiet, AnswersInOrder
  <2>. QED
    BY <1>1, <1>2, <2>1, Numbers
<1>. QED
  BY <1>2, <1>3

\* When READY is read, both queues are empty.
LEMMA ReadyIsAlone ==
  ASSUME TypeOK, CallInv, OwnFrames, AnswersInOrder, InOrder, ReadyIsLast, TakesReady
  PROVE  /\ toClient' = <<>> /\ toController = <<>> /\ subs = {} /\ ~watchdog
<1>1. /\ 1 \in Answers /\ Frame = toClient[1] /\ toClient[1].serial = call.serial
      /\ toClient[1].command = "READY"
  BY ReplyIsOwn DEF TakesReady, Waiting
<1>2. 1 = Len(toClient) /\ subs = {} /\ ~watchdog
  BY <1>1 DEF ReadyIsLast, TakesReady
<1>3. toClient' = <<>>
  BY <1>2, QueueTypes DEF TakesReady, Taken
<1>4. call.serial = issued
  BY DEF CallInv, TakesReady, Idle
<1>5. Len(toController) = 0
  <2>1. ASSUME Len(toController) # 0
        PROVE  FALSE
    <3>1. 1 \in 1 .. Len(toController)
      BY <2>1, QueueTypes
    <3>2. toClient[1].serial < toController[1].serial /\ toController[1].serial <= issued
      BY <1>1, <3>1 DEF AnswersInOrder, InOrder
    <3>. QED
      BY <1>1, <1>4, <3>1, <3>2, Numbers
  <2>. QED
    BY <2>1
<1>. QED
  BY <1>2, <1>3, <1>5, QueueTypes

\* Empty queues are quiet.
LEMMA EmptyIsQuiet ==
  ASSUME Answers' = {}, toController' = <<>>
  PROVE  Quiet'
BY DEF Quiet

\* A ready session that makes a call has nothing in its queues before it.
LEMMA QuietBeforeCall ==
  ASSUME TypeOK, Quiet, ready, call.phase # "reply"
  PROVE  Answers = {} /\ toController = <<>> /\ Len(toController) = 0
<1>1. Answers = {}
  BY DEF Quiet
<1>2. Len(toController) = 0
  BY QueueTypes DEF Quiet
<1>. QED
  BY <1>1, <1>2, QueueTypes

\* No step makes a ready session noisy.
LEMMA StepQuiet ==
  ASSUME TypeOK, TypeOK', TableInv, CallInv, AnswersInOrder, InOrder, OwnFrames, ReadyIsLast,
         Quiet, [Next]_vars
  PROVE  Quiet'
<1>1. ASSUME UNCHANGED <<ready, call, toController>>, NEW d \in {0, 1}, Shifted(d)
      PROVE  Quiet'
  BY <1>1 DEF Quiet, Shifted
<1>2. CASE UNCHANGED controllerVars /\ Local
  BY <1>1, <1>2, ShiftedByNone DEF Local, wireVars, session
<1>3. ASSUME NEW c, Issues(c), ready'
      PROVE  Quiet'
  <2>1. c.phase = "reply" /\ ready /\ call.phase # "reply" /\ UNCHANGED toClient
    BY <1>3 DEF Issues
  <2>2. Answers' = {} /\ toController = <<>> /\ Len(toController) = 0
    BY <2>1, QuietBeforeCall, SameAnswers
  <2>3. CASE UNCHANGED toController
    BY <2>2, <2>3, EmptyIsQuiet
  <2>4. CASE call' = c /\ toController' = Append(toController, FrameOf(c))
    <3>1. \A j \in 1 .. Len(toController') : toController'[j] = FrameOf(c)
      BY <2>2, <2>4, AfterSend
    <3>. QED
      BY <2>1, <2>2, <2>4, <3>1 DEF Quiet, FrameOf
  <2>. QED
    BY <1>3, <2>3, <2>4 DEF Issues
<1>4. CASE /\ Waiting /\ UNCHANGED <<toController, issued, nextId>>
           /\ Waits \/ Fails \/ TakesInit \/ TakesReady \/ TakesAck
  <2>1. CASE Waits
    BY <1>1, <1>4, <2>1, ShiftedByRead DEF Waits
  <2>2. ASSUME Taken, ready, Frame.kind \in {"REPLY", "ERROR"}
        PROVE  Quiet'
    <3>1. Answers = {1} /\ toController = <<>>
      BY <1>4, <2>2, OwnAnswerIsAlone
    <3>2. Answers' = {}
      BY <2>2, <3>1, ShiftedByRead DEF Shifted, Answers
    <3>. QED
      BY <1>4, <3>1, <3>2, EmptyIsQuiet
  <2>3. CASE Fails
    <3>1. CASE ~ready'
      BY <3>1 DEF Quiet
    <3>2. CASE ready'
      BY <2>2, <2>3, <3>2 DEF Fails, session
    <3>. QED
      BY <3>1, <3>2
  <2>4. CASE TakesInit
    BY <2>4 DEF TakesInit, CallInv, Quiet
  <2>5. CASE TakesReady
    BY <1>4, <2>5, ReadyIsAlone, ShiftedByReboot, EmptyIsQuiet
  <2>6. CASE TakesAck
    <3>1. ready
      BY <2>6 DEF TakesAck, TableInv, CallConsistent
    <3>. QED
      BY <2>2, <2>6, <3>1 DEF TakesAck
  <2>. QED
    BY <1>4, <2>1, <2>3, <2>4, <2>5, <2>6
<1>5. CASE Restart
  BY <1>5 DEF Restart, ClearSession, Quiet
<1>6. CASE UNCHANGED clientVars /\ Serving
  <2>1. UNCHANGED <<ready, call>>
    BY <1>6 DEF clientVars, session
  <2>2. CASE ~ready'
    BY <2>2 DEF Quiet
  <2>3. CASE ready'
    <3>1. PICK frames \in Seq(ReplyFrames) : AnsweredWith(frames)
      BY <1>6, ServeShape
    <3>2. toController # <<>> /\ toController' = Tail(toController)
      BY <3>1 DEF AnsweredWith, Answer
    <3>3. Answers = {} /\ call.phase = "reply" /\ Command.serial = call.serial
      BY <2>1, <2>3, <3>2, NothingAnswered
    <3>4. \A i \in Answers' : toClient'[i].serial = call.serial
      BY <3>1, <3>3, AnswersAfterServe
    <3>5. \A j \in 1 .. Len(toController') :
            j + 1 \in 1 .. Len(toController) /\ toController'[j] = toController[j + 1]
      BY <3>2, AfterServe
    <3>. QED
      BY <2>1, <3>3, <3>4, <3>5 DEF Quiet
  <2>. QED
    BY <2>2, <2>3
<1>7. CASE UNCHANGED clientVars /\ EmitEvent
  BY <1>1, <1>7, ShiftedByEvent DEF clientVars, session, EmitEvent
<1>8. CASE UNCHANGED clientVars /\ Expire
  BY <1>1, <1>8, ShiftedByNone DEF clientVars, session, Expire, wireVars
<1>9. CASE UNCHANGED clientVars /\ Reboot
  BY <1>9, ShiftedByReboot, EmptyIsQuiet DEF Reboot
<1>10. CASE UNCHANGED vars
  BY <1>1, <1>10, ShiftedByNone DEF vars, wireVars, clientVars, session
<1>11. ~ready' => Quiet'
  BY DEF Quiet
<1>. QED
  BY <1>2, <1>3, <1>4, <1>5, <1>6, <1>7, <1>8, <1>9, <1>10, <1>11, StepShape

----------------------------------------------------------------------------
(* The invariant *)

\* Everything is empty when the sketch starts.
LEMMA InitQueue == Init => QueueInv
<1>. SUFFICES ASSUME Init PROVE QueueInv
  OBVIOUS
<1>1. toClient = <<>> /\ toController = <<>> /\ call = Idle /\ ~ready
  BY DEF Init, WireInit, ClientInit
<1>2. Answers = {}
  BY <1>1 DEF Answers
<1>. QED
  BY <1>1, <1>2 DEF QueueInv, AnswersInOrder, CallInv, OwnFrames, ReadyIsLast, Quiet, Idle

\* Each part is kept given the others.
LEMMA StepQueue ==
  ASSUME TypeOK, TypeOK', TableInv, InOrder, QueueInv, [Next]_vars, FreshIds
  PROVE  QueueInv'
BY StepAnswers, StepCall, StepOwnFrames, StepReady, StepQuiet DEF QueueInv

\* What the queues hold fits the call in progress, with restarts and whatever else,
\* as long as no call takes an ID still on its way: the reply that begin() or
\* request() takes for its own is its own, whatever late ones come before it.
THEOREM QueueInvariant == Spec /\ [][FreshIds]_vars => []QueueInv
<1>1. TypeOK /\ TypeOK' /\ TableInv /\ InOrder /\ QueueInv /\ [Next]_vars /\ [FreshIds]_vars => QueueInv'
  <2>1. ASSUME TypeOK, TypeOK', TableInv, InOrder, QueueInv, [Next]_vars, [FreshIds]_vars
        PROVE  QueueInv'
    <3>1. CASE FreshIds
      BY <2>1, <3>1, StepQueue
    <3>2. CASE UNCHANGED vars
      <4>1. FreshIds
        BY <3>2 DEF FreshIds, vars, clientVars
      <4>. QED
        BY <2>1, <4>1, StepQueue
    <3>. QED
      BY <2>1, <3>1, <3>2
  <2>. QED
    BY <2>1
<1>. QED
  BY <1>1, TypeCorrect, TablesInvariant, OrderInvariant, InitQueue, PTL DEF Spec

----------------------------------------------------------------------------
(* Without a restart *)

\* Until the last ID, allocateId() counts.
LEMMA SuccessorIsNext ==
  ASSUME TypeOK, issued < MaxId, nextId = issued + 1, issued + 1 < MaxId
  PROVE  Successor(nextId) = issued + 2
BY ProtocolAssumption DEF Successor, TypeOK, CallTypeOK

\* The frame of a new call carries its serial number as ID.
LEMMA IssuedIds ==
  ASSUME TypeOK, TypeOK', IdsAreSerials, NEW c, Issues(c)
  PROVE  IdsAreSerials'
<1>. SUFFICES ASSUME issued' <= MaxId
              PROVE  /\ issued' < MaxId => nextId' = issued' + 1
                     /\ \A j \in 1 .. Len(toController') : toController'[j].id = toController'[j].serial
                     /\ \A i \in Answers' : toClient'[i].id = toClient'[i].serial
  BY DEF IdsAreSerials
<1>1. issued \in Nat /\ issued' = issued + 1 /\ nextId' = Successor(nextId) /\ MaxId \in Nat
  BY ProtocolAssumption DEF Issues, TypeOK, CallTypeOK
<1>2. issued < MaxId /\ nextId = issued + 1 /\ c.id = c.serial
  BY <1>1 DEF IdsAreSerials, Issues
<1>3. issued' < MaxId => nextId' = issued' + 1
  BY <1>1, <1>2, SuccessorIsNext
<1>4. /\ \A j \in 1 .. Len(toController) : toController[j].id = toController[j].serial
      /\ \A i \in Answers : toClient[i].id = toClient[i].serial
  BY <1>1, <1>2 DEF IdsAreSerials
<1>5. Answers' = Answers /\ UNCHANGED toClient
  BY SameAnswers DEF Issues
<1>6. CASE toController' = Append(toController, FrameOf(c))
  <2>1. FrameOf(c).id = FrameOf(c).serial
    BY <1>2 DEF FrameOf
  <2>2. \A j \in 1 .. Len(toController') : toController'[j].id = toController'[j].serial
    BY <1>4, <1>6, <2>1, AfterSend
  <2>. QED
    BY <1>3, <1>4, <1>5, <2>2
<1>7. CASE UNCHANGED toController
  BY <1>3, <1>4, <1>5, <1>7
<1>. QED
  BY <1>6, <1>7 DEF Issues

\* Everything else only moves frames.
LEMMA MovedIds ==
  ASSUME IdsAreSerials, UNCHANGED <<issued, nextId>>,
         \A j \in 1 .. Len(toController') :
           \E k \in 1 .. Len(toController) : toController'[j] = toController[k],
         \A i \in Answers' :
           \/ \E k \in Answers : toClient'[i] = toClient[k]
           \/ \E k \in 1 .. Len(toController) :
                toClient'[i].id = toController[k].id /\ toClient'[i].serial = toController[k].serial
  PROVE  IdsAreSerials'
<1>. SUFFICES ASSUME issued <= MaxId
              PROVE  /\ issued < MaxId => nextId = issued + 1
                     /\ \A j \in 1 .. Len(toController') : toController'[j].id = toController'[j].serial
                     /\ \A i \in Answers' : toClient'[i].id = toClient'[i].serial
  BY DEF IdsAreSerials
<1>. QED
  BY DEF IdsAreSerials

\* Without a restart every step keeps the numbering.
LEMMA StepIds ==
  ASSUME TypeOK, TypeOK', TableInv, CallInv, IdsAreSerials, [Next]_vars, ~CanRestart
  PROVE  IdsAreSerials'
<1>1. CASE UNCHANGED <<issued, nextId, toController, toClient>>
  <2>1. Answers' = Answers
    BY <1>1, SameAnswers
  <2>. QED
    BY <1>1, <2>1 DEF IdsAreSerials
<1>2. ASSUME UNCHANGED <<issued, nextId, toController>>, Taken
      PROVE  IdsAreSerials'
  BY <1>2, ShiftedByRead, MovedIds DEF Shifted
<1>3. CASE Waiting /\ UNCHANGED <<toController, issued, nextId>>
           /\ (Waits \/ Fails \/ TakesInit \/ TakesReady \/ TakesAck)
  BY <1>1, <1>2, <1>3 DEF Waits, Fails, TakesInit, TakesReady, TakesAck
<1>4. CASE UNCHANGED clientVars /\ Serving
  <2>1. PICK frames \in Seq(ReplyFrames) : AnsweredWith(frames)
    BY <1>4, ServeShape
  <2>2. toController # <<>> /\ toController' = Tail(toController)
    BY <2>1 DEF AnsweredWith, Answer
  <2>3. /\ \A j \in 1 .. Len(toController') :
             j + 1 \in 1 .. Len(toController) /\ toController'[j] = toController[j + 1]
        /\ 1 \in 1 .. Len(toController) /\ Command = toController[1]
    BY <2>2, AfterServe
  <2>4. \A i \in Answers' :
           \/ i \in Answers /\ toClient'[i] = toClient[i]
           \/ toClient'[i].id = Command.id /\ toClient'[i].serial = Command.serial
    BY <2>1, AnswersAfterServe
  <2>. QED
    BY <1>4, <2>3, <2>4, MovedIds DEF clientVars
<1>5. CASE UNCHANGED clientVars /\ EmitEvent
  <2>1. Shifted(0)
    BY <1>5, ShiftedByEvent
  <2>2. \A i \in Answers' : \E k \in Answers : toClient'[i] = toClient[k]
    BY <2>1 DEF Shifted
  <2>. QED
    BY <1>5, <2>2, MovedIds DEF clientVars, EmitEvent
<1>6. CASE UNCHANGED clientVars /\ Expire
  BY <1>1, <1>6 DEF clientVars, Expire, wireVars
<1>7. CASE UNCHANGED clientVars /\ Reboot
  <2>1. toController' = <<>> /\ toClient' = <<>> /\ Answers' = {} /\ Len(toController') = 0
    BY <1>7, ShiftedByReboot DEF Reboot
  <2>. QED
    BY <1>7, <2>1, MovedIds DEF clientVars
<1>8. CASE Local \/ UNCHANGED vars
  BY <1>1, <1>8 DEF Local, vars, clientVars, wireVars
<1>. QED
  BY <1>3, <1>4, <1>5, <1>6, <1>7, <1>8, StepShape, IssuedIds

\* Before IDs are recycled a new one is larger than any on its way, and then
\* IdsDrain asks for it.
LEMMA SerialsAreFresh ==
  ASSUME TypeOK, InOrder, AnswersInOrder, IdsAreSerials, [Next]_vars
  PROVE  [FreshIds]_vars
<1>. SUFFICES ASSUME issued' # issued, Outstanding(nextId)
              PROVE  FALSE
  BY DEF FreshIds
<1>1. issued \in Nat /\ MaxId \in Nat
  BY ProtocolAssumption DEF TypeOK, CallTypeOK
<1>2. Next
  BY DEF vars, clientVars
<1>3. issued < MaxId
  BY <1>1, <1>2 DEF Next, IdsDrain, Recycled
<1>4. nextId = issued + 1
  BY <1>1, <1>3 DEF IdsAreSerials
<1>5. ASSUME NEW j \in 1 .. Len(toController), toController[j].id = nextId
      PROVE  FALSE
  <2>1. toController[j].serial = issued + 1
    BY <1>1, <1>3, <1>4, <1>5 DEF IdsAreSerials
  <2>2. toController[j].serial <= issued
    BY DEF InOrder
  <2>. QED
    BY <1>1, <2>1, <2>2
<1>6. ASSUME NEW i \in Answers, toClient[i].id = nextId
      PROVE  FALSE
  <2>1. toClient[i].serial = issued + 1
    BY <1>1, <1>3, <1>4, <1>6 DEF IdsAreSerials
  <2>2. toClient[i].serial <= issued
    BY DEF AnswersInOrder
  <2>. QED
    BY <1>1, <2>1, <2>2
<1>. QED
  BY <1>5, <1>6 DEF Outstanding, Answers

\* A sketch that does not restart never uses an ID that is still on its way, so
\* that all of the above holds of it: allocateId() skips only zero, and what it
\* relies on is the order of the queues and IdsDrain.
THEOREM NoRestartNoReuse == ASSUME ~CanRestart PROVE Spec => [][FreshIds]_vars
<1>. DEFINE I == QueueInv /\ IdsAreSerials
<1>1. Init => I
  <2>1. Init => IdsAreSerials
    BY ProtocolAssumption DEF Init, ClientInit, WireInit, IdsAreSerials, Answers
  <2>. QED
    BY <2>1, InitQueue
<1>2. TypeOK /\ InOrder /\ I /\ [Next]_vars => [FreshIds]_vars
  BY SerialsAreFresh DEF QueueInv
<1>3. TypeOK /\ TypeOK' /\ TableInv /\ InOrder /\ I /\ [Next]_vars => I'
  <2>. SUFFICES ASSUME TypeOK, TypeOK', TableInv, InOrder, I, [Next]_vars
                PROVE  I'
    OBVIOUS
  <2>1. IdsAreSerials'
    BY StepIds DEF QueueInv
  <2>2. FreshIds
    <3>1. [FreshIds]_vars
      BY <1>2
    <3>. QED
      BY <3>1 DEF FreshIds, vars, clientVars
  <2>3. QueueInv'
    BY <2>2, StepQueue
  <2>. QED
    BY <2>1, <2>3
<1>. HIDE DEF I
<1>. QED
  BY <1>1, <1>2, <1>3, TypeCorrect, TablesInvariant, OrderInvariant, PTL DEF Spec

----------------------------------------------------------------------------
(* The calls as AtMostOnce has them *)

\* The result by whether there is a call and an error.
LEMMA IdleResult ==
  /\ call = Idle => Result = IF Failed THEN "failed" ELSE "ok"
  /\ call # Idle => Result = "none"
  /\ call' = Idle => Result' = IF Failed' THEN "failed" ELSE "ok"
  /\ call' # Idle => Result' = "none"
BY DEF Result, Failed

\* The call in progress has its result to come; between two calls there is none.
LEMMA PendingCall ==
  ASSUME CallInv
  PROVE  /\ call.phase = "idle" => call.serial = 0
         /\ call.phase # "idle" => call # Idle /\ ~Failed
BY DEF CallInv, Idle, Failed, NoError

\* The state of AtMostOnce depends on these four variables.
LEMMA SameCalls ==
  ASSUME UNCHANGED <<call, issued, error, executed>>
  PROVE  UNCHANGED Calls!vars
BY DEF Calls!vars, Result, Idle

\* Failing is a step of AtMostOnce with or without a call in progress.
LEMMA CallFails ==
  ASSUME Failed', call' = Idle, UNCHANGED <<issued, executed>>
  PROVE  Calls!Next
<1>1. Result' = "failed" /\ call'.serial = 0
  BY IdleResult DEF Idle
<1>2. CASE call.serial = 0
  BY <1>1, <1>2 DEF Calls!Next, Calls!Refuse
<1>3. CASE call.serial # 0
  BY <1>1, <1>3 DEF Calls!Next, Calls!Fail
<1>. QED
  BY <1>2, <1>3

\* So is ending well, once the call was executed.
LEMMA CallSucceeds ==
  ASSUME CallInv, call # Idle, call.serial \in Done, call' = Idle,
         UNCHANGED <<issued, executed, error>>
  PROVE  Calls!Next
<1>1. Result' = "ok" /\ call'.serial = 0
  BY IdleResult DEF Idle, CallInv, Failed, NoError
<1>. QED
  BY <1>1 DEF Calls!Next, Calls!Succeed, Done

\* So is issuing a call, once the one before it is over or was executed.
LEMMA CallIssued ==
  ASSUME TypeOK, TypeOK', CallInv, NEW c, Issues(c), UNCHANGED executed
  PROVE  Calls!Next
<1>1. issued \in Nat /\ issued' = issued + 1 /\ issued < MaxCalls
  BY ProtocolAssumption DEF Issues, TypeOK, CallTypeOK
<1>2. call.serial = 0 \/ call.serial \in Done
  BY DEF Issues, CallInv, Idle
<1>3. CASE call' = c
  <2>1. call'.serial = issued + 1 /\ call' # Idle
    BY <1>1, <1>3 DEF Issues, Idle
  <2>2. Result' = "none"
    BY <2>1, IdleResult
  <2>. QED
    BY <1>1, <1>2, <2>1, <2>2 DEF Calls!Next, Calls!Issue, Done
<1>4. CASE call' = Idle /\ Failed'
  <2>1. call'.serial = 0 /\ Result' = "failed"
    BY <1>4, IdleResult DEF Idle
  <2>. QED
    BY <1>1, <1>2, <2>1 DEF Calls!Next, Calls!IssueFails, Done
<1>. QED
  BY <1>3, <1>4 DEF Issues

\* So is executing a command.
LEMMA CallExecuted ==
  ASSUME TypeOK, InOrder, toController # <<>>, executed' = Append(executed, Command.serial),
         UNCHANGED clientVars
  PROVE  Calls!Next
<1>1. 1 \in 1 .. Len(toController) /\ Command = toController[1]
  BY QueueTypes DEF Command
<1>2. Command.serial \in 1 .. issued
  BY <1>1, Numbers DEF InOrder
<1>3. \A n \in Done : n < Command.serial
  BY <1>1 DEF InOrder, Done
<1>4. Done' = Done \cup {Command.serial}
  BY DoneGrows
<1>5. UNCHANGED <<call, issued, error>> /\ Result' = Result
  BY DEF clientVars, Result, Idle
<1>. QED
  BY <1>2, <1>3, <1>4, <1>5 DEF Calls!Next, Calls!Execute, Done

\* Every step is one of these or leaves AtMostOnce alone.
LEMMA StepCalls ==
  ASSUME TypeOK, TypeOK', TableInv, InOrder, QueueInv, [Next]_vars, ~CanRestart
  PROVE  [Calls!Next]_(Calls!vars)
<1>0. CallInv /\ AnswersInOrder /\ OwnFrames
  BY DEF QueueInv
<1>1. CASE UNCHANGED controllerVars /\ Local
  BY <1>1, CallFails DEF Local, controllerVars
<1>2. ASSUME UNCHANGED controllerVars, NEW c, Issues(c)
      PROVE  Calls!Next
  BY <1>0, <1>2, CallIssued DEF controllerVars
<1>3. CASE /\ UNCHANGED controllerVars /\ Waiting /\ UNCHANGED <<toController, issued, nextId>>
           /\ Waits \/ Fails \/ TakesInit \/ TakesReady \/ TakesAck
  <2>1. UNCHANGED executed /\ call # Idle
    BY <1>3 DEF controllerVars, Waiting, Idle
  <2>2. CASE Waits
    BY <1>3, <2>1, <2>2, SameCalls DEF Waits
  <2>3. CASE Fails
    BY <1>3, <2>1, <2>3, CallFails DEF Fails
  <2>4. ASSUME call' # Idle, call'.serial = call.serial
        PROVE  UNCHANGED Calls!vars
    BY <1>3, <2>1, <2>4, IdleResult DEF Calls!vars
  <2>5. CASE TakesInit
    <3>1. call' = [call EXCEPT !.phase = "ready"]
      BY <2>5 DEF TakesInit
    <3>. QED
      BY <2>4, <3>1, CallFields DEF Idle
  <2>6. CASE TakesReady /\ call' = [call EXCEPT !.phase = "configure"]
    BY <2>4, <2>6, CallFields DEF Idle
  <2>7. CASE TakesReady /\ call' = Idle
    BY <1>0, <1>3, <2>1, <2>7, CallSucceeds DEF TakesReady, CallInv
  <2>8. CASE TakesAck
    <3>1. call.serial \in Done
      BY <1>0, <1>3, <2>8, ReplyIsOwn DEF TakesAck
    <3>. QED
      BY <1>0, <1>3, <2>1, <2>8, <3>1, CallSucceeds DEF TakesAck
  <2>. QED
    BY <1>3, <2>2, <2>3, <2>5, <2>6, <2>7, <2>8 DEF TakesReady
<1>4. CASE UNCHANGED clientVars /\ Serving
  <2>1. UNCHANGED executed \/ executed' = Append(executed, Command.serial)
    BY <1>4, ServeShape DEF AnsweredWith
  <2>2. CASE UNCHANGED executed
    BY <1>4, <2>2, SameCalls DEF clientVars
  <2>. QED
    BY <1>4, <2>1, <2>2, ServeShape, CallExecuted
<1>5. CASE UNCHANGED clientVars /\ (EmitEvent \/ Expire \/ Reboot)
  BY <1>5, SameCalls DEF clientVars, EmitEvent, Expire, Reboot, controllerVars
<1>6. CASE UNCHANGED vars
  BY <1>6, SameCalls DEF vars, clientVars, controllerVars
<1>. QED
  BY <1>0, <1>1, <1>2, <1>3, <1>4, <1>5, <1>6, StepShape

\* Initial states are initial states.
LEMMA InitCalls == Init => Calls!Init
<1>. SUFFICES ASSUME Init PROVE Calls!Init
  OBVIOUS
<1>1. call = Idle /\ issued = 0 /\ error = NoError /\ executed = <<>>
  BY DEF Init, ClientInit, ControllerInit
<1>2. Result = "ok" /\ call.serial = 0
  BY <1>1 DEF Result, Idle, NoError
<1>. QED
  BY <1>1, <1>2 DEF Calls!Init

\* request() keeps its word, "execute exactly one request; never retry an operation
\* that might have executed": every step of the library, the wire and the controller
\* is a step of AtMostOnce or no step of it.  A call that ends well was executed.
THEOREM ImplementsAtMostOnce == ASSUME ~CanRestart PROVE Spec => CallsAtMostOnce
<1>1. TypeOK /\ TypeOK' /\ TableInv /\ InOrder /\ QueueInv /\ [Next]_vars
        => [Calls!Next]_(Calls!vars)
  BY StepCalls
<1>2. Spec => []QueueInv
  BY NoRestartNoReuse, QueueInvariant, PTL
<1>. QED
  BY <1>1, <1>2, InitCalls, TypeCorrect, TablesInvariant, OrderInvariant, PTL
     DEF Spec, CallsAtMostOnce, Calls!Spec
=============================================================================
