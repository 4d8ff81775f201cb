---------------------------- MODULE ServerProofs ----------------------------
(***************************************************************************)
(* Theorems about the server, for every value of the constants.             *)
(***************************************************************************)
EXTENDS Server, TLAPS

USE DEF ownerVars, limitVars, publicVars, localVars, controlVars, writerVars,
        cancelVars, dataVars, registryVars, sessionFrame, heartbeat, writerFrame,
        publicFrame, connFrame, dataFrame, supervisorFrame

-----------------------------------------------------------------------------
(* What the helpers of the model return *)

\* An empty queue, and what is left of one, is within its bound.
LEMMA QueueType ==
    /\ <<>> \in Channel /\ <<>> \in Queue
    /\ \A q \in Channel : q # <<>> => Head(q) \in Command /\ Tail(q) \in Channel
    /\ \A q \in Queue : q # <<>> => Head(q) \in Outbound /\ Tail(q) \in Queue
<1>1. COMMAND_CAPACITY \in Nat /\ WRITER_CAPACITY \in Nat
    BY LimitAssumption
<1>2. <<>> \in Channel /\ <<>> \in Queue
    BY <1>1 DEF Channel, Queue
<1>3. \A q \in Channel : q # <<>> => Head(q) \in Command /\ Tail(q) \in Channel
    <2> SUFFICES ASSUME NEW q \in Seq(Command), Len(q) <= COMMAND_CAPACITY, q # <<>>
                 PROVE  /\ Head(q) \in Command /\ Tail(q) \in Seq(Command)
                        /\ Len(Tail(q)) <= COMMAND_CAPACITY
        BY DEF Channel
    <2>1. Head(q) \in Command /\ Tail(q) \in Seq(Command) /\ Len(Tail(q)) = Len(q) - 1
        OBVIOUS
    <2> QED
        BY <1>1, <2>1
<1>4. \A q \in Queue : q # <<>> => Head(q) \in Outbound /\ Tail(q) \in Queue
    <2> SUFFICES ASSUME NEW q \in Seq(Outbound), Len(q) <= WRITER_CAPACITY, q # <<>>
                 PROVE  /\ Head(q) \in Outbound /\ Tail(q) \in Seq(Outbound)
                        /\ Len(Tail(q)) <= WRITER_CAPACITY
        BY DEF Queue
    <2>1. Head(q) \in Outbound /\ Tail(q) \in Seq(Outbound) /\ Len(Tail(q)) = Len(q) - 1
        OBVIOUS
    <2> QED
        BY <1>1, <2>1
<1> QED
    BY <1>2, <1>3, <1>4

\* A queue a frame is offered to remains a queue of frames within its bound.
LEMMA OfferType ==
    ASSUME NEW q \in Queue, NEW f \in Outbound
    PROVE  Offer(q, f) \in Queue
<1>1. WRITER_CAPACITY \in Nat /\ q \in Seq(Outbound) /\ Len(q) <= WRITER_CAPACITY
    BY LimitAssumption DEF Queue
<1>2. Append(q, f) \in Seq(Outbound) /\ Len(Append(q, f)) = Len(q) + 1
    BY <1>1
<1> QED
    BY <1>1, <1>2 DEF Offer, Queue

\* Every frame the server builds is one of the outbound messages.
LEMMA FramesTyped ==
    /\ \A ty \in FrameType : Frame(ty) \in Outbound
    /\ \A c \in Conn : OpenFrame(c) \in Outbound
    /\ \A code \in ErrorCode \cup {None} : ErrorFrame(code) \in Outbound
    /\ \A ty \in FrameType, n \in Nat : NumberFrame(ty, n) \in Outbound
    /\ CloseAfterFlush \in Outbound
BY DEF Frame, NumberFrame, OpenFrame, ErrorFrame, CloseAfterFlush, Outbound, FrameType

\* Heartbeat numbers are naturals, 0 is one of them, and they wrap.
LEMMA SequenceType ==
    /\ 0 \in Sequence /\ Sequence \subseteq Nat
    /\ \A n \in Sequence : NextSequence(n) \in Sequence
BY LimitAssumption DEF Sequence, NextSequence

\* try_send of one frame keeps the queues well formed.
LEMMA TrySendType ==
    ASSUME TypeOK, NEW s \in Session, NEW f \in Outbound
    PROVE  TrySend(s, f) \in [Session -> Queue]
BY OfferType DEF TypeOK, TrySend

\* So does a last frame followed by CloseAfterFlush.
LEMMA TrySendLastType ==
    ASSUME TypeOK, NEW S, NEW f \in Outbound
    PROVE  TrySendLast(S, f) \in [Session -> Queue]
<1>1. \A s \in Session : Offer(Offer(writer[s], f), CloseAfterFlush) \in Queue
    BY OfferType, FramesTyped DEF TypeOK
<1>2. QED BY <1>1 DEF TypeOK, TrySendLast

\* The next command and the rest of the channel are well formed.
LEMMA HeadCommand ==
    ASSUME TypeOK, commands # <<>>
    PROVE  Head(commands) \in Command /\ Tail(commands) \in Channel
BY QueueType DEF TypeOK

\* Sending keeps the channel well formed.
LEMMA SendType ==
    ASSUME TypeOK, NEW cmd \in Command, Send(cmd) \/ Closed
    PROVE  commands' \in Channel
<1>1. commands \in Channel
    BY DEF TypeOK
<1>2. CASE Send(cmd)
    <2>1. /\ Append(commands, cmd) \in Seq(Command)
          /\ Len(Append(commands, cmd)) = Len(commands) + 1
          /\ Len(commands) \in Nat
        BY <1>1 DEF Channel
    <2>2. Append(commands, cmd) \in Channel
        BY <1>2, <2>1, LimitAssumption DEF Channel, Send, HasRoom
    <2>3. QED BY <1>2, <2>2 DEF Send
<1>3. CASE Closed
    BY <1>1, <1>3 DEF Closed
<1>4. QED BY <1>2, <1>3

\* The commands the tasks send are commands.
LEMMA CommandsTyped ==
    /\ \A s \in Session, g \in Nat : \A op \in {"Register", "SessionLost", "Goodbye"} :
          SessionCommand(op, s, g) \in Command
    /\ SessionCommand("Shutdown", None, 0) \in Command
    /\ \A c \in Conn : ItemCommand("AcceptedPublic", None, c) \in Command
    /\ \A d \in DataConn : \A op \in {"PeekData", "ClaimData"} :
          ItemCommand(op, None, d) \in Command
    /\ \A c \in Conn, s \in Session \cup {None} :
          \A op \in {"OpenFailed", "RequestFinished"} : ItemCommand(op, s, c) \in Command
BY DEF SessionCommand, ItemCommand, Command

-----------------------------------------------------------------------------
(* The channel as a set of commands *)

Queued == {commands[i] : i \in 1 .. Len(commands)}

\* Two commands that agree in everything but the generation.
Alike(k, m) == k.op = m.op /\ k.session = m.session /\ k.item = m.item

\* The channel holds at most one command op for each session and item.
Sole(op) ==
    \A i, j \in 1 .. Len(commands) :
        commands[i].op = op /\ Alike(commands[i], commands[j]) => i = j

\* Commands in the channel are commands.
LEMMA QueuedType ==
    ASSUME TypeOK
    PROVE  Queued \subseteq Command
BY DEF TypeOK, Channel, Queued

\* A command that is sent joins those in the channel, and is the only one of its
\* kind when it had none there (mpsc::Sender::send).
LEMMA ChannelSent ==
    ASSUME TypeOK, NEW cmd \in Command, commands' = Append(commands, cmd)
    PROVE  /\ Queued' = Queued \cup {cmd}
           /\ \A op : Sole(op) /\ (cmd.op = op => \A k \in Queued : ~Alike(k, cmd)) => Sole(op)'
<1>1. /\ Len(commands) \in Nat
      /\ Len(commands') = Len(commands) + 1
      /\ \A i \in 1 .. Len(commands) : commands'[i] = commands[i]
      /\ commands'[Len(commands) + 1] = cmd
    BY DEF TypeOK, Channel
<1>2. \A i : i \in 1 .. Len(commands') <=> i \in 1 .. Len(commands) \/ i = Len(commands) + 1
    BY <1>1
<1>3. Queued' = Queued \cup {cmd}
    BY <1>1, <1>2 DEF Queued
<1>4. ASSUME NEW op, Sole(op), cmd.op = op => \A k \in Queued : ~Alike(k, cmd)
      PROVE  Sole(op)'
    <2> SUFFICES ASSUME NEW i \in 1 .. Len(commands'), NEW j \in 1 .. Len(commands'),
                        commands'[i].op = op, Alike(commands'[i], commands'[j])
                 PROVE  i = j
        BY DEF Sole
    <2>1. CASE i \in 1 .. Len(commands) /\ j \in 1 .. Len(commands)
        BY <1>1, <1>4, <2>1 DEF Sole
    <2>2. CASE i = Len(commands) + 1 /\ j \in 1 .. Len(commands)
        BY <1>1, <1>4, <2>2 DEF Queued, Alike
    <2>3. CASE j = Len(commands) + 1 /\ i \in 1 .. Len(commands)
        BY <1>1, <1>4, <2>3 DEF Queued, Alike
    <2> QED
        BY <1>2, <2>1, <2>2, <2>3
<1> QED
    BY <1>3, <1>4

\* The registry takes the oldest command; the others stay, and none of them is
\* like it when it was the only one of its kind (Registry::run).
LEMMA ChannelTaken ==
    ASSUME TypeOK, commands # <<>>, commands' = Tail(commands)
    PROVE  /\ Head(commands) \in Queued
           /\ Queued' \subseteq Queued
           /\ Queued \subseteq Queued' \cup {Head(commands)}
           /\ \A op : Sole(op) =>
                 /\ Sole(op)'
                 /\ Head(commands).op = op => \A k \in Queued' : ~Alike(k, Head(commands))
<1>1. /\ Len(commands) \in Nat /\ Len(commands) > 0
      /\ Len(commands') = Len(commands) - 1
      /\ \A i \in 1 .. Len(commands') : commands'[i] = commands[i + 1]
      /\ Head(commands) = commands[1]
    BY DEF TypeOK, Channel
<1>2. \A i \in 1 .. Len(commands') : i + 1 \in 1 .. Len(commands) /\ i + 1 # 1
    BY <1>1
<1>3. \A i \in 1 .. Len(commands) :
        i = 1 \/ (i - 1 \in 1 .. Len(commands') /\ (i - 1) + 1 = i)
    BY <1>1
<1>4. 1 \in 1 .. Len(commands)
    BY <1>1
<1>5. Head(commands) \in Queued
    BY <1>1, <1>4 DEF Queued
<1>6. Queued' \subseteq Queued
    BY <1>1, <1>2 DEF Queued
<1>7. ASSUME NEW k \in Queued
      PROVE  k \in Queued' \cup {Head(commands)}
    <2>1. PICK i \in 1 .. Len(commands) : k = commands[i]
        BY DEF Queued
    <2>2. CASE i = 1
        BY <1>1, <2>1, <2>2
    <2>3. CASE i - 1 \in 1 .. Len(commands') /\ (i - 1) + 1 = i
        <3>1. commands'[i - 1] = k
            BY <1>1, <2>1, <2>3
        <3> QED
            BY <2>3, <3>1 DEF Queued
    <2> QED
        BY <1>3, <2>2, <2>3
<1>8. ASSUME NEW op, Sole(op)
      PROVE  Sole(op)'
    <2> SUFFICES ASSUME NEW i \in 1 .. Len(commands'), NEW j \in 1 .. Len(commands'),
                        commands'[i].op = op, Alike(commands'[i], commands'[j])
                 PROVE  i = j
        BY DEF Sole
    <2>1. i + 1 = j + 1
        BY <1>1, <1>2, <1>8 DEF Sole
    <2> QED
        BY <1>1, <2>1
<1>9. ASSUME NEW op, Sole(op), Head(commands).op = op, NEW k \in Queued',
             Alike(k, Head(commands))
      PROVE  FALSE
    <2>1. PICK i \in 1 .. Len(commands') : k = commands'[i]
        BY DEF Queued
    <2>2. Alike(commands[1], commands[i + 1]) /\ commands[1].op = op
        BY <1>1, <1>9, <2>1 DEF Alike
    <2>3. i + 1 = 1
        BY <1>2, <1>4, <1>9, <2>2 DEF Sole
    <2> QED
        BY <1>2, <2>3
<1> QED
    BY <1>5, <1>6, <1>7, <1>8, <1>9

\* A step that leaves the channel alone.
LEMMA ChannelSame ==
    ASSUME commands' = commands
    PROVE  Queued' = Queued /\ \A op : Sole(op) => Sole(op)'
BY DEF Queued, Sole

\* A channel dropped with its receiver holds nothing (registry.rs: Shutdown).
LEMMA ChannelEmptied ==
    ASSUME commands' = <<>>
    PROVE  Queued' = {} /\ \A op : Sole(op)'
<1>1. 1 .. Len(commands') = {}
    OBVIOUS
<1> QED
    BY <1>1 DEF Queued, Sole

-----------------------------------------------------------------------------
(* Type correctness *)

\* A step of a control connection's tasks keeps every variable in its type:
\* the handshake, the session loop, the leaving and the writer of control.rs.
LEMMA TypeControl ==
    ASSUME TypeOK, NEW s \in Session, ControlStep(s)
    PROVE  TypeOK'
<1>1. CASE \E h \in Hellos : AcceptControl(s, h)
    BY <1>1, EnvironmentAssumption DEF TypeOK, AcceptControl, ControlPhase
<1>2. CASE \E c \in Conn : ReceiveOpenFailed(s, c)
    BY <1>2, CommandsTyped, SendType DEF TypeOK, ReceiveOpenFailed, Continue
<1>3. CASE RefuseControl(s)
    BY <1>3 DEF TypeOK, RefuseControl, ControlPhase
<1>4. CASE HandshakeFails(s)
    BY <1>4, SequenceType DEF TypeOK, HandshakeFails, EndServe, ControlPhase
<1>5. CASE Authenticate(s)
    BY <1>5, CommandsTyped, SendType DEF TypeOK, Authenticate, ControlPhase, ErrorCode
<1>6. CASE SendRefusal(s)
    BY <1>6, FramesTyped, TrySendLastType DEF TypeOK, SendRefusal, ControlPhase
<1>7. CASE SendRegistered(s)
    <2>0. assigned[s] \in Nat
        <3>1. assigned[s] \in Port \cup {0}
            BY DEF TypeOK
        <3>2. Port \subseteq Nat /\ 0 \in Nat
            BY PortAssumption
        <3>3. QED BY <3>1, <3>2, Zenon
    <2>1. TrySend(s, NumberFrame("Registered", assigned[s])) \in [Session -> Queue]
        BY <2>0, FramesTyped, TrySendType DEF FrameType
    <2>2. QED BY <1>7, <2>1 DEF TypeOK, SendRegistered, ControlPhase
<1>8. CASE Abandon(s)
    BY <1>8, CommandsTyped, SendType, SequenceType DEF TypeOK, Abandon, ControlPhase, EndServe
<1>9. CASE Cancelled(s)
    BY <1>9 DEF TypeOK, Cancelled, ControlPhase, Break
<1>10. CASE PongDeadline(s)
    BY <1>10 DEF TypeOK, PongDeadline, ControlPhase, Break
<1>11. CASE PingTick(s)
    <2>1. sequence \in [Session -> Sequence] /\ NextSequence(sequence[s]) \in Sequence
        BY SequenceType DEF TypeOK
    <2>2. TrySend(s, NumberFrame("Ping", NextSequence(sequence[s]))) \in [Session -> Queue]
        BY <2>1, SequenceType, FramesTyped, TrySendType DEF FrameType
    <2>3. sequence' \in [Session -> Sequence]
        BY <1>11, <2>1 DEF PingTick
    <2>4. QED BY <1>11, <2>2, <2>3 DEF TypeOK, PingTick, ControlPhase, Break, Continue
<1>12. CASE \E v \in Sequence : ReceivePing(s, v)
    <2>1. PICK v \in Sequence : ReceivePing(s, v)
        BY <1>12
    <2>2. TrySend(s, NumberFrame("Pong", v)) \in [Session -> Queue]
        BY SequenceType, FramesTyped, TrySendType DEF FrameType
    <2>3. QED BY <2>1, <2>2 DEF TypeOK, ReceivePing, ControlPhase, Break, Continue
<1>13. CASE \E v \in Sequence : ReceivePong(s, v)
    BY <1>13 DEF TypeOK, ReceivePong, Continue
<1>14. CASE ReceiveGoodbye(s)
    BY <1>14, FramesTyped, TrySendLastType DEF TypeOK, ReceiveGoodbye, ControlPhase, BreakClean, FrameType
<1>15. CASE ReceiveError(s)
    BY <1>15 DEF TypeOK, ReceiveError, ControlPhase, Break
<1>16. CASE ReceiveOther(s)
    BY <1>16, FramesTyped, TrySendLastType DEF TypeOK, ReceiveOther, ControlPhase, Break, ErrorCode
<1>17. CASE SendSessionLost(s)
    BY <1>17, CommandsTyped, SendType DEF TypeOK, SendSessionLost, ControlPhase, Teardown
<1>18. CASE SendGoodbye(s)
    BY <1>18, CommandsTyped, SendType DEF TypeOK, SendGoodbye, ControlPhase, Teardown
<1>19. CASE GoodbyeReplied(s)
    BY <1>19 DEF TypeOK, GoodbyeReplied, ControlPhase, Teardown
<1>20. CASE ServeEnds(s)
    BY <1>20, SequenceType DEF TypeOK, ServeEnds, ControlPhase, EndServe
<1>21. CASE WriteFrame(s)
    <2>1. writer[s] \in Queue /\ writer[s] # <<>>
        BY <1>21 DEF TypeOK, WriteFrame
    <2>2. Head(writer[s]) \in Outbound /\ Tail(writer[s]) \in Queue
        BY <2>1, QueueType
    <2> QED
        BY <1>21, <2>2 DEF TypeOK, WriteFrame, Written
<1>22. CASE WriteFails(s)
    BY <1>22, QueueType DEF TypeOK, WriteFails, WriterEnds
<1>23. CASE CloseAfterFlushed(s)
    BY <1>23, QueueType DEF TypeOK, CloseAfterFlushed, WriterEnds
<1>24. CASE SendersGone(s)
    BY <1>24, QueueType DEF TypeOK, SendersGone, WriterEnds
<1>25. CASE TakeoverFlushEnds(s)
    BY <1>25 DEF TypeOK, TakeoverFlushEnds
<1> QED
    BY <1>1, <1>2, <1>3, <1>4, <1>5, <1>6, <1>7, <1>8, <1>9,
       <1>10, <1>11, <1>12, <1>13, <1>14, <1>15, <1>16, <1>17, <1>18, <1>19, <1>20,
       <1>21, <1>22, <1>23, <1>24, <1>25
    DEF ControlStep, ServeStep, ClientFrameArrives, WriterStep

\* A step of a listener on a connection, or of the task that serves it,
\* keeps every variable in its type (listener.rs, forward.rs).
LEMMA TypePublic ==
    ASSUME TypeOK, NEW c \in Conn, PublicStep(c)
    PROVE  TypeOK'
<1>1. CASE \E l \in listeners : AcceptPublic(c, l)
    <2>1. PICK l \in listeners : AcceptPublic(c, l)
        BY <1>1
    <2>2. commands' \in Channel
        <3>1. CASE commands' = commands
            BY <3>1 DEF TypeOK
        <3>2. CASE Send(ItemCommand("AcceptedPublic", None, c))
            BY <3>2, CommandsTyped, SendType
        <3>3. QED BY <2>1, <3>1, <3>2 DEF AcceptPublic, Closed
    <2>3. via' \in [Conn -> [id: Nat, port: Port \cup {0}]]
        <3>1. via \in [Conn -> [id: Nat, port: Port \cup {0}]] /\ l \in Listener
            BY DEF TypeOK
        <3>2. [id |-> l.id, port |-> l.port] \in [id: Nat, port: Port \cup {0}]
            BY <3>1 DEF Listener
        <3>3. QED BY <2>1, <3>1, <3>2 DEF AcceptPublic
    <2>4. QED BY <2>1, <2>2, <2>3 DEF TypeOK, AcceptPublic, ConnState, Send, Closed
<1>2. CASE DeadlinePasses(c)
    BY <1>2 DEF TypeOK, DeadlinePasses
<1>3. CASE WaitEnds(c)
    BY <1>3 DEF TypeOK, WaitEnds, CloseBoth, ConnState, DataState
<1>4. CASE TakeData(c)
    BY <1>4 DEF TypeOK, TakeData, ConnState
<1>5. CASE WriteReady(c)
    BY <1>5 DEF TypeOK, WriteReady, ConnState
<1>6. CASE ReadyFails(c)
    BY <1>6 DEF TypeOK, ReadyFails, CloseBoth, ConnState, DataState
<1>7. CASE ForwardCancelled(c)
    BY <1>7 DEF TypeOK, ForwardCancelled, CloseBoth, ConnState, DataState
<1>8. CASE ForwardEnds(c)
    BY <1>8 DEF TypeOK, ForwardEnds, CloseBoth, ConnState, DataState
<1>9. CASE ServePublicEnds(c)
    <2>1. ItemCommand("RequestFinished", req[c].session, c) \in Command
        BY CommandsTyped DEF TypeOK, Request
    <2>2. commands' \in Channel
        BY <1>9, <2>1, SendType DEF ServePublicEnds
    <2>3. permits' \in [Session -> Nat]
        <3>1. permits \in [Session -> Nat]
            BY DEF TypeOK
        <3>2. permits' = [permits EXCEPT ![req[c].session] = @ + 1]
            BY <1>9 DEF ServePublicEnds, ReleasePermits
        <3>3. CASE req[c].session \in Session
            BY <3>1, <3>2, <3>3
        <3>4. CASE req[c].session \notin Session
            BY <3>1, <3>2, <3>4, Zenon
        <3>5. QED BY <3>3, <3>4
    <2>4. QED BY <1>9, <2>2, <2>3 DEF TypeOK, ServePublicEnds, ReleasePermits, ConnState
<1> QED
    BY <1>1, <1>2, <1>3, <1>4, <1>5, <1>6, <1>7, <1>8, <1>9 DEF PublicStep, ServePublicStep

\* A step of a data connection's handshake keeps every variable in its type
\* (data.rs).
LEMMA TypeData ==
    ASSUME TypeOK, NEW d \in DataConn, DataStep(d)
    PROVE  TypeOK'
<1>1. CASE \E c \in Conn : AcceptData(d, c)
    BY <1>1 DEF TypeOK, AcceptData, DataState
<1>2. CASE RefuseData(d)
    BY <1>2 DEF TypeOK, RefuseData, DataState
<1>3. CASE SendPeek(d)
    BY <1>3, CommandsTyped, SendType DEF TypeOK, SendPeek, DataState
<1>4. CASE SendClaim(d)
    BY <1>4, CommandsTyped, SendType DEF TypeOK, SendClaim, DataState
<1>5. CASE DataFails(d)
    BY <1>5 DEF TypeOK, DataFails, DataState
<1>6. CASE ClaimTimesOut(d)
    BY <1>6 DEF TypeOK, ClaimTimesOut
<1> QED
    BY <1>1, <1>2, <1>3, <1>4, <1>5, <1>6 DEF DataStep

\* A step of the supervisor keeps every variable in its type (server/mod.rs).
LEMMA TypeSupervisor ==
    ASSUME TypeOK, SupervisorStep
    PROVE  TypeOK'
<1>1. CASE Stop
    BY <1>1 DEF TypeOK, Stop, Supervisor
<1>2. CASE SendShutdown
    BY <1>2, CommandsTyped, SendType DEF TypeOK, SendShutdown, Supervisor
<1>3. CASE TasksJoined
    BY <1>3 DEF TypeOK, TasksJoined, Supervisor
<1>4. CASE GraceElapses
    BY <1>4, SequenceType DEF TypeOK, GraceElapses, Supervisor, EndServe, ControlPhase, DataState
<1> QED
    BY <1>1, <1>2, <1>3, <1>4 DEF SupervisorStep


\* A registration is granted a port or refused with an error code.
LEMMA PlacementCode ==
    ASSUME NEW h \in Hello \cup {NoHello}
    PROVE  Placement(h).code \in ErrorCode \cup {"Ok"}
<1>1. \A p : bind_slot(p).code \in ErrorCode \cup {"Ok"}
    BY DEF bind_slot, bind_listener, Granted, Refused, ErrorCode
<1>2. \A p : ensure_slot(p, TRUE).code \in ErrorCode \cup {"Ok"}
    BY <1>1 DEF ensure_slot, Granted, Refused, ErrorCode
<1>3. \A p : ensure_slot(p, FALSE).code \in ErrorCode \cup {"Ok"}
    BY <1>1 DEF ensure_slot, Granted, Refused, ErrorCode
<1>4. \A i : allocate_automatic(i).code \in ErrorCode \cup {"Ok"}
    BY <1>1 DEF allocate_automatic, Granted, Refused, ErrorCode
<1>5. \A p, i : resume_slot(p, i).code \in ErrorCode \cup {"Ok"}
    BY <1>2 DEF resume_slot, Granted, Refused, ErrorCode
<1>6. h.mode \in Modes
    BY DEF Hello, NoHello, Modes
<1> QED
    BY <1>3, <1>4, <1>5, <1>6 DEF Placement, Refused, ErrorCode, Modes

\* Releasing slots keeps the ports map and the listeners well formed.
LEMMA ReleaseType ==
    ASSUME TypeOK, NEW P, ReleaseSlots(P)
    PROVE  ports' \in [Port -> PortSlot] /\ listeners' \subseteq Listener
<1>1. FreeSlot \in PortSlot
    BY DEF FreeSlot, PortSlot
<1>2. \A l \in Listener : [l EXCEPT !.cancelled = TRUE] \in Listener
    BY DEF Listener
<1>3. listeners \subseteq Listener /\ ports \in [Port -> PortSlot]
    BY DEF TypeOK
<1> QED
    BY <1>1, <1>2, <1>3 DEF ReleaseSlots, CancelListeners

\* Forgetting sessions keeps the sessions map well formed.
LEMMA WithoutType ==
    ASSUME TypeOK, NEW S
    PROVE  Without(S) \in [Session -> SessionRef]
<1>1. NoRef \in SessionRef
    BY DEF NoRef, SessionRef
<1> QED
    BY <1>1 DEF TypeOK, Without

\* session_lost leaves the registry's tables well formed.
LEMMA SessionLostType ==
    ASSUME TypeOK, NEW s \in Session, NEW g \in Nat, session_lost(s, g)
    PROVE  /\ ports' \in [Port -> PortSlot]
           /\ sessions' \in [Session -> SessionRef]
           /\ pending' \subseteq Conn
           /\ data_cancel' \subseteq Session
           /\ control_cancel' \subseteq Session
<1>1. Reserve(s, g) \in [Port -> PortSlot]
    <2>1. ports \in [Port -> PortSlot] /\ sessions[s].instance \in Instance \cup {None}
        BY DEF TypeOK, SessionRef
    <2>2. \A p \in Port :
            [state |-> "Reserved", listener |-> ports[p].listener, session |-> None,
             instance |-> sessions[s].instance, generation |-> g, expired |-> FALSE]
            \in PortSlot
        BY <2>1 DEF PortSlot
    <2> QED
        BY <2>1, <2>2 DEF Reserve
<1>2. Without({s}) \in [Session -> SessionRef]
    BY WithoutType
<1>3. CASE s \in Live /\ sessions[s].generation = g
    <2>1. ports' \in [Port -> PortSlot]
        BY <1>1, <1>3 DEF TypeOK, session_lost
    <2>2. sessions' \in [Session -> SessionRef]
        BY <1>2, <1>3 DEF session_lost
    <2>3. pending' \subseteq Conn
        BY <1>3 DEF TypeOK, session_lost
    <2>4. data_cancel' \subseteq Session /\ control_cancel' \subseteq Session
        BY <1>3 DEF TypeOK, session_lost
    <2> QED
        BY <2>1, <2>2, <2>3, <2>4
<1>4. CASE ~(s \in Live /\ sessions[s].generation = g)
    BY <1>4 DEF TypeOK, session_lost
<1> QED
    BY <1>3, <1>4

\* Register, the registration handler, preserves the types.
LEMMA TypeRegister ==
    ASSUME TypeOK, Register
    PROVE  TypeOK'
<1> DEFINE s == Head(commands).session
<1> DEFINE place == Placement(hello[s])
<1>1. s \in Session /\ commands' \in Channel
    BY HeadCommand DEF Register, Receive, Command
<1>2. hello' \in [Session -> Hello \cup {NoHello}]
    BY <1>1 DEF TypeOK, Register
<1>3. CASE \E p \in Port : Install(s, p) /\ UNCHANGED refusal
                           /\ phase' = [phase EXCEPT ![s] = "granted"]
    <2>1. PICK p \in Port : Install(s, p) /\ UNCHANGED refusal
                           /\ phase' = [phase EXCEPT ![s] = "granted"]
        BY <1>3
    <2>2. /\ next_generation' \in Nat \ {0}
          /\ grant' \in [Session -> Nat]
          /\ assigned' \in [Session -> Port \cup {0}]
          /\ pending' \subseteq Conn
        BY <1>1, <2>1 DEF TypeOK, Install, displace
    <2>3. next_listener_id' \in Nat \ {0} /\ listeners' \subseteq Listener
        <3>1. next_listener_id \in Nat \ {0} /\ listeners \subseteq Listener
            BY DEF TypeOK
        <3>2. [id |-> next_listener_id, port |-> p, cancelled |-> FALSE] \in Listener
            BY <3>1 DEF Listener
        <3>3. CASE p \in Slots
            BY <2>1, <3>1, <3>3 DEF Install, Bind
        <3>4. CASE p \notin Slots
            <4>1. /\ listeners' = listeners \cup
                        {[id |-> next_listener_id, port |-> p, cancelled |-> FALSE]}
                  /\ next_listener_id' = next_listener_id + 1
                BY <2>1, <3>4 DEF Install, Bind
            <4>2. next_listener_id' \in Nat \ {0}
                BY <3>1, <4>1
            <4> QED
                BY <3>1, <3>2, <4>1, <4>2
        <3> QED
            BY <3>3, <3>4
    <2>4. hello[s].instance \in Instance \cup {None}
        BY <1>1 DEF TypeOK, Hello, NoHello
    <2>5. sessions' \in [Session -> SessionRef]
        <3>1. Without(Previous(p)) \in [Session -> SessionRef]
            BY WithoutType
        <3>2. [instance |-> hello[s].instance, generation |-> next_generation, port |-> p]
                 \in SessionRef
            BY <2>4 DEF TypeOK, SessionRef
        <3> QED
            BY <1>1, <2>1, <3>1, <3>2 DEF Install
    <2>6. ports' \in [Port -> PortSlot]
        <3>1. ports[p].listener \in Nat /\ next_listener_id \in Nat /\ next_generation \in Nat
            BY DEF TypeOK, PortSlot
        <3>2. [state |-> "Active",
               listener |-> IF p \in Slots THEN ports[p].listener ELSE next_listener_id,
               session |-> s, instance |-> hello[s].instance,
               generation |-> next_generation, expired |-> FALSE] \in PortSlot
            BY <1>1, <2>4, <3>1 DEF PortSlot
        <3>3. ports \in [Port -> PortSlot]
            BY DEF TypeOK
        <3> QED
            BY <2>1, <3>2, <3>3 DEF Install
    <2>7. /\ data_cancel' \subseteq Session
          /\ flushing' \subseteq Session
          /\ writer' \in [Session -> Queue]
        <3>1. Previous(p) \subseteq Session
            BY DEF TypeOK, PortSlot, Previous
        <3>2. TrySendLast(Previous(p), ErrorFrame("Replaced")) \in [Session -> Queue]
            BY TrySendLastType, FramesTyped DEF ErrorCode
        <3> QED
            BY <2>1, <3>1, <3>2 DEF TypeOK, Install, displace
    <2> QED
        BY <1>1, <1>2, <2>1, <2>2, <2>3, <2>5, <2>6, <2>7 DEF TypeOK, Register, ControlPhase
<1>4. CASE place.code # "Ok" /\ phase' = [phase EXCEPT ![s] = "denied"]
           /\ refusal' = [refusal EXCEPT ![s] = place.code]
           /\ UNCHANGED <<ports, sessions, pending, listeners, writer,
                          next_generation, next_listener_id, data_cancel,
                          flushing, grant, assigned>>
    <2>1. place.code \in ErrorCode
        BY <1>1, <1>4, PlacementCode DEF TypeOK
    <2> QED
        BY <1>1, <1>2, <1>4, <2>1 DEF TypeOK, Register, ControlPhase
<1> QED
    BY <1>3, <1>4 DEF Register

\* accepted_public preserves the types, the failing session included.
LEMMA TypeAcceptedPublic ==
    ASSUME TypeOK, AcceptedPublic
    PROVE  TypeOK'
<1> DEFINE c == Head(commands).item
<1> DEFINE s == ports[via[c].port].session
<1>1. c \in Conn /\ commands' \in Channel
    BY HeadCommand DEF AcceptedPublic, Receive, Command
<1>2. CASE Reject(c)
    BY <1>1, <1>2 DEF TypeOK, AcceptedPublic, Reject, ConnState
<1>3. ASSUME Admitted(c)
      PROVE  /\ via[c].port \in Port /\ s \in Session
             /\ ports[via[c].port].generation \in Nat
             /\ permits[s] > 0 /\ global_connections > 0
    BY <1>1, <1>3 DEF TypeOK, Admitted, Slots, PortSlot
<1>4. CASE Admitted(c) /\ FailSession(c, s)
    <2>1. /\ ports' \in [Port -> PortSlot]
          /\ sessions' \in [Session -> SessionRef]
          /\ pending' \subseteq Conn
          /\ data_cancel' \subseteq Session
          /\ control_cancel' \subseteq Session
        BY <1>3, <1>4, SessionLostType DEF FailSession
    <2> QED
        BY <1>1, <1>4, <2>1 DEF TypeOK, AcceptedPublic, FailSession, ConnState
<1>5. CASE Admitted(c) /\ OpenRequest(c, s)
    <2>1. writer' \in [Session -> Queue]
        <3>1. TrySend(s, OpenFrame(c)) \in [Session -> Queue]
            BY <1>1, <1>3, <1>5, TrySendType, FramesTyped
        <3> QED
            BY <1>5, <3>1 DEF OpenRequest
    <2>2. permits' \in [Session -> Nat] /\ global_connections' \in Nat
        <3>1. permits \in [Session -> Nat] /\ global_connections \in Nat
            BY DEF TypeOK
        <3>2. /\ s \in Session
              /\ permits[s] > 0 /\ global_connections > 0
            BY <1>3, <1>5
        <3> HIDE DEF s
        <3>3. permits[s] \in Nat
            BY <3>1, <3>2
        <3>4. permits[s] - 1 \in Nat /\ global_connections - 1 \in Nat
            BY <3>1, <3>2, <3>3
        <3> QED
            BY <1>5, <3>1, <3>4 DEF OpenRequest
    <2>3. req' \in [Conn -> Request]
        <3>1. [session |-> s, generation |-> ports[via[c].port].generation] \in Request
            BY <1>3, <1>5 DEF Request
        <3> QED
            BY <1>1, <1>5, <3>1 DEF TypeOK, OpenRequest
    <2> QED
        BY <1>1, <1>5, <2>1, <2>2, <2>3 DEF TypeOK, AcceptedPublic, OpenRequest, ConnState
<1> QED
    BY <1>2, <1>4, <1>5 DEF AcceptedPublic

\* Every command handler of the registry preserves the types.
LEMMA TypeRegistry ==
    ASSUME TypeOK, RegistryStep
    PROVE  TypeOK'
<1>1. CASE Register
    BY <1>1, TypeRegister
<1>2. CASE SessionLost
    <2>1. /\ Head(commands).session \in Session
          /\ Head(commands).generation \in Nat
          /\ commands' \in Channel
        BY <1>2, HeadCommand DEF SessionLost, Receive, Command
    <2>2. session_lost(Head(commands).session, Head(commands).generation)
        BY <1>2 DEF SessionLost
    <2> QED
        BY <1>2, <2>1, <2>2, SessionLostType DEF TypeOK, SessionLost
<1>3. CASE Goodbye
    <2> DEFINE s == Head(commands).session
    <2> DEFINE g == Head(commands).generation
    <2>1. s \in Session /\ commands' \in Channel
        BY <1>3, HeadCommand DEF Goodbye, Receive, Command
    <2>2. goodbye(s, g)
        BY <1>3 DEF Goodbye
    <2>3. ports' \in [Port -> PortSlot] /\ listeners' \subseteq Listener
        BY <2>2, ReleaseType DEF goodbye, TypeOK
    <2>4. sessions' \in [Session -> SessionRef]
        BY <2>2, WithoutType DEF goodbye, TypeOK
    <2> QED
        BY <1>3, <2>1, <2>2, <2>3, <2>4 DEF TypeOK, Goodbye, goodbye, ControlPhase
<1>4. CASE AcceptedPublic
    BY <1>4, TypeAcceptedPublic
<1>5. CASE PeekData
    BY <1>5, HeadCommand DEF TypeOK, PeekData, Receive, EndData, DataState
<1>6. CASE ClaimData
    <2>1. Head(commands).item \in DataConn /\ commands' \in Channel
        BY <1>6, HeadCommand DEF ClaimData, Receive, Command
    <2> QED
        BY <1>6, <2>1 DEF TypeOK, ClaimData, EndData, Consume, DataState
<1>7. CASE OpenFailed
    BY <1>7, HeadCommand DEF TypeOK, OpenFailed, Receive
<1>8. CASE RequestFinished
    BY <1>8, HeadCommand DEF TypeOK, RequestFinished, Receive
<1>9. CASE Shutdown
    <2>1. ports' \in [Port -> PortSlot] /\ listeners' \subseteq Listener
        BY <1>9, ReleaseType DEF Shutdown, shutdown_all
    <2>2. sessions' \in [Session -> SessionRef]
        BY <1>9, WithoutType DEF Shutdown, shutdown_all
    <2>3. writer' \in [Session -> Queue]
        <3>1. TrySendLast(Live, Frame("ServerShutdown")) \in [Session -> Queue]
            BY TrySendLastType, FramesTyped DEF FrameType
        <3> QED
            BY <1>9, <3>1 DEF Shutdown, shutdown_all
    <2>4. phase' \in [Session -> ControlPhase] /\ refusal' \in [Session -> ErrorCode \cup {None}]
        BY <1>9 DEF TypeOK, Shutdown, ControlPhase, ErrorCode
    <2>5. commands' \in Channel /\ pending' \subseteq Conn /\ data_cancel' \subseteq Session
        BY <1>9, QueueType DEF TypeOK, Shutdown, shutdown_all, Live
    <2> QED
        BY <1>9, <2>1, <2>2, <2>3, <2>4, <2>5
        DEF TypeOK, Shutdown, ConnState, DataState, Supervisor
<1> QED
    BY <1>1, <1>2, <1>3, <1>4, <1>5, <1>6, <1>7, <1>8, <1>9 DEF RegistryStep

\* The server starts well formed.
LEMMA TypeInit ==
    ASSUME Init
    PROVE  TypeOK
<1>1. FreeSlot \in PortSlot /\ NoRef \in SessionRef /\ NoRequest \in Request
    BY DEF FreeSlot, PortSlot, NoRef, SessionRef, NoRequest, Request
<1> QED
    BY <1>1, LimitAssumption, QueueType, SequenceType
    DEF Init, TypeOK, ConnState, ControlPhase, DataState, Supervisor

\* Every step of the server preserves the types.
LEMMA TypeNext ==
    ASSUME TypeOK, [Next]_vars
    PROVE  TypeOK'
<1>1. CASE RegistryStep
    BY <1>1, TypeRegistry
<1>2. CASE Sweep
    <2>1. ports' \in [Port -> PortSlot] /\ listeners' \subseteq Listener
        BY <1>2, ReleaseType DEF Sweep
    <2> QED
        BY <1>2, <2>1 DEF TypeOK, Sweep
<1>3. CASE \E p \in Port : ReservationExpires(p)
    <2>1. PICK p \in Port : ReservationExpires(p)
        BY <1>3
    <2>2. [ports[p] EXCEPT !.expired = TRUE] \in PortSlot
        <3>1. ports[p] \in PortSlot /\ ports[p].state = "Reserved"
            BY <2>1 DEF TypeOK, ReservationExpires
        <3> QED
            BY <3>1 DEF PortSlot
    <2>3. ports' \in [Port -> PortSlot]
        BY <2>1, <2>2 DEF TypeOK, ReservationExpires
    <2> QED
        BY <2>1, <2>3 DEF TypeOK, ReservationExpires
<1>4. CASE \E l \in listeners : ListenerStops(l)
    BY <1>4 DEF TypeOK, ListenerStops
<1>5. CASE \E s \in Session : ControlStep(s)
    BY <1>5, TypeControl
<1>6. CASE \E c \in Conn : PublicStep(c)
    BY <1>6, TypePublic
<1>7. CASE \E d \in DataConn : DataStep(d)
    BY <1>7, TypeData
<1>8. CASE SupervisorStep
    BY <1>8, TypeSupervisor
<1>9. CASE UNCHANGED vars
    BY <1>9 DEF TypeOK, vars
<1> QED
    BY <1>1, <1>2, <1>3, <1>4, <1>5, <1>6, <1>7, <1>8, <1>9 DEF Next, Idle

\* Every variable of the server keeps its type in every reachable state: the
\* tables, queues and task states of the model are the ones the code can have,
\* whatever the number of clients, ports and connections and the limits.
THEOREM TypeCorrect == Spec => []TypeOK
BY TypeInit, TypeNext, PTL DEF Spec

=============================================================================
