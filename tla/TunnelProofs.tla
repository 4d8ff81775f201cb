---------------------------- MODULE TunnelProofs ----------------------------
(***************************************************************************)
(* The server with its clients.  The server's half of the tunnel behaves    *)
(* as the server of the other proofs, so whatever is proved of that server  *)
(* holds with these clients.  A client keeps its port for life, forwards    *)
(* for the user it was asked for and nobody else, and knows the port the    *)
(* registry has for it.                                                     *)
(***************************************************************************)
EXTENDS Tunnel, RequestProofs

USE DEF ownerVars, limitVars, publicVars, localVars, controlVars, writerVars,
        cancelVars, dataVars, registryVars, sessionFrame, writerFrame,
        publicFrame, connFrame, dataFrame, supervisorFrame,
        processVars, pulseVars, taskVars, linkVars, clientVars, clientFrame,
        controlFrame, runFrame, requestFrame

-----------------------------------------------------------------------------
(* What frames carry *)

\* The frames either side builds: a REGISTERED has a port, a PING or PONG a
\* number within its width, an OPEN or OPEN_FAILED a request, an ERROR a code.
Sound ==
    {f \in WireFrame :
        /\ f.ty = "Registered" => f.num \in Port \cup {0}
        /\ f.ty \in {"Ping", "Pong"} => f.num \in Sequence
        /\ f.ty \in {"Open", "OpenFailed"} => f.arg \in Conn
        /\ f.ty = "Error" => f.arg \in ErrorCode}

\* The server queues such frames, and a refused registration has a code to send.
ServerFrames ==
    /\ writer \in [Session -> Seq(Sound)]
    /\ \A s \in Session : phase[s] = "denied" => refusal[s] # None

\* Such frames are in flight, an attempt under way has a connection, and so has
\* a request's task that has dialed.
Dialed == {"hello", "proof", "forwarding"}
Linked ==
    /\ up \in [Session -> Seq(Sound)]
    /\ down \in [Session -> Seq(Sound)]
    /\ \A i \in Instance : cphase[i] \notin {"idle", "exited"} => csession[i] # None
    /\ \A c \in Conn : ctask[c] \in Dialed => cdata[c] # None

TunnelTypes == ServerFrames /\ ClientTypeOK /\ Linked

\* An attempt has asked for what its process would still ask for.
AsksItsOwn ==
    \A i \in Instance : cphase[i] \in {"hello", "proving"} => asked[csession[i]] = HelloOf(i)

\* Reading and appending keep a sequence of such frames.
LEMMA SoundQueue ==
    /\ <<>> \in Seq(Sound)
    /\ \A q \in Seq(Sound) : q # <<>> => Head(q) \in Sound /\ Tail(q) \in Seq(Sound)
    /\ \A q \in Seq(Sound), f \in Sound :
          Append(q, f) \in Seq(Sound) /\ Offer(q, f) \in Seq(Sound)
BY DEF Offer

\* The frames of a queue.
Carried(q) == {q[k] : k \in 1 .. Len(q)}

\* Appending, offering and reading, in terms of the frames in a queue.
LEMMA CarriedQueue ==
    /\ Carried(<<>>) = {}
    /\ \A q \in Seq(Sound) : q # <<>> => Head(q) \in Carried(q) /\ Carried(Tail(q)) \subseteq Carried(q)
    /\ \A q \in Seq(Sound), f \in Sound : /\ Carried(Append(q, f)) \subseteq Carried(q) \cup {f}
                                          /\ Carried(Offer(q, f)) \subseteq Carried(q) \cup {f}
<1>1. Carried(<<>>) = {}
    BY DEF Carried
<1>2. ASSUME NEW q \in Seq(Sound), q # <<>>
      PROVE  Head(q) \in Carried(q) /\ Carried(Tail(q)) \subseteq Carried(q)
    <2>1. /\ Len(q) \in Nat /\ Len(q) > 0 /\ Len(Tail(q)) = Len(q) - 1 /\ Head(q) = q[1]
          /\ \A k \in 1 .. Len(Tail(q)) : Tail(q)[k] = q[k + 1]
        BY <1>2
    <2>2. 1 \in 1 .. Len(q) /\ \A k \in 1 .. Len(Tail(q)) : k + 1 \in 1 .. Len(q)
        BY <2>1
    <2> QED
        BY <2>1, <2>2 DEF Carried
<1>3. ASSUME NEW q \in Seq(Sound), NEW f \in Sound
      PROVE  Carried(Append(q, f)) \subseteq Carried(q) \cup {f}
    <2>1. /\ Len(q) \in Nat /\ Len(Append(q, f)) = Len(q) + 1
          /\ \A k \in 1 .. Len(q) : Append(q, f)[k] = q[k]
          /\ Append(q, f)[Len(q) + 1] = f
        OBVIOUS
    <2>2. \A k \in 1 .. Len(Append(q, f)) : k \in 1 .. Len(q) \/ k = Len(q) + 1
        BY <2>1
    <2> QED
        BY <2>1, <2>2 DEF Carried
<1> QED
    BY <1>1, <1>2, <1>3 DEF Offer

\* What the server and the clients build.
LEMMA SoundFrames ==
    /\ \A ty \in {"ControlChallenge", "ControlProof", "Goodbye", "GoodbyeAck",
                  "ServerShutdown", "CloseAfterFlush"} : Frame(ty) \in Sound
    /\ CloseAfterFlush \in Sound
    /\ \A c \in Conn : OpenFrame(c) \in Sound
    /\ \A c \in Conn : [ty |-> "OpenFailed", arg |-> c, num |-> 0] \in Sound
    /\ \A code \in ErrorCode : ErrorFrame(code) \in Sound
    /\ \A p \in Port \cup {0} : NumberFrame("Registered", p) \in Sound
    /\ \A n \in Sequence : NumberFrame("Ping", n) \in Sound /\ NumberFrame("Pong", n) \in Sound
<1>1. Port \cup {0} \subseteq Nat /\ Sequence \subseteq Nat
    BY PortAssumption, SequenceType
<1> QED
    BY <1>1 DEF Frame, NumberFrame, OpenFrame, ErrorFrame, CloseAfterFlush, Sound, WireFrame,
                FrameType

\* try_send and a last frame with CloseAfterFlush keep the server's queues.
LEMMA SoundSends ==
    ASSUME writer \in [Session -> Seq(Sound)], NEW f \in Sound
    PROVE  /\ \A s : TrySend(s, f) \in [Session -> Seq(Sound)]
           /\ \A S : TrySendLast(S, f) \in [Session -> Seq(Sound)]
<1>1. \A s \in Session : /\ Offer(writer[s], f) \in Seq(Sound)
                         /\ Offer(Offer(writer[s], f), CloseAfterFlush) \in Seq(Sound)
    BY SoundQueue, SoundFrames
<1> QED
    BY <1>1 DEF TrySend, TrySendLast

\* Steps of a control connection queue such frames (control.rs: serve,
\* session_loop, writer_loop).
LEMMA FramesControl ==
    ASSUME TypeOK, ServerFrames, NEW s \in Session, ControlStep(s)
    PROVE  ServerFrames'
<1>0. /\ writer \in [Session -> Seq(Sound)] /\ phase \in [Session -> ControlPhase]
      /\ refusal \in [Session -> ErrorCode \cup {None}]
      /\ \A r \in Session : phase[r] = "denied" => refusal[r] # None
    BY DEF TypeOK, ServerFrames
<1>1. ASSUME writer' \in [Session -> Seq(Sound)], refusal' = refusal,
             \A r \in Session : phase'[r] = "denied" => phase[r] = "denied"
      PROVE  ServerFrames'
    BY <1>0, <1>1 DEF ServerFrames
<1>2. CASE (\E h \in Hellos : AcceptControl(s, h)) \/ RefuseControl(s) \/ TakeoverFlushEnds(s)
    BY <1>0, <1>1, <1>2 DEF AcceptControl, RefuseControl, TakeoverFlushEnds
<1>3. CASE HandshakeFails(s) \/ Abandon(s) \/ ServeEnds(s)
    BY <1>0, <1>3 DEF HandshakeFails, Abandon, ServeEnds, EndServe, ServerFrames
<1>4. CASE Authenticate(s)
    BY <1>0, <1>4, RefusalAssumption DEF Authenticate, ServerFrames, ErrorCode
<1>5. CASE SendRefusal(s)
    <2>1. ErrorFrame(refusal[s]) \in Sound
        BY <1>0, <1>5, SoundFrames DEF SendRefusal
    <2> QED
        BY <1>0, <1>1, <1>5, <2>1, SoundSends DEF SendRefusal
<1>6. CASE SendRegistered(s)
    <2>1. NumberFrame("Registered", assigned[s]) \in Sound
        BY SoundFrames DEF TypeOK
    <2> QED
        BY <1>0, <1>1, <1>6, <2>1, SoundSends DEF SendRegistered
<1>7. CASE Cancelled(s) \/ SendSessionLost(s) \/ SendGoodbye(s) \/ GoodbyeReplied(s) \/ PongDeadline(s)
    BY <1>0, <1>1, <1>7 DEF Cancelled, Break, SendSessionLost, SendGoodbye, GoodbyeReplied,
            Teardown, PongDeadline
<1>8. CASE PingTick(s)
    <2>1. NumberFrame("Ping", NextSequence(sequence[s])) \in Sound
        BY SoundFrames, SequenceType DEF TypeOK
    <2> QED
        BY <1>0, <1>1, <1>8, <2>1, SoundSends DEF PingTick, Break, Continue
<1>9. CASE ClientFrameArrives(s)
    <2>1. /\ \A v \in Sequence : NumberFrame("Pong", v) \in Sound
          /\ Frame("GoodbyeAck") \in Sound /\ ErrorFrame("ProtocolError") \in Sound
        BY SoundFrames DEF ErrorCode
    <2>2. ASSUME NEW v \in Sequence, ReceivePing(s, v) \/ ReceivePong(s, v)
          PROVE  ServerFrames'
        BY <1>0, <1>1, <2>1, <2>2, SoundSends DEF ReceivePing, ReceivePong, Break, Continue
    <2>3. CASE ReceiveGoodbye(s) \/ ReceiveOther(s)
        BY <1>0, <1>1, <2>1, <2>3, SoundSends DEF ReceiveGoodbye, ReceiveOther, Break, BreakClean
    <2>4. CASE ReceiveError(s) \/ \E c \in Conn : ReceiveOpenFailed(s, c)
        BY <1>0, <1>1, <2>4 DEF ReceiveError, ReceiveOpenFailed, Break, Continue
    <2> QED
        BY <1>9, <2>2, <2>3, <2>4 DEF ClientFrameArrives
<1>10. CASE WriterStep(s)
    BY <1>0, <1>1, <1>10, SoundQueue DEF WriterStep, WriteFrame, WriteFails, CloseAfterFlushed,
            SendersGone, WriterEnds
<1> QED
    BY <1>2, <1>3, <1>4, <1>5, <1>6, <1>7, <1>8, <1>9, <1>10 DEF ControlStep, ServeStep

\* So do the registry's handlers, and a refusal comes with a code.
LEMMA FramesRegistry ==
    ASSUME TypeOK, ServerFrames, RegistryStep
    PROVE  ServerFrames'
<1>0. /\ writer \in [Session -> Seq(Sound)] /\ phase \in [Session -> ControlPhase]
      /\ refusal \in [Session -> ErrorCode \cup {None}]
      /\ \A r \in Session : phase[r] = "denied" => refusal[r] # None
    BY DEF TypeOK, ServerFrames
<1>1. CASE Register
    <2>1. commands # <<>> /\ Head(commands).op = "Register"
        BY <1>1 DEF Register, Receive
    <2>2. PICK s \in Session : s = Head(commands).session
        BY <2>1, HeadCommand DEF Command
    <2>3. CASE \E p \in Port : Install(s, p) /\ UNCHANGED refusal
                               /\ phase' = [phase EXCEPT ![s] = "granted"]
        <3>1. ErrorFrame("Replaced") \in Sound
            BY SoundFrames DEF ErrorCode
        <3>2. writer' \in [Session -> Seq(Sound)]
            BY <1>0, <2>3, <3>1, SoundSends DEF Install, displace
        <3> QED
            BY <1>0, <2>3, <3>2 DEF ServerFrames
    <2>4. CASE /\ Placement(hello[s]).code # "Ok"
               /\ phase' = [phase EXCEPT ![s] = "denied"]
               /\ refusal' = [refusal EXCEPT ![s] = Placement(hello[s]).code]
               /\ UNCHANGED writer
        <3>1. Placement(hello[s]).code \in ErrorCode
            BY <2>4, PlacementCode DEF TypeOK
        <3> QED
            BY <1>0, <2>4, <3>1, RefusalAssumption DEF ServerFrames
    <2> QED
        BY <1>1, <2>2, <2>3, <2>4 DEF Register
<1>2. CASE Goodbye
    <2>1. /\ UNCHANGED <<writer, refusal>>
          /\ phase' = [phase EXCEPT ![Head(commands).session] =
                          IF @ = "goodbye" THEN "teardown" ELSE @]
        BY <1>2 DEF Goodbye
    <2>2. \A r \in Session : phase'[r] = "denied" => phase[r] = "denied"
        BY <1>0, <2>1
    <2> QED
        BY <1>0, <2>1, <2>2 DEF ServerFrames
<1>3. CASE SessionLost \/ PeekData \/ ClaimData \/ OpenFailed \/ RequestFinished
    BY <1>0, <1>3 DEF SessionLost, PeekData, ClaimData, OpenFailed, RequestFinished, ServerFrames
<1>4. CASE AcceptedPublic
    <2>1. commands # <<>> /\ Head(commands).op = "AcceptedPublic"
        BY <1>4 DEF AcceptedPublic, Receive
    <2>2. PICK c \in Conn : c = Head(commands).item
        BY <2>1, HeadCommand DEF Command
    <2>3. /\ UNCHANGED <<phase, refusal>>
          /\ writer' = writer \/ \E s : writer' = TrySend(s, OpenFrame(c))
        BY <1>4, <2>2 DEF AcceptedPublic, Reject, FailSession, OpenRequest
    <2>4. writer' \in [Session -> Seq(Sound)]
        BY <1>0, <2>3, SoundSends, SoundFrames
    <2> QED
        BY <1>0, <2>3, <2>4 DEF ServerFrames
<1>5. CASE Shutdown
    <2>1. Frame("ServerShutdown") \in Sound
        BY SoundFrames
    <2>2. writer' \in [Session -> Seq(Sound)]
        BY <1>0, <1>5, <2>1, SoundSends DEF Shutdown, shutdown_all
    <2>3. \A r \in Session : phase'[r] = "denied" =>
            phase[r] = "denied" \/ phase[r] = "registering"
        BY <1>5 DEF Shutdown
    <2>4. \A r \in Session : refusal'[r] = IF phase[r] = "registering" THEN "InternalError"
                                          ELSE refusal[r]
        BY <1>5 DEF Shutdown
    <2>5. "InternalError" # None
        BY RefusalAssumption DEF ErrorCode
    <2> QED
        BY <1>0, <2>2, <2>3, <2>4, <2>5 DEF ServerFrames
<1> QED
    BY <1>1, <1>2, <1>3, <1>4, <1>5 DEF RegistryStep

\* Every step of the server queues sound frames only.
LEMMA FramesNext ==
    ASSUME TypeOK, ServerFrames, [Next]_vars
    PROVE  ServerFrames'
<1>0. ASSUME UNCHANGED <<writer, phase, refusal>>
      PROVE  ServerFrames'
    BY <1>0 DEF ServerFrames
<1>1. CASE RegistryStep
    BY <1>1, FramesRegistry
<1>2. CASE \/ Sweep \/ (\E p \in Port : ReservationExpires(p))
           \/ (\E l \in listeners : ListenerStops(l)) \/ Stop \/ SendShutdown \/ TasksJoined
    BY <1>0, <1>2 DEF Sweep, ReservationExpires, ListenerStops, Stop, SendShutdown, TasksJoined
<1>3. CASE \E s \in Session : ControlStep(s)
    BY <1>3, FramesControl
<1>4. CASE \E c \in Conn : PublicStep(c)
    BY <1>0, <1>4, PublicStepFrame
<1>5. CASE \E d \in DataConn : DataStep(d)
    BY <1>0, <1>5, DataStepFrame
<1>6. CASE GraceElapses
    BY <1>6 DEF GraceElapses, EndServe, ServerFrames
<1>7. CASE UNCHANGED vars
    BY <1>0, <1>7 DEF vars
<1> QED
    BY <1>1, <1>2, <1>3, <1>4, <1>5, <1>6, <1>7 DEF Next, Idle, SupervisorStep

-----------------------------------------------------------------------------
(* The server's half *)

\* A process or one of its tasks changes nothing of the server.
LEMMA ClientsApart ==
    /\ \A i \in Instance : ProcessStep(i) => UNCHANGED vars
    /\ \A c \in Conn : TaskStep(c) => UNCHANGED vars
<1>1. ASSUME NEW i \in Instance, AttemptStep(i) PROVE UNCHANGED vars
    BY <1>1 DEF AttemptStep, ReadChallenge, ReadRegistered, AttemptRefused, AttemptConfused,
                AttemptFails, AttemptCancelled
<1>2. ASSUME NEW i \in Instance, SessionStep(i) PROVE UNCHANGED vars
    BY <1>2 DEF SessionStep, HearPing, HearPong, HearShutdown, HearError, HearOpen,
                StartGoodbye, GoodbyeEnds
<1>3. \A i \in Instance : ProcessStep(i) => UNCHANGED vars
    BY <1>1, <1>2 DEF ProcessStep, Dial, SessionEnds, ClientPongDeadline, ClientPingTick,
                      RunCancelled, Interrupt, Kill
<1>4. \A c \in Conn : TaskStep(c) => UNCHANGED vars
    BY DEF TaskStep, DialBoth, ReadDataChallenge, ReadDataReady, SetupFails, TaskCancelled,
           ClientForwardEnds
<1> QED
    BY <1>3, <1>4

\* What the clients send is what the server of Server may be sent: a hello it
\* knows, and frames with arguments of their type.
LEMMA ServerControlStep ==
    ASSUME TypeOK, TunnelTypes, NEW s \in Session, ServerControl(s)
    PROVE  ControlStep(s)
<1>1. CASE ServerAccepts(s)
    <2>1. asked[s] \in Hellos
        BY <1>1, HelloAssumption DEF ServerAccepts, TunnelTypes, ClientTypeOK
    <2> QED
        BY <1>1, <2>1 DEF ServerAccepts, ControlStep
<1>2. CASE ServerAuthenticates(s) \/ ServerHandshakeFails(s)
    BY <1>2 DEF ServerAuthenticates, ServerHandshakeFails, ControlStep
<1>3. CASE ServerReads(s)
    <2>1. Head(up[s]) \in Sound
        BY <1>3, SoundQueue DEF ServerReads, TunnelTypes, Linked
    <2>2. /\ Head(up[s]).ty \in {"Ping", "Pong"} => Head(up[s]).num \in Sequence
          /\ Head(up[s]).ty = "OpenFailed" => Head(up[s]).arg \in Conn
        BY <2>1 DEF Sound
    <2>3. ClientFrameArrives(s)
        BY <1>3, <2>2 DEF ServerReads, ClientFrameArrives
    <2> QED
        BY <2>3 DEF ControlStep
<1>4. CASE ServerReadsEnd(s)
    BY <1>4 DEF ServerReadsEnd, ControlStep, ClientFrameArrives
<1>5. CASE ServerWrites(s) \/ ServerWriteFails(s)
    BY <1>5 DEF ServerWrites, ServerWriteFails, ControlStep, WriterStep
<1> QED
    BY <1>1, <1>2, <1>3, <1>4, <1>5 DEF ServerControl

\* Every step of the tunnel is a step of the server or leaves it alone.
LEMMA ServerHalf ==
    ASSUME TypeOK, TunnelTypes, [TunnelNext]_tunnelVars
    PROVE  [Next]_vars
<1>1. CASE ServerInternal
    <2>1. \A s \in Session : InternalControl(s) => ControlStep(s)
        BY DEF InternalControl, ControlStep, WriterStep
    <2>2. \A c \in Conn : InternalPublic(c) => PublicStep(c)
        BY DEF InternalPublic, PublicStep, ServePublicStep
    <2>3. \A d \in DataConn : InternalData(d) => DataStep(d)
        BY DEF InternalData, DataStep
    <2> QED
        BY <1>1, <2>1, <2>2, <2>3 DEF ServerInternal, Next
<1>2. CASE \E s \in Session : ServerControl(s)
    BY <1>2, ServerControlStep DEF Next
<1>3. CASE \E s \in Session : Cut(s)
    BY <1>3 DEF Cut
<1>4. CASE \E d \in DataConn : ServerData(d)
    BY <1>4 DEF ServerData, ServerAcceptsData, ServerRefusesData, ServerClaims, DataStep, Next
<1>5. CASE \E c \in Conn : ServerReadies(c)
    BY <1>5 DEF ServerReadies, PublicStep, ServePublicStep, Next
<1>6. CASE (\E c \in Conn : TaskStep(c)) \/ (\E i \in Instance : ProcessStep(i))
    BY <1>6, ClientsApart
<1>7. CASE AtRest \/ UNCHANGED tunnelVars
    BY <1>7 DEF AtRest, tunnelVars
<1> QED
    BY <1>1, <1>2, <1>3, <1>4, <1>5, <1>6, <1>7 DEF TunnelNext

-----------------------------------------------------------------------------
(* The clients' half *)

ClientSide == ClientTypeOK /\ Linked

\* Frames put on a connection are sound.
LEMMA SoundPipes ==
    ASSUME ClientSide, NEW f \in Sound
    PROVE  \A s : /\ Put(up, s, f) \in [Session -> Seq(Sound)]
                  /\ Post(s, f) \in [Session -> Seq(Sound)]
                  /\ Deliver(s, f) \in [Session -> Seq(Sound)]
<1>1. up \in [Session -> Seq(Sound)] /\ down \in [Session -> Seq(Sound)]
    BY DEF ClientSide, Linked
<1>2. \A s \in Session : Append(up[s], f) \in Seq(Sound) /\ Append(down[s], f) \in Seq(Sound)
    BY <1>1, SoundQueue
<1> QED
    BY <1>1, <1>2 DEF Put, Post, Deliver

\* The next frame of a connection, and what is left after it.
LEMMA SoundHeard ==
    ASSUME ClientSide, NEW s \in Session, down[s] # <<>>
    PROVE  Head(down[s]) \in Sound /\ [down EXCEPT ![s] = Tail(@)] \in [Session -> Seq(Sound)]
BY SoundQueue DEF ClientSide, Linked

\* Sound frames are frames.
LEMMA SoundTyped ==
    ASSUME NEW q \in [Session -> Seq(Sound)]
    PROVE  q \in [Session -> Seq(WireFrame)]
<1>1. Sound \subseteq WireFrame
    BY DEF Sound
<1>2. ASSUME NEW r \in Seq(Sound) PROVE r \in Seq(WireFrame)
    BY <1>1
<1> QED
    BY <1>2

\* Retry and Exit give the connection of the attempt up.
LEMMA AttemptOver ==
    ASSUME ClientSide, NEW i \in Instance, csession[i] # None,
           Retry(i) \/ \E result \in Outcome : Exit(i, result),
           UNCHANGED <<taskVars, cut, readied>>
    PROVE  ClientSide'
<1>0. /\ cphase \in [Instance -> ClientPhase] /\ csession \in [Instance -> Session \cup {None}]
      /\ outcome \in [Instance -> Outcome] /\ csequence \in [Instance -> Sequence]
      /\ down \in [Session -> Seq(Sound)]
    BY DEF ClientSide, ClientTypeOK, Linked
<1>1. csession[i] \in Session
    BY <1>0
<1>2. EndAttempt(i) /\ \E x \in {"idle", "exited"} : cphase' = [cphase EXCEPT ![i] = x]
    BY DEF Retry, Exit
<1>3. outcome' \in [Instance -> Outcome] /\ UNCHANGED <<last_assigned, cancelled>>
    BY <1>0 DEF Retry, Exit
<1>4. /\ down' \in [Session -> Seq(Sound)] /\ UNCHANGED <<asked, up>>
      /\ left' = left \cup {csession[i]} /\ csession' = [csession EXCEPT ![i] = None]
      /\ coutstanding' = coutstanding \ {i} /\ csequence' = [csequence EXCEPT ![i] = 0]
    BY <1>0, <1>2, SoundQueue DEF EndAttempt, CloseClient
<1>5. /\ cphase' \in [Instance -> ClientPhase] /\ csession' \in [Instance -> Session \cup {None}]
      /\ csequence' \in [Instance -> Sequence] /\ left' \subseteq Session
    BY <1>0, <1>1, <1>2, <1>4, SequenceType DEF ClientPhase, ClientSide, ClientTypeOK
<1>6. down' \in [Session -> Seq(WireFrame)]
    BY <1>4, SoundTyped
<1>7. ClientTypeOK'
    BY <1>3, <1>4, <1>5, <1>6 DEF ClientSide, ClientTypeOK
<1>8. Linked'
    BY <1>0, <1>2, <1>4 DEF ClientSide, Linked
<1> QED
    BY <1>7, <1>8 DEF ClientSide

\* A step that opens and closes no connection.
LEMMA AttemptGoesOn ==
    ASSUME ClientSide, UNCHANGED <<csession, outcome, asked, left>>,
           up' \in [Session -> Seq(Sound)], down' \in [Session -> Seq(Sound)],
           cphase' \in [Instance -> ClientPhase],
           \A i \in Instance : cphase[i] \in {"idle", "exited"} => cphase'[i] \in {"idle", "exited"},
           last_assigned' \in [Instance -> Port \cup {0}], cancelled' \subseteq Instance,
           csequence' \in [Instance -> Sequence], coutstanding' \subseteq Instance,
           ctask' \in [Conn -> TaskState], cdata' \in [Conn -> DataConn \cup {None}],
           \A c \in Conn : ctask'[c] \in Dialed =>
              (ctask[c] \in Dialed /\ cdata'[c] = cdata[c]) \/ cdata'[c] # None,
           cut' \subseteq Session, proven' \subseteq DataConn, readied' \subseteq DataConn
    PROVE  ClientSide'
<1>1. up' \in [Session -> Seq(WireFrame)] /\ down' \in [Session -> Seq(WireFrame)]
    BY SoundTyped
<1> QED
    BY <1>1 DEF ClientSide, ClientTypeOK, Linked

\* First picks an element: connections are numbered.
LEMMA FirstIn ==
    ASSUME NEW S, S \subseteq Nat, S # {}
    PROVE  First(S) \in S
<1>1. \E x \in S : \A y \in S : ~(<<y, x>> \in OpToRel(<, Nat))
    BY NatLessThanWellFounded, WFMin
<1>2. PICK x \in S : \A y \in S : ~(y < x)
    BY <1>1 DEF OpToRel
<1>3. \A y \in S : x <= y
    BY <1>2
<1> QED
    BY <1>3 DEF First

\* What a process asks for is a hello: a resume names the port it had.
LEMMA HelloTyped ==
    ASSUME ClientTypeOK, NEW i \in Instance
    PROVE  HelloOf(i) \in Hello
BY TunnelAssumption DEF ClientTypeOK, HelloOf, Hello, Modes

\* The steps of an attempt (client/control.rs: attempt, register).
LEMMA ClientAttempt ==
    ASSUME ClientSide, NEW i \in Instance, AttemptStep(i)
    PROVE  ClientSide'
<1>0. /\ cphase \in [Instance -> ClientPhase] /\ csession \in [Instance -> Session \cup {None}]
      /\ up \in [Session -> Seq(Sound)] /\ down \in [Session -> Seq(Sound)]
      /\ last_assigned \in [Instance -> Port \cup {0}] /\ cancelled \subseteq Instance
      /\ csequence \in [Instance -> Sequence] /\ coutstanding \subseteq Instance
      /\ ctask \in [Conn -> TaskState] /\ cdata \in [Conn -> DataConn \cup {None}]
      /\ cut \subseteq Session /\ proven \subseteq DataConn /\ readied \subseteq DataConn
    BY DEF ClientSide, ClientTypeOK, Linked
<1>1. cphase[i] \in {"hello", "proving"} /\ UNCHANGED <<taskVars, cut, readied>>
    BY DEF AttemptStep, ReadChallenge, ReadRegistered, AttemptRefused, AttemptConfused,
           AttemptFails, AttemptCancelled, Attempting
<1>2. PICK s \in Session : s = csession[i]
    BY <1>0, <1>1 DEF ClientSide, Linked
<1>3. csession[i] # None
    BY <1>2, IdentityAssumption
<1>4. CASE ReadChallenge(i)
    <2>1. /\ down' \in [Session -> Seq(Sound)] /\ up' \in [Session -> Seq(Sound)]
        BY <1>2, <1>4, SoundHeard, SoundPipes, SoundFrames DEF ReadChallenge, Heard, Heed
    <2>2. /\ cphase' = [cphase EXCEPT ![i] = "proving"]
          /\ UNCHANGED <<csession, last_assigned, outcome, cancelled, csequence, coutstanding,
                         asked, left>>
        BY <1>4 DEF ReadChallenge
    <2>3. /\ cphase' \in [Instance -> ClientPhase]
          /\ \A j \in Instance : cphase[j] \in {"idle", "exited"} => cphase'[j] \in {"idle", "exited"}
        BY <1>0, <1>1, <2>2 DEF ClientPhase
    <2> QED
        BY <1>0, <1>1, <2>1, <2>2, <2>3, AttemptGoesOn
<1>5. CASE ReadRegistered(i)
    <2>1. Head(down[s]) \in Sound /\ Head(down[s]).ty = "Registered"
          /\ [down EXCEPT ![s] = Tail(@)] \in [Session -> Seq(Sound)]
        BY <1>2, <1>5, SoundHeard DEF ReadRegistered, Heard
    <2>2. Head(down[s]).num \in Port \cup {0}
        BY <2>1 DEF Sound
    <2>3. CASE Exit(i, "ProtocolError")
        BY <1>1, <1>3, <2>3, AttemptOver DEF Outcome, ErrorCode
    <2>4. CASE /\ Heed(i)
               /\ cphase' = [cphase EXCEPT ![i] = "running"]
               /\ last_assigned' = [last_assigned EXCEPT ![i] = Head(down[s]).num]
               /\ UNCHANGED <<csession, outcome, cancelled, pulseVars, asked, up, left>>
        <3>1. /\ cphase' \in [Instance -> ClientPhase]
              /\ \A j \in Instance : cphase[j] \in {"idle", "exited"} =>
                    cphase'[j] \in {"idle", "exited"}
              /\ last_assigned' \in [Instance -> Port \cup {0}]
            BY <1>0, <1>1, <2>2, <2>4 DEF ClientPhase
        <3>2. down' \in [Session -> Seq(Sound)]
            BY <1>2, <2>1, <2>4 DEF Heed
        <3> QED
            BY <1>0, <1>1, <2>4, <3>1, <3>2, AttemptGoesOn
    <2> QED
        BY <1>2, <1>5, <2>3, <2>4 DEF ReadRegistered
<1>6. CASE AttemptRefused(i)
    <2>1. Head(down[s]) \in Sound /\ Head(down[s]).ty = "Error"
        BY <1>2, <1>6, SoundHeard DEF AttemptRefused, Heard
    <2>2. Head(down[s]).arg \in Outcome
        BY <2>1 DEF Sound, Outcome
    <2>3. Retry(i) \/ Exit(i, Head(down[s]).arg)
        BY <1>2, <1>6 DEF AttemptRefused, classify
    <2> QED
        BY <1>1, <1>3, <2>2, <2>3, AttemptOver
<1>7. CASE AttemptConfused(i) \/ AttemptFails(i) \/ AttemptCancelled(i)
    <2>1. Retry(i) \/ Exit(i, "ProtocolError") \/ Exit(i, "Clean")
        BY <1>7 DEF AttemptConfused, AttemptFails, AttemptCancelled
    <2>2. "ProtocolError" \in Outcome /\ "Clean" \in Outcome
        BY DEF Outcome, ErrorCode
    <2> QED
        BY <1>1, <1>3, <2>1, <2>2, AttemptOver
<1> QED
    BY <1>4, <1>5, <1>6, <1>7 DEF AttemptStep

\* The steps of a session that wait for a frame or the token (run_session).
LEMMA ClientSession ==
    ASSUME ClientSide, NEW i \in Instance, SessionStep(i)
    PROVE  ClientSide'
<1>0. /\ cphase \in [Instance -> ClientPhase] /\ csession \in [Instance -> Session \cup {None}]
      /\ up \in [Session -> Seq(Sound)] /\ down \in [Session -> Seq(Sound)]
      /\ last_assigned \in [Instance -> Port \cup {0}] /\ cancelled \subseteq Instance
      /\ csequence \in [Instance -> Sequence] /\ coutstanding \subseteq Instance
      /\ ctask \in [Conn -> TaskState] /\ cdata \in [Conn -> DataConn \cup {None}]
      /\ cut \subseteq Session /\ proven \subseteq DataConn /\ readied \subseteq DataConn
    BY DEF ClientSide, ClientTypeOK, Linked
<1>1. cphase[i] \in {"running", "leaving"} /\ UNCHANGED <<cut, readied>>
    BY DEF SessionStep, HearPing, HearPong, HearShutdown, HearError, HearOpen, StartGoodbye,
           GoodbyeEnds, Running
<1>2. PICK s \in Session : s = csession[i]
    BY <1>0, <1>1 DEF ClientSide, Linked
<1>3. csession[i] # None
    BY <1>2, IdentityAssumption
<1>4. ASSUME down[s] # <<>>
      PROVE  /\ Head(down[s]) \in Sound
             /\ [down EXCEPT ![s] = Tail(@)] \in [Session -> Seq(Sound)]
    BY <1>4, SoundHeard
<1>5. CASE Retry(i) /\ UNCHANGED taskVars
    BY <1>1, <1>3, <1>5, AttemptOver
<1>6. \A ty \in {"Clean", "ProtocolError"} : ty \in Outcome
    BY DEF Outcome, ErrorCode
<1>7. CASE HearPing(i)
    <2>1. down[s] # <<>> /\ Head(down[s]).ty = "Ping" /\ UNCHANGED taskVars
        BY <1>2, <1>7 DEF HearPing, Heard
    <2>2. NumberFrame("Pong", Head(down[s]).num) \in Sound
        BY <1>4, <2>1, SoundFrames DEF Sound
    <2>3. CASE /\ up' = Post(s, NumberFrame("Pong", Head(down[s]).num)) /\ Heed(i)
               /\ UNCHANGED <<processVars, pulseVars, asked, left>>
        <3>1. up' \in [Session -> Seq(Sound)] /\ down' \in [Session -> Seq(Sound)]
            BY <1>2, <1>4, <2>1, <2>2, <2>3, SoundPipes DEF Heed
        <3> QED
            BY <1>0, <1>1, <2>1, <2>3, <3>1, AttemptGoesOn
    <2> QED
        BY <1>2, <1>5, <1>7, <2>1, <2>3 DEF HearPing
<1>8. CASE HearPong(i)
    <2>1. down' \in [Session -> Seq(Sound)] /\ coutstanding' \subseteq Instance
        BY <1>0, <1>2, <1>4, <1>8 DEF HearPong, Heard, Heed
    <2>2. UNCHANGED <<taskVars, processVars, csequence, up, asked, left>>
        BY <1>8 DEF HearPong
    <2> QED
        BY <1>0, <1>1, <2>1, <2>2, AttemptGoesOn
<1>9. CASE HearShutdown(i)
    BY <1>5, <1>9 DEF HearShutdown
<1>10. CASE HearError(i)
    <2>1. down[s] # <<>> /\ UNCHANGED taskVars
        BY <1>2, <1>10 DEF HearError
    <2>2. CASE Head(down[s]).ty = "Error"
        <3>1. Head(down[s]).arg \in Outcome
            BY <1>4, <2>1, <2>2 DEF Sound, Outcome
        <3>2. Retry(i) \/ Exit(i, Head(down[s]).arg)
            BY <1>2, <1>10, <2>2 DEF HearError, classify
        <3> QED
            BY <1>1, <1>3, <2>1, <3>1, <3>2, AttemptOver
    <2>3. CASE Head(down[s]).ty = "GoodbyeAck"
        <3>1. Heed(i) /\ UNCHANGED <<processVars, pulseVars, asked, up, left>>
            BY <1>2, <1>10, <2>3 DEF HearError
        <3>2. down' \in [Session -> Seq(Sound)]
            BY <1>2, <1>4, <2>1, <3>1 DEF Heed
        <3> QED
            BY <1>0, <1>1, <2>1, <3>1, <3>2, AttemptGoesOn
    <2>4. CASE Head(down[s]).ty \notin {"Error", "GoodbyeAck"}
        <3>1. Exit(i, "ProtocolError")
            BY <1>2, <1>10, <2>4 DEF HearError
        <3> QED
            BY <1>1, <1>3, <1>6, <2>1, <3>1, AttemptOver
    <2> QED
        BY <2>2, <2>3, <2>4
<1>11. CASE HearOpen(i)
    <2>1. down[s] # <<>> /\ Head(down[s]).ty = "Open"
        BY <1>2, <1>11 DEF HearOpen
    <2>2. PICK c \in Conn : c = Head(down[s]).arg
        BY <1>4, <2>1 DEF Sound
    <2>3. /\ down' \in [Session -> Seq(Sound)]
          /\ \E x \in {"dialing", "done"} : ctask' = [ctask EXCEPT ![c] = x]
          /\ up' = up \/ up' = Report(s, c)
          /\ UNCHANGED <<processVars, pulseVars, asked, left, cdata, proven>>
        BY <1>2, <1>4, <1>11, <2>1, <2>2 DEF HearOpen
    <2>4. /\ ctask' \in [Conn -> TaskState]
          /\ \A x \in Conn : ctask'[x] \in Dialed => ctask[x] \in Dialed
        BY <1>0, <2>3 DEF TaskState, Dialed
    <2>5. up' \in [Session -> Seq(Sound)]
        BY <1>0, <2>2, <2>3, SoundPipes, SoundFrames DEF Report
    <2> QED
        BY <1>0, <1>1, <2>3, <2>4, <2>5, AttemptGoesOn
<1>12. CASE StartGoodbye(i)
    <2>1. UNCHANGED taskVars
        BY <1>12 DEF StartGoodbye
    <2>2. CASE Exit(i, "Clean")
        BY <1>1, <1>3, <1>6, <2>1, <2>2, AttemptOver
    <2>3. CASE /\ up' = Post(s, Frame("Goodbye"))
               /\ cphase' = [cphase EXCEPT ![i] = "leaving"]
               /\ UNCHANGED <<csession, last_assigned, outcome, cancelled, pulseVars,
                              asked, down, left>>
        <3>1. up' \in [Session -> Seq(Sound)]
            BY <2>3, SoundPipes, SoundFrames
        <3>2. /\ cphase' \in [Instance -> ClientPhase]
              /\ \A j \in Instance : cphase[j] \in {"idle", "exited"} =>
                    cphase'[j] \in {"idle", "exited"}
            BY <1>0, <1>1, <2>3 DEF ClientPhase
        <3> QED
            BY <1>0, <1>1, <2>1, <2>3, <3>1, <3>2, AttemptGoesOn
    <2> QED
        BY <1>2, <1>12, <2>2, <2>3 DEF StartGoodbye
<1>13. CASE GoodbyeEnds(i)
    <2>1. Exit(i, "Clean") /\ UNCHANGED taskVars
        BY <1>13 DEF GoodbyeEnds
    <2> QED
        BY <1>1, <1>3, <1>6, <2>1, AttemptOver
<1> QED
    BY <1>7, <1>8, <1>9, <1>10, <1>11, <1>12, <1>13 DEF SessionStep

\* The steps of a process (client/mod.rs: run).
LEMMA ClientProcess ==
    ASSUME ClientSide, NEW i \in Instance, ProcessStep(i)
    PROVE  ClientSide'
<1>0. /\ cphase \in [Instance -> ClientPhase] /\ csession \in [Instance -> Session \cup {None}]
      /\ up \in [Session -> Seq(Sound)] /\ down \in [Session -> Seq(Sound)]
      /\ last_assigned \in [Instance -> Port \cup {0}] /\ cancelled \subseteq Instance
      /\ csequence \in [Instance -> Sequence] /\ coutstanding \subseteq Instance
      /\ ctask \in [Conn -> TaskState] /\ cdata \in [Conn -> DataConn \cup {None}]
      /\ cut \subseteq Session /\ proven \subseteq DataConn /\ readied \subseteq DataConn
      /\ asked \in [Session -> Hello \cup {NoHello}] /\ outcome \in [Instance -> Outcome]
    BY DEF ClientSide, ClientTypeOK, Linked
<1>1. CASE AttemptStep(i) \/ SessionStep(i)
    BY <1>1, ClientAttempt, ClientSession
<1>2. CASE Dial(i)
    <2>1. PICK s \in Session : s = First(Undialed)
        <3>1. Undialed \subseteq Nat /\ Undialed # {} /\ Undialed \subseteq Session
            BY <1>2, TunnelAssumption DEF Dial, Undialed
        <3> QED
            BY <3>1, FirstIn
    <2>2. /\ csession' = [csession EXCEPT ![i] = s] /\ asked' = [asked EXCEPT ![s] = HelloOf(i)]
          /\ cphase' = [cphase EXCEPT ![i] = "hello"]
          /\ UNCHANGED <<taskVars, cut, readied, last_assigned, outcome, cancelled, pulseVars,
                         up, down, left>>
        BY <1>2, <2>1 DEF Dial
    <2>3. HelloOf(i) \in Hello
        BY HelloTyped DEF ClientSide
    <2>4. ClientTypeOK'
        BY <1>0, <2>2, <2>3 DEF ClientSide, ClientTypeOK, ClientPhase
    <2>5. Linked'
        BY <1>0, <2>2, IdentityAssumption DEF ClientSide, Linked
    <2> QED
        BY <2>4, <2>5 DEF ClientSide
<1>3. CASE SessionEnds(i) \/ ClientPongDeadline(i)
    <2>1. cphase[i] = "running" /\ Retry(i) /\ UNCHANGED <<taskVars, cut, readied>>
        BY <1>3 DEF SessionEnds, ClientPongDeadline, Running
    <2> QED
        BY <2>1, AttemptOver DEF ClientSide, Linked
<1>4. CASE ClientPingTick(i)
    <2>0. cphase[i] = "running" /\ UNCHANGED <<taskVars, cut, readied>>
        BY <1>4 DEF ClientPingTick, Running
    <2>1. CASE Retry(i)
        BY <2>0, <2>1, AttemptOver DEF ClientSide, Linked
    <2>2. CASE \E n \in Sequence :
                 /\ up' = Post(csession[i], NumberFrame("Ping", n))
                 /\ coutstanding' = coutstanding \cup {i}
                 /\ csequence' = [csequence EXCEPT ![i] = n]
                 /\ UNCHANGED <<processVars, asked, left, down>>
        <3>1. up' \in [Session -> Seq(Sound)]
            BY <2>2, SoundPipes, SoundFrames
        <3>2. csequence' \in [Instance -> Sequence] /\ coutstanding' \subseteq Instance
            BY <1>0, <2>2
        <3> QED
            BY <1>0, <2>0, <2>2, <3>1, <3>2, AttemptGoesOn
    <2>3. (csequence[i] + 1) % SEQUENCE_MODULUS \in Sequence
        BY <1>0, SequenceType DEF NextSequence
    <2> QED
        BY <1>4, <2>1, <2>2, <2>3 DEF ClientPingTick
<1>5. CASE RunCancelled(i)
    <2>1. /\ cphase' = [cphase EXCEPT ![i] = "exited"] /\ outcome' = [outcome EXCEPT ![i] = "Clean"]
          /\ UNCHANGED <<taskVars, cut, readied, csession, last_assigned, cancelled, pulseVars,
                         linkVars>>
        BY <1>5 DEF RunCancelled
    <2>2. ClientTypeOK'
        BY <1>0, <2>1 DEF ClientSide, ClientTypeOK, ClientPhase, Outcome
    <2>3. Linked'
        BY <1>0, <2>1 DEF ClientSide, Linked
    <2> QED
        BY <2>2, <2>3 DEF ClientSide
<1>6. CASE Interrupt(i)
    <2>1. /\ cancelled' \subseteq Instance
          /\ UNCHANGED <<taskVars, cut, readied, cphase, csession, last_assigned, outcome, pulseVars,
                         linkVars>>
        BY <1>0, <1>6 DEF Interrupt
    <2> QED
        BY <1>0, <2>1, AttemptGoesOn
<1>7. CASE Kill(i)
    <2>1. "Killed" \in Outcome
        BY DEF Outcome
    <2> QED
        BY <1>7, <2>1, AttemptOver DEF Kill
<1> QED
    BY <1>1, <1>2, <1>3, <1>4, <1>5, <1>6, <1>7 DEF ProcessStep

\* The steps of a request's task (client/data.rs).
LEMMA ClientTask ==
    ASSUME ClientSide, NEW c \in Conn, TaskStep(c)
    PROVE  ClientSide'
<1>0. /\ cphase \in [Instance -> ClientPhase]
      /\ up \in [Session -> Seq(Sound)] /\ down \in [Session -> Seq(Sound)]
      /\ last_assigned \in [Instance -> Port \cup {0}] /\ cancelled \subseteq Instance
      /\ csequence \in [Instance -> Sequence] /\ coutstanding \subseteq Instance
      /\ ctask \in [Conn -> TaskState] /\ cdata \in [Conn -> DataConn \cup {None}]
      /\ cut \subseteq Session /\ proven \subseteq DataConn /\ readied \subseteq DataConn
    BY DEF ClientSide, ClientTypeOK, Linked
<1>1. UNCHANGED <<processVars, pulseVars, asked, left, cut, readied, down>>
    BY DEF TaskStep, DialBoth, ReadDataChallenge, ReadDataReady, SetupFails, TaskCancelled,
           ClientForwardEnds
<1>2. CASE DialBoth(c)
    <2>1. Undialed_data \subseteq Nat /\ Undialed_data # {} /\ Undialed_data \subseteq DataConn
        BY <1>2, TunnelAssumption DEF DialBoth, Undialed_data
    <2>2. PICK d \in DataConn : d = First(Undialed_data)
        BY <2>1, FirstIn
    <2>3. /\ ctask' = [ctask EXCEPT ![c] = "hello"] /\ cdata' = [cdata EXCEPT ![c] = d]
          /\ UNCHANGED <<proven, up>>
        BY <1>2, <2>2 DEF DialBoth, Step
    <2>4. /\ ctask' \in [Conn -> TaskState] /\ cdata' \in [Conn -> DataConn \cup {None}]
          /\ cdata'[c] = d
          /\ \A x \in Conn : x # c => ctask'[x] = ctask[x] /\ cdata'[x] = cdata[x]
        BY <1>0, <2>3 DEF TaskState
    <2>5. d # None
        BY IdentityAssumption
    <2> QED
        BY <1>0, <1>1, <2>3, <2>4, <2>5, AttemptGoesOn
<1>3. ASSUME NEW x \in TaskState, ctask' = [ctask EXCEPT ![c] = x], x \in Dialed => ctask[c] \in Dialed,
             cdata' = cdata, proven' \subseteq DataConn, up' \in [Session -> Seq(Sound)]
      PROVE  ClientSide'
    <2>1. /\ ctask' \in [Conn -> TaskState]
          /\ \A y \in Conn : ctask'[y] \in Dialed => ctask[y] \in Dialed
        BY <1>0, <1>3
    <2> QED
        BY <1>0, <1>1, <1>3, <2>1, AttemptGoesOn
<1>4. CASE ReadDataChallenge(c)
    <2>1. /\ ctask[c] = "hello" /\ ctask' = [ctask EXCEPT ![c] = "proof"]
          /\ UNCHANGED <<cdata, up>> /\ proven' = proven \cup {cdata[c]}
        BY <1>4 DEF ReadDataChallenge, Step
    <2>2. cdata[c] \in DataConn
        BY <1>0, <2>1 DEF ClientSide, Linked, Dialed
    <2> QED
        BY <1>0, <1>3, <2>1, <2>2 DEF Dialed, TaskState
<1>5. CASE ReadDataReady(c)
    <2>1. /\ ctask[c] = "proof" /\ ctask' = [ctask EXCEPT ![c] = "forwarding"]
          /\ UNCHANGED <<cdata, proven, up>>
        BY <1>5 DEF ReadDataReady, Step
    <2> QED
        BY <1>0, <1>3, <2>1 DEF Dialed, TaskState
<1>6. CASE TaskCancelled(c) \/ ClientForwardEnds(c) \/ SetupFails(c)
    <2>1. ctask' = [ctask EXCEPT ![c] = "done"] /\ UNCHANGED <<cdata, proven>>
        BY <1>6 DEF TaskCancelled, ClientForwardEnds, SetupFails, Step
    <2>2. up' \in [Session -> Seq(Sound)]
        BY <1>0, <1>6, SoundPipes, SoundFrames DEF TaskCancelled, ClientForwardEnds, SetupFails,
                                                   Report
    <2> QED
        BY <1>0, <1>3, <2>1, <2>2 DEF Dialed, TaskState
<1> QED
    BY <1>2, <1>4, <1>5, <1>6 DEF TaskStep

\* Server steps that touch a connection, and a connection being cut.
LEMMA ClientConnections ==
    ASSUME TypeOK, Delivery, ServerFrames, ClientSide,
           \/ \E s \in Session : ServerControl(s) \/ Cut(s)
           \/ \E d \in DataConn : ServerData(d)
           \/ \E c \in Conn : ServerReadies(c)
    PROVE  ClientSide'
<1>0. /\ cphase \in [Instance -> ClientPhase]
      /\ up \in [Session -> Seq(Sound)] /\ down \in [Session -> Seq(Sound)]
      /\ last_assigned \in [Instance -> Port \cup {0}] /\ cancelled \subseteq Instance
      /\ csequence \in [Instance -> Sequence] /\ coutstanding \subseteq Instance
      /\ ctask \in [Conn -> TaskState] /\ cdata \in [Conn -> DataConn \cup {None}]
      /\ cut \subseteq Session /\ proven \subseteq DataConn /\ readied \subseteq DataConn
    BY DEF ClientSide, ClientTypeOK, Linked
<1>1. ASSUME UNCHANGED <<processVars, pulseVars, taskVars, asked, left>>,
             up' \in [Session -> Seq(Sound)], down' \in [Session -> Seq(Sound)],
             cut' \subseteq Session, readied' \subseteq DataConn
      PROVE  ClientSide'
    BY <1>0, <1>1, AttemptGoesOn
<1>2. ASSUME NEW s \in Session, ServerControl(s)
      PROVE  ClientSide'
    <2>1. UNCHANGED <<processVars, pulseVars, taskVars, asked, left, cut, readied>>
        BY <1>2 DEF ServerControl, ServerAccepts, ServerAuthenticates, ServerHandshakeFails,
                ServerReads, ServerReadsEnd, ServerWrites, ServerWriteFails
    <2>2. up' \in [Session -> Seq(Sound)]
        <3>1. up' = up \/ (up[s] # <<>> /\ up' = [up EXCEPT ![s] = Tail(@)])
            BY <1>2 DEF ServerControl, ServerAccepts, ServerAuthenticates, ServerHandshakeFails,
                    ServerReads, ServerReadsEnd, ServerWrites, ServerWriteFails, Read, Next_up
        <3>2. up[s] # <<>> => Tail(up[s]) \in Seq(Sound)
            BY <1>0, SoundQueue
        <3> QED
            BY <1>0, <3>1, <3>2
    <2>3. down' \in [Session -> Seq(Sound)]
        <3>1. CASE ServerWrites(s)
            <4>1. Head(writer[s]) \in Sound
                BY <3>1, SoundQueue DEF ServerWrites, WriteFrame, ServerFrames
            <4> QED
                BY <3>1, <4>1, SoundPipes DEF ServerWrites
        <3>2. CASE ServerAccepts(s) \/ ServerHandshakeFails(s)
            BY <1>0, <3>2, SoundPipes, SoundFrames DEF ServerAccepts, ServerHandshakeFails, ErrorCode
        <3>3. CASE \/ ServerAuthenticates(s) \/ ServerReads(s) \/ ServerReadsEnd(s)
                   \/ ServerWriteFails(s)
            BY <1>0, <3>3 DEF ServerAuthenticates, ServerReads, ServerReadsEnd, ServerWriteFails
        <3> QED
            BY <1>2, <3>1, <3>2, <3>3 DEF ServerControl
    <2> QED
        BY <1>0, <1>1, <2>1, <2>2, <2>3
<1>3. ASSUME NEW s \in Session, Cut(s)
      PROVE  ClientSide'
    BY <1>0, <1>1, <1>3, SoundQueue DEF Cut
<1>4. ASSUME NEW d \in DataConn, ServerData(d)
      PROVE  ClientSide'
    BY <1>0, <1>1, <1>4 DEF ServerData, ServerAcceptsData, ServerRefusesData, ServerClaims
<1>5. ASSUME NEW c \in Conn, ServerReadies(c)
      PROVE  ClientSide'
    <2>1. conn[c] = "readying" /\ readied' = readied \cup {box[c]}
          /\ UNCHANGED <<processVars, pulseVars, taskVars, linkVars, cut>>
        BY <1>5 DEF ServerReadies, WriteReady
    <2>2. box[c] \in DataConn
        BY <2>1 DEF TypeOK, Delivery, Pairing
    <2> QED
        BY <1>0, <1>1, <2>1, <2>2
<1> QED
    BY <1>2, <1>3, <1>4, <1>5

\* Every step of the tunnel keeps the clients well formed.
LEMMA ClientNext ==
    ASSUME TypeOK, Delivery, ServerFrames, ClientSide, [TunnelNext]_tunnelVars
    PROVE  ClientSide'
<1>1. CASE ServerInternal \/ AtRest \/ UNCHANGED tunnelVars
    <2>1. UNCHANGED clientVars
        BY <1>1 DEF ServerInternal, AtRest, tunnelVars
    <2> QED
        BY <2>1 DEF ClientSide, ClientTypeOK, Linked
<1>2. CASE \/ \E s \in Session : ServerControl(s) \/ Cut(s)
           \/ \E d \in DataConn : ServerData(d)
           \/ \E c \in Conn : ServerReadies(c)
    BY <1>2, ClientConnections
<1>3. CASE \E c \in Conn : TaskStep(c)
    BY <1>3, ClientTask
<1>4. CASE \E i \in Instance : ProcessStep(i)
    BY <1>4, ClientProcess
<1> QED
    BY <1>1, <1>2, <1>3, <1>4 DEF TunnelNext

-----------------------------------------------------------------------------
(* The server in the tunnel *)

\* Inductive in the tunnel: the server's invariants that say what its data
\* connections are, and the types of both halves.
TunnelInvariant == Ownership /\ RequestTasks /\ Delivery /\ TunnelTypes

\* The tunnel starts with both halves well formed.
LEMMA TunnelStarts ==
    ASSUME TunnelInit
    PROVE  TunnelInvariant
<1>1. Ownership
    BY OwnershipInit, TypeInit DEF TunnelInit, Ownership
<1>2. RequestTasks
    BY DEF TunnelInit, Init, RequestTasks, AcceptedQueued, FinishedClosed, ClaimedOnce, NoLeak,
           PendingUp, Sole, Queued
<1>3. Delivery
    BY DEF TunnelInit, Init, Delivery, ClaimsWaiting, DeliveredDone, Pairing, InUse, Sole, Queued
<1>4. ServerFrames
    BY SoundQueue DEF TunnelInit, Init, ServerFrames
<1>5. Linked
    BY SoundQueue DEF TunnelInit, ClientInit, Linked, Dialed
<1>6. ClientTypeOK
    <2>1. up \in [Session -> Seq(WireFrame)] /\ down \in [Session -> Seq(WireFrame)]
        BY DEF TunnelInit, ClientInit
    <2> QED
        BY <2>1, SequenceType DEF TunnelInit, ClientInit, ClientTypeOK, ClientPhase, Outcome, TaskState
<1> QED
    BY <1>1, <1>2, <1>3, <1>4, <1>5, <1>6 DEF TunnelInvariant, TunnelTypes

\* Every step of the tunnel keeps them so, the server's by ServerHalf.
LEMMA TunnelKeeps ==
    ASSUME TunnelInvariant, [TunnelNext]_tunnelVars
    PROVE  TunnelInvariant' /\ [Next]_vars
<1>1. /\ TypeOK /\ RegistryStopped /\ RegistersOnce /\ OwnershipConsistent
      /\ RequestTasks /\ Delivery /\ ServerFrames /\ ClientSide /\ TunnelTypes
    BY DEF TunnelInvariant, Ownership, TunnelTypes, ClientSide
<1>2. [Next]_vars
    BY <1>1, ServerHalf
<1>3. Ownership'
    BY <1>1, <1>2, TypeNext, OwnershipNext DEF Ownership
<1>4. RequestTasks' /\ Delivery' /\ ServerFrames'
    BY <1>1, <1>2, TasksNext, DeliveryNext, FramesNext
<1>5. ClientSide'
    BY <1>1, ClientNext
<1> QED
    BY <1>2, <1>3, <1>4, <1>5 DEF TunnelInvariant, TunnelTypes, ClientSide

\* The server of the tunnel is the server of Server: with this repository's
\* clients at the other end of its connections it does nothing that Spec does
\* not allow, so each theorem about Spec holds in the tunnel as well.
THEOREM ServerInTunnel == TunnelSpec => Spec
<1>1. TunnelInit => TunnelInvariant /\ Init
    BY TunnelStarts DEF TunnelInit
<1>2. TunnelInvariant /\ [TunnelNext]_tunnelVars => TunnelInvariant' /\ [Next]_vars
    BY TunnelKeeps
<1> QED
    BY <1>1, <1>2, PTL DEF TunnelSpec, Spec

\* Every variable of the clients and of the connections keeps its type, and so
\* does every frame in flight: no client acts on a port, number, request or
\* error code that is none (client/mod.rs, client/control.rs, client/data.rs).
THEOREM ClientTypeCorrect == TunnelSpec => []ClientTypeOK
<1>1. TunnelInit => TunnelInvariant
    BY TunnelStarts
<1>2. TunnelInvariant /\ [TunnelNext]_tunnelVars => TunnelInvariant'
    BY TunnelKeeps
<1>3. TunnelInvariant => ClientTypeOK
    BY DEF TunnelInvariant, TunnelTypes
<1> QED
    BY <1>1, <1>2, <1>3, PTL DEF TunnelSpec

-----------------------------------------------------------------------------
(* The port of a process *)

\* What a step of a process does to its attempt: it starts one, ends it with a
\* port that matches what was asked for, or leaves port and question alone.
AttemptMove(i) ==
    \/ Dial(i)
    \/ /\ cphase[i] = "proving" /\ cphase' = [cphase EXCEPT ![i] = "running"]
       /\ \E f \in Carried(down[csession[i]]) :
             /\ f.ty = "Registered" /\ asked[csession[i]].port \in {0, f.num}
             /\ last_assigned' = [last_assigned EXCEPT ![i] = f.num]
       /\ UNCHANGED <<csession, asked>>
    \/ /\ UNCHANGED <<last_assigned, asked>>
       /\ \E x \in {"idle", "exited", "leaving"} : cphase' = [cphase EXCEPT ![i] = x]
       /\ \A j \in Instance : csession'[j] = csession[j] \/ (j = i /\ csession'[j] = None)
    \/ /\ UNCHANGED <<last_assigned, asked, csession>>
       /\ \/ cphase' = cphase
          \/ cphase[i] = "hello" /\ cphase' = [cphase EXCEPT ![i] = "proving"]

\* Every step of a process is such a move.
LEMMA ProcessMoves ==
    ASSUME ClientSide, NEW i \in Instance, ProcessStep(i)
    PROVE  AttemptMove(i)
<1>0. csession \in [Instance -> Session \cup {None}]
    BY DEF ClientSide, ClientTypeOK
<1>1. ASSUME Retry(i) \/ \E result : Exit(i, result)
      PROVE  AttemptMove(i)
    BY <1>0, <1>1 DEF Retry, Exit, EndAttempt, AttemptMove
<1>2. CASE AttemptStep(i)
    <2>1. CASE ReadChallenge(i)
        BY <2>1 DEF ReadChallenge, AttemptMove
    <2>2. CASE ReadRegistered(i)
        <3>1. /\ cphase[i] = "proving" /\ down[csession[i]] # <<>>
              /\ Head(down[csession[i]]).ty = "Registered"
            BY <2>2 DEF ReadRegistered, Heard
        <3>2. Head(down[csession[i]]) \in Carried(down[csession[i]])
            <4>1. csession[i] \in Session
                BY <1>0, <3>1 DEF ClientSide, Linked
            <4> QED
                BY <3>1, <4>1, CarriedQueue DEF ClientSide, Linked
        <3> QED
            BY <1>1, <2>2, <3>1, <3>2 DEF ReadRegistered, AttemptMove
    <2>3. CASE AttemptRefused(i) \/ AttemptConfused(i) \/ AttemptFails(i) \/ AttemptCancelled(i)
        BY <1>1, <2>3 DEF AttemptRefused, AttemptConfused, AttemptFails, AttemptCancelled, classify
    <2> QED
        BY <1>2, <2>1, <2>2, <2>3 DEF AttemptStep
<1>3. CASE SessionStep(i)
    <2>1. CASE HearPing(i) \/ HearPong(i) \/ HearShutdown(i) \/ HearOpen(i)
        BY <1>1, <2>1 DEF HearPing, HearPong, HearShutdown, HearOpen, AttemptMove
    <2>2. CASE HearError(i)
        BY <1>1, <2>2 DEF HearError, classify, AttemptMove
    <2>3. CASE StartGoodbye(i) \/ GoodbyeEnds(i)
        BY <1>1, <2>3 DEF StartGoodbye, GoodbyeEnds, AttemptMove
    <2> QED
        BY <1>3, <2>1, <2>2, <2>3 DEF SessionStep
<1>4. CASE \/ Dial(i) \/ SessionEnds(i) \/ ClientPongDeadline(i) \/ ClientPingTick(i)
           \/ RunCancelled(i) \/ Interrupt(i) \/ Kill(i)
    BY <1>1, <1>4 DEF SessionEnds, ClientPongDeadline, ClientPingTick, RunCancelled, Interrupt,
                      Kill, AttemptMove
<1> QED
    BY <1>2, <1>3, <1>4 DEF ProcessStep

\* The other steps leave the processes and their questions alone.
LEMMA OthersApart ==
    ASSUME [TunnelNext]_tunnelVars, ~\E i \in Instance : ProcessStep(i)
    PROVE  UNCHANGED <<cphase, csession, last_assigned, outcome, asked>>
<1>1. CASE ServerInternal \/ AtRest \/ UNCHANGED tunnelVars \/ \E d \in DataConn : ServerData(d)
    BY <1>1 DEF ServerInternal, AtRest, tunnelVars, ServerData, ServerAcceptsData,
                ServerRefusesData, ServerClaims
<1>2. CASE \E s \in Session : ServerControl(s) \/ Cut(s)
    BY <1>2 DEF Cut, ServerControl, ServerAccepts, ServerAuthenticates, ServerHandshakeFails,
                ServerReads, ServerReadsEnd, ServerWrites, ServerWriteFails
<1>3. CASE \E c \in Conn : ServerReadies(c) \/ TaskStep(c)
    BY <1>3 DEF ServerReadies, TaskStep, DialBoth, ReadDataChallenge, ReadDataReady, SetupFails,
                TaskCancelled, ClientForwardEnds
<1> QED
    BY <1>1, <1>2, <1>3 DEF TunnelNext

\* An attempt keeps asking for what its process wants: the question is written
\* once, on a connection nobody used before, and the port changes at the end of
\* an attempt only.
LEMMA AsksNext ==
    ASSUME ClientSide, AsksItsOwn, [TunnelNext]_tunnelVars
    PROVE  AsksItsOwn' /\ PortStep
<1>0. /\ cphase \in [Instance -> ClientPhase] /\ csession \in [Instance -> Session \cup {None}]
      /\ last_assigned \in [Instance -> Port \cup {0}] /\ asked \in [Session -> Hello \cup {NoHello}]
    BY DEF ClientSide, ClientTypeOK
<1>1. CASE ~\E i \in Instance : ProcessStep(i)
    <2>1. UNCHANGED <<cphase, csession, last_assigned, asked>>
        BY <1>1, OthersApart
    <2> QED
        BY <2>1 DEF AsksItsOwn, PortStep, HelloOf
<1>2. ASSUME NEW i \in Instance, AttemptMove(i)
      PROVE  AsksItsOwn' /\ PortStep
    <2>1. CASE Dial(i)
        <3>1. Undialed \subseteq Nat /\ Undialed # {} /\ Undialed \subseteq Session
            BY <2>1, TunnelAssumption DEF Dial, Undialed
        <3>2. PICK s \in Undialed : s = First(Undialed)
            BY <3>1, FirstIn
        <3>3. /\ csession' = [csession EXCEPT ![i] = s] /\ asked' = [asked EXCEPT ![s] = HelloOf(i)]
              /\ cphase' = [cphase EXCEPT ![i] = "hello"] /\ last_assigned' = last_assigned
            BY <2>1, <3>2 DEF Dial
        <3>4. s \in Session /\ asked[s] = NoHello
            BY <3>1, <3>2 DEF Undialed
        <3>5. \A j \in Instance : HelloOf(j)' = HelloOf(j) /\ HelloOf(j) # NoHello
            BY <3>3, IdentityAssumption DEF HelloOf, NoHello
        <3>6. ASSUME NEW j \in Instance, cphase'[j] \in {"hello", "proving"}
              PROVE  asked'[csession'[j]] = HelloOf(j)'
            <4>1. CASE j = i
                BY <1>0, <3>3, <3>4, <3>5, <4>1
            <4>2. CASE j # i
                <5>1. csession'[j] = csession[j] /\ asked[csession[j]] = HelloOf(j)
                    BY <1>0, <3>3, <3>6, <4>2 DEF AsksItsOwn
                <5>2. csession[j] # s
                    BY <3>4, <3>5, <5>1
                <5>3. csession[j] \in Session
                    BY <1>0, <3>3, <3>6, <4>2 DEF ClientSide, Linked
                <5> QED
                    BY <1>0, <3>3, <3>5, <5>1, <5>2, <5>3
            <4> QED
                BY <4>1, <4>2
        <3> QED
            BY <3>3, <3>6 DEF AsksItsOwn, PortStep
    <2>2. ASSUME NEW p, cphase[i] = "proving", cphase' = [cphase EXCEPT ![i] = "running"],
                 last_assigned' = [last_assigned EXCEPT ![i] = p],
                 asked[csession[i]].port \in {0, p}, UNCHANGED <<csession, asked>>
          PROVE  AsksItsOwn' /\ PortStep
        <3>1. asked[csession[i]] = HelloOf(i)
            BY <2>2 DEF AsksItsOwn
        <3>2. last_assigned[i] # 0 => p = last_assigned[i]
            BY <2>2, <3>1 DEF HelloOf
        <3>3. PortStep
            BY <1>0, <2>2, <3>2 DEF PortStep
        <3>4. \A j \in Instance : j # i => cphase'[j] = cphase[j] /\ HelloOf(j)' = HelloOf(j)
            BY <1>0, <2>2 DEF HelloOf
        <3>5. cphase'[i] = "running"
            BY <1>0, <2>2
        <3> QED
            BY <2>2, <3>3, <3>4, <3>5 DEF AsksItsOwn
    <2>3. CASE /\ UNCHANGED <<last_assigned, asked>>
               /\ \E x \in {"idle", "exited", "leaving"} : cphase' = [cphase EXCEPT ![i] = x]
               /\ \A j \in Instance : csession'[j] = csession[j] \/ (j = i /\ csession'[j] = None)
        <3>1. /\ cphase'[i] \notin {"hello", "proving"}
              /\ \A j \in Instance : j # i => cphase'[j] = cphase[j]
            BY <1>0, <2>3
        <3> QED
            BY <2>3, <3>1 DEF AsksItsOwn, PortStep, HelloOf
    <2>4. CASE /\ UNCHANGED <<last_assigned, asked, csession>>
               /\ \/ cphase' = cphase
                  \/ cphase[i] = "hello" /\ cphase' = [cphase EXCEPT ![i] = "proving"]
        <3>1. \A j \in Instance : cphase'[j] \in {"hello", "proving"} =>
                cphase[j] \in {"hello", "proving"}
            BY <1>0, <2>4
        <3> QED
            BY <2>4, <3>1 DEF AsksItsOwn, PortStep, HelloOf
    <2> QED
        BY <1>2, <2>1, <2>2, <2>3, <2>4 DEF AttemptMove
<1> QED
    BY <1>1, <1>2, ProcessMoves

\* The public port of a process never changes while it lives: a reconnecting
\* client asks for the port it had and accepts no other, through lost
\* connections, expired reservations and other processes, for any number of
\* them (client/mod.rs: run; client/control.rs: register).
THEOREM PortStableHolds == TunnelSpec => PortStable
<1>1. TunnelInit => TunnelInvariant /\ AsksItsOwn
    BY TunnelStarts DEF TunnelInit, ClientInit, AsksItsOwn
<1>2. TunnelInvariant /\ AsksItsOwn /\ [TunnelNext]_tunnelVars => TunnelInvariant' /\ AsksItsOwn'
    BY TunnelKeeps, AsksNext DEF TunnelInvariant, TunnelTypes, ClientSide
<1>3. TunnelInvariant /\ AsksItsOwn /\ [TunnelNext]_tunnelVars => [PortStep]_tunnelVars
    BY AsksNext DEF TunnelInvariant, TunnelTypes, ClientSide
<1> QED
    BY <1>1, <1>2, <1>3, PTL DEF TunnelSpec, PortStable

-----------------------------------------------------------------------------
(* Whose bytes a client forwards *)

\* A task's data connection is its own.
OneEach == \A c, e \in Conn : cdata[c] # None /\ cdata[c] = cdata[e] => c = e

\* A DATA_HELLO the server has read names the request of the task that dialed, and
\* a connection it has not accepted has named none.
NamesItsRequest ==
    /\ \A c \in Conn : cdata[c] # None /\ dhello[cdata[c]] # None => dhello[cdata[c]] = c
    /\ \A d \in DataConn : data[d] = "new" => dhello[d] = None

\* DATA_READY was written on the data connection in the oneshot of its request,
\* when the user's task went over to forwarding.
Begun == {"forwarding", "finishing", "closed"}
ReadiedPaired ==
    \A d \in readied : /\ d \in DataConn /\ dhello[d] \in Conn
                       /\ box[dhello[d]] = d /\ conn[dhello[d]] \in Begun

\* A client that forwards has read DATA_READY.
ForwardsReadied == \A c \in Conn : ctask[c] = "forwarding" => cdata[c] \in readied

Rendezvous == OneEach /\ NamesItsRequest /\ ReadiedPaired /\ ForwardsReadied

\* What the server does to a rendezvous: the request of a data connection is read
\* once, a socket stays in the oneshot it was put in, and a user's task that has
\* begun to forward goes on to its end (data.rs; registry.rs: claim; listener.rs).
LEMMA RendezvousServer ==
    ASSUME TypeOK, RequestTasks, [Next]_vars
    PROVE  /\ \A d \in DataConn : data[d] # "new" => data'[d] # "new" /\ dhello'[d] = dhello[d]
           /\ \A d \in DataConn : data'[d] = "new" => dhello'[d] = dhello[d]
           /\ \A c \in Conn : box[c] # None => box'[c] = box[c]
           /\ \A c \in Conn : conn[c] \in Begun => conn'[c] \in Begun
<1> DEFINE Goal ==
        /\ \A d \in DataConn : data[d] # "new" => data'[d] # "new" /\ dhello'[d] = dhello[d]
        /\ \A d \in DataConn : data'[d] = "new" => dhello'[d] = dhello[d]
        /\ \A c \in Conn : box[c] # None => box'[c] = box[c]
        /\ \A c \in Conn : conn[c] \in Begun => conn'[c] \in Begun
<1> SUFFICES Goal
    OBVIOUS
<1>0. /\ data \in [DataConn -> DataState] /\ dhello \in [DataConn -> Conn \cup {None}]
      /\ conn \in [Conn -> ConnState] /\ box \in [Conn -> DataConn \cup {None}]
    BY DEF TypeOK
<1>1. ASSUME UNCHANGED <<data, dhello, box, conn>> PROVE Goal
    BY <1>1
<1>2. CASE RegistryStep
    <2>1. CASE AcceptedPublic
        <3>1. /\ commands # <<>> /\ commands' = Tail(commands)
              /\ Head(commands).op = "AcceptedPublic"
            BY <2>1 DEF AcceptedPublic, Receive
        <3>2. PICK c \in Conn : c = Head(commands).item
            BY <3>1, HeadCommand DEF Command
        <3>3. conn[c] = "queued"
            BY <3>1, <3>2, ChannelTaken DEF RequestTasks, AcceptedQueued
        <3>4. /\ UNCHANGED <<data, dhello, box>>
              /\ \E x : conn' = [conn EXCEPT ![c] = x]
            BY <2>1, <3>2 DEF AcceptedPublic, Reject, FailSession, OpenRequest
        <3> QED
            BY <1>0, <3>3, <3>4 DEF Begun
    <2>2. CASE ClaimData
        <3>1. /\ UNCHANGED <<conn, dhello>>
              /\ \E d, x : x # "new" /\ data' = [data EXCEPT ![d] = x]
              /\ box' = box \/ \E c, d : c \in pending /\ box' = [box EXCEPT ![c] = d]
            BY <2>2 DEF ClaimData, EndData, Claimable
        <3> QED
            BY <1>0, <3>1 DEF RequestTasks, ClaimedOnce
    <2>3. CASE PeekData
        BY <1>0, <2>3 DEF PeekData, EndData
    <2>4. CASE Register \/ SessionLost \/ Goodbye \/ OpenFailed \/ RequestFinished
        BY <1>1, <2>4 DEF Register, SessionLost, Goodbye, OpenFailed, RequestFinished
    <2>5. CASE Shutdown
        <3>1. UNCHANGED dhello /\ UNCHANGED box
            BY <2>5 DEF Shutdown
        <3>2. \A d \in DataConn : data[d] # "new" => data'[d] # "new"
            BY <1>0, <2>5 DEF Shutdown
        <3>3. \A c \in Conn : conn[c] \in Begun => conn'[c] \in Begun
            BY <1>0, <2>5 DEF Shutdown, Begun
        <3> QED
            BY <3>1, <3>2, <3>3
    <2> QED
        BY <1>2, <2>1, <2>2, <2>3, <2>4, <2>5 DEF RegistryStep
<1>3. CASE Sweep \/ \E p \in Port : ReservationExpires(p)
    BY <1>1, <1>3 DEF Sweep, ReservationExpires
<1>4. CASE \E l \in listeners : ListenerStops(l)
    BY <1>1, <1>4 DEF ListenerStops
<1>5. CASE \E s \in Session : ControlStep(s)
    BY <1>1, <1>5, ControlFrame
<1>6. ASSUME NEW c \in Conn, PublicStep(c) PROVE Goal
    <2>1. /\ UNCHANGED <<box, dhello>>
          /\ data' = data \/ data' = [d \in DataConn |-> IF d = box[c] THEN "closed" ELSE data[d]]
          /\ \/ conn' = conn
             \/ \E x \in Begun : conn' = [conn EXCEPT ![c] = x]
             \/ conn[c] \notin Begun /\ \E x : conn' = [conn EXCEPT ![c] = x]
        BY <1>6 DEF PublicStep, ServePublicStep, AcceptPublic, DeadlinePasses, WaitEnds, TakeData,
                    WriteReady, ReadyFails, ForwardCancelled, ForwardEnds, ServePublicEnds,
                    CloseBoth, Begun
    <2> QED
        BY <1>0, <2>1
<1>7. ASSUME NEW d \in DataConn, DataStep(d) PROVE Goal
    <2>1. CASE \E c \in Conn : AcceptData(d, c)
        BY <1>0, <2>1 DEF AcceptData
    <2>2. CASE RefuseData(d) \/ SendPeek(d) \/ SendClaim(d) \/ DataFails(d) \/ ClaimTimesOut(d)
        BY <1>0, <2>2 DEF RefuseData, SendPeek, SendClaim, DataFails, ClaimTimesOut
    <2> QED
        BY <1>7, <2>1, <2>2 DEF DataStep
<1>8. CASE SupervisorStep
    BY <1>0, <1>8 DEF SupervisorStep, Stop, SendShutdown, TasksJoined, GraceElapses
<1>9. CASE UNCHANGED vars
    BY <1>1, <1>9 DEF vars
<1> QED
    BY <1>2, <1>3, <1>4, <1>5, <1>6, <1>7, <1>8, <1>9 DEF Next, Idle

\* A request is read off the connection its own task dialed.
LEMMA HelloRead ==
    ASSUME [TunnelNext]_tunnelVars
    PROVE  dhello' = dhello \/ \E d \in DataConn : ServerAcceptsData(d)
<1>1. CASE ServerInternal
    <2>1. CASE RegistryStep
        BY <2>1 DEF RegistryStep, Register, SessionLost, Goodbye, AcceptedPublic, PeekData,
                    ClaimData, OpenFailed, RequestFinished, Shutdown
    <2>2. CASE Sweep \/ SupervisorStep \/ (\E p \in Port : ReservationExpires(p))
               \/ (\E l \in listeners : ListenerStops(l))
        BY <2>2, SupervisorStepFrame DEF Sweep, ReservationExpires, ListenerStops
    <2>3. CASE \E s \in Session : InternalControl(s)
        BY <2>3, ControlFrame DEF InternalControl, ControlStep, WriterStep
    <2>4. CASE \E c \in Conn : InternalPublic(c)
        BY <2>4 DEF InternalPublic, AcceptPublic, DeadlinePasses, WaitEnds, TakeData, ReadyFails,
                    ForwardCancelled, ForwardEnds, ServePublicEnds
    <2>5. CASE \E d \in DataConn : InternalData(d)
        BY <2>5 DEF InternalData, SendPeek, DataFails, ClaimTimesOut
    <2> QED
        BY <1>1, <2>1, <2>2, <2>3, <2>4, <2>5 DEF ServerInternal
<1>2. CASE \E s \in Session : ServerControl(s)
    BY <1>2 DEF ServerControl, ServerAccepts, ServerAuthenticates, ServerHandshakeFails,
                ServerReads, ServerReadsEnd, ServerWrites, ServerWriteFails,
                AcceptControl, RefuseControl, Authenticate, HandshakeFails, ReceivePing,
                ReceivePong, ReceiveOpenFailed, ReceiveGoodbye, ReceiveError, WriteFrame, WriteFails
<1>3. CASE \E s \in Session : Cut(s)
    BY <1>3 DEF Cut, vars
<1>4. CASE \E d \in DataConn : ServerData(d)
    BY <1>4 DEF ServerData, ServerRefusesData, ServerClaims, RefuseData, SendClaim
<1>5. CASE \E c \in Conn : ServerReadies(c)
    BY <1>5 DEF ServerReadies, WriteReady
<1>6. CASE (\E c \in Conn : TaskStep(c)) \/ (\E i \in Instance : ProcessStep(i))
    BY <1>6, ClientsApart DEF vars
<1>7. CASE AtRest \/ UNCHANGED tunnelVars
    BY <1>7 DEF AtRest, tunnelVars, vars
<1> QED
    BY <1>1, <1>2, <1>3, <1>4, <1>5, <1>6, <1>7 DEF TunnelNext

\* What a step does to the clients' side of a rendezvous: a task dials a data
\* connection nobody dialed, DATA_READY is written, or a task moves on, to
\* forwarding only after DATA_READY.
LEMMA RendezvousClient ==
    ASSUME ClientSide, [TunnelNext]_tunnelVars
    PROVE  \/ \E c \in Conn : DialBoth(c)
           \/ \E c \in Conn : ServerReadies(c)
           \/ /\ UNCHANGED <<cdata, readied>>
              /\ \A c \in Conn : ctask'[c] = "forwarding" =>
                    ctask[c] = "forwarding" \/ cdata[c] \in readied
<1>0. ctask \in [Conn -> TaskState]
    BY DEF ClientSide, ClientTypeOK
<1>1. CASE ServerInternal \/ AtRest \/ UNCHANGED tunnelVars \/ \E d \in DataConn : ServerData(d)
    BY <1>1 DEF ServerInternal, AtRest, tunnelVars, ServerData, ServerAcceptsData,
                ServerRefusesData, ServerClaims
<1>2. CASE \E s \in Session : ServerControl(s) \/ Cut(s)
    BY <1>2 DEF Cut, ServerControl, ServerAccepts, ServerAuthenticates, ServerHandshakeFails,
                ServerReads, ServerReadsEnd, ServerWrites, ServerWriteFails
<1>3. CASE \E c \in Conn : TaskStep(c)
    BY <1>0, <1>3 DEF TaskStep, ReadDataChallenge, ReadDataReady, SetupFails, TaskCancelled,
                ClientForwardEnds, Step
<1>4. ASSUME NEW i \in Instance, ProcessStep(i)
      PROVE  /\ UNCHANGED <<cdata, readied>>
             /\ \A c \in Conn : ctask'[c] = "forwarding" => ctask[c] = "forwarding"
    <2>1. CASE HearOpen(i)
        BY <1>0, <2>1 DEF HearOpen
    <2>2. CASE AttemptStep(i)
        BY <2>2 DEF AttemptStep, ReadChallenge, ReadRegistered, AttemptRefused, AttemptConfused,
                AttemptFails, AttemptCancelled
    <2>3. CASE \/ HearPing(i) \/ HearPong(i) \/ HearShutdown(i) \/ HearError(i)
               \/ StartGoodbye(i) \/ GoodbyeEnds(i)
        BY <2>3 DEF HearPing, HearPong, HearShutdown, HearError, StartGoodbye, GoodbyeEnds
    <2>4. CASE \/ Dial(i) \/ SessionEnds(i) \/ ClientPongDeadline(i) \/ ClientPingTick(i)
               \/ RunCancelled(i) \/ Interrupt(i) \/ Kill(i)
        BY <2>4 DEF Dial, SessionEnds, ClientPongDeadline, ClientPingTick, RunCancelled,
                Interrupt, Kill
    <2> QED
        BY <1>4, <2>1, <2>2, <2>3, <2>4 DEF ProcessStep, SessionStep
<1> QED
    BY <1>1, <1>2, <1>3, <1>4 DEF TunnelNext

\* The step case.
LEMMA RendezvousNext ==
    ASSUME TypeOK, RequestTasks, Delivery, ClientSide, Rendezvous,
           [TunnelNext]_tunnelVars, [Next]_vars
    PROVE  Rendezvous'
<1>0. /\ cdata \in [Conn -> DataConn \cup {None}] /\ ctask \in [Conn -> TaskState]
      /\ dhello \in [DataConn -> Conn \cup {None}]
      /\ OneEach /\ NamesItsRequest /\ ReadiedPaired /\ ForwardsReadied
    BY DEF TypeOK, ClientSide, ClientTypeOK, Rendezvous
<1>1. /\ \A d \in DataConn : data[d] # "new" => data'[d] # "new" /\ dhello'[d] = dhello[d]
      /\ \A d \in DataConn : data'[d] = "new" => dhello'[d] = dhello[d]
      /\ \A c \in Conn : box[c] # None => box'[c] = box[c]
      /\ \A c \in Conn : conn[c] \in Begun => conn'[c] \in Begun
    BY RendezvousServer
<1>2. \A d \in readied : /\ d \in DataConn /\ dhello'[d] \in Conn
                         /\ box'[dhello'[d]] = d /\ conn'[dhello'[d]] \in Begun
    BY <1>0, <1>1, IdentityAssumption DEF ReadiedPaired, NamesItsRequest
<1>3. \A d \in DataConn : data'[d] = "new" => dhello'[d] = None
    BY <1>0, <1>1 DEF NamesItsRequest
<1>4. ASSUME NEW c \in Conn, DialBoth(c)
      PROVE  Rendezvous'
    <2>1. Undialed_data \subseteq Nat /\ Undialed_data # {}
        BY <1>4, TunnelAssumption DEF DialBoth, Undialed_data
    <2>2. PICK d \in DataConn : /\ d = First(Undialed_data) /\ data[d] = "new"
                                /\ \A e \in Conn : cdata[e] # d
        BY <2>1, FirstIn DEF Undialed_data
    <2>3. /\ cdata' = [cdata EXCEPT ![c] = d] /\ ctask' = [ctask EXCEPT ![c] = "hello"]
          /\ UNCHANGED <<data, dhello, readied>>
        BY <1>4, <2>2 DEF DialBoth, Step, vars
    <2>4. /\ cdata'[c] = d /\ ctask'[c] = "hello"
          /\ \A e \in Conn : e # c => cdata'[e] = cdata[e] /\ ctask'[e] = ctask[e]
        BY <1>0, <2>3
    <2>5. OneEach'
        BY <1>0, <2>2, <2>4 DEF OneEach
    <2>6. NamesItsRequest'
        BY <1>0, <1>3, <2>2, <2>3, <2>4 DEF NamesItsRequest
    <2>7. ForwardsReadied'
        BY <1>0, <2>3, <2>4 DEF ForwardsReadied
    <2> QED
        BY <1>2, <2>3, <2>5, <2>6, <2>7 DEF Rendezvous, ReadiedPaired
<1>5. ASSUME cdata' = cdata PROVE OneEach' /\ NamesItsRequest'
    <2>1. CASE dhello' = dhello
        BY <1>0, <1>3, <1>5, <2>1 DEF OneEach, NamesItsRequest
    <2>2. ASSUME NEW d \in DataConn, ServerAcceptsData(d)
          PROVE  OneEach' /\ NamesItsRequest'
        <3>1. PICK c \in Conn : cdata[c] = d /\ dhello' = [dhello EXCEPT ![d] = c]
            BY <2>2 DEF ServerAcceptsData, AcceptData
        <3>2. d # None
            BY IdentityAssumption
        <3>3. \A e \in Conn : cdata[e] = d => e = c
            BY <1>0, <3>1, <3>2 DEF OneEach
        <3>4. dhello'[d] = c /\ \A x \in DataConn : x # d => dhello'[x] = dhello[x]
            BY <1>0, <3>1
        <3>5. \A e \in Conn : cdata[e] # None /\ dhello'[cdata[e]] # None => dhello'[cdata[e]] = e
            BY <1>0, <3>3, <3>4 DEF NamesItsRequest
        <3> QED
            BY <1>0, <1>3, <1>5, <3>5 DEF OneEach, NamesItsRequest
    <2> QED
        BY <2>1, <2>2, HelloRead
<1>6. ASSUME NEW c \in Conn, ServerReadies(c)
      PROVE  Rendezvous'
    <2>1. /\ conn[c] = "readying" /\ conn' = [conn EXCEPT ![c] = "forwarding"]
          /\ readied' = readied \cup {box[c]} /\ UNCHANGED <<box, dhello, cdata, ctask>>
        BY <1>6 DEF ServerReadies, WriteReady
    <2>2. box[c] \in DataConn /\ dhello[box[c]] = c
        BY <2>1 DEF TypeOK, Delivery, Pairing, InUse
    <2>3. conn'[c] = "forwarding"
        BY <2>1 DEF TypeOK
    <2>4. ReadiedPaired'
        BY <1>2, <2>1, <2>2, <2>3 DEF ReadiedPaired, Begun
    <2> QED
        BY <1>0, <1>5, <2>1, <2>4 DEF Rendezvous, ForwardsReadied
<1>7. CASE /\ UNCHANGED <<cdata, readied>>
           /\ \A c \in Conn : ctask'[c] = "forwarding" =>
                 ctask[c] = "forwarding" \/ cdata[c] \in readied
    BY <1>0, <1>2, <1>5, <1>7 DEF Rendezvous, ReadiedPaired, ForwardsReadied
<1> QED
    BY <1>4, <1>6, <1>7, RendezvousClient

\* A client forwards to its target only on the data connection the server has
\* paired with the user whose OPEN it answers, and only once the server forwards
\* (client/data.rs: handle_open; server/data.rs; listener.rs: serve_public),
\* for any number of users and data connections in any order.
THEOREM EndToEndHolds == TunnelSpec => []EndToEnd
<1>1. TunnelInit => TunnelInvariant /\ Rendezvous
    <2>1. ASSUME TunnelInit PROVE Rendezvous
        BY <2>1 DEF TunnelInit, Init, ClientInit, Rendezvous, OneEach, NamesItsRequest,
                    ReadiedPaired, ForwardsReadied
    <2> QED
        BY <2>1, TunnelStarts
<1>2. TunnelInvariant /\ Rendezvous /\ [TunnelNext]_tunnelVars => TunnelInvariant' /\ Rendezvous'
    BY TunnelKeeps, RendezvousNext DEF TunnelInvariant, Ownership, TunnelTypes, ClientSide
<1>3. TunnelInvariant /\ Rendezvous => EndToEnd
    <2> SUFFICES ASSUME TunnelInvariant, Rendezvous, NEW c \in Conn, ctask[c] = "forwarding"
                 PROVE  /\ box[c] = cdata[c] /\ dhello[cdata[c]] = c
                        /\ conn[c] \in {"forwarding", "finishing", "closed"}
        BY DEF EndToEnd
    <2>1. cdata[c] \in readied /\ cdata[c] # None
        BY DEF Rendezvous, ForwardsReadied, TunnelInvariant, TunnelTypes, Linked, Dialed
    <2>2. /\ dhello[cdata[c]] \in Conn /\ box[dhello[cdata[c]]] = cdata[c]
          /\ conn[dhello[cdata[c]]] \in Begun
        BY <2>1 DEF Rendezvous, ReadiedPaired
    <2>3. dhello[cdata[c]] = c
        BY <2>1, <2>2, IdentityAssumption DEF Rendezvous, NamesItsRequest
    <2> QED
        BY <2>2, <2>3 DEF Begun
<1> QED
    BY <1>1, <1>2, <1>3, PTL DEF TunnelSpec

-----------------------------------------------------------------------------
(* What a client believes *)

\* try_send adds its frame at most, and a last frame comes with CloseAfterFlush.
LEMMA CarriedSends ==
    ASSUME writer \in [Session -> Seq(Sound)], NEW f \in Sound, NEW r \in Session
    PROVE  /\ \A s : Carried(TrySend(s, f)[r]) \subseteq Carried(writer[r]) \cup {f}
           /\ \A S : Carried(TrySendLast(S, f)[r]) \subseteq Carried(writer[r]) \cup {f, CloseAfterFlush}
<1>1. writer[r] \in Seq(Sound) /\ Offer(writer[r], f) \in Seq(Sound) /\ CloseAfterFlush \in Sound
    BY SoundQueue, SoundFrames
<1>2. /\ Carried(Offer(writer[r], f)) \subseteq Carried(writer[r]) \cup {f}
      /\ Carried(Offer(Offer(writer[r], f), CloseAfterFlush)) \subseteq
            Carried(Offer(writer[r], f)) \cup {CloseAfterFlush}
    BY <1>1, CarriedQueue
<1>3. ASSUME NEW s PROVE Carried(TrySend(s, f)[r]) \subseteq Carried(writer[r]) \cup {f}
    <2>1. TrySend(s, f)[r] = writer[r] \/ TrySend(s, f)[r] = Offer(writer[r], f)
        BY DEF TrySend
    <2> QED
        BY <1>2, <2>1
<1>4. ASSUME NEW S
      PROVE  Carried(TrySendLast(S, f)[r]) \subseteq Carried(writer[r]) \cup {f, CloseAfterFlush}
    <2>1. \/ TrySendLast(S, f)[r] = writer[r]
          \/ TrySendLast(S, f)[r] = Offer(Offer(writer[r], f), CloseAfterFlush)
        BY DEF TrySendLast
    <2> QED
        BY <1>2, <2>1
<1> QED
    BY <1>3, <1>4

\* The frames a step adds to a queue: REGISTERED only by the serve task, with the
\* port of its registration (control.rs: serve), and OPEN only for a user the
\* registry gives to this session (registry.rs: accepted_public).
Notice(s) ==
    \A f \in Carried(writer'[s]) :
        \/ f \in Carried(writer[s]) \/ f.ty \notin {"Registered", "Open"}
        \/ f.ty = "Registered" /\ phase[s] = "granted" /\ f.num = assigned[s]
        \/ f.ty = "Open" /\ f.arg \in Conn /\ conn'[f.arg] = "waiting" /\ req'[f.arg].session = s

\* How far a serve task and its session get in one step: forward only, into the
\* registry by the registration it waits for, with the hello it read and on the port
\* that hello names, if any.
Progress(s) ==
    /\ phase[s] \notin Unregistered => phase'[s] \notin Unregistered
    /\ phase[s] = "ended" => phase'[s] = "ended"
    /\ phase'[s] = "new" => phase[s] = "new"
    /\ phase'[s] = "granted" =>
          \/ phase[s] = "granted" /\ assigned'[s] = assigned[s]
          \/ assigned'[s] = sessions'[s].port
    /\ phase'[s] \in {"handshake", "registering"} =>
          \/ phase[s] = "new"
          \/ phase[s] \in {"handshake", "registering"} /\ hello'[s] = hello[s]
    /\ s \in Live' =>
          \/ s \in Live /\ sessions'[s] = sessions[s]
          \/ /\ phase[s] = "registering" /\ sessions'[s].instance = hello[s].instance
             /\ hello[s].port \in {0, sessions'[s].port}

\* Any other frame is neither.
LEMMA NoticeOther ==
    ASSUME writer \in [Session -> Seq(Sound)], NEW r \in Session,
           NEW f \in Sound, f.ty \notin {"Registered", "Open"},
           (\E x : writer' = TrySend(x, f)) \/ (\E S : writer' = TrySendLast(S, f))
    PROVE  Notice(r)
<1>1. Carried(writer'[r]) \subseteq Carried(writer[r]) \cup {f, CloseAfterFlush}
    BY CarriedSends
<1>2. CloseAfterFlush.ty \notin {"Registered", "Open"}
    BY DEF CloseAfterFlush, Frame
<1> QED
    BY <1>1, <1>2 DEF Notice

\* Steps of a control connection queue one REGISTERED.
LEMMA NoticeControl ==
    ASSUME TypeOK, ServerFrames, NEW s \in Session, ControlStep(s), NEW r \in Session
    PROVE  Notice(r)
<1>0. /\ writer \in [Session -> Seq(Sound)] /\ refusal \in [Session -> ErrorCode \cup {None}]
      /\ \A x \in Session : phase[x] = "denied" => refusal[x] # None
    BY DEF TypeOK, ServerFrames
<1>1. ASSUME writer' = writer PROVE Notice(r)
    BY <1>1 DEF Notice
<1>2. ASSUME NEW f \in Sound, f.ty \notin {"Registered", "Open"},
             (\E x : writer' = TrySend(x, f)) \/ (\E S : writer' = TrySendLast(S, f))
      PROVE  Notice(r)
    BY <1>0, <1>2, NoticeOther
<1>3. CASE \/ (\E h \in Hellos : AcceptControl(s, h)) \/ RefuseControl(s) \/ TakeoverFlushEnds(s)
           \/ HandshakeFails(s) \/ Abandon(s) \/ ServeEnds(s) \/ Authenticate(s)
    BY <1>1, <1>3 DEF AcceptControl, RefuseControl, TakeoverFlushEnds, HandshakeFails, Abandon,
                      ServeEnds, Authenticate
<1>4. CASE SendRefusal(s)
    <2>1. ErrorFrame(refusal[s]) \in Sound /\ ErrorFrame(refusal[s]).ty \notin {"Registered", "Open"}
        BY <1>0, <1>4, SoundFrames DEF SendRefusal, ErrorFrame
    <2> QED
        BY <1>2, <1>4, <2>1 DEF SendRefusal
<1>5. CASE SendRegistered(s)
    <2> DEFINE f == NumberFrame("Registered", assigned[s])
    <2>1. f \in Sound /\ f.ty = "Registered" /\ f.num = assigned[s]
        BY SoundFrames DEF TypeOK, NumberFrame
    <2>2. phase[s] = "granted" /\ (writer' = writer \/ writer' = TrySend(s, f))
        BY <1>5 DEF SendRegistered
    <2>3. CASE r = s
        <3>1. writer' = TrySend(s, f) => Carried(writer'[r]) \subseteq Carried(writer[r]) \cup {f}
            BY <1>0, <2>1, CarriedSends
        <3> QED
            BY <1>1, <2>1, <2>2, <2>3, <3>1 DEF Notice
    <2>4. CASE r # s
        <3>1. writer'[r] = writer[r]
            BY <1>0, <2>2, <2>4 DEF TrySend
        <3> QED
            BY <3>1 DEF Notice
    <2> QED
        BY <2>3, <2>4
<1>6. CASE Cancelled(s) \/ SendSessionLost(s) \/ SendGoodbye(s) \/ GoodbyeReplied(s) \/ PongDeadline(s)
    BY <1>1, <1>6 DEF Cancelled, SendSessionLost, SendGoodbye, GoodbyeReplied, PongDeadline
<1>7. CASE PingTick(s)
    <2>1. /\ NumberFrame("Ping", NextSequence(sequence[s])) \in Sound
          /\ NumberFrame("Ping", NextSequence(sequence[s])).ty \notin {"Registered", "Open"}
        BY SoundFrames, SequenceType DEF TypeOK, NumberFrame
    <2> QED
        BY <1>1, <1>2, <1>7, <2>1 DEF PingTick
<1>8. CASE ClientFrameArrives(s)
    <2>1. /\ \A v \in Sequence : NumberFrame("Pong", v) \in Sound /\ NumberFrame("Pong", v).ty \notin {"Registered", "Open"}
          /\ Frame("GoodbyeAck") \in Sound /\ Frame("GoodbyeAck").ty \notin {"Registered", "Open"}
          /\ ErrorFrame("ProtocolError") \in Sound /\ ErrorFrame("ProtocolError").ty \notin {"Registered", "Open"}
        BY SoundFrames DEF ErrorCode, NumberFrame, Frame, ErrorFrame
    <2>2. ASSUME NEW v \in Sequence, ReceivePing(s, v) \/ ReceivePong(s, v)
          PROVE  Notice(r)
        BY <1>1, <1>2, <2>1, <2>2 DEF ReceivePing, ReceivePong
    <2>3. CASE ReceiveGoodbye(s) \/ ReceiveOther(s)
        BY <1>1, <1>2, <2>1, <2>3 DEF ReceiveGoodbye, ReceiveOther
    <2>4. CASE ReceiveError(s) \/ \E c \in Conn : ReceiveOpenFailed(s, c)
        BY <1>1, <2>4 DEF ReceiveError, ReceiveOpenFailed
    <2> QED
        BY <1>8, <2>2, <2>3, <2>4 DEF ClientFrameArrives
<1>9. CASE WriterStep(s)
    <2>1. \/ writer' = [writer EXCEPT ![s] = <<>>]
          \/ writer[s] # <<>> /\ writer' = [writer EXCEPT ![s] = Tail(@)]
        BY <1>9 DEF WriterStep, WriteFrame, WriteFails, CloseAfterFlushed, SendersGone, WriterEnds
    <2>2. writer'[r] = writer[r] \/ writer'[r] = <<>> \/ (writer[r] # <<>> /\ writer'[r] = Tail(writer[r]))
        BY <1>0, <2>1
    <2>3. Carried(writer'[r]) \subseteq Carried(writer[r])
        BY <1>0, <2>2, CarriedQueue
    <2> QED
        BY <2>3 DEF Notice
<1> QED
    BY <1>3, <1>4, <1>5, <1>6, <1>7, <1>8, <1>9 DEF ControlStep, ServeStep

\* The registry queues OPEN, to the owner of the port, REPLACED and SERVER_SHUTDOWN.
LEMMA NoticeNext ==
    ASSUME TypeOK, ServerFrames, [Next]_vars, NEW r \in Session
    PROVE  Notice(r)
<1>0. writer \in [Session -> Seq(Sound)]
    BY DEF ServerFrames
<1>1. ASSUME writer' = writer PROVE Notice(r)
    BY <1>1 DEF Notice
<1>2. ASSUME NEW f \in Sound, f.ty \notin {"Registered", "Open"},
             (\E x : writer' = TrySend(x, f)) \/ (\E S : writer' = TrySendLast(S, f))
      PROVE  Notice(r)
    BY <1>0, <1>2, NoticeOther
<1>3. CASE RegistryStep
    <2>1. /\ ErrorFrame("Replaced") \in Sound /\ ErrorFrame("Replaced").ty \notin {"Registered", "Open"}
          /\ Frame("ServerShutdown") \in Sound /\ Frame("ServerShutdown").ty \notin {"Registered", "Open"}
        BY SoundFrames DEF ErrorCode, Frame, ErrorFrame
    <2>2. CASE Register
        BY <1>1, <1>2, <2>1, <2>2 DEF Register, Install, displace
    <2>3. CASE AcceptedPublic
        <3>1. commands # <<>> /\ Head(commands).op = "AcceptedPublic"
            BY <2>3 DEF AcceptedPublic, Receive
        <3>2. PICK c \in Conn : c = Head(commands).item
            BY <3>1, HeadCommand DEF Command
        <3>3. \/ writer' = writer
              \/ \E s : /\ writer' = TrySend(s, OpenFrame(c))
                       /\ conn' = [conn EXCEPT ![c] = "waiting"]
                       /\ \E g : req' = [req EXCEPT ![c] = [session |-> s, generation |-> g]]
            BY <2>3, <3>2 DEF AcceptedPublic, Reject, FailSession, OpenRequest
        <3>4. ASSUME NEW s, writer' = TrySend(s, OpenFrame(c)),
                     conn' = [conn EXCEPT ![c] = "waiting"],
                     \E g : req' = [req EXCEPT ![c] = [session |-> s, generation |-> g]]
              PROVE  Notice(r)
            <4>1. OpenFrame(c) \in Sound /\ OpenFrame(c).ty = "Open" /\ OpenFrame(c).arg = c
                BY SoundFrames DEF OpenFrame
            <4>2. Carried(writer'[r]) \subseteq Carried(writer[r]) \cup {OpenFrame(c)}
                BY <1>0, <3>4, <4>1, CarriedSends
            <4>3. conn'[c] = "waiting" /\ req'[c].session = s
                BY <3>4 DEF TypeOK
            <4>4. r # s => writer'[r] = writer[r]
                BY <1>0, <3>4 DEF TrySend
            <4> QED
                BY <4>1, <4>2, <4>3, <4>4 DEF Notice
        <3> QED
            BY <1>1, <3>3, <3>4
    <2>4. CASE Shutdown
        BY <1>2, <2>1, <2>4 DEF Shutdown, shutdown_all
    <2>5. CASE SessionLost \/ Goodbye \/ PeekData \/ ClaimData \/ OpenFailed \/ RequestFinished
        BY <1>1, <2>5 DEF SessionLost, Goodbye, PeekData, ClaimData, OpenFailed, RequestFinished
    <2> QED
        BY <1>3, <2>2, <2>3, <2>4, <2>5 DEF RegistryStep
<1>4. CASE \/ Sweep \/ (\E p \in Port : ReservationExpires(p))
           \/ (\E l \in listeners : ListenerStops(l)) \/ SupervisorStep
    BY <1>1, <1>4, SupervisorStepFrame DEF Sweep, ReservationExpires, ListenerStops
<1>5. CASE \E s \in Session : ControlStep(s)
    BY <1>5, NoticeControl
<1>6. CASE (\E c \in Conn : PublicStep(c)) \/ (\E d \in DataConn : DataStep(d))
    BY <1>1, <1>6, PublicStepFrame, DataStepFrame
<1>7. CASE UNCHANGED vars
    BY <1>1, <1>7 DEF vars
<1> QED
    BY <1>3, <1>4, <1>5, <1>6, <1>7 DEF Next, Idle

\* A step of a control connection leaves the registry alone and takes its own
\* serve task forward.
LEMMA ProgressControl ==
    ASSUME TypeOK, NEW s \in Session, ControlStep(s), NEW r \in Session
    PROVE  Progress(r)
<1>0. /\ phase \in [Session -> ControlPhase] /\ hello \in [Session -> Hello \cup {NoHello}]
      /\ assigned \in [Session -> Port \cup {0}]
    BY DEF TypeOK
<1>1. sessions' = sessions /\ Live' = Live
    BY ControlFrame DEF Live
<1>2. CASE UNCHANGED <<phase, hello, assigned>>
    BY <1>1, <1>2 DEF Progress
<1>3. ASSUME NEW x, phase' = [phase EXCEPT ![s] = x], UNCHANGED <<hello, assigned>>,
             x \notin Unregistered \cup {"granted"}, phase[s] # "ended"
      PROVE  Progress(r)
    BY <1>0, <1>1, <1>3 DEF Progress, Unregistered
<1>4. CASE EndServe({s})
    BY <1>0, <1>1, <1>4 DEF EndServe, Progress, Unregistered
<1>5. CASE \E h \in Hellos : AcceptControl(s, h)
    BY <1>0, <1>1, <1>5 DEF AcceptControl, Progress, Unregistered
<1>6. CASE Authenticate(s)
    <2>1. /\ phase[s] = "handshake" /\ UNCHANGED <<hello, assigned>>
          /\ \E x \in {"registering", "denied"} : phase' = [phase EXCEPT ![s] = x]
        BY <1>6 DEF Authenticate
    <2> QED
        BY <1>0, <1>1, <2>1 DEF Progress, Unregistered
<1>7. CASE RefuseControl(s) \/ TakeoverFlushEnds(s) \/ HandshakeFails(s)
    BY <1>2, <1>3, <1>4, <1>7 DEF RefuseControl, TakeoverFlushEnds, HandshakeFails, Unregistered
<1>8. CASE \/ SendRefusal(s) \/ SendRegistered(s) \/ Abandon(s) \/ Cancelled(s)
           \/ SendSessionLost(s) \/ SendGoodbye(s) \/ GoodbyeReplied(s) \/ ServeEnds(s)
    BY <1>3, <1>4, <1>8 DEF SendRefusal, SendRegistered, Abandon, Cancelled, SendSessionLost,
            SendGoodbye, GoodbyeReplied, ServeEnds, Break, Teardown, Unregistered
<1>9. CASE PongDeadline(s) \/ PingTick(s)
    BY <1>2, <1>3, <1>9 DEF PongDeadline, PingTick, Break, Continue, Listening, Unregistered
<1>10. CASE ClientFrameArrives(s)
    BY <1>2, <1>3, <1>10 DEF ClientFrameArrives, ReceivePing, ReceivePong, ReceiveOpenFailed,
            ReceiveGoodbye, ReceiveError, ReceiveOther, Break, BreakClean, Continue, Listening,
            Unregistered
<1>11. CASE WriterStep(s)
    BY <1>2, <1>11 DEF WriterStep, WriteFrame, WriteFails, CloseAfterFlushed, SendersGone
<1> QED
    BY <1>5, <1>6, <1>7, <1>8, <1>9, <1>10, <1>11 DEF ControlStep, ServeStep

\* The registry lets a session in by the Register its task waits for, under the
\* instance of the hello and with the port it answers (registry.rs: register).
LEMMA ProgressRegistry ==
    ASSUME TypeOK, RegistersOnce, RegistryStep, NEW r \in Session
    PROVE  Progress(r)
<1>0. /\ phase \in [Session -> ControlPhase] /\ hello \in [Session -> Hello \cup {NoHello}]
      /\ assigned \in [Session -> Port \cup {0}] /\ sessions \in [Session -> SessionRef]
      /\ next_generation \in Nat \ {0}
    BY DEF TypeOK
<1>1. ASSUME sessions' = sessions \/ \E S : sessions' = Without(S)
      PROVE  r \in Live' => r \in Live /\ sessions'[r] = sessions[r]
    BY <1>0, <1>1 DEF Live, Without, NoRef
<1>2. ASSUME sessions' = sessions \/ \E S : sessions' = Without(S), UNCHANGED <<hello, assigned>>,
             \/ phase'[r] = phase[r]
             \/ phase[r] = "registering" /\ phase'[r] = "denied"
             \/ phase[r] = "goodbye" /\ phase'[r] = "teardown"
      PROVE  Progress(r)
    BY <1>1, <1>2 DEF Progress, Unregistered
<1>3. CASE Register
    <2>1. /\ commands # <<>> /\ commands' = Tail(commands) /\ Head(commands).op = "Register"
        BY <1>3 DEF Register, Receive
    <2>2. PICK s \in Session : s = Head(commands).session
        BY <2>1, HeadCommand DEF Command
    <2>3. phase[s] = "registering" /\ s \notin Live
        <3>1. Len(commands) \in Nat /\ 1 \in 1 .. Len(commands) /\ Head(commands) = commands[1]
            BY <2>1 DEF TypeOK, Channel
        <3> QED
            BY <2>1, <2>2, <3>1 DEF RegistersOnce, Unregistered
    <2>4. hello' = [hello EXCEPT ![s] = NoHello]
        BY <1>3, <2>2 DEF Register
    <2>5. ASSUME NEW p \in Port, Install(s, p), phase' = [phase EXCEPT ![s] = "granted"],
                 Placement(hello[s]) = Granted(p)
          PROVE  Progress(r)
        <3>1. /\ sessions' = [Without(Previous(p)) EXCEPT ![s] =
                    [instance |-> hello[s].instance, generation |-> next_generation, port |-> p]]
              /\ assigned' = [assigned EXCEPT ![s] = p]
            BY <2>5 DEF Install
        <3>2. CASE r = s
            <4>1. /\ sessions'[s] = [instance |-> hello[s].instance,
                                     generation |-> next_generation, port |-> p]
                  /\ assigned'[s] = p /\ phase'[s] = "granted"
                BY <1>0, <2>5, <3>1 DEF Without
            <4>2. hello[s].port \in {0, p}
                BY <1>0, <2>5, PlacementGranted
            <4> QED
                BY <2>3, <3>2, <4>1, <4>2 DEF Progress, Unregistered
        <3>3. CASE r # s
            <4>1. /\ sessions'[r] = sessions[r] \/ sessions'[r] = NoRef
                  /\ assigned'[r] = assigned[r] /\ phase'[r] = phase[r] /\ hello'[r] = hello[r]
                BY <1>0, <2>4, <2>5, <3>1, <3>3 DEF Without
            <4>2. r \in Live' => r \in Live /\ sessions'[r] = sessions[r]
                BY <4>1 DEF Live, NoRef
            <4> QED
                BY <4>1, <4>2 DEF Progress
        <3> QED
            BY <3>2, <3>3
    <2>6. ASSUME phase' = [phase EXCEPT ![s] = "denied"], UNCHANGED <<sessions, assigned>>
          PROVE  Progress(r)
        <3>1. r \in Live' => r \in Live /\ sessions'[r] = sessions[r]
            BY <1>1, <2>6
        <3>2. /\ r = s => phase'[r] = "denied"
              /\ r # s => phase'[r] = phase[r] /\ hello'[r] = hello[r]
            BY <1>0, <2>4, <2>6
        <3> QED
            BY <2>3, <2>6, <3>1, <3>2 DEF Progress, Unregistered
    <2> QED
        BY <1>3, <2>2, <2>5, <2>6 DEF Register
<1>4. CASE Goodbye
    <2>1. /\ sessions' = sessions \/ \E S : sessions' = Without(S)
          /\ UNCHANGED <<hello, assigned>>
          /\ phase' = [phase EXCEPT ![Head(commands).session] =
                          IF @ = "goodbye" THEN "teardown" ELSE @]
        BY <1>4 DEF Goodbye, goodbye
    <2>2. phase'[r] = phase[r] \/ (phase[r] = "goodbye" /\ phase'[r] = "teardown")
        BY <1>0, <2>1
    <2> QED
        BY <1>2, <2>1, <2>2
<1>5. CASE SessionLost \/ AcceptedPublic
    <2>1. /\ sessions' = sessions \/ \E S : sessions' = Without(S)
          /\ UNCHANGED <<hello, assigned, phase>>
        BY <1>5 DEF SessionLost, AcceptedPublic, Reject, FailSession, OpenRequest, session_lost
    <2> QED
        BY <1>2, <2>1
<1>6. CASE PeekData \/ ClaimData \/ OpenFailed \/ RequestFinished
    BY <1>2, <1>6 DEF PeekData, ClaimData, OpenFailed, RequestFinished
<1>7. CASE Shutdown
    <2>1. sessions' = Without(Session) /\ UNCHANGED <<hello, assigned>>
        BY <1>7 DEF Shutdown, shutdown_all
    <2>2. phase'[r] = CASE phase[r] = "registering" -> "denied"
                        [] phase[r] = "goodbye" -> "teardown"
                        [] OTHER -> phase[r]
        BY <1>7 DEF Shutdown
    <2> QED
        BY <1>2, <2>1, <2>2
<1> QED
    BY <1>3, <1>4, <1>5, <1>6, <1>7 DEF RegistryStep

\* Over all steps of the server.
LEMMA ProgressNext ==
    ASSUME TypeOK, RegistersOnce, [Next]_vars, NEW r \in Session
    PROVE  Progress(r)
<1>1. CASE UNCHANGED <<phase, hello, assigned, sessions>>
    BY <1>1 DEF Progress, Live
<1>2. CASE \/ Sweep \/ (\E p \in Port : ReservationExpires(p))
           \/ (\E l \in listeners : ListenerStops(l)) \/ Stop \/ SendShutdown \/ TasksJoined
    BY <1>1, <1>2 DEF Sweep, ReservationExpires, ListenerStops, Stop, SendShutdown, TasksJoined
<1>3. CASE GraceElapses
    BY <1>3 DEF GraceElapses, EndServe, Progress, Live, Unregistered
<1>4. CASE (\E c \in Conn : PublicStep(c)) \/ (\E d \in DataConn : DataStep(d))
    BY <1>1, <1>4, PublicStepFrame, DataStepFrame
<1>5. CASE UNCHANGED vars
    BY <1>1, <1>5 DEF vars
<1> QED
    BY <1>2, <1>3, <1>4, <1>5, ProgressControl, ProgressRegistry DEF Next, Idle, SupervisorStep

\* A control connection is served from the hello its client wrote.
LEMMA HelloTaken ==
    ASSUME TypeOK, RegistersOnce, [TunnelNext]_tunnelVars, NEW s \in Session, phase[s] = "new"
    PROVE  phase'[s] \in {"new", "ended"} \/ (asked[s] # NoHello /\ hello'[s] = asked[s])
<1>0. phase \in [Session -> ControlPhase] /\ hello \in [Session -> Hello \cup {NoHello}]
    BY DEF TypeOK
<1>1. CASE phase' = phase
    BY <1>1
<1>2. CASE ServerInternal
    <2>1. CASE Register
        <3>1. /\ commands # <<>> /\ Head(commands).op = "Register"
              /\ \E x : phase' = [phase EXCEPT ![Head(commands).session] = x]
            BY <2>1 DEF Register, Receive
        <3>2. phase[Head(commands).session] = "registering"
            <4>1. Len(commands) \in Nat /\ 1 \in 1 .. Len(commands) /\ Head(commands) = commands[1]
                BY <3>1 DEF TypeOK, Channel
            <4> QED
                BY <3>1, <4>1 DEF RegistersOnce
        <3> QED
            BY <1>0, <3>1, <3>2
    <2>2. CASE Goodbye
        <3>1. phase' = [phase EXCEPT ![Head(commands).session] =
                          IF @ = "goodbye" THEN "teardown" ELSE @]
            BY <2>2 DEF Goodbye
        <3> QED
            BY <1>0, <3>1
    <2>3. CASE Shutdown
        BY <2>3 DEF Shutdown
    <2>4. CASE SessionLost \/ AcceptedPublic \/ PeekData \/ ClaimData \/ OpenFailed \/ RequestFinished
        BY <1>1, <2>4 DEF SessionLost, AcceptedPublic, PeekData, ClaimData, OpenFailed, RequestFinished
    <2>5. CASE \/ Sweep \/ (\E p \in Port : ReservationExpires(p))
               \/ (\E l \in listeners : ListenerStops(l)) \/ Stop \/ SendShutdown \/ TasksJoined
        BY <1>1, <2>5 DEF Sweep, ReservationExpires, ListenerStops, Stop, SendShutdown, TasksJoined
    <2>6. CASE GraceElapses
        BY <2>6 DEF GraceElapses, EndServe
    <2>7. ASSUME NEW r \in Session, InternalControl(r)
          PROVE  phase'[s] \in {"new", "ended"}
        <3>1. \/ phase' = phase
              \/ phase[r] # "new" /\ \E x : phase' = [phase EXCEPT ![r] = x]
              \/ EndServe({r})
            BY <2>7 DEF InternalControl, ServeStep, SendRefusal, SendRegistered, Abandon, Cancelled,
                    SendSessionLost, SendGoodbye, GoodbyeReplied, ServeEnds, PongDeadline, PingTick,
                    TakeoverFlushEnds, CloseAfterFlushed, SendersGone, Break, Continue, Teardown,
                    Listening
        <3> QED
            BY <1>0, <3>1 DEF EndServe
    <2>8. CASE (\E c \in Conn : InternalPublic(c)) \/ (\E d \in DataConn : InternalData(d))
        BY <1>1, <2>8, PublicStepFrame, DataStepFrame DEF InternalPublic, InternalData, PublicStep,
                ServePublicStep, DataStep
    <2> QED
        BY <1>2, <2>1, <2>2, <2>3, <2>4, <2>5, <2>6, <2>7, <2>8
           DEF ServerInternal, RegistryStep, SupervisorStep
<1>3. ASSUME NEW r \in Session, ServerControl(r)
      PROVE  phase'[s] \in {"new", "ended"} \/ (asked[s] # NoHello /\ hello'[s] = asked[s])
    <2>1. CASE ServerAccepts(r)
        BY <1>0, <2>1 DEF ServerAccepts, AcceptControl, RefuseControl
    <2>2. CASE ServerHandshakeFails(r)
        BY <2>2 DEF ServerHandshakeFails, HandshakeFails, EndServe
    <2>3. CASE ServerAuthenticates(r) \/ ServerReads(r) \/ ServerReadsEnd(r)
        <3>1. phase' = phase \/ (phase[r] # "new" /\ \E x : phase' = [phase EXCEPT ![r] = x])
            BY <2>3 DEF ServerAuthenticates, ServerReads, ServerReadsEnd, Authenticate, ReceivePing,
                    ReceivePong, ReceiveOpenFailed, ReceiveGoodbye, ReceiveError, Break, BreakClean,
                    Continue, Listening
        <3> QED
            BY <1>0, <3>1
    <2>4. CASE ServerWrites(r) \/ ServerWriteFails(r)
        BY <1>1, <2>4 DEF ServerWrites, ServerWriteFails, WriteFrame, WriteFails
    <2> QED
        BY <1>3, <2>1, <2>2, <2>3, <2>4 DEF ServerControl
<1>4. CASE \E r \in Session : Cut(r)
    BY <1>1, <1>4 DEF Cut, vars
<1>5. CASE \E d \in DataConn : ServerData(d)
    BY <1>1, <1>5 DEF ServerData, ServerAcceptsData, ServerRefusesData, ServerClaims, AcceptData,
            RefuseData, SendClaim
<1>6. CASE \E c \in Conn : ServerReadies(c)
    BY <1>1, <1>6 DEF ServerReadies, WriteReady
<1>7. CASE (\E c \in Conn : TaskStep(c)) \/ (\E i \in Instance : ProcessStep(i))
    BY <1>1, <1>7, ClientsApart DEF vars
<1>8. CASE AtRest \/ UNCHANGED tunnelVars
    BY <1>1, <1>8 DEF AtRest, tunnelVars, vars
<1> QED
    BY <1>2, <1>3, <1>4, <1>5, <1>6, <1>7, <1>8 DEF TunnelNext

\* What is on its way to a client comes out of its connection's queue, but for the
\* frames of the handshake.
LEMMA DownCarries ==
    ASSUME ServerFrames, ClientSide, [TunnelNext]_tunnelVars, NEW s \in Session
    PROVE  \A f \in Carried(down'[s]) :
              f \in Carried(down[s]) \cup Carried(writer[s]) \/ f.ty \notin {"Registered", "Open"}
<1> DEFINE Goal == \A f \in Carried(down'[s]) :
              f \in Carried(down[s]) \cup Carried(writer[s]) \/ f.ty \notin {"Registered", "Open"}
<1>0. /\ down \in [Session -> Seq(Sound)] /\ writer \in [Session -> Seq(Sound)]
      /\ csession \in [Instance -> Session \cup {None}]
    BY DEF ServerFrames, ClientSide, Linked, ClientTypeOK
<1>1. CASE down' = down
    BY <1>1
<1>2. ASSUME NEW r, \/ down' = [down EXCEPT ![r] = <<>>]
                    \/ down[r] # <<>> /\ down' = [down EXCEPT ![r] = Tail(@)]
      PROVE  Goal
    <2>1. down'[s] = down[s] \/ down'[s] = <<>> \/ (down[s] # <<>> /\ down'[s] = Tail(down[s]))
        BY <1>0, <1>2
    <2> QED
        BY <1>0, <2>1, CarriedQueue
<1>3. ASSUME NEW f \in Sound, NEW r \in Session, down' = Deliver(r, f),
             f.ty \notin {"Registered", "Open"} \/ f \in Carried(writer[r])
      PROVE  Goal
    <2>1. down'[s] = down[s] \/ (r = s /\ down'[s] = Append(down[s], f))
        BY <1>0, <1>3 DEF Deliver, Put
    <2>2. Carried(Append(down[s], f)) \subseteq Carried(down[s]) \cup {f}
        BY <1>0, CarriedQueue
    <2> QED
        BY <1>3, <2>1, <2>2
<1>4. ASSUME NEW i \in Instance, Retry(i) \/ \E result : Exit(i, result)
      PROVE  Goal
    BY <1>2, <1>4 DEF Retry, Exit, EndAttempt, CloseClient
<1>5. ASSUME NEW i \in Instance, Heed(i), down[csession[i]] # <<>>
      PROVE  Goal
    BY <1>2, <1>5 DEF Heed
<1>6. ASSUME NEW i \in Instance, ProcessStep(i)
      PROVE  Goal
    <2>1. CASE ReadChallenge(i) \/ ReadRegistered(i)
        BY <1>4, <1>5, <2>1 DEF ReadChallenge, ReadRegistered, Heard
    <2>2. CASE AttemptRefused(i) \/ AttemptConfused(i) \/ AttemptFails(i) \/ AttemptCancelled(i)
        BY <1>4, <2>2 DEF AttemptRefused, AttemptConfused, AttemptFails, AttemptCancelled, classify
    <2>3. CASE HearPing(i) \/ HearPong(i) \/ HearShutdown(i)
        BY <1>4, <1>5, <2>3 DEF HearPing, HearPong, HearShutdown, Heard
    <2>4. CASE HearError(i)
        BY <1>4, <1>5, <2>4 DEF HearError, classify
    <2>5. CASE HearOpen(i)
        BY <1>2, <2>5 DEF HearOpen
    <2>6. CASE StartGoodbye(i) \/ GoodbyeEnds(i)
        BY <1>1, <1>4, <2>6 DEF StartGoodbye, GoodbyeEnds
    <2>7. CASE \/ Dial(i) \/ SessionEnds(i) \/ ClientPongDeadline(i) \/ ClientPingTick(i)
               \/ RunCancelled(i) \/ Interrupt(i) \/ Kill(i)
        BY <1>1, <1>4, <2>7 DEF Dial, SessionEnds, ClientPongDeadline, ClientPingTick, RunCancelled,
                Interrupt, Kill
    <2> QED
        BY <1>6, <2>1, <2>2, <2>3, <2>4, <2>5, <2>6, <2>7 DEF ProcessStep, AttemptStep, SessionStep
<1>7. ASSUME NEW r \in Session, ServerControl(r) \/ Cut(r)
      PROVE  Goal
    <2>1. CASE ServerWrites(r)
        <3>1. writer[r] # <<>> /\ down' = Deliver(r, Head(writer[r]))
            BY <2>1 DEF ServerWrites, WriteFrame
        <3>2. Head(writer[r]) \in Sound /\ Head(writer[r]) \in Carried(writer[r])
            BY <1>0, <3>1, SoundQueue, CarriedQueue
        <3> QED
            BY <1>3, <3>1, <3>2
    <2>2. CASE ServerAccepts(r) \/ ServerHandshakeFails(r)
        <3>1. /\ Frame("ControlChallenge") \in Sound /\ Frame("ControlChallenge").ty \notin {"Registered", "Open"}
              /\ ErrorFrame("InternalError") \in Sound /\ ErrorFrame("InternalError").ty \notin {"Registered", "Open"}
            BY SoundFrames DEF ErrorCode, Frame, ErrorFrame
        <3> QED
            BY <1>1, <1>3, <2>2, <3>1 DEF ServerAccepts, ServerHandshakeFails
    <2>3. CASE ServerAuthenticates(r) \/ ServerReads(r) \/ ServerReadsEnd(r) \/ ServerWriteFails(r)
        BY <1>1, <2>3 DEF ServerAuthenticates, ServerReads, ServerReadsEnd, ServerWriteFails
    <2>4. CASE Cut(r)
        BY <1>2, <2>4 DEF Cut
    <2> QED
        BY <1>7, <2>1, <2>2, <2>3, <2>4 DEF ServerControl
<1>8. CASE \E c \in Conn : ServerReadies(c) \/ TaskStep(c)
    BY <1>1, <1>8 DEF ServerReadies, TaskStep, DialBoth, ReadDataChallenge, ReadDataReady,
            SetupFails, TaskCancelled, ClientForwardEnds
<1>9. CASE ServerInternal \/ AtRest \/ UNCHANGED tunnelVars \/ \E d \in DataConn : ServerData(d)
    BY <1>1, <1>9 DEF ServerInternal, AtRest, tunnelVars, ServerData, ServerAcceptsData,
            ServerRefusesData, ServerClaims
<1> QED
    BY <1>6, <1>7, <1>8, <1>9 DEF TunnelNext

\* A connection on which nothing was asked is served by nobody; what is being
\* served and what is registered is what was asked, under the instance that asked.
ServedAsAsked ==
    /\ \A s \in Session : asked[s] = NoHello => phase[s] \in {"new", "ended"} /\ s \notin Live
    /\ \A s \in Session : phase[s] \in {"handshake", "registering"} => hello[s] = asked[s]
    /\ \A s \in Live : sessions[s].instance = asked[s].instance
    /\ \A i \in Instance : csession[i] # None => asked[csession[i]].instance = i

\* A granted port, a REGISTERED queued or in flight, and the port a running client
\* has, are that of the session's entry, as long as it has one.
ToldItsPort ==
    /\ \A s \in Live : phase[s] = "granted" => assigned[s] = sessions[s].port
    /\ \A s \in Session : \A f \in Carried(writer[s]) \cup Carried(down[s]) :
          f.ty = "Registered" =>
              phase[s] \notin Unregistered /\ (s \in Live => f.num = sessions[s].port)
    /\ \A i \in Instance : cphase[i] = "running" =>
          /\ phase[csession[i]] \notin Unregistered
          /\ csession[i] \in Live => last_assigned[i] = sessions[csession[i]].port

\* What the server does to a session agrees with what was asked on it.
LEMMA ServedNext ==
    ASSUME TypeOK, RegistersOnce, ClientSide, ServedAsAsked, [TunnelNext]_tunnelVars, [Next]_vars
    PROVE  ServedAsAsked'
<1>0. /\ cphase \in [Instance -> ClientPhase] /\ csession \in [Instance -> Session \cup {None}]
      /\ asked \in [Session -> Hello \cup {NoHello}] /\ phase \in [Session -> ControlPhase]
    BY DEF TypeOK, ClientSide, ClientTypeOK
<1>1. \A s \in Session : Progress(s)
    BY ProgressNext
<1>2. /\ \A s \in Session : asked[s] = NoHello => phase'[s] \in {"new", "ended"} /\ s \notin Live'
      /\ \A s \in Session : phase'[s] \in {"handshake", "registering"} => hello'[s] = asked[s]
      /\ \A s \in Live' : sessions'[s].instance = asked[s].instance
    <2>1. ASSUME NEW s \in Session, asked[s] = NoHello
          PROVE  phase'[s] \in {"new", "ended"} /\ s \notin Live'
        BY <1>1, <2>1, HelloTaken DEF ServedAsAsked, Progress
    <2>2. ASSUME NEW s \in Session, phase'[s] \in {"handshake", "registering"}
          PROVE  hello'[s] = asked[s]
        BY <1>1, <2>2, HelloTaken DEF ServedAsAsked, Progress
    <2>3. ASSUME NEW s \in Live' PROVE sessions'[s].instance = asked[s].instance
        <3>1. s \in Session
            BY DEF Live
        <3> QED
            BY <1>1, <3>1 DEF ServedAsAsked, Progress
    <2> QED
        BY <2>1, <2>2, <2>3
<1>3. CASE ~\E i \in Instance : ProcessStep(i)
    <2>1. UNCHANGED <<csession, asked>>
        BY <1>3, OthersApart
    <2> QED
        BY <1>2, <2>1 DEF ServedAsAsked
<1>4. ASSUME NEW i \in Instance, AttemptMove(i), ~Dial(i)
      PROVE  ServedAsAsked'
    <2>1. asked' = asked /\ \A j \in Instance : csession'[j] \in {csession[j], None}
        BY <1>4 DEF AttemptMove
    <2> QED
        BY <1>2, <2>1 DEF ServedAsAsked
<1>5. ASSUME NEW i \in Instance, Dial(i)
      PROVE  ServedAsAsked'
    <2>1. Undialed \subseteq Nat /\ Undialed # {} /\ Undialed \subseteq Session
        BY <1>5, TunnelAssumption DEF Dial, Undialed
    <2>2. PICK s \in Undialed : s = First(Undialed)
        BY <2>1, FirstIn
    <2>3. /\ csession' = [csession EXCEPT ![i] = s] /\ asked' = [asked EXCEPT ![s] = HelloOf(i)]
        BY <1>5, <2>2 DEF Dial
    <2>4. s \in Session /\ asked[s] = NoHello
        BY <2>1, <2>2 DEF Undialed
    <2>5. HelloOf(i).instance = i /\ HelloOf(i) # NoHello
        BY IdentityAssumption DEF HelloOf, NoHello
    <2>6. asked'[s] = HelloOf(i) /\ \A r \in Session : r # s => asked'[r] = asked[r]
        BY <1>0, <2>3, <2>4
    <2>7. phase'[s] \in {"new", "ended"} /\ s \notin Live'
        BY <1>2, <2>4
    <2>8. Live' \subseteq Session
        BY DEF Live
    <2>9. ASSUME NEW j \in Instance, csession'[j] # None
          PROVE  asked'[csession'[j]].instance = j
        <3>1. CASE j = i
            BY <1>0, <2>3, <2>5, <2>6, <3>1
        <3>2. CASE j # i
            <4>1. csession'[j] = csession[j] /\ csession[j] \in Session
                BY <1>0, <2>3, <2>9, <3>2
            <4>2. asked[csession[j]].instance = j
                BY <2>9, <4>1 DEF ServedAsAsked
            <4>3. csession[j] # s
                BY <2>4, <4>2, IdentityAssumption DEF NoHello
            <4> QED
                BY <2>6, <4>1, <4>2, <4>3
        <3> QED
            BY <3>1, <3>2
    <2>10. \A r \in Session : asked'[r] = NoHello => phase'[r] \in {"new", "ended"} /\ r \notin Live'
        BY <1>2, <2>5, <2>6
    <2>11. \A r \in Session : phase'[r] \in {"handshake", "registering"} => hello'[r] = asked'[r]
        BY <1>2, <2>6, <2>7
    <2>12. \A r \in Live' : sessions'[r].instance = asked'[r].instance
        BY <1>2, <2>6, <2>7, <2>8
    <2> QED
        BY <2>9, <2>10, <2>11, <2>12 DEF ServedAsAsked
<1> QED
    BY <1>3, <1>4, <1>5, ProcessMoves

\* What a client is told is what the registry has.
LEMMA ToldNext ==
    ASSUME TypeOK, RegistersOnce, ServerFrames, ClientSide, ToldItsPort,
           [TunnelNext]_tunnelVars, [Next]_vars
    PROVE  ToldItsPort'
<1>0. /\ cphase \in [Instance -> ClientPhase] /\ csession \in [Instance -> Session \cup {None}]
      /\ last_assigned \in [Instance -> Port \cup {0}] /\ Live' \subseteq Session
    BY DEF ClientSide, ClientTypeOK, Live
<1>1. \A s \in Session : Progress(s)
    BY ProgressNext
<1>2. ASSUME NEW s \in Session, phase[s] \notin Unregistered
      PROVE  /\ phase'[s] \notin Unregistered
             /\ s \in Live' => s \in Live /\ sessions'[s] = sessions[s]
    BY <1>1, <1>2 DEF Progress, Unregistered
<1>3. ASSUME NEW s \in Live', phase'[s] = "granted"
      PROVE  assigned'[s] = sessions'[s].port
    <2>1. CASE phase[s] = "granted" /\ assigned'[s] = assigned[s]
        BY <1>0, <1>2, <2>1 DEF ToldItsPort, Unregistered
    <2> QED
        BY <1>0, <1>1, <1>3, <2>1 DEF Progress
<1>4. ASSUME NEW s \in Session, NEW f \in Carried(writer'[s]) \cup Carried(down'[s]),
             f.ty = "Registered"
      PROVE  phase'[s] \notin Unregistered /\ (s \in Live' => f.num = sessions'[s].port)
    <2>1. CASE f \in Carried(writer[s]) \cup Carried(down[s])
        BY <1>2, <1>4, <2>1 DEF ToldItsPort
    <2>2. CASE phase[s] = "granted" /\ f.num = assigned[s]
        BY <1>2, <2>2 DEF ToldItsPort, Unregistered
    <2> QED
        BY <1>4, <2>1, <2>2, NoticeNext, DownCarries DEF Notice
<1>5. ASSUME NEW j \in Instance, cphase'[j] = "running", cphase[j] = "running",
             csession'[j] = csession[j], last_assigned'[j] = last_assigned[j]
      PROVE  /\ phase'[csession'[j]] \notin Unregistered
             /\ csession'[j] \in Live' => last_assigned'[j] = sessions'[csession'[j]].port
    <2>1. csession[j] \in Session
        BY <1>0, <1>5 DEF ClientSide, Linked
    <2> QED
        BY <1>2, <1>5, <2>1 DEF ToldItsPort
<1>6. ASSUME NEW j \in Instance, cphase'[j] = "running"
      PROVE  /\ phase'[csession'[j]] \notin Unregistered
             /\ csession'[j] \in Live' => last_assigned'[j] = sessions'[csession'[j]].port
    <2>1. CASE ~\E i \in Instance : ProcessStep(i)
        BY <1>5, <1>6, <2>1, OthersApart
    <2>2. ASSUME NEW i \in Instance, AttemptMove(i), j # i
          PROVE  cphase'[j] = cphase[j] /\ csession'[j] = csession[j] /\ last_assigned'[j] = last_assigned[j]
        BY <1>0, <2>2 DEF AttemptMove, Dial
    <2>3. ASSUME AttemptMove(j)
          PROVE  \/ /\ cphase[j] = "running" /\ csession'[j] = csession[j]
                    /\ last_assigned'[j] = last_assigned[j]
                 \/ /\ cphase[j] = "proving" /\ csession'[j] = csession[j]
                    /\ \E f \in Carried(down[csession[j]]) :
                          f.ty = "Registered" /\ last_assigned'[j] = f.num
        BY <1>0, <1>6, <2>3 DEF AttemptMove, Dial
    <2>4. ASSUME cphase[j] = "proving", csession'[j] = csession[j],
                 NEW f \in Carried(down[csession[j]]), f.ty = "Registered", last_assigned'[j] = f.num
          PROVE  /\ phase'[csession'[j]] \notin Unregistered
                 /\ csession'[j] \in Live' => last_assigned'[j] = sessions'[csession'[j]].port
        <3>1. csession[j] \in Session
            BY <1>0, <2>4 DEF ClientSide, Linked
        <3> QED
            BY <1>2, <2>4, <3>1 DEF ToldItsPort
    <2> QED
        BY <1>5, <1>6, <2>1, <2>2, <2>3, <2>4, ProcessMoves
<1> QED
    BY <1>3, <1>4, <1>6 DEF ToldItsPort

\* What a client shows its user is what the registry has: the session it runs, if
\* registered, is registered for this process and on the port of remote_port=,
\* however often it reconnected and whoever else contends for the port
\* (client/control.rs: register; server/control.rs: serve; registry.rs: register).
THEOREM ClientViewHolds == TunnelSpec => []ClientView
<1> DEFINE Inv == TunnelInvariant /\ ServedAsAsked /\ ToldItsPort
<1>1. TunnelInit => Inv
    <2>1. ASSUME TunnelInit PROVE ServedAsAsked /\ ToldItsPort
        <3>1. Live = {} /\ \A s \in Session : Carried(writer[s]) = {} /\ Carried(down[s]) = {}
            BY <2>1, CarriedQueue DEF TunnelInit, Init, ClientInit, Live, NoRef
        <3> QED
            BY <2>1, <3>1 DEF TunnelInit, Init, ClientInit, ServedAsAsked, ToldItsPort
    <2> QED
        BY <2>1, TunnelStarts
<1>2. Inv /\ [TunnelNext]_tunnelVars => Inv'
    BY TunnelKeeps, ServedNext, ToldNext DEF TunnelInvariant, Ownership, TunnelTypes, ClientSide
<1>3. Inv => ClientView
    <2> SUFFICES ASSUME Inv, NEW i \in Instance, cphase[i] = "running", csession[i] \in Live
                 PROVE  /\ sessions[csession[i]].instance = i
                        /\ sessions[csession[i]].port = last_assigned[i]
        BY DEF ClientView
    <2>1. csession[i] # None
        BY IdentityAssumption DEF Live
    <2> QED
        BY <2>1 DEF ServedAsAsked, ToldItsPort
<1> QED
    BY <1>1, <1>2, <1>3, PTL DEF TunnelSpec

-----------------------------------------------------------------------------
(* The tasks of a client *)

\* The registry has looked at the connection.
Opened(c) == conn[c] \notin {"new", "queued"}

\* An OPEN queued or in flight names a user the registry has given to the session
\* it is sent to, and only such a user has a task.
OpensNamed ==
    /\ \A s \in Session : \A f \in Carried(writer[s]) \cup Carried(down[s]) :
          f.ty = "Open" => f.arg \in Conn /\ Opened(f.arg) /\ req[f.arg].session = s
    /\ \A c \in Conn : ctask[c] # "none" => Opened(c)

\* The limit, over finite sets of tasks.
TasksCounted ==
    \A s \in Session : IsFiniteSet(Active(s)) /\ Cardinality(Active(s)) <= max_connections

\* A connection is given to a session once (accepted_public).
LEMMA OpenedOnce ==
    ASSUME TypeOK, RequestTasks, [Next]_vars, NEW c \in Conn, Opened(c)
    PROVE  Opened(c)' /\ req'[c] = req[c]
<1>1. ASSUME UNCHANGED <<conn, req>> PROVE Opened(c)' /\ req'[c] = req[c]
    BY <1>1 DEF Opened
<1>2. CASE AcceptedPublic
    <2>1. /\ commands # <<>> /\ commands' = Tail(commands) /\ Head(commands).op = "AcceptedPublic"
          /\ Head(commands) \in Queued
        BY <1>2, ChannelTaken DEF AcceptedPublic, Receive
    <2>2. PICK k \in Conn : k = Head(commands).item /\ k # c
        BY <2>1, QueuedItems DEF RequestTasks, AcceptedQueued, Opened
    <2>3. /\ \E x : conn' = [conn EXCEPT ![k] = x]
          /\ req' = req \/ \E x : req' = [req EXCEPT ![k] = x]
        BY <1>2, <2>2 DEF AcceptedPublic, Reject, FailSession, OpenRequest
    <2> QED
        BY <2>2, <2>3 DEF Opened, TypeOK
<1>3. ASSUME NEW k \in Conn, PublicStep(k) PROVE Opened(c)' /\ req'[c] = req[c]
    <2>1. CASE ServePublicEnds(k) \/ ServePublicStep(k) \/ ForwardEnds(k) \/ DeadlinePasses(k)
        <3>1. /\ req' = req
              /\ \/ conn' = conn
                 \/ \E x \in {"readying", "forwarding", "finishing", "closed"} :
                       conn' = [conn EXCEPT ![k] = x]
            BY <2>1 DEF ServePublicEnds, ServePublicStep, WaitEnds, TakeData, WriteReady,
                        ReadyFails, ForwardCancelled, ForwardEnds, CloseBoth, DeadlinePasses
        <3> QED
            BY <3>1 DEF Opened, TypeOK
    <2>2. CASE \E l \in listeners : AcceptPublic(k, l)
        <3>1. /\ conn[k] = "new" /\ req' = req
              /\ \E x \in {"queued", "closed"} : conn' = [conn EXCEPT ![k] = x]
            BY <2>2 DEF AcceptPublic
        <3> QED
            BY <3>1 DEF Opened, TypeOK
    <2> QED
        BY <1>3, <2>1, <2>2 DEF PublicStep
<1>4. CASE Shutdown
    BY <1>4 DEF Shutdown, Opened
<1>5. CASE \/ Register \/ SessionLost \/ Goodbye \/ PeekData \/ ClaimData \/ OpenFailed
           \/ RequestFinished \/ Sweep \/ (\E p \in Port : ReservationExpires(p))
           \/ \E l \in listeners : ListenerStops(l)
    BY <1>1, <1>5 DEF Register, SessionLost, Goodbye, PeekData, ClaimData, OpenFailed,
            RequestFinished, Sweep, ReservationExpires, ListenerStops
<1>6. CASE \/ \E s \in Session : ControlStep(s)
           \/ \E d \in DataConn : DataStep(d)
           \/ SupervisorStep
    BY <1>1, <1>6, ControlFrame, DataStepFrame, SupervisorStepFrame
<1>7. CASE UNCHANGED vars
    BY <1>1, <1>7 DEF vars
<1> QED
    BY <1>2, <1>3, <1>4, <1>5, <1>6, <1>7 DEF Next, RegistryStep, Idle

\* A task starts with its OPEN, and ends once (run_session, handle_open).
LEMMA TaskMoves ==
    ASSUME ClientSide, [TunnelNext]_tunnelVars
    PROVE  \/ \E i \in Instance : HearOpen(i)
           \/ \A c \in Conn : ctask[c] \in {"none", "done"} => ctask'[c] = ctask[c]
<1>0. ctask \in [Conn -> TaskState]
    BY DEF ClientSide, ClientTypeOK
<1>1. CASE ServerInternal \/ AtRest \/ UNCHANGED tunnelVars \/ \E d \in DataConn : ServerData(d)
    BY <1>1 DEF ServerInternal, AtRest, tunnelVars, ServerData, ServerAcceptsData,
                ServerRefusesData, ServerClaims
<1>2. CASE \E s \in Session : ServerControl(s) \/ Cut(s)
    BY <1>2 DEF Cut, ServerControl, ServerAccepts, ServerAuthenticates, ServerHandshakeFails,
                ServerReads, ServerReadsEnd, ServerWrites, ServerWriteFails
<1>3. CASE \E c \in Conn : ServerReadies(c)
    BY <1>3 DEF ServerReadies
<1>4. CASE \E c \in Conn : TaskStep(c)
    BY <1>0, <1>4 DEF TaskStep, DialBoth, ReadDataChallenge, ReadDataReady, SetupFails,
                TaskCancelled, ClientForwardEnds, Step
<1>5. ASSUME NEW i \in Instance, ProcessStep(i), ~HearOpen(i)
      PROVE  ctask' = ctask
    <2>1. CASE AttemptStep(i)
        BY <2>1 DEF AttemptStep, ReadChallenge, ReadRegistered, AttemptRefused, AttemptConfused,
                AttemptFails, AttemptCancelled
    <2>2. CASE SessionStep(i)
        BY <1>5, <2>2 DEF SessionStep, HearPing, HearPong, HearShutdown, HearError, StartGoodbye,
                GoodbyeEnds
    <2>3. CASE \/ Dial(i) \/ SessionEnds(i) \/ ClientPongDeadline(i) \/ ClientPingTick(i)
               \/ RunCancelled(i) \/ Interrupt(i) \/ Kill(i)
        BY <2>3 DEF Dial, SessionEnds, ClientPongDeadline, ClientPingTick, RunCancelled,
                Interrupt, Kill
    <2> QED
        BY <1>5, <2>1, <2>2, <2>3 DEF ProcessStep
<1> QED
    BY <1>1, <1>2, <1>3, <1>4, <1>5 DEF TunnelNext

\* The request of the OPEN a client hears is one of the session it is heard on.
LEMMA HeardOpen ==
    ASSUME ClientSide, OpensNamed, NEW i \in Instance, HearOpen(i)
    PROVE  \E s \in Session, c \in Conn :
              /\ Opened(c) /\ req[c].session = s /\ UNCHANGED <<conn, req>>
              /\ \/ /\ Cardinality(Active(s)) < max_connections
                    /\ ctask' = [ctask EXCEPT ![c] = "dialing"]
                 \/ ctask' = [ctask EXCEPT ![c] = "done"]
<1>1. cphase[i] = "running" /\ down[csession[i]] # <<>> /\ Head(down[csession[i]]).ty = "Open"
    BY DEF HearOpen
<1>2. PICK s \in Session : s = csession[i]
    BY <1>1 DEF ClientSide, ClientTypeOK, Linked
<1>3. Head(down[s]) \in Carried(down[s])
    BY <1>1, <1>2, CarriedQueue DEF ClientSide, Linked
<1>4. PICK c \in Conn : c = Head(down[s]).arg /\ Opened(c) /\ req[c].session = s
    BY <1>1, <1>2, <1>3 DEF OpensNamed
<1> QED
    BY <1>2, <1>4 DEF HearOpen, vars

\* Every step keeps both.
LEMMA LimitNext ==
    ASSUME TypeOK, RequestTasks, ServerFrames, ClientSide, OpensNamed, TasksCounted,
           [TunnelNext]_tunnelVars, [Next]_vars
    PROVE  OpensNamed' /\ TasksCounted'
<1>0. ctask \in [Conn -> TaskState]
    BY DEF ClientSide, ClientTypeOK
<1>1. \A c \in Conn : Opened(c) => Opened(c)' /\ req'[c] = req[c]
    BY OpenedOnce
<1>2. ASSUME NEW s \in Session, NEW f \in Carried(writer'[s]) \cup Carried(down'[s]), f.ty = "Open"
      PROVE  f.arg \in Conn /\ Opened(f.arg)' /\ req'[f.arg].session = s
    <2>1. CASE f \in Carried(writer[s]) \cup Carried(down[s])
        BY <1>1, <1>2, <2>1 DEF OpensNamed
    <2>2. CASE f.arg \in Conn /\ conn'[f.arg] = "waiting" /\ req'[f.arg].session = s
        BY <2>2 DEF Opened
    <2> QED
        BY <1>2, <2>1, <2>2, NoticeNext, DownCarries DEF Notice
<1>3. ASSUME \A c \in Conn : ctask[c] \in {"none", "done"} => ctask'[c] = ctask[c]
      PROVE  /\ \A c \in Conn : ctask'[c] # "none" => Opened(c)'
             /\ TasksCounted'
    <2>1. \A c \in Conn : ctask'[c] # "none" => Opened(c)'
        BY <1>1, <1>3 DEF OpensNamed
    <2>2. ASSUME NEW s \in Session PROVE Active(s)' \subseteq Active(s)
        BY <1>1, <1>3 DEF OpensNamed, Active
    <2>3. TasksCounted'
        <3> SUFFICES ASSUME NEW s \in Session
                     PROVE  IsFiniteSet(Active(s)') /\ Cardinality(Active(s)') <= max_connections
            BY DEF TasksCounted
        <3>1. IsFiniteSet(Active(s)') /\ Cardinality(Active(s)') <= Cardinality(Active(s))
            BY <2>2, FS_Subset DEF TasksCounted
        <3>2. Cardinality(Active(s)) \in Nat /\ Cardinality(Active(s)') \in Nat
            BY <3>1, FS_CardinalityType DEF TasksCounted
        <3> QED
            BY <3>1, <3>2, LimitAssumption DEF TasksCounted
    <2> QED
        BY <2>1, <2>3
<1>4. ASSUME NEW i \in Instance, HearOpen(i)
      PROVE  /\ \A c \in Conn : ctask'[c] # "none" => Opened(c)'
             /\ TasksCounted'
    <2>1. PICK s \in Session, c \in Conn :
              /\ Opened(c) /\ req[c].session = s /\ UNCHANGED <<conn, req>>
              /\ \/ /\ Cardinality(Active(s)) < max_connections
                    /\ ctask' = [ctask EXCEPT ![c] = "dialing"]
                 \/ ctask' = [ctask EXCEPT ![c] = "done"]
        BY <1>4, HeardOpen
    <2>2. \A x \in Conn : x # c => ctask'[x] = ctask[x]
        BY <1>0, <2>1
    <2>3. \A x \in Conn : ctask'[x] # "none" => Opened(x)'
        BY <1>1, <2>1, <2>2 DEF OpensNamed
    <2>4. ASSUME NEW r \in Session
          PROVE  IsFiniteSet(Active(r)') /\ Cardinality(Active(r)') <= max_connections
        <3>0. IsFiniteSet(Active(r)) /\ Cardinality(Active(r)) <= max_connections
            BY DEF TasksCounted
        <3>1. CASE r # s \/ ctask' = [ctask EXCEPT ![c] = "done"]
            <4>1. Active(r)' \subseteq Active(r)
                BY <1>0, <2>1, <2>2, <3>1 DEF Active
            <4>2. IsFiniteSet(Active(r)') /\ Cardinality(Active(r)') <= Cardinality(Active(r))
                BY <3>0, <4>1, FS_Subset
            <4>3. Cardinality(Active(r)) \in Nat /\ Cardinality(Active(r)') \in Nat
                BY <3>0, <4>2, FS_CardinalityType
            <4> QED
                BY <3>0, <4>2, <4>3, LimitAssumption
        <3>2. CASE r = s /\ Cardinality(Active(s)) < max_connections
            <4>1. Active(r)' \subseteq Active(r) \cup {c}
                BY <2>1, <2>2 DEF Active
            <4>2. /\ IsFiniteSet(Active(r) \cup {c})
                  /\ Cardinality(Active(r) \cup {c}) \in {Cardinality(Active(r)), Cardinality(Active(r)) + 1}
                BY <3>0, FS_AddElement
            <4>3. IsFiniteSet(Active(r)') /\ Cardinality(Active(r)') <= Cardinality(Active(r) \cup {c})
                BY <4>1, <4>2, FS_Subset
            <4>4. Cardinality(Active(r)) \in Nat /\ Cardinality(Active(r)') \in Nat
                BY <3>0, <4>3, FS_CardinalityType
            <4> QED
                BY <3>2, <4>2, <4>3, <4>4, LimitAssumption
        <3> QED
            BY <2>1, <3>1, <3>2
    <2> QED
        BY <2>3, <2>4 DEF TasksCounted
<1> QED
    BY <1>2, <1>3, <1>4, TaskMoves DEF OpensNamed

\* The tasks of a session never exceed the limit its REGISTERED announced, although
\* the server gives its permit back while the client's task still runs: an OPEN
\* beyond it is turned down (client/control.rs: run_session), for any number of
\* users and whatever the two sides' timeouts do.
THEOREM TargetsLimitedHolds == TunnelSpec => []TargetsLimited
<1>1. TunnelInit => TunnelInvariant /\ OpensNamed /\ TasksCounted
    <2> SUFFICES ASSUME TunnelInit PROVE OpensNamed /\ TasksCounted
        BY TunnelStarts
    <2>1. \A s \in Session : Carried(writer[s]) = {} /\ Carried(down[s]) = {} /\ Active(s) = {}
        BY CarriedQueue DEF TunnelInit, Init, ClientInit, Active
    <2>2. OpensNamed
        BY <2>1 DEF TunnelInit, ClientInit, OpensNamed
    <2>3. TasksCounted
        BY <2>1, FS_EmptySet, LimitAssumption DEF TasksCounted
    <2> QED
        BY <2>2, <2>3
<1>2. /\ TunnelInvariant /\ OpensNamed /\ TasksCounted /\ [TunnelNext]_tunnelVars
      => TunnelInvariant' /\ OpensNamed' /\ TasksCounted'
    BY TunnelKeeps, LimitNext DEF TunnelInvariant, Ownership, TunnelTypes, ClientSide
<1>3. TasksCounted => TargetsLimited
    BY DEF TasksCounted, TargetsLimited
<1> QED
    BY <1>1, <1>2, <1>3, PTL DEF TunnelSpec

=============================================================================
