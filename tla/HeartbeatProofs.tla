-------------------------- MODULE HeartbeatProofs --------------------------
(***************************************************************************)
(* Heartbeats in the tunnel: the ping a side waits for and its answer are   *)
(* one frame at any time, in a queue or in flight, and that frame carries   *)
(* the number the side waits for.  The frames are counted over the three    *)
(* queues they pass through.                                                *)
(***************************************************************************)
EXTENDS TunnelProofs, FiniteSetTheorems

USE DEF ownerVars, limitVars, publicVars, localVars, controlVars, writerVars,
        cancelVars, dataVars, registryVars, sessionFrame, writerFrame,
        publicFrame, connFrame, dataFrame, supervisorFrame, heartbeat,
        processVars, pulseVars, taskVars, linkVars, clientVars, clientFrame,
        controlFrame, runFrame, requestFrame

-----------------------------------------------------------------------------
(* Counting the frames of a queue *)

\* Where the frames of a type are in a queue.
Places(q, ty) == {k \in DOMAIN q : q[k].ty = ty}

\* They are finitely many, and none if there is no such frame.
LEMMA CountNat ==
    ASSUME NEW q \in Seq(Sound), NEW ty
    PROVE  /\ IsFiniteSet(Places(q, ty)) /\ Count(q, ty) = Cardinality(Places(q, ty))
           /\ Count(q, ty) \in Nat
           /\ Count(q, ty) = 0 => Among(q, ty) = {}
<1>1. Len(q) \in Nat /\ DOMAIN q = 1 .. Len(q)
    OBVIOUS
<1>2. IsFiniteSet(1 .. Len(q))
    BY <1>1, FS_Interval
<1>3. IsFiniteSet(Places(q, ty))
    BY <1>1, <1>2, FS_Subset DEF Places
<1>4. Count(q, ty) = Cardinality(Places(q, ty))
    BY DEF Count, Places
<1>5. Count(q, ty) \in Nat
    BY <1>3, <1>4, FS_CardinalityType
<1>6. Count(q, ty) = 0 => Places(q, ty) = {}
    BY <1>3, <1>4, FS_EmptySet
<1> QED
    BY <1>3, <1>4, <1>5, <1>6 DEF Places, Among

\* An empty queue has none.
LEMMA CountEmpty ==
    ASSUME NEW ty
    PROVE  Count(<<>>, ty) = 0 /\ Among(<<>>, ty) = {}
<1>1. {k \in DOMAIN <<>> : <<>>[k].ty = ty} = {}
    OBVIOUS
<1> QED
    BY <1>1, FS_EmptySet DEF Count, Among

\* Appending adds one frame of its type.
LEMMA CountAppend ==
    ASSUME NEW q \in Seq(Sound), NEW f \in Sound, NEW ty
    PROVE  /\ Count(Append(q, f), ty) = Count(q, ty) + (IF f.ty = ty THEN 1 ELSE 0)
           /\ Among(Append(q, f), ty) = Among(q, ty) \cup (IF f.ty = ty THEN {f} ELSE {})
<1> DEFINE r == Append(q, f)
<1>1. /\ Len(q) \in Nat /\ DOMAIN q = 1 .. Len(q) /\ r \in Seq(Sound)
      /\ DOMAIN r = 1 .. Len(q) + 1 /\ r[Len(q) + 1] = f
      /\ \A k \in 1 .. Len(q) : r[k] = q[k]
    OBVIOUS
<1> HIDE DEF r
<1>2. Places(r, ty) = Places(q, ty) \cup (IF f.ty = ty THEN {Len(q) + 1} ELSE {})
    <2>1. \A k : k \in 1 .. Len(q) + 1 <=> k \in 1 .. Len(q) \/ k = Len(q) + 1
        BY <1>1
    <2> QED
        BY <1>1, <2>1 DEF Places
<1>3. Len(q) + 1 \notin Places(q, ty)
    BY <1>1 DEF Places
<1>4. /\ IsFiniteSet(Places(q, ty)) /\ Count(q, ty) = Cardinality(Places(q, ty))
      /\ Count(r, ty) = Cardinality(Places(r, ty)) /\ Count(q, ty) \in Nat
    BY <1>1, CountNat
<1>5. Count(r, ty) = Count(q, ty) + (IF f.ty = ty THEN 1 ELSE 0)
    <2>1. Cardinality(Places(q, ty) \cup {Len(q) + 1}) = Cardinality(Places(q, ty)) + 1
        BY <1>3, <1>4, FS_AddElement
    <2>2. CASE f.ty = ty
        BY <1>2, <1>4, <2>1, <2>2
    <2>3. CASE f.ty # ty
        BY <1>2, <1>4, <2>3
    <2> QED
        BY <2>2, <2>3
<1>6. Among(r, ty) = Among(q, ty) \cup (IF f.ty = ty THEN {f} ELSE {})
    <2>1. \A k : k \in 1 .. Len(q) + 1 <=> k \in 1 .. Len(q) \/ k = Len(q) + 1
        BY <1>1
    <2>2. {r[k] : k \in DOMAIN r} = {q[k] : k \in DOMAIN q} \cup {f}
        BY <1>1, <2>1
    <2> QED
        BY <2>2 DEF Among
<1> QED
    BY <1>5, <1>6 DEF r

\* Reading takes one frame of the type of the first.
LEMMA CountTail ==
    ASSUME NEW q \in Seq(Sound), q # <<>>, NEW ty
    PROVE  /\ Count(q, ty) = Count(Tail(q), ty) + (IF Head(q).ty = ty THEN 1 ELSE 0)
           /\ Among(Tail(q), ty) \subseteq Among(q, ty)
           /\ Head(q).ty = ty => Head(q) \in Among(q, ty)
<1> DEFINE r == Tail(q)
<1>1. /\ Len(q) \in Nat /\ Len(q) > 0 /\ DOMAIN q = 1 .. Len(q) /\ r \in Seq(Sound)
      /\ DOMAIN r = 1 .. Len(q) - 1 /\ Head(q) = q[1]
      /\ \A k \in 1 .. Len(q) - 1 : r[k] = q[k + 1]
    OBVIOUS
<1> HIDE DEF r
<1> DEFINE Rest == {k \in Places(q, ty) : k # 1}
           next == [k \in Places(r, ty) |-> k + 1]
<1>2. /\ IsFiniteSet(Places(q, ty)) /\ Count(q, ty) = Cardinality(Places(q, ty))
      /\ IsFiniteSet(Places(r, ty)) /\ Count(r, ty) = Cardinality(Places(r, ty))
    BY <1>1, CountNat
<1>3. next \in Bijection(Places(r, ty), Rest)
    <2>1. \A k \in Places(r, ty) : k \in Nat /\ k + 1 \in Rest
        BY <1>1 DEF Places
    <2>2. \A k \in Rest : k - 1 \in Places(r, ty) /\ next[k - 1] = k
        <3>1. \A k \in Rest : k \in 2 .. Len(q) /\ k - 1 \in 1 .. Len(q) - 1 /\ (k - 1) + 1 = k
            BY <1>1 DEF Places
        <3> QED
            BY <1>1, <3>1 DEF Places
    <2>3. next \in Surjection(Places(r, ty), Rest)
        BY <2>1, <2>2 DEF Surjection
    <2>4. next \in Injection(Places(r, ty), Rest)
        <3>1. \A j, k \in Places(r, ty) : j + 1 = k + 1 => j = k
            BY <2>1
        <3>2. next \in [Places(r, ty) -> Rest]
            BY <2>1
        <3> QED
            BY <3>1, <3>2 DEF Injection, IsInjective
    <2> QED
        BY <2>3, <2>4 DEF Bijection
<1>4. Cardinality(Rest) = Count(r, ty) /\ IsFiniteSet(Rest)
    BY <1>2, <1>3, FS_Bijection DEF ExistsBijection
<1>5. Places(q, ty) = Rest \cup (IF Head(q).ty = ty THEN {1} ELSE {}) /\ 1 \notin Rest
    BY <1>1 DEF Places
<1>6. Count(q, ty) = Count(r, ty) + (IF Head(q).ty = ty THEN 1 ELSE 0)
    <2>1. Cardinality(Rest \cup {1}) = Cardinality(Rest) + 1
        BY <1>4, <1>5, FS_AddElement
    <2>2. Cardinality(Rest) \in Nat
        BY <1>4, FS_CardinalityType
    <2> HIDE DEF Rest
    <2> QED
        BY <1>2, <1>4, <1>5, <2>1, <2>2
<1>7. Among(r, ty) \subseteq Among(q, ty) /\ (Head(q).ty = ty => Head(q) \in Among(q, ty))
    <2>1. 1 \in 1 .. Len(q) /\ \A k \in 1 .. Len(q) - 1 : k + 1 \in 1 .. Len(q)
        BY <1>1
    <2> QED
        BY <1>1, <2>1 DEF Among
<1> QED
    BY <1>6, <1>7 DEF r

-----------------------------------------------------------------------------
(* The invariant *)

\* The server's pings and the client's answers on a session, and their numbers.
ServerBeats(s) == Count(writer[s], "Ping") + Count(down[s], "Ping") + Count(up[s], "Pong")
ServerNumbers(s) ==
    {f.num : f \in Among(writer[s], "Ping") \cup Among(down[s], "Ping") \cup Among(up[s], "Pong")}

\* The client's pings and the server's answers.
ClientBeats(s) == Count(up[s], "Ping") + Count(writer[s], "Pong") + Count(down[s], "Pong")
ClientNumbers(s) ==
    {f.num : f \in Among(up[s], "Ping") \cup Among(writer[s], "Pong") \cup Among(down[s], "Pong")}

\* No session loop has run yet.
Early == {"new", "handshake", "registering", "granted"}

\* The server's side, whether or not the client still has the session: nothing
\* before its loop runs, and then the one heartbeat it waits for.
ServerPulse(s) ==
    /\ phase[s] \in Early => ServerBeats(s) = 0
    /\ phase[s] = "running" =>
          /\ ServerBeats(s) <= IF s \in outstanding THEN 1 ELSE 0
          /\ ServerNumbers(s) \subseteq {sequence[s]}

\* The client's side, whatever the server does with the session.
ClientPulse(s) ==
    /\ asked[s] = NoHello => ClientBeats(s) = 0
    /\ \A i \in Instance : csession[i] = s =>
          /\ ClientBeats(s) <= IF i \in coutstanding THEN 1 ELSE 0
          /\ ClientNumbers(s) \subseteq {csequence[i]}

Pulse == \A s \in Session : ServerPulse(s) /\ ClientPulse(s)

-----------------------------------------------------------------------------
(* Queues that gain no heartbeat *)

NoNew(r, q, ty) == Count(r, ty) <= Count(q, ty) /\ Among(r, ty) \subseteq Among(q, ty)
NoNewBeat(r, q) == NoNew(r, q, "Ping") /\ NoNew(r, q, "Pong")

\* A queue left alone, emptied or read, and one that is sent another frame.
LEMMA NoNewQueue ==
    ASSUME NEW q \in Seq(Sound), NEW ty
    PROVE  /\ NoNew(q, q, ty) /\ NoNew(<<>>, q, ty)
           /\ q # <<>> => NoNew(Tail(q), q, ty)
           /\ \A f \in Sound : f.ty # ty => NoNew(Append(q, f), q, ty) /\ NoNew(Offer(q, f), q, ty)
<1>1. Count(q, ty) \in Nat
    BY CountNat
<1>2. NoNew(q, q, ty) /\ NoNew(<<>>, q, ty)
    BY <1>1, CountEmpty DEF NoNew
<1>3. ASSUME q # <<>> PROVE NoNew(Tail(q), q, ty)
    <2>1. Tail(q) \in Seq(Sound)
        BY <1>3
    <2>2. Count(Tail(q), ty) \in Nat
        BY <2>1, CountNat
    <2> QED
        BY <1>1, <1>3, <2>2, CountTail DEF NoNew
<1>4. ASSUME NEW f \in Sound, f.ty # ty PROVE NoNew(Append(q, f), q, ty)
    BY <1>1, <1>4, CountAppend DEF NoNew
<1> QED
    BY <1>2, <1>3, <1>4 DEF Offer

\* try_send of any other frame, with or without CloseAfterFlush.
LEMMA NoNewSends ==
    ASSUME writer \in [Session -> Seq(Sound)], NEW f \in Sound, NEW ty \in {"Ping", "Pong"},
           f.ty # ty, NEW r \in Session,
           (\E x : writer' = TrySend(x, f)) \/ (\E S : writer' = TrySendLast(S, f))
    PROVE  NoNew(writer'[r], writer[r], ty)
<1> DEFINE q == writer[r]
           once == Offer(q, f)
           twice == Offer(once, CloseAfterFlush)
<1>1. /\ q \in Seq(Sound) /\ once \in Seq(Sound) /\ twice \in Seq(Sound)
      /\ CloseAfterFlush \in Sound /\ CloseAfterFlush.ty # ty
    BY SoundQueue, SoundFrames DEF CloseAfterFlush, Frame
<1>2. writer'[r] \in {q, once, twice}
    BY DEF TrySend, TrySendLast
<1>3. /\ Count(q, ty) \in Nat /\ Count(once, ty) \in Nat /\ Count(twice, ty) \in Nat
    BY <1>1, CountNat
<1> HIDE DEF q, once, twice
<1>4. NoNew(q, q, ty)
    BY <1>1, NoNewQueue
<1>5. NoNew(once, q, ty)
    BY <1>1, NoNewQueue DEF once
<1>6. NoNew(twice, once, ty)
    BY <1>1, NoNewQueue DEF twice
<1>7. NoNew(twice, q, ty)
    BY <1>3, <1>5, <1>6 DEF NoNew
<1> QED
    BY <1>2, <1>4, <1>5, <1>7 DEF q

-----------------------------------------------------------------------------
(* What the server's other steps do to a session's heartbeats *)

\* The serve task is no further back than it was, and its loop has the heartbeat
\* it had.
Serial(s) ==
    /\ phase'[s] \in Early => phase[s] \in Early
    /\ phase'[s] = "running" =>
          \/ phase[s] \in Early
          \/ /\ phase[s] = "running" /\ sequence'[s] = sequence[s]
             /\ s \in outstanding' <=> s \in outstanding

ServerQuiet(s) == NoNewBeat(writer'[s], writer[s]) /\ Serial(s)

\* The steps of a control connection other than those of session_loop that are
\* about heartbeats.
QuietControl(s) ==
    \/ \E h \in Hellos : AcceptControl(s, h)
    \/ RefuseControl(s) \/ HandshakeFails(s) \/ Authenticate(s) \/ ServeStep(s)
    \/ PongDeadline(s) \/ TakeoverFlushEnds(s) \/ WriterStep(s)
    \/ ReceiveGoodbye(s) \/ ReceiveError(s) \/ \E c \in Conn : ReceiveOpenFailed(s, c)

\* They move their own serve task, forward (control.rs: serve, session_loop).
LEMMA SerialControl ==
    ASSUME TypeOK, NEW s \in Session, QuietControl(s), NEW r \in Session
    PROVE  Serial(r)
<1>0. /\ phase \in [Session -> ControlPhase] /\ sequence \in [Session -> Sequence]
      /\ outstanding \subseteq Session
    BY DEF TypeOK
<1>1. ASSUME UNCHANGED <<phase, sequence, outstanding>>
      PROVE  Serial(r)
    BY <1>1 DEF Serial
<1>2. ASSUME NEW x \in ControlPhase, phase' = [phase EXCEPT ![s] = x],
             UNCHANGED <<sequence, outstanding>>,
             x \in Early \cup {"running"} => phase[s] \in Early
      PROVE  Serial(r)
    BY <1>0, <1>2 DEF Serial, Early
<1>3. ASSUME EndServe({s})
      PROVE  Serial(r)
    BY <1>0, <1>3 DEF EndServe, Serial, Early
<1>4. CASE \/ (\E h \in Hellos : AcceptControl(s, h)) \/ RefuseControl(s) \/ TakeoverFlushEnds(s)
           \/ HandshakeFails(s) \/ Authenticate(s)
    BY <1>1, <1>2, <1>3, <1>4 DEF AcceptControl, RefuseControl, TakeoverFlushEnds, HandshakeFails,
            Authenticate, Early, ControlPhase
<1>5. CASE SendRefusal(s) \/ SendRegistered(s) \/ Abandon(s) \/ ServeEnds(s)
    BY <1>2, <1>3, <1>5 DEF SendRefusal, SendRegistered, Abandon, ServeEnds, Early, ControlPhase
<1>6. CASE \/ Cancelled(s) \/ SendSessionLost(s) \/ SendGoodbye(s) \/ GoodbyeReplied(s)
           \/ PongDeadline(s)
    BY <1>2, <1>6 DEF Cancelled, SendSessionLost, SendGoodbye, GoodbyeReplied, PongDeadline, Break,
            Teardown, Early, ControlPhase
<1>7. CASE ReceiveGoodbye(s) \/ ReceiveError(s) \/ \E c \in Conn : ReceiveOpenFailed(s, c)
    BY <1>1, <1>2, <1>7 DEF ReceiveGoodbye, ReceiveError, ReceiveOpenFailed, Break, BreakClean,
            Continue, Early, ControlPhase
<1>8. CASE WriterStep(s)
    BY <1>1, <1>8 DEF WriterStep, WriteFrame, WriteFails, CloseAfterFlushed, SendersGone
<1> QED
    BY <1>4, <1>5, <1>6, <1>7, <1>8 DEF QuietControl, ServeStep

\* And they queue no heartbeat.
LEMMA QuietFrames ==
    ASSUME TypeOK, ServerFrames, NEW s \in Session, QuietControl(s), NEW r \in Session
    PROVE  NoNewBeat(writer'[r], writer[r])
<1>0. /\ writer \in [Session -> Seq(Sound)] /\ refusal \in [Session -> ErrorCode \cup {None}]
      /\ \A x \in Session : phase[x] = "denied" => refusal[x] # None
    BY DEF TypeOK, ServerFrames
<1>1. ASSUME writer' = writer PROVE NoNewBeat(writer'[r], writer[r])
    BY <1>0, <1>1, NoNewQueue DEF NoNewBeat
<1>2. ASSUME NEW f \in Sound, f.ty \notin {"Ping", "Pong"},
             (\E x : writer' = TrySend(x, f)) \/ (\E S : writer' = TrySendLast(S, f))
      PROVE  NoNewBeat(writer'[r], writer[r])
    BY <1>0, <1>2, NoNewSends DEF NoNewBeat
<1>3. CASE \/ (\E h \in Hellos : AcceptControl(s, h)) \/ RefuseControl(s) \/ TakeoverFlushEnds(s)
           \/ HandshakeFails(s) \/ Abandon(s) \/ ServeEnds(s) \/ Authenticate(s)
    BY <1>1, <1>3 DEF AcceptControl, RefuseControl, TakeoverFlushEnds, HandshakeFails, Abandon,
                      ServeEnds, Authenticate
<1>4. CASE SendRefusal(s)
    <2>1. ErrorFrame(refusal[s]) \in Sound /\ ErrorFrame(refusal[s]).ty = "Error"
        BY <1>0, <1>4, SoundFrames DEF SendRefusal, ErrorFrame
    <2> QED
        BY <1>2, <1>4, <2>1 DEF SendRefusal
<1>5. CASE SendRegistered(s)
    <2>1. /\ NumberFrame("Registered", assigned[s]) \in Sound
          /\ NumberFrame("Registered", assigned[s]).ty = "Registered"
        BY SoundFrames DEF TypeOK, NumberFrame
    <2> QED
        BY <1>1, <1>2, <1>5, <2>1 DEF SendRegistered
<1>6. CASE \/ Cancelled(s) \/ SendSessionLost(s) \/ SendGoodbye(s) \/ GoodbyeReplied(s)
           \/ PongDeadline(s) \/ ReceiveError(s) \/ \E c \in Conn : ReceiveOpenFailed(s, c)
    BY <1>1, <1>6 DEF Cancelled, SendSessionLost, SendGoodbye, GoodbyeReplied, PongDeadline,
            ReceiveError, ReceiveOpenFailed
<1>7. CASE ReceiveGoodbye(s)
    <2>1. Frame("GoodbyeAck") \in Sound /\ Frame("GoodbyeAck").ty = "GoodbyeAck"
        BY SoundFrames DEF Frame
    <2> QED
        BY <1>2, <1>7, <2>1 DEF ReceiveGoodbye
<1>8. CASE WriterStep(s)
    <2>1. \/ writer' = [writer EXCEPT ![s] = <<>>]
          \/ writer[s] # <<>> /\ writer' = [writer EXCEPT ![s] = Tail(@)]
        BY <1>8 DEF WriterStep, WriteFrame, WriteFails, CloseAfterFlushed, SendersGone, WriterEnds
    <2>2. writer'[r] = writer[r] \/ writer'[r] = <<>> \/ (writer[r] # <<>> /\ writer'[r] = Tail(writer[r]))
        BY <1>0, <2>1
    <2> QED
        BY <1>0, <2>2, NoNewQueue DEF NoNewBeat
<1> QED
    BY <1>3, <1>4, <1>5, <1>6, <1>7, <1>8 DEF QuietControl, ServeStep

\* All other steps of the server: the registry grants a registration that is
\* waited for, and queues OPEN, REPLACED and SERVER_SHUTDOWN.
QuietOther ==
    \/ RegistryStep \/ Sweep \/ SupervisorStep
    \/ \E p \in Port : ReservationExpires(p)
    \/ \E l \in listeners : ListenerStops(l)
    \/ \E c \in Conn : PublicStep(c)
    \/ \E d \in DataConn : DataStep(d)
    \/ UNCHANGED vars

\* The steps that send no heartbeat start no heartbeat of the server.
LEMMA OtherQuiet ==
    ASSUME TypeOK, RegistersOnce, ServerFrames, QuietOther, NEW r \in Session
    PROVE  ServerQuiet(r)
<1>0. /\ writer \in [Session -> Seq(Sound)] /\ phase \in [Session -> ControlPhase]
    BY DEF TypeOK, ServerFrames
<1>1. ASSUME writer' = writer PROVE NoNewBeat(writer'[r], writer[r])
    BY <1>0, <1>1, NoNewQueue DEF NoNewBeat
<1>2. ASSUME NEW f \in Sound, f.ty \notin {"Ping", "Pong"},
             (\E x : writer' = TrySend(x, f)) \/ (\E S : writer' = TrySendLast(S, f))
      PROVE  NoNewBeat(writer'[r], writer[r])
    BY <1>0, <1>2, NoNewSends DEF NoNewBeat
<1>3. ASSUME UNCHANGED <<phase, sequence, outstanding>> PROVE Serial(r)
    BY <1>3 DEF Serial
<1>4. CASE Register
    <2>1. commands # <<>> /\ Head(commands).op = "Register"
        BY <1>4 DEF Register, Receive
    <2>2. PICK s \in Session : s = Head(commands).session
        BY <2>1, HeadCommand DEF Command
    <2>3. phase[s] = "registering"
        <3>1. Len(commands) \in Nat /\ 1 \in 1 .. Len(commands) /\ Head(commands) = commands[1]
            BY <2>1 DEF TypeOK, Channel
        <3> QED
            BY <2>1, <2>2, <3>1 DEF RegistersOnce
    <2>4. /\ \E x \in {"granted", "denied"} : phase' = [phase EXCEPT ![s] = x]
          /\ UNCHANGED <<sequence, outstanding>>
        BY <1>4, <2>2 DEF Register
    <2>5. Serial(r)
        BY <1>0, <2>3, <2>4 DEF Serial, Early
    <2>6. ErrorFrame("Replaced") \in Sound /\ ErrorFrame("Replaced").ty = "Error"
        BY SoundFrames DEF ErrorCode, ErrorFrame
    <2>7. NoNewBeat(writer'[r], writer[r])
        BY <1>1, <1>2, <1>4, <2>6 DEF Register, Install, displace
    <2> QED
        BY <2>5, <2>7 DEF ServerQuiet
<1>5. CASE AcceptedPublic
    <2>1. commands # <<>> /\ Head(commands).op = "AcceptedPublic"
        BY <1>5 DEF AcceptedPublic, Receive
    <2>2. PICK c \in Conn : c = Head(commands).item
        BY <2>1, HeadCommand DEF Command
    <2>3. /\ writer' = writer \/ \E s : writer' = TrySend(s, OpenFrame(c))
          /\ UNCHANGED <<phase, sequence, outstanding>>
        BY <1>5, <2>2 DEF AcceptedPublic, Reject, FailSession, OpenRequest
    <2>4. OpenFrame(c) \in Sound /\ OpenFrame(c).ty = "Open"
        BY SoundFrames DEF OpenFrame
    <2> QED
        BY <1>1, <1>2, <1>3, <2>3, <2>4 DEF ServerQuiet
<1>6. CASE Shutdown
    <2>1. Frame("ServerShutdown") \in Sound /\ Frame("ServerShutdown").ty = "ServerShutdown"
        BY SoundFrames DEF Frame
    <2>2. NoNewBeat(writer'[r], writer[r])
        BY <1>2, <1>6, <2>1 DEF Shutdown, shutdown_all
    <2>3. /\ phase'[r] = CASE phase[r] = "registering" -> "denied"
                           [] phase[r] = "goodbye" -> "teardown"
                           [] OTHER -> phase[r]
          /\ UNCHANGED <<sequence, outstanding>>
        BY <1>6 DEF Shutdown
    <2>4. Serial(r)
        BY <2>3 DEF Serial, Early
    <2> QED
        BY <2>2, <2>4 DEF ServerQuiet
<1>7. CASE Goodbye
    <2>1. /\ phase' = [phase EXCEPT ![Head(commands).session] =
                          IF @ = "goodbye" THEN "teardown" ELSE @]
          /\ UNCHANGED <<sequence, outstanding, writer>>
        BY <1>7 DEF Goodbye
    <2>2. Serial(r)
        BY <1>0, <2>1 DEF Serial, Early
    <2> QED
        BY <1>1, <2>1, <2>2 DEF ServerQuiet
<1>8. CASE SessionLost \/ PeekData \/ ClaimData \/ OpenFailed \/ RequestFinished
    BY <1>1, <1>3, <1>8 DEF SessionLost, PeekData, ClaimData, OpenFailed, RequestFinished, ServerQuiet
<1>9. CASE \/ Sweep \/ (\E p \in Port : ReservationExpires(p))
           \/ (\E l \in listeners : ListenerStops(l)) \/ Stop \/ SendShutdown \/ TasksJoined
    BY <1>1, <1>3, <1>9 DEF Sweep, ReservationExpires, ListenerStops, Stop, SendShutdown,
            TasksJoined, ServerQuiet
<1>10. CASE GraceElapses
    <2>1. Serial(r)
        BY <1>10 DEF GraceElapses, EndServe, Serial, Early
    <2> QED
        BY <1>1, <1>10, <2>1 DEF GraceElapses, ServerQuiet
<1>11. CASE (\E c \in Conn : PublicStep(c)) \/ (\E d \in DataConn : DataStep(d))
    BY <1>1, <1>3, <1>11, PublicStepFrame, DataStepFrame DEF ServerQuiet
<1>12. CASE UNCHANGED vars
    BY <1>1, <1>3, <1>12 DEF vars, ServerQuiet
<1> QED
    BY <1>4, <1>5, <1>6, <1>7, <1>8, <1>9, <1>10, <1>11, <1>12
       DEF QuietOther, RegistryStep, SupervisorStep

-----------------------------------------------------------------------------
(* What the clients' other steps do to a session's heartbeats *)

\* A client that has the session had it with the same heartbeat, or has just
\* opened it.
Owner(s) ==
    /\ asked'[s] = NoHello => asked[s] = NoHello
    /\ \A i \in Instance : csession'[i] = s =>
          \/ asked[s] = NoHello
          \/ /\ csession[i] = s /\ csequence'[i] = csequence[i]
             /\ i \in coutstanding' <=> i \in coutstanding

Pipes(s) == NoNewBeat(up'[s], up[s]) /\ NoNewBeat(down'[s], down[s])

ClientQuiet(s) == Pipes(s) /\ Owner(s)

\* The steps of a process other than those of run_session that are about
\* heartbeats; an attempt that ends closes its end of the connection.
LEMMA AttemptQuiet ==
    ASSUME ClientSide, NEW i \in Instance, csession[i] # None,
           Retry(i) \/ \E result : Exit(i, result), NEW s \in Session
    PROVE  ClientQuiet(s)
<1>0. /\ csession \in [Instance -> Session \cup {None}] /\ csequence \in [Instance -> Sequence]
      /\ up \in [Session -> Seq(Sound)] /\ down \in [Session -> Seq(Sound)]
    BY DEF ClientSide, ClientTypeOK, Linked
<1>1. /\ down' = [down EXCEPT ![csession[i]] = <<>>] /\ UNCHANGED <<asked, up>>
      /\ csession' = [csession EXCEPT ![i] = None]
      /\ coutstanding' = coutstanding \ {i} /\ csequence' = [csequence EXCEPT ![i] = 0]
    BY DEF Retry, Exit, EndAttempt, CloseClient
<1>2. up'[s] = up[s] /\ (down'[s] = down[s] \/ down'[s] = <<>>)
    BY <1>0, <1>1
<1>3. Pipes(s)
    BY <1>0, <1>2, NoNewQueue DEF Pipes, NoNewBeat
<1>4. Owner(s)
    <2>1. None \notin Session
        BY IdentityAssumption
    <2> QED
        BY <1>0, <1>1, <2>1 DEF Owner
<1> QED
    BY <1>3, <1>4 DEF ClientQuiet

\* A frame is read and another sent, neither of them a heartbeat.
LEMMA PipesQuiet ==
    ASSUME ClientSide, NEW s \in Session, NEW f \in Sound, f.ty \notin {"Ping", "Pong"},
           \/ up' = up \/ (\E x : up' = Put(up, x, f)) \/ (\E x : up' = Post(x, f)),
           \/ down' = down \/ (\E x : down' = Deliver(x, f))
           \/ (\E x : down[x] # <<>> /\ down' = [down EXCEPT ![x] = Tail(@)])
    PROVE  Pipes(s)
<1>0. up \in [Session -> Seq(Sound)] /\ down \in [Session -> Seq(Sound)]
    BY DEF ClientSide, Linked
<1>1. up'[s] = up[s] \/ up'[s] = Append(up[s], f)
    BY <1>0 DEF Put, Post
<1>2. down'[s] = down[s] \/ down'[s] = Append(down[s], f) \/ (down[s] # <<>> /\ down'[s] = Tail(down[s]))
    BY <1>0 DEF Put, Deliver
<1>3. NoNewBeat(up'[s], up[s])
    <2>1. up[s] \in Seq(Sound) /\ f.ty # "Ping" /\ f.ty # "Pong"
        BY <1>0
    <2>2. \A ty \in {"Ping", "Pong"} : NoNew(up[s], up[s], ty) /\ NoNew(Append(up[s], f), up[s], ty)
        BY <2>1, NoNewQueue
    <2> QED
        BY <1>1, <2>2 DEF NoNewBeat
<1>4. NoNewBeat(down'[s], down[s])
    BY <1>0, <1>2, NoNewQueue DEF NoNewBeat
<1> QED
    BY <1>3, <1>4 DEF Pipes

\* The steps of a process and its tasks that are not about heartbeats.
QuietProcess(i) ==
    \/ Dial(i) \/ AttemptStep(i) \/ HearShutdown(i) \/ HearError(i) \/ HearOpen(i)
    \/ StartGoodbye(i) \/ GoodbyeEnds(i) \/ SessionEnds(i) \/ ClientPongDeadline(i)
    \/ RunCancelled(i) \/ Interrupt(i) \/ Kill(i)

\* The steps of a process that send no heartbeat start none of the client.
LEMMA ProcessQuiet ==
    ASSUME TypeOK, ClientSide, NEW i \in Instance, QuietProcess(i), NEW s \in Session
    PROVE  ClientQuiet(s)
<1>0. /\ csession \in [Instance -> Session \cup {None}] /\ cphase \in [Instance -> ClientPhase]
      /\ cphase[i] \notin {"idle", "exited"} => csession[i] # None
      /\ asked \in [Session -> Hello \cup {NoHello}]
    BY DEF ClientSide, ClientTypeOK, Linked
<1>1. ASSUME csession[i] # None, Retry(i) \/ \E result : Exit(i, result)
      PROVE  ClientQuiet(s)
    BY <1>1, AttemptQuiet
<1>2. ASSUME UNCHANGED <<asked, csession, csequence, coutstanding>>
      PROVE  Owner(s)
    BY <1>2 DEF Owner
<1>3. /\ Frame("ControlProof") \in Sound /\ Frame("ControlProof").ty \notin {"Ping", "Pong"}
      /\ Frame("Goodbye") \in Sound /\ Frame("Goodbye").ty \notin {"Ping", "Pong"}
    BY SoundFrames DEF Frame
<1>4. ASSUME UNCHANGED <<up, down>>
      PROVE  Pipes(s)
    BY <1>3, <1>4, PipesQuiet
<1>5. ASSUME Heed(i), up' = up, down[csession[i]] # <<>>
      PROVE  Pipes(s)
    BY <1>3, <1>5, PipesQuiet DEF Heed
<1>6. CASE Dial(i)
    <2>1. Undialed \subseteq Nat /\ Undialed # {} /\ Undialed \subseteq Session
        BY <1>6, TunnelAssumption DEF Dial, Undialed
    <2>2. PICK r \in Undialed : r = First(Undialed)
        BY <2>1, FirstIn
    <2>3. /\ csession' = [csession EXCEPT ![i] = r] /\ asked' = [asked EXCEPT ![r] = HelloOf(i)]
          /\ r \in Session /\ asked[r] = NoHello /\ UNCHANGED <<up, down, csequence, coutstanding>>
        BY <1>6, <2>1, <2>2 DEF Dial, Undialed
    <2>4. Owner(s)
        BY <1>0, <2>3 DEF Owner
    <2> QED
        BY <1>4, <2>3, <2>4 DEF ClientQuiet
<1>7. CASE AttemptStep(i)
    <2>1. CASE ReadChallenge(i)
        <3>1. /\ Heed(i) /\ down[csession[i]] # <<>> /\ up' = Put(up, csession[i], Frame("ControlProof"))
              /\ UNCHANGED <<asked, csession, csequence, coutstanding>>
            BY <2>1 DEF ReadChallenge, Heard
        <3> QED
            BY <1>2, <1>3, <3>1, PipesQuiet DEF Heed, ClientQuiet
    <2>2. CASE ReadRegistered(i)
        BY <1>0, <1>1, <1>2, <1>5, <2>2 DEF ReadRegistered, Heard, Attempting, ClientQuiet
    <2>3. CASE AttemptRefused(i) \/ AttemptConfused(i) \/ AttemptFails(i) \/ AttemptCancelled(i)
        BY <1>0, <1>1, <2>3 DEF AttemptRefused, AttemptConfused, AttemptFails, AttemptCancelled,
                classify, Attempting
    <2> QED
        BY <1>7, <2>1, <2>2, <2>3 DEF AttemptStep
<1>8. CASE HearShutdown(i) \/ GoodbyeEnds(i) \/ SessionEnds(i) \/ ClientPongDeadline(i) \/ Kill(i)
    BY <1>0, <1>1, <1>8 DEF HearShutdown, GoodbyeEnds, SessionEnds, ClientPongDeadline, Kill, Running
<1>9. CASE HearError(i)
    BY <1>0, <1>1, <1>2, <1>5, <1>9 DEF HearError, classify, Running, ClientQuiet
<1>10. CASE HearOpen(i)
    <2>1. /\ down[csession[i]] # <<>> /\ down' = [down EXCEPT ![csession[i]] = Tail(@)]
          /\ UNCHANGED <<asked, csession, csequence, coutstanding>>
          /\ Head(down[csession[i]]).ty = "Open" /\ csession[i] # None
        BY <1>0, <1>10 DEF HearOpen
    <2>2. PICK c \in Conn : c = Head(down[csession[i]]).arg
        <3>1. csession[i] \in Session
            BY <1>0, <2>1
        <3>2. Head(down[csession[i]]) \in Sound
            BY <2>1, <3>1, SoundHeard
        <3> QED
            BY <2>1, <3>2 DEF Sound
    <2> DEFINE f == [ty |-> "OpenFailed", arg |-> c, num |-> 0]
    <2>3. f \in Sound /\ f.ty \notin {"Ping", "Pong"}
        BY SoundFrames
    <2>4. up' = up \/ up' = Post(csession[i], f)
        BY <1>10, <2>2 DEF HearOpen, Report
    <2> HIDE DEF f
    <2>5. Pipes(s)
        BY <2>1, <2>3, <2>4, PipesQuiet
    <2> QED
        BY <1>2, <2>1, <2>5 DEF ClientQuiet
<1>11. CASE StartGoodbye(i)
    <2>1. CASE Exit(i, "Clean")
        BY <1>0, <1>1, <1>11, <2>1 DEF StartGoodbye
    <2>2. CASE /\ up' = Post(csession[i], Frame("Goodbye")) /\ down' = down
               /\ UNCHANGED <<asked, csession, csequence, coutstanding>>
        BY <1>2, <1>3, <2>2, PipesQuiet DEF ClientQuiet
    <2> QED
        BY <1>11, <2>1, <2>2 DEF StartGoodbye
<1>12. CASE RunCancelled(i) \/ Interrupt(i)
    BY <1>2, <1>4, <1>12 DEF RunCancelled, Interrupt, ClientQuiet
<1> QED
    BY <1>6, <1>7, <1>8, <1>9, <1>10, <1>11, <1>12 DEF QuietProcess

\* A request's task sends OPEN_FAILED at most.
LEMMA TaskQuiet ==
    ASSUME ClientSide, NEW c \in Conn, TaskStep(c), NEW s \in Session
    PROVE  ClientQuiet(s)
<1> DEFINE f == [ty |-> "OpenFailed", arg |-> c, num |-> 0]
<1>1. f \in Sound /\ f.ty \notin {"Ping", "Pong"}
    BY SoundFrames
<1>2. /\ UNCHANGED <<asked, csession, csequence, coutstanding, down>>
      /\ up' = up \/ up' = Post(req[c].session, f)
    BY DEF TaskStep, DialBoth, ReadDataChallenge, ReadDataReady, SetupFails, TaskCancelled,
           ClientForwardEnds, Report
<1> HIDE DEF f
<1>3. Pipes(s)
    BY <1>1, <1>2, PipesQuiet
<1> QED
    BY <1>2, <1>3 DEF ClientQuiet, Owner

-----------------------------------------------------------------------------
(* From one step to the next *)

\* The queues of a session.
Typed(s) == writer[s] \in Seq(Sound) /\ up[s] \in Seq(Sound) /\ down[s] \in Seq(Sound)

ServerFade(s) ==
    ServerBeats(s)' <= ServerBeats(s) /\ ServerNumbers(s)' \subseteq ServerNumbers(s)
ClientFade(s) ==
    ClientBeats(s)' <= ClientBeats(s) /\ ClientNumbers(s)' \subseteq ClientNumbers(s)

\* The sums are numbers, and nothing carries a number when they are zero.
LEMMA BeatsNat ==
    ASSUME NEW s \in Session, Typed(s)
    PROVE  /\ ServerBeats(s) \in Nat /\ ClientBeats(s) \in Nat
           /\ ServerBeats(s) = 0 => ServerNumbers(s) = {}
           /\ ClientBeats(s) = 0 => ClientNumbers(s) = {}
<1>1. \A ty \in {"Ping", "Pong"} :
        /\ Count(writer[s], ty) \in Nat /\ Count(up[s], ty) \in Nat /\ Count(down[s], ty) \in Nat
        /\ Count(writer[s], ty) = 0 => Among(writer[s], ty) = {}
        /\ Count(up[s], ty) = 0 => Among(up[s], ty) = {}
        /\ Count(down[s], ty) = 0 => Among(down[s], ty) = {}
    BY CountNat DEF Typed
<1>2. ServerBeats(s) = 0 =>
        Count(writer[s], "Ping") = 0 /\ Count(down[s], "Ping") = 0 /\ Count(up[s], "Pong") = 0
    BY <1>1 DEF ServerBeats
<1>3. ClientBeats(s) = 0 =>
        Count(up[s], "Ping") = 0 /\ Count(writer[s], "Pong") = 0 /\ Count(down[s], "Pong") = 0
    BY <1>1 DEF ClientBeats
<1>4. ServerBeats(s) \in Nat /\ ClientBeats(s) \in Nat
    BY <1>1 DEF ServerBeats, ClientBeats
<1> QED
    BY <1>1, <1>2, <1>3, <1>4 DEF ServerNumbers, ClientNumbers

\* The same for the next state.
LEMMA BeatsNatNext ==
    ASSUME NEW s \in Session, Typed(s)'
    PROVE  /\ ServerBeats(s)' \in Nat /\ ClientBeats(s)' \in Nat
           /\ ServerBeats(s)' = 0 => ServerNumbers(s)' = {}
           /\ ClientBeats(s)' = 0 => ClientNumbers(s)' = {}
<1>1. \A ty \in {"Ping", "Pong"} :
        /\ Count(writer'[s], ty) \in Nat /\ Count(up'[s], ty) \in Nat /\ Count(down'[s], ty) \in Nat
        /\ Count(writer'[s], ty) = 0 => Among(writer'[s], ty) = {}
        /\ Count(up'[s], ty) = 0 => Among(up'[s], ty) = {}
        /\ Count(down'[s], ty) = 0 => Among(down'[s], ty) = {}
    BY CountNat DEF Typed
<1>2. ServerBeats(s)' = 0 =>
        Count(writer'[s], "Ping") = 0 /\ Count(down'[s], "Ping") = 0 /\ Count(up'[s], "Pong") = 0
    BY <1>1 DEF ServerBeats
<1>3. ClientBeats(s)' = 0 =>
        Count(up'[s], "Ping") = 0 /\ Count(writer'[s], "Pong") = 0 /\ Count(down'[s], "Pong") = 0
    BY <1>1 DEF ClientBeats
<1>4. ServerBeats(s)' \in Nat /\ ClientBeats(s)' \in Nat
    BY <1>1 DEF ServerBeats, ClientBeats
<1> QED
    BY <1>1, <1>2, <1>3, <1>4 DEF ServerNumbers, ClientNumbers

\* Queue by queue, no heartbeat is added.
LEMMA Fading ==
    ASSUME NEW s \in Session, Typed(s), Typed(s)'
    PROVE  /\ /\ NoNew(writer'[s], writer[s], "Ping") /\ NoNew(down'[s], down[s], "Ping")
              /\ NoNew(up'[s], up[s], "Pong")
              => ServerFade(s)
           /\ /\ NoNew(up'[s], up[s], "Ping") /\ NoNew(writer'[s], writer[s], "Pong")
              /\ NoNew(down'[s], down[s], "Pong")
              => ClientFade(s)
<1>1. \A ty \in {"Ping", "Pong"} :
        /\ Count(writer[s], ty) \in Nat /\ Count(up[s], ty) \in Nat /\ Count(down[s], ty) \in Nat
        /\ Count(writer'[s], ty) \in Nat /\ Count(up'[s], ty) \in Nat /\ Count(down'[s], ty) \in Nat
    BY CountNat DEF Typed
<1>2. ASSUME NoNew(writer'[s], writer[s], "Ping"), NoNew(down'[s], down[s], "Ping"),
             NoNew(up'[s], up[s], "Pong")
      PROVE  ServerFade(s)
    <2>1. ServerBeats(s)' <= ServerBeats(s)
        BY <1>1, <1>2 DEF NoNew, ServerBeats
    <2>2. ServerNumbers(s)' \subseteq ServerNumbers(s)
        BY <1>2 DEF NoNew, ServerNumbers
    <2> QED
        BY <2>1, <2>2 DEF ServerFade
<1>3. ASSUME NoNew(up'[s], up[s], "Ping"), NoNew(writer'[s], writer[s], "Pong"),
             NoNew(down'[s], down[s], "Pong")
      PROVE  ClientFade(s)
    <2>1. ClientBeats(s)' <= ClientBeats(s)
        BY <1>1, <1>3 DEF NoNew, ClientBeats
    <2>2. ClientNumbers(s)' \subseteq ClientNumbers(s)
        BY <1>3 DEF NoNew, ClientNumbers
    <2> QED
        BY <2>1, <2>2 DEF ClientFade
<1> QED
    BY <1>2, <1>3

\* Then either side keeps its invariant, if it waits for what it waited for.
LEMMA ServerKept ==
    ASSUME NEW s \in Session, Typed(s), Typed(s)', ServerPulse(s), ServerFade(s), Serial(s)
    PROVE  ServerPulse(s)'
<1>1. /\ ServerBeats(s) \in Nat /\ ServerBeats(s)' \in Nat
      /\ ServerBeats(s)' = 0 => ServerNumbers(s)' = {}
    BY BeatsNat, BeatsNatNext
<1>2. ASSUME phase'[s] \in Early PROVE ServerBeats(s)' = 0
    BY <1>1, <1>2 DEF ServerPulse, ServerFade, Serial
<1>3. ASSUME phase'[s] = "running", phase[s] \in Early
      PROVE  ServerBeats(s)' = 0 /\ ServerNumbers(s)' = {}
    BY <1>1, <1>3 DEF ServerPulse, ServerFade
<1>4. ASSUME phase'[s] = "running", phase[s] = "running", sequence'[s] = sequence[s],
             s \in outstanding' <=> s \in outstanding
      PROVE  /\ ServerBeats(s)' <= IF s \in outstanding' THEN 1 ELSE 0
             /\ ServerNumbers(s)' \subseteq {sequence'[s]}
    BY <1>1, <1>4 DEF ServerPulse, ServerFade
<1> QED
    BY <1>2, <1>3, <1>4 DEF ServerPulse, Serial

\* A step that starts no heartbeat of the client keeps its direction.
LEMMA ClientKept ==
    ASSUME NEW s \in Session, Typed(s), Typed(s)', ClientPulse(s), ClientFade(s), Owner(s)
    PROVE  ClientPulse(s)'
<1>1. /\ ClientBeats(s) \in Nat /\ ClientBeats(s)' \in Nat
      /\ ClientBeats(s)' = 0 => ClientNumbers(s)' = {}
    BY BeatsNat, BeatsNatNext
<1>2. ASSUME asked[s] = NoHello PROVE ClientBeats(s)' = 0 /\ ClientNumbers(s)' = {}
    BY <1>1, <1>2 DEF ClientPulse, ClientFade
<1>3. ASSUME NEW i \in Instance, csession[i] = s, csequence'[i] = csequence[i],
             i \in coutstanding' <=> i \in coutstanding
      PROVE  /\ ClientBeats(s)' <= IF i \in coutstanding' THEN 1 ELSE 0
             /\ ClientNumbers(s)' \subseteq {csequence'[i]}
    BY <1>1, <1>3 DEF ClientPulse, ClientFade
<1> QED
    BY <1>2, <1>3 DEF ClientPulse, Owner

\* A heartbeat that is read from one queue may go on in another, and be the
\* answer there.
LEMMA Transfer ==
    ASSUME NEW q \in Seq(Sound), q # <<>>, NEW p \in Seq(Sound), NEW f \in Sound, NEW t, NEW u,
           f.ty = u => Head(q).ty = t /\ f.num = Head(q).num
    PROVE  /\ Count(Tail(q), t) + Count(Append(p, f), u) <= Count(q, t) + Count(p, u)
           /\ {g.num : g \in Among(Tail(q), t) \cup Among(Append(p, f), u)}
                 \subseteq {g.num : g \in Among(q, t) \cup Among(p, u)}
<1>1. Tail(q) \in Seq(Sound)
    OBVIOUS
<1>2. Count(Tail(q), t) \in Nat /\ Count(q, t) \in Nat /\ Count(p, u) \in Nat
    BY <1>1, CountNat
<1>3. /\ Count(q, t) = Count(Tail(q), t) + (IF Head(q).ty = t THEN 1 ELSE 0)
      /\ Among(Tail(q), t) \subseteq Among(q, t) /\ (Head(q).ty = t => Head(q) \in Among(q, t))
    BY CountTail
<1>4. /\ Count(Append(p, f), u) = Count(p, u) + (IF f.ty = u THEN 1 ELSE 0)
      /\ Among(Append(p, f), u) = Among(p, u) \cup (IF f.ty = u THEN {f} ELSE {})
    BY CountAppend
<1>5. CASE f.ty = u
    BY <1>2, <1>3, <1>4, <1>5
<1>6. CASE f.ty # u
    BY <1>2, <1>3, <1>4, <1>6
<1> QED
    BY <1>5, <1>6

\* The same where the frame may be dropped instead.
LEMMA Passed ==
    ASSUME NEW q \in Seq(Sound), q # <<>>, NEW p \in Seq(Sound), NEW f \in Sound, NEW t, NEW u,
           f.ty = u => Head(q).ty = t /\ f.num = Head(q).num,
           NEW r, r = p \/ r = Append(p, f)
    PROVE  /\ Count(Tail(q), t) + Count(r, u) <= Count(q, t) + Count(p, u)
           /\ {g.num : g \in Among(Tail(q), t) \cup Among(r, u)}
                 \subseteq {g.num : g \in Among(q, t) \cup Among(p, u)}
<1>1. CASE r = Append(p, f)
    BY <1>1, Transfer
<1>2. CASE r = p
    <2>1. Tail(q) \in Seq(Sound)
        OBVIOUS
    <2>2. Count(Tail(q), t) \in Nat /\ Count(q, t) \in Nat /\ Count(p, u) \in Nat
        BY <2>1, CountNat
    <2>3. NoNew(Tail(q), q, t)
        BY NoNewQueue
    <2> QED
        BY <1>2, <2>2, <2>3 DEF NoNew
<1> QED
    BY <1>1, <1>2

\* A step that is about no heartbeat of the session.
LEMMA QuietKept ==
    ASSUME NEW s \in Session, Typed(s), Typed(s)', ServerPulse(s), ClientPulse(s),
           ServerQuiet(s), ClientQuiet(s)
    PROVE  ServerPulse(s)' /\ ClientPulse(s)'
<1>1. ServerFade(s) /\ ClientFade(s)
    BY Fading DEF ServerQuiet, ClientQuiet, Pipes, NoNewBeat
<1> QED
    BY <1>1, ServerKept, ClientKept DEF ServerQuiet, ClientQuiet

-----------------------------------------------------------------------------
(* The steps about heartbeats, on their own session *)

\* The writer task's frame goes on the connection, or is lost on it.
LEMMA WrittenKept ==
    ASSUME NEW s \in Session, Typed(s), Typed(s)', ServerPulse(s), ClientPulse(s),
           writer[s] # <<>>, writer'[s] = Tail(writer[s]), up'[s] = up[s],
           down'[s] = down[s] \/ down'[s] = Append(down[s], Head(writer[s])),
           Serial(s), Owner(s)
    PROVE  ServerPulse(s)' /\ ClientPulse(s)'
<1>1. /\ writer[s] \in Seq(Sound) /\ down[s] \in Seq(Sound) /\ up[s] \in Seq(Sound)
      /\ Head(writer[s]) \in Sound
    BY SoundQueue DEF Typed
<1>2. \A ty \in {"Ping", "Pong"} :
        /\ Count(writer[s], ty) \in Nat /\ Count(up[s], ty) \in Nat /\ Count(down[s], ty) \in Nat
        /\ Count(writer'[s], ty) \in Nat /\ Count(down'[s], ty) \in Nat
    BY CountNat DEF Typed
<1>3. ASSUME NEW ty \in {"Ping", "Pong"}
      PROVE  /\ Count(writer'[s], ty) + Count(down'[s], ty) <= Count(writer[s], ty) + Count(down[s], ty)
             /\ {g.num : g \in Among(writer'[s], ty) \cup Among(down'[s], ty)}
                   \subseteq {g.num : g \in Among(writer[s], ty) \cup Among(down[s], ty)}
    BY <1>1, Passed
<1>4. ServerBeats(s)' <= ServerBeats(s) /\ ClientBeats(s)' <= ClientBeats(s)
    <2>1. /\ Count(writer'[s], "Ping") + Count(down'[s], "Ping")
                <= Count(writer[s], "Ping") + Count(down[s], "Ping")
          /\ Count(writer'[s], "Pong") + Count(down'[s], "Pong")
                <= Count(writer[s], "Pong") + Count(down[s], "Pong")
        BY <1>3
    <2>2. ServerBeats(s)' <= ServerBeats(s)
        BY <1>2, <2>1 DEF ServerBeats
    <2>3. ClientBeats(s)' <= ClientBeats(s)
        BY <1>2, <2>1 DEF ClientBeats
    <2> QED
        BY <2>2, <2>3
<1>5. ServerNumbers(s)' \subseteq ServerNumbers(s) /\ ClientNumbers(s)' \subseteq ClientNumbers(s)
    BY <1>3 DEF ServerNumbers, ClientNumbers
<1> QED
    BY <1>4, <1>5, ServerKept, ClientKept DEF ServerFade, ClientFade

\* The client answers a PING that it reads, or its answer is lost.
LEMMA AnsweredKept ==
    ASSUME NEW s \in Session, Typed(s), Typed(s)', ServerPulse(s), ClientPulse(s),
           down[s] # <<>>, Head(down[s]).ty = "Ping", down'[s] = Tail(down[s]),
           writer'[s] = writer[s],
           up'[s] = up[s] \/ up'[s] = Append(up[s], NumberFrame("Pong", Head(down[s]).num)),
           Serial(s), Owner(s)
    PROVE  ServerPulse(s)' /\ ClientPulse(s)'
<1> DEFINE f == NumberFrame("Pong", Head(down[s]).num)
<1>1. /\ writer[s] \in Seq(Sound) /\ down[s] \in Seq(Sound) /\ up[s] \in Seq(Sound)
      /\ Head(down[s]) \in Sound
    BY SoundQueue DEF Typed
<1>2. f \in Sound /\ f.ty = "Pong" /\ f.num = Head(down[s]).num
    <2>1. Head(down[s]).num \in Sequence
        BY <1>1 DEF Sound
    <2> QED
        BY <2>1, SoundFrames DEF NumberFrame
<1>3. \A ty \in {"Ping", "Pong"} :
        /\ Count(writer[s], ty) \in Nat /\ Count(up[s], ty) \in Nat /\ Count(down[s], ty) \in Nat
        /\ Count(up'[s], ty) \in Nat /\ Count(down'[s], ty) \in Nat
    BY CountNat DEF Typed
<1> HIDE DEF f
<1>4. /\ Count(down'[s], "Ping") + Count(up'[s], "Pong") <= Count(down[s], "Ping") + Count(up[s], "Pong")
      /\ {g.num : g \in Among(down'[s], "Ping") \cup Among(up'[s], "Pong")}
            \subseteq {g.num : g \in Among(down[s], "Ping") \cup Among(up[s], "Pong")}
    <2>1. up'[s] = up[s] \/ up'[s] = Append(up[s], f)
        BY DEF f
    <2> QED
        BY <1>1, <1>2, <2>1, Passed
<1>5. ServerFade(s)
    <2>1. ServerBeats(s)' <= ServerBeats(s)
        BY <1>3, <1>4 DEF ServerBeats
    <2>2. ServerNumbers(s)' \subseteq ServerNumbers(s)
        BY <1>4 DEF ServerNumbers
    <2> QED
        BY <2>1, <2>2 DEF ServerFade
<1>6. ClientFade(s)
    <2>1. NoNew(down'[s], down[s], "Pong") /\ NoNew(writer'[s], writer[s], "Pong")
        BY <1>1, NoNewQueue
    <2>2. NoNew(up'[s], up[s], "Ping")
        BY <1>1, <1>2, NoNewQueue DEF f
    <2> QED
        BY <2>1, <2>2, Fading
<1> QED
    BY <1>5, <1>6, ServerKept, ClientKept

\* The server answers a PING that it reads.
LEMMA RepliedKept ==
    ASSUME NEW s \in Session, Typed(s), Typed(s)', ServerPulse(s), ClientPulse(s),
           up[s] # <<>>, Head(up[s]).ty = "Ping", up'[s] = Tail(up[s]), down'[s] = down[s],
           \/ writer'[s] = writer[s]
           \/ writer'[s] = Append(writer[s], NumberFrame("Pong", Head(up[s]).num)),
           Serial(s), Owner(s)
    PROVE  ServerPulse(s)' /\ ClientPulse(s)'
<1> DEFINE f == NumberFrame("Pong", Head(up[s]).num)
<1>1. /\ writer[s] \in Seq(Sound) /\ down[s] \in Seq(Sound) /\ up[s] \in Seq(Sound)
      /\ Head(up[s]) \in Sound
    BY SoundQueue DEF Typed
<1>2. f \in Sound /\ f.ty = "Pong" /\ f.num = Head(up[s]).num
    <2>1. Head(up[s]).num \in Sequence
        BY <1>1 DEF Sound
    <2> QED
        BY <2>1, SoundFrames DEF NumberFrame
<1>3. \A ty \in {"Ping", "Pong"} :
        /\ Count(writer[s], ty) \in Nat /\ Count(up[s], ty) \in Nat /\ Count(down[s], ty) \in Nat
        /\ Count(up'[s], ty) \in Nat /\ Count(writer'[s], ty) \in Nat
    BY CountNat DEF Typed
<1> HIDE DEF f
<1>4. /\ Count(up'[s], "Ping") + Count(writer'[s], "Pong") <= Count(up[s], "Ping") + Count(writer[s], "Pong")
      /\ {g.num : g \in Among(up'[s], "Ping") \cup Among(writer'[s], "Pong")}
            \subseteq {g.num : g \in Among(up[s], "Ping") \cup Among(writer[s], "Pong")}
    <2>1. writer'[s] = writer[s] \/ writer'[s] = Append(writer[s], f)
        BY DEF f
    <2> QED
        BY <1>1, <1>2, <2>1, Passed
<1>5. ClientFade(s)
    <2>1. ClientBeats(s)' <= ClientBeats(s)
        BY <1>3, <1>4 DEF ClientBeats
    <2>2. ClientNumbers(s)' \subseteq ClientNumbers(s)
        BY <1>4 DEF ClientNumbers
    <2> QED
        BY <2>1, <2>2 DEF ClientFade
<1>6. ServerFade(s)
    <2>1. NoNew(up'[s], up[s], "Pong") /\ NoNew(down'[s], down[s], "Ping")
        BY <1>1, NoNewQueue
    <2>2. NoNew(writer'[s], writer[s], "Ping")
        BY <1>1, <1>2, NoNewQueue DEF f
    <2> QED
        BY <2>1, <2>2, Fading
<1> QED
    BY <1>5, <1>6, ServerKept, ClientKept

\* The server sends a ping while it waits for none: nothing of an earlier one is
\* under way.
LEMMA PingedKept ==
    ASSUME TypeOK, NEW s \in Session, Typed(s), Typed(s)', ServerPulse(s), ClientPulse(s),
           phase[s] = "running", s \notin outstanding, s \in outstanding',
           sequence'[s] = NextSequence(sequence[s]), up'[s] = up[s], down'[s] = down[s],
           writer'[s] = Append(writer[s], NumberFrame("Ping", sequence'[s])),
           phase'[s] = "running", Owner(s)
    PROVE  ServerPulse(s)' /\ ClientPulse(s)'
<1> DEFINE f == NumberFrame("Ping", sequence'[s])
<1>1. writer[s] \in Seq(Sound) /\ down[s] \in Seq(Sound) /\ up[s] \in Seq(Sound)
    BY DEF Typed
<1>2. f \in Sound /\ f.ty = "Ping" /\ f.num = sequence'[s]
    <2>1. sequence[s] \in Sequence
        BY DEF TypeOK
    <2>2. sequence'[s] \in Sequence
        BY <2>1, SequenceType
    <2> QED
        BY <2>2, SoundFrames DEF NumberFrame
<1> HIDE DEF f
<1>3. writer'[s] = Append(writer[s], f)
    BY DEF f
<1>4. ServerBeats(s) \in Nat /\ ServerBeats(s) <= 0
    BY BeatsNat DEF ServerPulse
<1>5. ServerBeats(s) = 0 /\ ServerNumbers(s) = {}
    BY <1>4, BeatsNat
<1>6. /\ Count(writer'[s], "Ping") = Count(writer[s], "Ping") + 1
      /\ Among(writer'[s], "Ping") = Among(writer[s], "Ping") \cup {f}
    BY <1>1, <1>2, <1>3, CountAppend
<1>7. Count(writer[s], "Ping") \in Nat /\ Count(down[s], "Ping") \in Nat /\ Count(up[s], "Pong") \in Nat
    BY <1>1, CountNat
<1>8. ServerBeats(s)' = 1
    BY <1>5, <1>6, <1>7 DEF ServerBeats
<1>9. ServerNumbers(s)' \subseteq {sequence'[s]}
    BY <1>2, <1>5, <1>6 DEF ServerNumbers
<1>10. ServerPulse(s)'
    BY <1>8, <1>9 DEF ServerPulse, Early
<1>11. NoNew(writer'[s], writer[s], "Pong")
    BY <1>1, <1>2, <1>3, NoNewQueue
<1>12. NoNew(up'[s], up[s], "Ping") /\ NoNew(down'[s], down[s], "Pong")
    BY <1>1, NoNewQueue
<1>13. ClientPulse(s)'
    BY <1>11, <1>12, Fading, ClientKept
<1> QED
    BY <1>10, <1>13

\* The server reads the answer: it is to the ping it waits for.
LEMMA SatisfiedKept ==
    ASSUME TypeOK, NEW s \in Session, Typed(s), Typed(s)', ServerPulse(s), ClientPulse(s),
           phase[s] = "running", up[s] # <<>>, Head(up[s]).ty = "Pong", up'[s] = Tail(up[s]),
           outstanding' = IF Head(up[s]).num = sequence[s] THEN outstanding \ {s} ELSE outstanding,
           sequence' = sequence, writer'[s] = writer[s], down'[s] = down[s],
           phase'[s] = "running", Owner(s)
    PROVE  ServerPulse(s)' /\ ClientPulse(s)'
<1>1. writer[s] \in Seq(Sound) /\ down[s] \in Seq(Sound) /\ up[s] \in Seq(Sound) /\ up'[s] \in Seq(Sound)
    BY DEF Typed
<1>2. /\ Count(up[s], "Pong") = Count(up'[s], "Pong") + 1
      /\ Among(up'[s], "Pong") \subseteq Among(up[s], "Pong") /\ Head(up[s]) \in Among(up[s], "Pong")
    BY <1>1, CountTail
<1>3. /\ Count(writer[s], "Ping") \in Nat /\ Count(down[s], "Ping") \in Nat
      /\ Count(up[s], "Pong") \in Nat /\ Count(up'[s], "Pong") \in Nat
    BY <1>1, CountNat
<1>4. Head(up[s]).num = sequence[s]
    BY <1>2 DEF ServerPulse, ServerNumbers
<1>5. ServerBeats(s)' = 0
    <2>1. ServerBeats(s) <= 1
        BY <1>3 DEF ServerPulse, ServerBeats
    <2> QED
        BY <1>2, <1>3, <2>1 DEF ServerBeats
<1>6. ServerNumbers(s)' = {}
    BY <1>5, BeatsNatNext
<1>7. ServerPulse(s)'
    BY <1>5, <1>6 DEF ServerPulse, Early
<1>8. /\ NoNew(up'[s], up[s], "Ping") /\ NoNew(down'[s], down[s], "Pong")
      /\ NoNew(writer'[s], writer[s], "Pong")
    BY <1>1, NoNewQueue
<1>9. ClientPulse(s)'
    BY <1>8, Fading, ClientKept
<1> QED
    BY <1>7, <1>9

\* A session belongs to one process.
LEMMA OneOwner ==
    ASSUME ServedAsAsked, ClientSide, NEW s \in Session, NEW i \in Instance, csession[i] = s
    PROVE  asked[s] # NoHello /\ \A j \in Instance : csession[j] = s => j = i
<1>1. s # None /\ None \notin Instance
    BY IdentityAssumption
<1>2. asked[s].instance = i
    BY <1>1 DEF ServedAsAsked
<1> QED
    BY <1>1, <1>2 DEF ServedAsAsked, NoHello

\* The client sends a ping while it waits for none, or it is lost on the way.
LEMMA ProbedKept ==
    ASSUME ClientSide, ServedAsAsked, NEW s \in Session, NEW i \in Instance, csession[i] = s,
           Typed(s), Typed(s)', ServerPulse(s), ClientPulse(s),
           i \notin coutstanding, i \in coutstanding',
           csequence'[i] = (csequence[i] + 1) % SEQUENCE_MODULUS, UNCHANGED <<asked, csession>>,
           up'[s] = up[s] \/ up'[s] = Append(up[s], NumberFrame("Ping", csequence'[i])),
           writer'[s] = writer[s], down'[s] = down[s], Serial(s)
    PROVE  ServerPulse(s)' /\ ClientPulse(s)'
<1> DEFINE f == NumberFrame("Ping", csequence'[i])
<1>1. writer[s] \in Seq(Sound) /\ down[s] \in Seq(Sound) /\ up[s] \in Seq(Sound)
    BY DEF Typed
<1>2. f \in Sound /\ f.ty = "Ping" /\ f.num = csequence'[i]
    <2>1. csequence'[i] \in Sequence
        BY SequenceType DEF ClientSide, ClientTypeOK, NextSequence
    <2> QED
        BY <2>1, SoundFrames DEF NumberFrame
<1> HIDE DEF f
<1>3. up'[s] = up[s] \/ up'[s] = Append(up[s], f)
    BY DEF f
<1>4. ClientBeats(s) = 0 /\ ClientNumbers(s) = {}
    <2>1. ClientBeats(s) \in Nat /\ ClientBeats(s) <= 0
        BY BeatsNat DEF ClientPulse
    <2> QED
        BY <2>1, BeatsNat
<1>5. Count(up[s], "Ping") \in Nat /\ Count(writer[s], "Pong") \in Nat /\ Count(down[s], "Pong") \in Nat
    BY <1>1, CountNat
<1>6. ClientBeats(s)' <= 1 /\ ClientNumbers(s)' \subseteq {csequence'[i]}
    <2>1. CASE up'[s] = up[s]
        <3>1. ClientBeats(s)' = ClientBeats(s)
            BY <2>1 DEF ClientBeats
        <3>2. ClientNumbers(s)' = ClientNumbers(s)
            BY <2>1 DEF ClientNumbers
        <3> QED
            BY <1>4, <3>1, <3>2
    <2>2. CASE up'[s] = Append(up[s], f)
        <3>1. /\ Count(up'[s], "Ping") = Count(up[s], "Ping") + 1
              /\ Among(up'[s], "Ping") = Among(up[s], "Ping") \cup {f}
            BY <1>1, <1>2, <2>2, CountAppend
        <3>2. ClientBeats(s)' <= 1
            BY <1>4, <1>5, <3>1 DEF ClientBeats
        <3>3. /\ Among(up[s], "Ping") = {} /\ Among(writer'[s], "Pong") = {}
              /\ Among(down'[s], "Pong") = {}
            BY <1>4 DEF ClientNumbers
        <3>4. ClientNumbers(s)' \subseteq {csequence'[i]}
            BY <1>2, <3>1, <3>3 DEF ClientNumbers
        <3> QED
            BY <3>2, <3>4
    <2> QED
        BY <1>3, <2>1, <2>2
<1>7. ClientPulse(s)'
    BY <1>6, OneOwner DEF ClientPulse
<1>8. /\ NoNew(up'[s], up[s], "Pong") /\ NoNew(down'[s], down[s], "Ping")
      /\ NoNew(writer'[s], writer[s], "Ping")
    BY <1>1, <1>2, <1>3, NoNewQueue
<1>9. ServerPulse(s)'
    BY <1>8, Fading, ServerKept
<1> QED
    BY <1>7, <1>9

\* The client reads the answer: it is to the ping it waits for.
LEMMA AssuredKept ==
    ASSUME ClientSide, ServedAsAsked, NEW s \in Session, NEW i \in Instance, csession[i] = s,
           Typed(s), Typed(s)', ServerPulse(s), ClientPulse(s),
           down[s] # <<>>, Head(down[s]).ty = "Pong", down'[s] = Tail(down[s]),
           coutstanding' = IF Head(down[s]).num = csequence[i]
                           THEN coutstanding \ {i} ELSE coutstanding,
           UNCHANGED <<asked, csession, csequence>>,
           writer'[s] = writer[s], up'[s] = up[s], Serial(s)
    PROVE  ServerPulse(s)' /\ ClientPulse(s)'
<1>1. /\ writer[s] \in Seq(Sound) /\ down[s] \in Seq(Sound) /\ up[s] \in Seq(Sound)
      /\ down'[s] \in Seq(Sound)
    BY DEF Typed
<1>2. /\ Count(down[s], "Pong") = Count(down'[s], "Pong") + 1
      /\ Among(down'[s], "Pong") \subseteq Among(down[s], "Pong")
      /\ Head(down[s]) \in Among(down[s], "Pong")
    BY <1>1, CountTail
<1>3. /\ Count(up[s], "Ping") \in Nat /\ Count(writer[s], "Pong") \in Nat
      /\ Count(down[s], "Pong") \in Nat /\ Count(down'[s], "Pong") \in Nat
    BY <1>1, CountNat
<1>4. ClientBeats(s)' = 0
    <2>1. ClientBeats(s) <= 1
        BY <1>3 DEF ClientPulse, ClientBeats
    <2> QED
        BY <1>2, <1>3, <2>1 DEF ClientBeats
<1>5. ClientNumbers(s)' = {}
    BY <1>4, BeatsNatNext
<1>6. ClientPulse(s)'
    BY <1>4, <1>5, OneOwner DEF ClientPulse
<1>7. /\ NoNew(up'[s], up[s], "Pong") /\ NoNew(down'[s], down[s], "Ping")
      /\ NoNew(writer'[s], writer[s], "Ping")
    BY <1>1, NoNewQueue
<1>8. ServerPulse(s)'
    BY <1>7, Fading, ServerKept
<1> QED
    BY <1>6, <1>8

-----------------------------------------------------------------------------
(* Every step of the tunnel *)

Beating == TunnelInvariant /\ ServedAsAsked /\ Pulse
AllTyped == \A s \in Session : Typed(s)

\* Nothing of the clients changes.
LEMMA ClientsStill ==
    ASSUME ClientSide, UNCHANGED <<asked, csession, csequence, coutstanding, up, down>>,
           NEW s \in Session
    PROVE  ClientQuiet(s)
<1>1. up[s] \in Seq(Sound) /\ down[s] \in Seq(Sound)
    BY DEF ClientSide, Linked
<1> QED
    BY <1>1, NoNewQueue DEF ClientQuiet, Pipes, NoNewBeat, Owner

\* The server reads a frame of a connection, whatever it is.
LEMMA ReadStill ==
    ASSUME ClientSide, NEW x \in Session, up[x] # <<>>, Read(x),
           UNCHANGED <<asked, csession, csequence, coutstanding, down>>, NEW s \in Session
    PROVE  ClientQuiet(s)
<1>1. up \in [Session -> Seq(Sound)] /\ up[s] \in Seq(Sound) /\ down[s] \in Seq(Sound)
    BY DEF ClientSide, Linked
<1>2. up'[s] = up[s] \/ (up[s] # <<>> /\ up'[s] = Tail(up[s]))
    BY <1>1 DEF Read
<1> QED
    BY <1>1, <1>2, NoNewQueue DEF ClientQuiet, Pipes, NoNewBeat, Owner

\* Nothing of the server's heartbeats changes.
LEMMA ServerStill ==
    ASSUME ServerFrames, UNCHANGED vars, NEW s \in Session
    PROVE  ServerQuiet(s) /\ Serial(s)
<1>1. writer[s] \in Seq(Sound) /\ UNCHANGED <<writer, phase, sequence, outstanding>>
    BY DEF ServerFrames, vars
<1> QED
    BY <1>1, NoNewQueue DEF ServerQuiet, NoNewBeat, Serial

\* Steps that stay inside the server.
LEMMA PulseInternal ==
    ASSUME Beating, AllTyped, AllTyped', ServerInternal
    PROVE  Pulse'
<1> SUFFICES ASSUME NEW s \in Session PROVE ServerPulse(s)' /\ ClientPulse(s)'
    BY DEF Pulse
<1>0. /\ TypeOK /\ RegistersOnce /\ ServerFrames /\ ClientSide
      /\ Typed(s) /\ Typed(s)' /\ ServerPulse(s) /\ ClientPulse(s)
    BY DEF Beating, TunnelInvariant, Ownership, TunnelTypes, ClientSide, Pulse, AllTyped
<1>1. UNCHANGED <<asked, csession, csequence, coutstanding, up, down>>
    BY DEF ServerInternal
<1>2. ClientQuiet(s)
    BY <1>0, <1>1, ClientsStill
<1>3. CASE QuietOther
    BY <1>0, <1>2, <1>3, OtherQuiet, QuietKept
<1>4. CASE \E x \in Session : QuietControl(x)
    BY <1>0, <1>2, <1>4, SerialControl, QuietFrames, QuietKept DEF ServerQuiet
<1>5. ASSUME NEW x \in Session, PingTick(x)
      PROVE  ServerPulse(s)' /\ ClientPulse(s)'
    <2>1. /\ writer \in [Session -> Seq(Sound)] /\ phase \in [Session -> ControlPhase]
          /\ sequence \in [Session -> Sequence] /\ outstanding \subseteq Session
        BY <1>0 DEF TypeOK, ServerFrames
    <2>2. /\ phase[x] = "running" /\ x \notin outstanding
          /\ sequence' = [sequence EXCEPT ![x] = NextSequence(@)]
        BY <1>5 DEF PingTick, Listening
    <2>3. CASE /\ Accepts(x) /\ outstanding' = outstanding \cup {x} /\ phase' = phase
               /\ writer' = TrySend(x, NumberFrame("Ping", NextSequence(sequence[x])))
        <3>1. writer' = [writer EXCEPT ![x] =
                            Append(@, NumberFrame("Ping", NextSequence(sequence[x])))]
            BY <2>1, <2>3 DEF Accepts, TrySend, Offer
        <3>2. CASE s = x
            BY <1>0, <1>1, <1>2, <2>1, <2>2, <2>3, <3>1, <3>2, PingedKept DEF ClientQuiet
        <3>3. CASE s # x
            <4>1. writer'[s] = writer[s]
                BY <2>1, <3>1, <3>3
            <4>2. Serial(s)
                BY <2>1, <2>2, <2>3, <3>3 DEF Serial
            <4>3. ServerQuiet(s)
                BY <1>0, <4>1, <4>2, NoNewQueue DEF ServerQuiet, NoNewBeat, Typed
            <4> QED
                BY <1>0, <1>2, <4>3, QuietKept
        <3> QED
            BY <3>2, <3>3
    <2>4. CASE Break(x) /\ UNCHANGED <<writer, outstanding>>
        <3>1. Serial(s)
            BY <2>1, <2>2, <2>4 DEF Break, Serial, Early
        <3>2. ServerQuiet(s)
            BY <1>0, <2>4, <3>1, NoNewQueue DEF ServerQuiet, NoNewBeat, Typed
        <3> QED
            BY <1>0, <1>2, <3>2, QuietKept
    <2> QED
        BY <1>5, <2>3, <2>4 DEF PingTick, Continue
<1>6. ASSUME NEW x \in Session, InternalControl(x) PROVE QuietControl(x) \/ PingTick(x)
    BY <1>6 DEF InternalControl, QuietControl, WriterStep
<1>7. \A c \in Conn : InternalPublic(c) => PublicStep(c)
    BY DEF InternalPublic, PublicStep, ServePublicStep
<1>8. \A d \in DataConn : InternalData(d) => DataStep(d)
    BY DEF InternalData, DataStep
<1> QED
    BY <1>3, <1>4, <1>5, <1>6, <1>7, <1>8 DEF ServerInternal, QuietOther

\* The server's steps on a control connection.
LEMMA PulseControl ==
    ASSUME Beating, AllTyped, AllTyped', NEW x \in Session, ServerControl(x)
    PROVE  Pulse'
<1> SUFFICES ASSUME NEW s \in Session PROVE ServerPulse(s)' /\ ClientPulse(s)'
    BY DEF Pulse
<1>0. /\ TypeOK /\ RegistersOnce /\ ServerFrames /\ ClientSide
      /\ Typed(s) /\ Typed(s)' /\ ServerPulse(s) /\ ClientPulse(s)
    BY DEF Beating, TunnelInvariant, Ownership, TunnelTypes, ClientSide, Pulse, AllTyped
<1>1. /\ writer \in [Session -> Seq(Sound)] /\ phase \in [Session -> ControlPhase]
      /\ sequence \in [Session -> Sequence] /\ outstanding \subseteq Session
      /\ up \in [Session -> Seq(Sound)] /\ down \in [Session -> Seq(Sound)]
    BY <1>0 DEF TypeOK, ServerFrames, ClientSide, Linked
<1>2. ASSUME QuietControl(x), ClientQuiet(s)
      PROVE  ServerPulse(s)' /\ ClientPulse(s)'
    BY <1>0, <1>2, SerialControl, QuietFrames, QuietKept DEF ServerQuiet
<1>3. ASSUME UNCHANGED <<asked, csession, csequence, coutstanding>>
      PROVE  Owner(s)
    BY <1>3 DEF Owner
<1>4. CASE ServerAccepts(x) \/ ServerHandshakeFails(x)
    <2>1. /\ Frame("ControlChallenge") \in Sound /\ ErrorFrame("InternalError") \in Sound
          /\ Frame("ControlChallenge").ty = "ControlChallenge"
          /\ ErrorFrame("InternalError").ty = "Error"
        BY SoundFrames DEF ErrorCode, Frame, ErrorFrame
    <2>2. PICK f \in {Frame("ControlChallenge"), ErrorFrame("InternalError")} :
              up' = up /\ (down' = down \/ down' = Deliver(x, f))
        BY <1>4 DEF ServerAccepts, ServerHandshakeFails
    <2>3. Pipes(s)
        BY <1>0, <2>1, <2>2, PipesQuiet
    <2>4. UNCHANGED <<asked, csession, csequence, coutstanding>>
        BY <1>4 DEF ServerAccepts, ServerHandshakeFails
    <2>5. asked[x] # NoHello => asked[x] \in Hellos
        BY <1>0, HelloAssumption DEF ClientSide, ClientTypeOK
    <2>6. QuietControl(x)
        BY <1>4, <2>5 DEF ServerAccepts, ServerHandshakeFails, QuietControl
    <2> QED
        BY <1>2, <1>3, <2>3, <2>4, <2>6 DEF ClientQuiet
<1>5. CASE ServerAuthenticates(x)
    <2>1. ClientQuiet(s)
        BY <1>0, <1>5, ReadStill DEF ServerAuthenticates, Next_up
    <2> QED
        BY <1>2, <1>5, <2>1 DEF ServerAuthenticates, QuietControl
<1>6. CASE ServerReadsEnd(x) \/ ServerWriteFails(x)
    <2>1. ClientQuiet(s)
        BY <1>0, <1>6, ClientsStill DEF ServerReadsEnd, ServerWriteFails
    <2>2. QuietControl(x)
        BY <1>6 DEF ServerReadsEnd, ServerWriteFails, QuietControl, WriterStep
    <2> QED
        BY <1>2, <2>1, <2>2
<1>7. CASE ServerWrites(x)
    <2>1. /\ writer[x] # <<>> /\ writer' = [writer EXCEPT ![x] = Tail(@)] /\ up' = up
          /\ down' = Deliver(x, Head(writer[x])) /\ WriteFrame(x)
          /\ UNCHANGED <<asked, csession, csequence, coutstanding>>
        BY <1>7 DEF ServerWrites, WriteFrame
    <2>2. Serial(s)
        BY <1>0, <2>1, SerialControl DEF QuietControl, WriterStep
    <2>3. CASE s = x
        <3>1. down'[s] = down[s] \/ down'[s] = Append(down[s], Head(writer[s]))
            BY <1>1, <2>1, <2>3 DEF Deliver, Put
        <3>2. writer[s] # <<>> /\ writer'[s] = Tail(writer[s])
            BY <1>1, <2>1, <2>3
        <3> QED
            BY <1>0, <1>3, <2>1, <2>2, <3>1, <3>2, WrittenKept
    <2>4. CASE s # x
        <3>1. down'[s] = down[s] /\ up'[s] = up[s]
            BY <1>1, <2>1, <2>4 DEF Deliver, Put
        <3>2. Pipes(s)
            BY <1>0, <3>1, NoNewQueue DEF Pipes, NoNewBeat, Typed
        <3> QED
            BY <1>2, <1>3, <2>1, <3>2 DEF ClientQuiet, QuietControl, WriterStep
    <2> QED
        BY <2>3, <2>4
<1>8. CASE ServerReads(x)
    <2>1. /\ up[x] # <<>> /\ up' = [up EXCEPT ![x] = Tail(@)] /\ down' = down
          /\ UNCHANGED <<asked, csession, csequence, coutstanding>> /\ Head(up[x]) \in Sound
        BY <1>1, <1>8, SoundQueue DEF ServerReads, Read
    <2>2. ClientQuiet(s)
        BY <1>0, <2>1, ReadStill DEF Read
    <2>3. CASE \/ Head(up[x]).ty = "OpenFailed" /\ ReceiveOpenFailed(x, Head(up[x]).arg)
               \/ Head(up[x]).ty = "Goodbye" /\ ReceiveGoodbye(x)
        <3>1. QuietControl(x)
            BY <2>1, <2>3 DEF QuietControl, Sound
        <3> QED
            BY <1>2, <2>2, <3>1
    <2>4. CASE Head(up[x]).ty = "Ping" /\ ReceivePing(x, Head(up[x]).num)
        <3>1. CASE /\ Accepts(x) /\ UNCHANGED <<phase, sequence, outstanding>>
                   /\ writer' = TrySend(x, NumberFrame("Pong", Head(up[x]).num))
            <4>1. writer' = [writer EXCEPT ![x] = Append(@, NumberFrame("Pong", Head(up[x]).num))]
                BY <1>1, <3>1 DEF Accepts, TrySend, Offer
            <4>2. Serial(s)
                BY <3>1 DEF Serial
            <4>3. CASE s = x
                BY <1>0, <1>1, <2>1, <2>2, <2>4, <4>1, <4>2, <4>3, RepliedKept DEF ClientQuiet
            <4>4. CASE s # x
                <5>1. writer'[s] = writer[s]
                    BY <1>1, <4>1, <4>4
                <5>2. ServerQuiet(s)
                    BY <1>0, <4>2, <5>1, NoNewQueue DEF ServerQuiet, NoNewBeat, Typed
                <5> QED
                    BY <1>0, <2>2, <5>2, QuietKept
            <4> QED
                BY <4>3, <4>4
        <3>2. CASE Break(x) /\ UNCHANGED <<writer, sequence, outstanding>>
            <4>1. Serial(s)
                BY <1>1, <3>2 DEF Break, Serial, Early
            <4>2. ServerQuiet(s)
                BY <1>0, <3>2, <4>1, NoNewQueue DEF ServerQuiet, NoNewBeat, Typed
            <4> QED
                BY <1>0, <2>2, <4>2, QuietKept
        <3> QED
            BY <2>4, <3>1, <3>2 DEF ReceivePing, Continue
    <2>5. CASE Head(up[x]).ty = "Pong" /\ ReceivePong(x, Head(up[x]).num)
        <3>1. /\ phase[x] = "running" /\ UNCHANGED <<phase, sequence, writer>>
              /\ outstanding' = IF Head(up[x]).num = sequence[x]
                                THEN outstanding \ {x} ELSE outstanding
            BY <2>5 DEF ReceivePong, Listening, Continue
        <3>2. CASE s = x
            <4>1. up'[s] = Tail(up[s])
                BY <1>1, <2>1, <3>2
            <4> QED
                BY <1>0, <2>1, <2>2, <2>5, <3>1, <3>2, <4>1, SatisfiedKept DEF ClientQuiet
        <3>3. CASE s # x
            <4>1. Serial(s)
                BY <3>1, <3>3 DEF Serial
            <4>2. ServerQuiet(s)
                BY <1>0, <3>1, <4>1, NoNewQueue DEF ServerQuiet, NoNewBeat, Typed
            <4> QED
                BY <1>0, <2>2, <4>2, QuietKept
        <3> QED
            BY <3>2, <3>3
    <2> QED
        BY <1>8, <2>3, <2>4, <2>5 DEF ServerReads
<1> QED
    BY <1>4, <1>5, <1>6, <1>7, <1>8 DEF ServerControl

\* The steps of a process.
LEMMA PulseProcess ==
    ASSUME Beating, AllTyped, AllTyped', NEW i \in Instance, ProcessStep(i)
    PROVE  Pulse'
<1> SUFFICES ASSUME NEW s \in Session PROVE ServerPulse(s)' /\ ClientPulse(s)'
    BY DEF Pulse
<1>0. /\ TypeOK /\ ServerFrames /\ ClientSide /\ ServedAsAsked
      /\ Typed(s) /\ Typed(s)' /\ ServerPulse(s) /\ ClientPulse(s)
    BY DEF Beating, TunnelInvariant, Ownership, TunnelTypes, ClientSide, Pulse, AllTyped
<1>1. /\ up \in [Session -> Seq(Sound)] /\ down \in [Session -> Seq(Sound)]
      /\ csession \in [Instance -> Session \cup {None}] /\ csequence \in [Instance -> Sequence]
      /\ coutstanding \subseteq Instance
      /\ cphase[i] \notin {"idle", "exited"} => csession[i] # None
    BY <1>0 DEF ClientSide, ClientTypeOK, Linked
<1>2. ServerQuiet(s) /\ Serial(s) /\ writer'[s] = writer[s]
    BY <1>0, ClientsApart, ServerStill DEF vars
<1>3. ASSUME ClientQuiet(s) PROVE ServerPulse(s)' /\ ClientPulse(s)'
    BY <1>0, <1>2, <1>3, QuietKept
<1>4. CASE QuietProcess(i)
    BY <1>0, <1>3, <1>4, ProcessQuiet
<1>5. ASSUME HearPing(i) \/ HearPong(i) \/ ClientPingTick(i)
      PROVE  csession[i] # None /\ csession[i] \in Session
    BY <1>1, <1>5 DEF HearPing, HearPong, ClientPingTick, Running
<1>6. ASSUME csession[i] # None, Retry(i) PROVE ServerPulse(s)' /\ ClientPulse(s)'
    BY <1>0, <1>3, <1>6, AttemptQuiet
<1>7. ASSUME csession[i] # s, up'[s] = up[s], down'[s] = down[s], UNCHANGED <<asked, csession>>,
             \A j \in Instance : j # i => /\ csequence'[j] = csequence[j]
                                          /\ j \in coutstanding' <=> j \in coutstanding
      PROVE  ServerPulse(s)' /\ ClientPulse(s)'
    <2>1. Owner(s)
        BY <1>7 DEF Owner
    <2>2. Pipes(s)
        BY <1>0, <1>7, NoNewQueue DEF Pipes, NoNewBeat, Typed
    <2> QED
        BY <1>3, <2>1, <2>2 DEF ClientQuiet
<1>8. CASE HearPing(i)
    <2>1. CASE /\ up' = Post(csession[i], NumberFrame("Pong", Head(down[csession[i]]).num))
               /\ Heed(i) /\ UNCHANGED <<asked, csession, csequence, coutstanding>>
        <3>1. CASE csession[i] = s
            <4>1. /\ down[s] # <<>> /\ Head(down[s]).ty = "Ping" /\ down'[s] = Tail(down[s])
                  /\ up'[s] = up[s] \/ up'[s] = Append(up[s], NumberFrame("Pong", Head(down[s]).num))
                BY <1>1, <1>8, <2>1, <3>1 DEF HearPing, Heard, Heed, Post, Put
            <4> QED
                BY <1>0, <1>2, <2>1, <4>1, AnsweredKept DEF Owner
        <3>2. CASE csession[i] # s
            <4>1. up'[s] = up[s] /\ down'[s] = down[s]
                BY <1>1, <2>1, <3>2 DEF Heed, Post, Put
            <4> QED
                BY <1>7, <2>1, <3>2, <4>1
        <3> QED
            BY <3>1, <3>2
    <2> QED
        BY <1>5, <1>6, <1>8, <2>1 DEF HearPing
<1>9. CASE HearPong(i)
    <2>1. /\ Heed(i) /\ up' = up /\ UNCHANGED <<asked, csession, csequence>>
          /\ coutstanding' = IF Head(down[csession[i]]).num = csequence[i]
                             THEN coutstanding \ {i} ELSE coutstanding
          /\ down[csession[i]] # <<>> /\ Head(down[csession[i]]).ty = "Pong"
        BY <1>9 DEF HearPong, Heard
    <2>2. CASE csession[i] = s
        <3>1. down'[s] = Tail(down[s])
            BY <1>1, <2>1, <2>2 DEF Heed
        <3> QED
            BY <1>0, <1>2, <2>1, <2>2, <3>1, AssuredKept
    <2>3. CASE csession[i] # s
        <3>1. down'[s] = down[s]
            BY <1>1, <2>1, <2>3 DEF Heed
        <3> QED
            BY <1>7, <2>1, <2>3, <3>1
    <2> QED
        BY <2>2, <2>3
<1>10. CASE ClientPingTick(i)
    <2> DEFINE n == (csequence[i] + 1) % SEQUENCE_MODULUS
    <2>1. CASE /\ up' = Post(csession[i], NumberFrame("Ping", n)) /\ down' = down
               /\ coutstanding' = coutstanding \cup {i} /\ csequence' = [csequence EXCEPT ![i] = n]
               /\ UNCHANGED <<asked, csession>>
        <3>1. CASE csession[i] = s
            <4>1. csequence'[i] = n
                BY <1>1, <2>1
            <4>2. up'[s] = up[s] \/ up'[s] = Append(up[s], NumberFrame("Ping", csequence'[i]))
                BY <1>1, <2>1, <3>1, <4>1 DEF Post, Put
            <4>3. i \notin coutstanding
                BY <1>10 DEF ClientPingTick
            <4> QED
                BY <1>0, <1>2, <2>1, <3>1, <4>1, <4>2, <4>3, ProbedKept
        <3>2. CASE csession[i] # s
            <4>1. up'[s] = up[s]
                BY <1>1, <2>1, <3>2 DEF Post, Put
            <4> QED
                BY <1>1, <1>7, <2>1, <3>2, <4>1
        <3> QED
            BY <3>1, <3>2
    <2> QED
        BY <1>5, <1>6, <1>10, <2>1 DEF ClientPingTick
<1>11. QuietProcess(i) \/ HearPing(i) \/ HearPong(i) \/ ClientPingTick(i)
    BY DEF ProcessStep, SessionStep, QuietProcess
<1> QED
    BY <1>4, <1>8, <1>9, <1>10, <1>11

\* Every step of the tunnel keeps both sides' heartbeats.
LEMMA PulseNext ==
    ASSUME Beating, AllTyped, AllTyped', [TunnelNext]_tunnelVars
    PROVE  Pulse'
<1>0. /\ TypeOK /\ RegistersOnce /\ ServerFrames /\ ClientSide
      /\ \A s \in Session : Typed(s) /\ Typed(s)' /\ ServerPulse(s) /\ ClientPulse(s)
    BY DEF Beating, TunnelInvariant, Ownership, TunnelTypes, ClientSide, Pulse, AllTyped
<1>1. ASSUME \A s \in Session : ServerQuiet(s) /\ ClientQuiet(s) PROVE Pulse'
    BY <1>0, <1>1, QuietKept DEF Pulse
<1>2. CASE ServerInternal
    BY <1>2, PulseInternal
<1>3. CASE \E s \in Session : ServerControl(s)
    BY <1>3, PulseControl
<1>4. CASE \E s \in Session : Cut(s)
    <2>1. PICK x \in Session : Cut(x)
        BY <1>4
    <2>2. ASSUME NEW s \in Session PROVE ServerQuiet(s) /\ ClientQuiet(s)
        <3>1. up \in [Session -> Seq(Sound)] /\ down \in [Session -> Seq(Sound)]
            BY <1>0 DEF ClientSide, Linked
        <3>2. (up'[s] = up[s] \/ up'[s] = <<>>) /\ (down'[s] = down[s] \/ down'[s] = <<>>)
            BY <2>1, <3>1 DEF Cut
        <3>3. Pipes(s)
            BY <3>1, <3>2, NoNewQueue DEF Pipes, NoNewBeat
        <3>4. Owner(s) /\ UNCHANGED vars
            BY <2>1 DEF Cut, Owner
        <3> QED
            BY <1>0, <3>3, <3>4, ServerStill DEF ClientQuiet
    <2> QED
        BY <1>1, <2>2
<1>5. CASE (\E d \in DataConn : ServerData(d)) \/ \E c \in Conn : ServerReadies(c)
    <2>1. QuietOther
        BY <1>5 DEF ServerData, ServerAcceptsData, ServerRefusesData, ServerClaims, DataStep,
                ServerReadies, PublicStep, ServePublicStep, QuietOther
    <2>2. UNCHANGED <<asked, csession, csequence, coutstanding, up, down>>
        BY <1>5 DEF ServerData, ServerAcceptsData, ServerRefusesData, ServerClaims, ServerReadies
    <2> QED
        BY <1>0, <1>1, <2>1, <2>2, OtherQuiet, ClientsStill
<1>6. CASE \E c \in Conn : TaskStep(c)
    BY <1>0, <1>1, <1>6, ClientsApart, ServerStill, TaskQuiet
<1>7. CASE \E i \in Instance : ProcessStep(i)
    BY <1>7, PulseProcess
<1>8. CASE AtRest \/ UNCHANGED tunnelVars
    <2>1. UNCHANGED vars /\ UNCHANGED <<asked, csession, csequence, coutstanding, up, down>>
        BY <1>8 DEF AtRest, tunnelVars
    <2> QED
        BY <1>0, <1>1, <2>1, ServerStill, ClientsStill
<1> QED
    BY <1>2, <1>3, <1>4, <1>5, <1>6, <1>7, <1>8 DEF TunnelNext

\* A heartbeat under way on a running session is the one its sender waits for or
\* the answer to it, on both sides, although their numbers wrap and a connection
\* may be cut or a queue full at any point: no late PONG of an earlier ping can
\* satisfy a deadline (control.rs and client/control.rs: the heartbeat arms of
\* session_loop and run_session).
THEOREM HeartbeatsMatchHolds == TunnelSpec => []HeartbeatsMatch
<1>1. TunnelInit => Beating
    <2> SUFFICES ASSUME TunnelInit PROVE Beating
        OBVIOUS
    <2>1. Live = {}
        BY DEF TunnelInit, Init, Live, NoRef
    <2>2. ServedAsAsked
        BY <2>1 DEF TunnelInit, Init, ClientInit, ServedAsAsked
    <2>3. ASSUME NEW s \in Session
          PROVE  ServerBeats(s) = 0 /\ ClientBeats(s) = 0 /\ phase[s] = "new"
        <3>1. writer[s] = <<>> /\ up[s] = <<>> /\ down[s] = <<>> /\ phase[s] = "new"
            BY DEF TunnelInit, Init, ClientInit
        <3> QED
            BY <3>1, CountEmpty DEF ServerBeats, ClientBeats
    <2>4. \A i \in Instance : csession[i] = None
        BY DEF TunnelInit, ClientInit
    <2>5. Pulse
        BY <2>3, <2>4, IdentityAssumption DEF Pulse, ServerPulse, ClientPulse
    <2> QED
        BY <2>2, <2>5, TunnelStarts DEF Beating
<1>2. Beating /\ [TunnelNext]_tunnelVars => Beating'
    <2> SUFFICES ASSUME Beating, [TunnelNext]_tunnelVars PROVE Beating'
        OBVIOUS
    <2>1. TunnelInvariant' /\ [Next]_vars
        BY TunnelKeeps DEF Beating
    <2>2. AllTyped /\ AllTyped'
        BY <2>1 DEF Beating, TunnelInvariant, TunnelTypes, ServerFrames, Linked, AllTyped, Typed
    <2>3. ServedAsAsked'
        BY <2>1, ServedNext DEF Beating, TunnelInvariant, Ownership, TunnelTypes, ClientSide
    <2>4. Pulse'
        BY <2>2, PulseNext
    <2> QED
        BY <2>1, <2>3, <2>4 DEF Beating
<1>3. Beating => HeartbeatsMatch
    <2> SUFFICES ASSUME Beating, NEW i \in Instance, NEW s \in Session,
                        csession[i] = s, phase[s] = "running"
                 PROVE  /\ ServerBeats(s) <= IF s \in outstanding THEN 1 ELSE 0
                        /\ \A f \in Among(writer[s], "Ping") \cup Among(down[s], "Ping")
                                       \cup Among(up[s], "Pong") : f.num = sequence[s]
                        /\ ClientBeats(s) <= IF i \in coutstanding THEN 1 ELSE 0
                        /\ \A f \in Among(up[s], "Ping") \cup Among(writer[s], "Pong")
                                       \cup Among(down[s], "Pong") : f.num = csequence[i]
        BY DEF HeartbeatsMatch, ServerBeats, ClientBeats
    <2>1. /\ ServerBeats(s) <= IF s \in outstanding THEN 1 ELSE 0
          /\ ServerNumbers(s) \subseteq {sequence[s]}
          /\ ClientBeats(s) <= IF i \in coutstanding THEN 1 ELSE 0
          /\ ClientNumbers(s) \subseteq {csequence[i]}
        BY DEF Beating, Pulse, ServerPulse, ClientPulse
    <2> QED
        BY <2>1 DEF ServerNumbers, ClientNumbers
<1> QED
    BY <1>1, <1>2, <1>3, PTL DEF TunnelSpec

=============================================================================
