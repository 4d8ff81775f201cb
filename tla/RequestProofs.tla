---------------------------- MODULE RequestProofs ----------------------------
(***************************************************************************)
(* Users' connections: every pending request has an owner and a task, no    *)
(* traffic outlives its tunnel unnoticed, and a data socket reaches exactly *)
(* the connection whose request it named.  The semaphores are short by the  *)
(* connections being served, and a dispatch permit is held while its task   *)
(* runs; both are counted over sets that stay finite because every step     *)
(* adds at most one connection, whatever the number that may come.          *)
(***************************************************************************)
EXTENDS OwnershipProofs, FiniteSetTheorems

USE DEF ownerVars, limitVars, publicVars, localVars, controlVars, writerVars,
        cancelVars, dataVars, registryVars, sessionFrame, writerFrame,
        publicFrame, connFrame, dataFrame, supervisorFrame

-----------------------------------------------------------------------------
(* Requests and their owners *)

\* Sessions leave the registry with their requests and their traffic, and the
\* entries of the others stay as they are.
CleanRemoval ==
    /\ Live \ Live' \subseteq data_cancel'
    /\ data_cancel \subseteq data_cancel'
    /\ \A r \in Live \cap Live' : sessions'[r] = sessions[r]
    /\ pending' \subseteq pending
    /\ \A c \in pending' : req[c].session \notin Live \ Live'

\* session_lost removes cleanly.
LEMMA RemovalLost ==
    ASSUME TypeOK, NEW s \in Session, NEW g, session_lost(s, g)
    PROVE  CleanRemoval
<1>1. CASE s \in Live /\ sessions[s].generation = g
    <2>1. /\ \A r \in Session : r # s => sessions'[r] = sessions[r]
          /\ sessions'[s] = NoRef
          /\ pending' = pending \ RequestsOf(s)
          /\ data_cancel' = data_cancel \cup {s}
        BY <1>1 DEF session_lost, Without
    <2>2. Live' = Live \ {s} /\ Live \subseteq Session
        BY <2>1 DEF Live, NoRef
    <2> QED
        BY <2>1, <2>2 DEF CleanRemoval, RequestsOf
<1>2. CASE ~(s \in Live /\ sessions[s].generation = g)
    BY <1>2 DEF session_lost, CleanRemoval, Live
<1> QED
    BY <1>1, <1>2

\* So does goodbye.
LEMMA RemovalGoodbye ==
    ASSUME TypeOK, NEW s \in Session, NEW g, goodbye(s, g)
    PROVE  CleanRemoval
<1>1. CASE s \in Live /\ sessions[s].generation = g
    <2>1. /\ \A r \in Session : r # s => sessions'[r] = sessions[r]
          /\ sessions'[s] = NoRef
          /\ pending' = pending \ RequestsOf(s)
          /\ data_cancel' = data_cancel \cup {s}
        BY <1>1 DEF goodbye, Without
    <2>2. Live' = Live \ {s} /\ Live \subseteq Session
        BY <2>1 DEF Live, NoRef
    <2> QED
        BY <2>1, <2>2 DEF CleanRemoval, RequestsOf
<1>2. CASE ~(s \in Live /\ sessions[s].generation = g)
    BY <1>2 DEF goodbye, CleanRemoval, Live
<1> QED
    BY <1>1, <1>2

\* So does the takeover of a port: displace drops the requests of the previous
\* owner and cancels its traffic.
LEMMA RemovalInstall ==
    ASSUME TypeOK, NEW s \in Session, s \notin Live, NEW p \in Port, Install(s, p)
    PROVE  CleanRemoval
<1>1. Live' = (Live \ Previous(p)) \cup {s}
    BY LiveInstall
<1>2. /\ pending' = pending \ UNION {RequestsOf(r) : r \in Previous(p)}
      /\ data_cancel' = data_cancel \cup Previous(p)
    BY DEF Install, displace
<1>3. \A r \in Session : r # s /\ r \notin Previous(p) => sessions'[r] = sessions[r]
    <2>1. Without(Previous(p)) \in [Session -> SessionRef]
        BY WithoutType
    <2> QED
        BY <2>1 DEF Install, Without
<1>4. \A c \in pending' : req[c].session \notin Previous(p)
    BY <1>2 DEF RequestsOf
<1>5. Live \subseteq Session
    BY DEF Live
<1> QED
    BY <1>1, <1>2, <1>3, <1>4, <1>5 DEF CleanRemoval

\* Every handler of the registry and the sweep remove sessions cleanly, except
\* that accepted_public may add a request.
LEMMA RemovalRegistry ==
    ASSUME TypeOK, RegistersOnce, RegistryStep, ~AcceptedPublic
    PROVE  CleanRemoval
<1>1. CASE Shutdown
    <2>1. /\ data_cancel' = data_cancel \cup Live /\ pending' = {}
          /\ \A s \in Session : sessions'[s] = NoRef
        BY <1>1 DEF Shutdown, shutdown_all, Without
    <2>2. Live' = {}
        BY <2>1 DEF Live, NoRef
    <2> QED
        BY <2>1, <2>2 DEF CleanRemoval
<1>2. CASE Register
    <2> DEFINE s == Head(commands).session
    <2>1. commands # <<>> /\ Head(commands).op = "Register"
        BY <1>2 DEF Register, Receive
    <2>2. s \in Session /\ Head(commands) = commands[1] /\ 1 \in 1 .. Len(commands)
        BY <2>1, HeadCommand DEF Command, TypeOK, Channel
    <2>3. s \notin Live
        BY <2>1, <2>2 DEF RegistersOnce, Unregistered
    <2>4. CASE \E p \in Port : Install(s, p)
        BY <2>2, <2>3, <2>4, RemovalInstall
    <2>5. CASE UNCHANGED <<sessions, pending, data_cancel>>
        BY <2>5 DEF CleanRemoval, Live
    <2> QED
        BY <1>2, <2>4, <2>5 DEF Register
<1>3. CASE SessionLost
    <2>1. Head(commands).session \in Session
        BY <1>3, HeadCommand DEF SessionLost, Receive, Command
    <2> QED
        BY <1>3, <2>1, RemovalLost DEF SessionLost
<1>4. CASE Goodbye
    <2>1. Head(commands).session \in Session
        BY <1>4, HeadCommand DEF Goodbye, Receive, Command
    <2> QED
        BY <1>4, <2>1, RemovalGoodbye DEF Goodbye
<1>5. CASE PeekData \/ ClaimData \/ OpenFailed \/ RequestFinished
    BY <1>5 DEF PeekData, ClaimData, OpenFailed, RequestFinished, Consume, CleanRemoval, Live
<1> QED
    BY <1>1, <1>2, <1>3, <1>4, <1>5 DEF RegistryStep

\* A step that removes sessions cleanly, assigns no request and starts no use of
\* one keeps both invariants.
LEMMA RemovalKeeps ==
    ASSUME TypeOK, RequestsOwned, OrphansCancelled, CleanRemoval, req' = req,
           \A c \in Conn : conn'[c] \in {"waiting", "readying", "forwarding"} =>
                conn[c] \in {"waiting", "readying", "forwarding"}
    PROVE  RequestsOwned' /\ OrphansCancelled'
<1>1. RequestsOwned'
    BY DEF RequestsOwned, CleanRemoval
<1>2. OrphansCancelled'
    BY DEF OrphansCancelled, CleanRemoval
<1> QED
    BY <1>1, <1>2

\* accepted_public gives a request to the owner of its port.
LEMMA OwnedAccepted ==
    ASSUME TypeOK, OwnershipConsistent, RequestsOwned, OrphansCancelled, AcceptedPublic
    PROVE  RequestsOwned' /\ OrphansCancelled'
<1> DEFINE c == Head(commands).item
<1> DEFINE p == via[c].port
<1> DEFINE s == ports[p].session
<1>1. c \in Conn /\ conn \in [Conn -> ConnState] /\ req \in [Conn -> Request]
    BY HeadCommand DEF AcceptedPublic, Receive, Command, TypeOK
<1>2. CASE Reject(c)
    <2>1. CleanRemoval
        BY <1>2 DEF Reject, CleanRemoval, Live
    <2> QED
        BY <1>1, <1>2, <2>1, RemovalKeeps DEF Reject
<1>3. CASE Admitted(c) /\ FailSession(c, s)
    <2>1. s \in Session
        BY <1>3 DEF TypeOK, Admitted, Slots, PortSlot
    <2>2. CleanRemoval
        BY <1>3, <2>1, RemovalLost DEF FailSession
    <2> QED
        BY <1>1, <1>3, <2>2, RemovalKeeps DEF FailSession
<1>4. CASE Admitted(c) /\ OpenRequest(c, s)
    <2>1. p \in Port /\ ports[p].state = "Active"
        BY <1>4 DEF Admitted, Slots
    <2>2. s \in Live /\ sessions[s].generation = ports[p].generation
        BY <2>1, OwnerEntry
    <2>3. /\ pending' = pending \cup {c}
          /\ UNCHANGED <<sessions, data_cancel>>
          /\ req' = [req EXCEPT ![c] = [session |-> s, generation |-> ports[p].generation]]
          /\ conn' = [conn EXCEPT ![c] = "waiting"]
        BY <1>4 DEF OpenRequest
    <2>4. Live' = Live
        BY <2>3 DEF Live
    <2> HIDE DEF p, s, c
    <2>5. /\ req'[c].session = s /\ req'[c].generation = ports[p].generation
          /\ \A x \in Conn : x # c => req'[x] = req[x] /\ conn'[x] = conn[x]
        BY <1>1, <2>3
    <2>6. RequestsOwned'
        <3> SUFFICES ASSUME NEW x \in pending'
                     PROVE  /\ req'[x].session \in Live'
                            /\ req'[x].generation = sessions'[req'[x].session].generation
            BY DEF RequestsOwned
        <3>1. CASE x = c
            BY <2>2, <2>3, <2>4, <2>5, <3>1
        <3>2. CASE x # c
            <4>1. x \in pending /\ x \in Conn
                BY <2>3, <3>2 DEF TypeOK
            <4> QED
                BY <2>3, <2>4, <2>5, <3>2, <4>1 DEF RequestsOwned
        <3> QED
            BY <3>1, <3>2
    <2>7. OrphansCancelled'
        BY <2>2, <2>3, <2>4, <2>5 DEF OrphansCancelled
    <2> QED
        BY <2>6, <2>7
<1> QED
    BY <1>2, <1>3, <1>4 DEF AcceptedPublic

\* The step case: every handler that removes a session cancels its data token and
\* drops its requests in the same step (CleanRemoval).
LEMMA OwnedNext ==
    ASSUME TypeOK, RegistersOnce, OwnershipConsistent, RequestsOwned, OrphansCancelled,
           [Next]_vars
    PROVE  RequestsOwned' /\ OrphansCancelled'
<1> DEFINE Using == {"waiting", "readying", "forwarding"}
<1>0. ASSUME UNCHANGED <<sessions, data_cancel>>, pending' \subseteq pending
      PROVE  CleanRemoval
    BY <1>0 DEF CleanRemoval, Live
<1>1. CASE RegistryStep /\ ~AcceptedPublic
    <2>1. CleanRemoval
        BY <1>1, RemovalRegistry
    <2>2. req' = req /\ \A c \in Conn : conn'[c] \in Using => conn[c] \in Using
        BY <1>1 DEF RegistryStep, Register, SessionLost, Goodbye, PeekData, ClaimData,
                    OpenFailed, RequestFinished, Shutdown
    <2> QED
        BY <2>1, <2>2, RemovalKeeps
<1>2. CASE AcceptedPublic
    BY <1>2, OwnedAccepted
<1>3. CASE UNCHANGED <<sessions, data_cancel, req, conn>> /\ pending' \subseteq pending
    BY <1>0, <1>3, RemovalKeeps
<1>4. CASE Sweep \/ (\E p \in Port : ReservationExpires(p)) \/ (\E l \in listeners : ListenerStops(l))
    BY <1>3, <1>4 DEF Sweep, ReservationExpires, ListenerStops
<1>5. ASSUME NEW s \in Session, ControlStep(s)
      PROVE  RequestsOwned' /\ OrphansCancelled'
    <2>1. data_cancel \subseteq data_cancel'
        BY <1>5 DEF ControlStep, AcceptControl, RefuseControl, HandshakeFails, Authenticate,
             TakeoverFlushEnds, ServeStep, SendRefusal, SendRegistered, Abandon, Cancelled,
             SendSessionLost, SendGoodbye, GoodbyeReplied, ServeEnds, Teardown,
             PongDeadline, PingTick, WriterStep, WriteFrame, WriteFails, CloseAfterFlushed,
             SendersGone, ClientFrameArrives, ReceivePing, ReceivePong, ReceiveGoodbye,
             ReceiveError, ReceiveOther, ReceiveOpenFailed
    <2>2. UNCHANGED <<sessions, pending, req, conn>>
        BY <1>5, ControlFrame
    <2>3. CleanRemoval
        BY <2>1, <2>2 DEF CleanRemoval, Live
    <2> QED
        BY <2>2, <2>3, RemovalKeeps
<1>6. ASSUME NEW c \in Conn, PublicStep(c)
      PROVE  RequestsOwned' /\ OrphansCancelled'
    <2>1. UNCHANGED <<sessions, data_cancel, pending>>
        BY <1>6, PublicStepFrame
    <2>2. req' = req
        BY <1>6 DEF PublicStep, AcceptPublic, DeadlinePasses, ServePublicStep, WaitEnds,
                    TakeData, WriteReady, ReadyFails, ForwardCancelled, ForwardEnds,
                    ServePublicEnds
    <2>3. \A x \in Conn : conn'[x] \in Using => conn[x] \in Using
        <3>1. conn \in [Conn -> ConnState]
            BY DEF TypeOK
        <3>2. CASE (\E l \in listeners : AcceptPublic(c, l)) \/ DeadlinePasses(c)
            BY <3>1, <3>2 DEF AcceptPublic, DeadlinePasses
        <3>3. CASE ServePublicStep(c)
            BY <3>1, <3>3 DEF ServePublicStep, WaitEnds, TakeData, WriteReady, ReadyFails,
                        ForwardCancelled, CloseBoth
        <3>4. CASE ForwardEnds(c) \/ ServePublicEnds(c)
            BY <3>1, <3>4 DEF ForwardEnds, ServePublicEnds, CloseBoth
        <3> QED
            BY <1>6, <3>2, <3>3, <3>4 DEF PublicStep
    <2> QED
        BY <1>0, <2>1, <2>2, <2>3, RemovalKeeps
<1>7. CASE (\E d \in DataConn : DataStep(d)) \/ SupervisorStep
    BY <1>3, <1>7, DataStepFrame, SupervisorStepFrame
<1>8. CASE UNCHANGED vars
    BY <1>3, <1>8 DEF vars
<1> QED
    BY <1>1, <1>2, <1>4, <1>5, <1>6, <1>7, <1>8 DEF Next, Idle

\* The invariant behind the next two theorems, inductive over Ownership.
THEOREM OwnedInvariant == Spec => [](RequestsOwned /\ OrphansCancelled)
<1>1. Init => RequestsOwned /\ OrphansCancelled
    BY DEF Init, RequestsOwned, OrphansCancelled
<1>2. Ownership /\ RequestsOwned /\ OrphansCancelled /\ [Next]_vars
        => RequestsOwned' /\ OrphansCancelled'
    BY OwnedNext DEF Ownership
<1> QED
    BY <1>1, <1>2, OwnershipInvariant, PTL DEF Spec

\* Every pending request belongs to a live session of the same generation
\* (registry.rs: accepted_public, displace, session_lost, goodbye): a later owner
\* of the port is never sent the users of an earlier one.
THEOREM RequestsOwnedHolds == Spec => []RequestsOwned
BY OwnedInvariant, PTL

\* A public connection whose session has left the registry has had its data token
\* cancelled (registry.rs: displace, session_lost, goodbye, shutdown_all).
THEOREM OrphansCancelledHolds == Spec => []OrphansCancelled
BY OwnedInvariant, PTL

-----------------------------------------------------------------------------
(* What the tasks send *)

\* The channel is left alone, or gets a command with one of the names of ops.
Sends(ops) ==
    \/ commands' = commands
    \/ \E cmd \in Command : cmd.op \in ops /\ commands' = Append(commands, cmd)

\* A control connection's task sends registrations, failed requests and the
\* two ways to leave.
LEMMA ControlSends ==
    ASSUME TypeOK, NEW s \in Session, ControlStep(s)
    PROVE  Sends({"Register", "OpenFailed", "SessionLost", "Goodbye"})
<1>0. ASSUME NEW cmd \in Command, Send(cmd) \/ Closed,
             cmd.op \in {"Register", "OpenFailed", "SessionLost", "Goodbye"}
      PROVE  Sends({"Register", "OpenFailed", "SessionLost", "Goodbye"})
    BY <1>0 DEF Send, Closed, Sends
<1>1. grant[s] \in Nat
    BY DEF TypeOK
<1>2. CASE Authenticate(s)
    <2> DEFINE cmd == SessionCommand("Register", s, 0)
    <2>1. cmd \in Command /\ cmd.op = "Register"
        BY CommandsTyped DEF SessionCommand
    <2>2. Send(cmd) \/ Closed
        BY <1>2 DEF Authenticate
    <2> HIDE DEF cmd
    <2> QED
        BY <1>0, <2>1, <2>2
<1>3. CASE Abandon(s) \/ SendSessionLost(s)
    <2> DEFINE cmd == SessionCommand("SessionLost", s, grant[s])
    <2>1. cmd \in Command /\ cmd.op = "SessionLost"
        BY <1>1, CommandsTyped DEF SessionCommand
    <2>2. Send(cmd) \/ Closed
        BY <1>3 DEF Abandon, SendSessionLost
    <2> HIDE DEF cmd
    <2> QED
        BY <1>0, <2>1, <2>2
<1>4. CASE SendGoodbye(s)
    <2> DEFINE cmd == SessionCommand("Goodbye", s, grant[s])
    <2>1. cmd \in Command /\ cmd.op = "Goodbye"
        BY <1>1, CommandsTyped DEF SessionCommand
    <2>2. Send(cmd) \/ Closed
        BY <1>4 DEF SendGoodbye
    <2> HIDE DEF cmd
    <2> QED
        BY <1>0, <2>1, <2>2
<1>5. CASE \E c \in Conn : ReceiveOpenFailed(s, c)
    <2>1. PICK c \in Conn : ReceiveOpenFailed(s, c)
        BY <1>5
    <2> DEFINE cmd == ItemCommand("OpenFailed", s, c)
    <2>2. cmd \in Command /\ cmd.op = "OpenFailed"
        BY CommandsTyped DEF ItemCommand
    <2>3. Send(cmd) \/ Closed
        BY <2>1 DEF ReceiveOpenFailed
    <2> HIDE DEF cmd
    <2> QED
        BY <1>0, <2>2, <2>3
<1>6. CASE commands' = commands
    BY <1>6 DEF Sends
<1>7. CASE \/ \E h \in Hellos : AcceptControl(s, h)
           \/ RefuseControl(s) \/ HandshakeFails(s) \/ TakeoverFlushEnds(s)
           \/ PongDeadline(s) \/ PingTick(s) \/ WriterStep(s)
    BY <1>6, <1>7 DEF AcceptControl, RefuseControl, HandshakeFails, TakeoverFlushEnds,
            PongDeadline, PingTick, WriterStep, WriteFrame, WriteFails, CloseAfterFlushed,
            SendersGone
<1>8. CASE ServeStep(s)
    BY <1>3, <1>4, <1>6, <1>8 DEF ServeStep, SendRefusal, SendRegistered, Cancelled,
            GoodbyeReplied, ServeEnds
<1>9. CASE ClientFrameArrives(s)
    BY <1>5, <1>6, <1>9 DEF ClientFrameArrives, ReceivePing, ReceivePong, ReceiveGoodbye,
            ReceiveError, ReceiveOther
<1> QED
    BY <1>2, <1>7, <1>8, <1>9 DEF ControlStep

\* The supervisor sends Shutdown only.
LEMMA SupervisorSends ==
    ASSUME SupervisorStep
    PROVE  Sends({"Shutdown"})
<1>1. CASE SendShutdown
    <2> DEFINE cmd == SessionCommand("Shutdown", None, 0)
    <2>1. cmd \in Command /\ cmd.op = "Shutdown"
        BY CommandsTyped DEF SessionCommand
    <2>2. commands' = Append(commands, cmd)
        BY <1>1 DEF SendShutdown, Send
    <2> HIDE DEF cmd
    <2> QED
        BY <2>1, <2>2 DEF Sends
<1>2. CASE Stop \/ TasksJoined \/ GraceElapses
    BY <1>2 DEF Stop, TasksJoined, GraceElapses, Sends
<1> QED
    BY <1>1, <1>2 DEF SupervisorStep

\* A data connection's task sends PeekData and ClaimData.
LEMMA DataSends ==
    ASSUME NEW d \in DataConn, DataStep(d)
    PROVE  Sends({"PeekData", "ClaimData"})
<1>0. ASSUME NEW op \in {"PeekData", "ClaimData"}, Send(ItemCommand(op, None, d)) \/ Closed
      PROVE  Sends({"PeekData", "ClaimData"})
    <2> DEFINE cmd == ItemCommand(op, None, d)
    <2>1. cmd \in Command /\ cmd.op \in {"PeekData", "ClaimData"}
        BY CommandsTyped DEF ItemCommand
    <2>2. Send(cmd) \/ Closed
        BY <1>0
    <2> HIDE DEF cmd
    <2> QED
        BY <2>1, <2>2 DEF Send, Closed, Sends
<1>1. CASE SendPeek(d)
    BY <1>0, <1>1 DEF SendPeek
<1>2. CASE SendClaim(d)
    BY <1>0, <1>2 DEF SendClaim
<1>3. CASE (\E c \in Conn : AcceptData(d, c)) \/ RefuseData(d) \/ DataFails(d) \/ ClaimTimesOut(d)
    BY <1>3 DEF AcceptData, RefuseData, DataFails, ClaimTimesOut, Sends
<1> QED
    BY <1>1, <1>2, <1>3 DEF DataStep

\* A public connection's task, with its accept loop, sends AcceptedPublic and
\* RequestFinished.
LEMMA PublicSends ==
    ASSUME TypeOK, NEW c \in Conn, PublicStep(c)
    PROVE  Sends({"AcceptedPublic", "RequestFinished"})
<1>0. ASSUME NEW cmd \in Command, cmd.op \in {"AcceptedPublic", "RequestFinished"},
             Send(cmd) \/ UNCHANGED commands
      PROVE  Sends({"AcceptedPublic", "RequestFinished"})
    BY <1>0 DEF Send, Sends
<1>1. CASE \E l \in listeners : AcceptPublic(c, l)
    <2> DEFINE cmd == ItemCommand("AcceptedPublic", None, c)
    <2>1. cmd \in Command /\ cmd.op = "AcceptedPublic"
        BY CommandsTyped DEF ItemCommand
    <2>2. Send(cmd) \/ UNCHANGED commands
        BY <1>1 DEF AcceptPublic, Closed
    <2> HIDE DEF cmd
    <2> QED
        BY <1>0, <2>1, <2>2
<1>2. CASE ServePublicEnds(c)
    <2> DEFINE cmd == ItemCommand("RequestFinished", req[c].session, c)
    <2>1. cmd \in Command /\ cmd.op = "RequestFinished"
        BY CommandsTyped DEF ItemCommand, TypeOK, Request
    <2>2. Send(cmd) \/ UNCHANGED commands
        BY <1>2 DEF ServePublicEnds, Closed
    <2> HIDE DEF cmd
    <2> QED
        BY <1>0, <2>1, <2>2
<1>3. CASE DeadlinePasses(c) \/ ServePublicStep(c) \/ ForwardEnds(c)
    BY <1>3 DEF DeadlinePasses, ServePublicStep, WaitEnds, TakeData, WriteReady, ReadyFails,
                ForwardCancelled, ForwardEnds, Sends
<1> QED
    BY <1>1, <1>2, <1>3 DEF PublicStep

-----------------------------------------------------------------------------
(* Requests and their tasks *)

\* An accepted connection waits in the channel, once.
AcceptedQueued ==
    /\ Sole("AcceptedPublic")
    /\ \A k \in Queued : k.op = "AcceptedPublic" => conn[k.item] = "queued"

\* A RequestFinished comes from a task that is over and names its request.
FinishedClosed ==
    \A k \in Queued : k.op = "RequestFinished" =>
        conn[k.item] = "closed" /\ k.session = req[k.item].session

\* A connection the registry has not seen has no request and no data socket, and
\* one with a data socket has no request any more.
ClaimedOnce ==
    \A c \in Conn :
        /\ conn[c] \in {"new", "queued"} => c \notin pending /\ box[c] = None
        /\ box[c] # None => c \notin pending

\* NoLeakedRequest over the set of queued commands.
NoLeak ==
    \A c \in pending :
        \/ conn[c] \in {"waiting", "finishing"}
        \/ \E k \in Queued : k.op = "RequestFinished" /\ k.item = c

\* The registry drops its requests when it stops.
PendingUp == ~registryUp => pending = {}

RequestTasks == AcceptedQueued /\ FinishedClosed /\ ClaimedOnce /\ NoLeak /\ PendingUp

\* The commands about connections name connections.
LEMMA QueuedItems ==
    ASSUME TypeOK
    PROVE  \A k \in Queued :
              /\ k.op = "AcceptedPublic" => k.item \in Conn /\ k.session = None
              /\ k.op = "RequestFinished" => k.item \in Conn
              /\ k.op = "ClaimData" => k.item \in DataConn /\ k.session = None
              /\ k.op \in {"Goodbye", "SessionLost"} => k.session \in Session /\ k.item = None
BY QueuedType DEF Command

\* Steps of the other tasks, and handlers that only drop requests.  A
\* RequestFinished may leave the channel when its request is gone.
LEMMA TasksKept ==
    ASSUME TypeOK, RequestTasks, UNCHANGED <<conn, req, registryUp>>,
           \A c \in Conn : box'[c] = box[c] \/ (conn[c] \notin {"new", "queued"} /\ c \notin pending'),
           pending' \subseteq pending,
           \/ Sends({"Register", "OpenFailed", "SessionLost", "Goodbye", "Shutdown",
                     "PeekData", "ClaimData"})
           \/ /\ commands # <<>> /\ commands' = Tail(commands)
              /\ Head(commands).op = "RequestFinished" => Head(commands).item \notin pending'
    PROVE  RequestTasks'
<1>0. pending \subseteq Conn
    BY DEF TypeOK
<1>1. ClaimedOnce' /\ PendingUp'
    BY DEF RequestTasks, ClaimedOnce, PendingUp
<1>2. CASE commands' = commands
    <2>1. Queued' = Queued /\ (Sole("AcceptedPublic") => Sole("AcceptedPublic")')
        BY <1>2, ChannelSame
    <2> QED
        BY <1>1, <2>1 DEF RequestTasks, AcceptedQueued, FinishedClosed, NoLeak
<1>3. CASE \E cmd \in Command :
             /\ cmd.op \in {"Register", "OpenFailed", "SessionLost", "Goodbye", "Shutdown",
                            "PeekData", "ClaimData"}
             /\ commands' = Append(commands, cmd)
    <2>1. PICK cmd \in Command :
             /\ cmd.op \in {"Register", "OpenFailed", "SessionLost", "Goodbye", "Shutdown",
                            "PeekData", "ClaimData"}
             /\ commands' = Append(commands, cmd)
        BY <1>3
    <2>2. Queued' = Queued \cup {cmd} /\ (Sole("AcceptedPublic") => Sole("AcceptedPublic")')
        BY <2>1, ChannelSent
    <2> QED
        BY <1>1, <2>1, <2>2 DEF RequestTasks, AcceptedQueued, FinishedClosed, NoLeak
<1>4. CASE /\ commands # <<>> /\ commands' = Tail(commands)
           /\ Head(commands).op = "RequestFinished" => Head(commands).item \notin pending'
    <2>1. /\ Queued' \subseteq Queued /\ Queued \subseteq Queued' \cup {Head(commands)}
          /\ Sole("AcceptedPublic") => Sole("AcceptedPublic")'
        BY <1>4, ChannelTaken
    <2>2. NoLeak'
        BY <1>4, <2>1 DEF RequestTasks, NoLeak
    <2> QED
        BY <1>1, <2>1, <2>2 DEF RequestTasks, AcceptedQueued, FinishedClosed
<1> QED
    BY <1>2, <1>3, <1>4 DEF Sends

\* accepted_public takes the connection out of the channel and closes it or opens
\* its request.
LEMMA TasksAccepted ==
    ASSUME TypeOK, RequestTasks, AcceptedPublic
    PROVE  RequestTasks'
<1> DEFINE c == Head(commands).item
<1> DEFINE s == ports[via[c].port].session
<1>1. /\ commands # <<>> /\ commands' = Tail(commands) /\ Head(commands).op = "AcceptedPublic"
      /\ registryUp' = registryUp /\ registryUp /\ box' = box
      /\ conn \in [Conn -> ConnState] /\ req \in [Conn -> Request]
    BY DEF AcceptedPublic, Receive, TypeOK
<1>2. /\ Head(commands) \in Queued
      /\ Queued' \subseteq Queued /\ Queued \subseteq Queued' \cup {Head(commands)}
      /\ Sole("AcceptedPublic")'
      /\ \A k \in Queued' : ~Alike(k, Head(commands))
    BY <1>1, ChannelTaken DEF RequestTasks, AcceptedQueued
<1>3. c \in Conn /\ Head(commands).session = None /\ conn[c] = "queued"
    BY <1>1, <1>2, QueuedItems DEF RequestTasks, AcceptedQueued
<1>4. c \notin pending /\ box[c] = None
    BY <1>3 DEF RequestTasks, ClaimedOnce
<1>5. \/ conn' = [conn EXCEPT ![c] = "closed"] /\ pending' \subseteq pending /\ req' = req
      \/ /\ conn' = [conn EXCEPT ![c] = "waiting"] /\ pending' = pending \cup {c}
         /\ \E r : req' = [req EXCEPT ![c] = r]
    BY DEF AcceptedPublic, Reject, FailSession, session_lost, OpenRequest
<1> HIDE DEF c
<1>6. \A k \in Queued : k.op = "RequestFinished" => k.item # c
    BY <1>3 DEF RequestTasks, FinishedClosed
<1>7. \A x \in Conn : x # c =>
        conn'[x] = conn[x] /\ req'[x] = req[x] /\ (x \in pending' => x \in pending)
    BY <1>1, <1>5
<1>8. (conn'[c] = "closed" /\ c \notin pending') \/ conn'[c] = "waiting"
    BY <1>1, <1>3, <1>4, <1>5
<1>9. AcceptedQueued'
    <2>1. ASSUME NEW k \in Queued', k.op = "AcceptedPublic"
          PROVE  conn'[k.item] = "queued"
        <3>1. k \in Queued /\ k.item \in Conn /\ k.session = None
            BY <1>2, <2>1, QueuedItems
        <3>2. k.item # c
            BY <1>1, <1>2, <1>3, <2>1, <3>1 DEF Alike, c
        <3> QED
            BY <1>7, <2>1, <3>1, <3>2 DEF RequestTasks, AcceptedQueued
    <2> QED
        BY <1>2, <2>1 DEF AcceptedQueued
<1>10. FinishedClosed'
    BY <1>2, <1>6, <1>7, QueuedItems DEF RequestTasks, FinishedClosed
<1>11. ClaimedOnce'
    BY <1>1, <1>4, <1>7, <1>8 DEF RequestTasks, ClaimedOnce
<1>12. NoLeak'
    <2>1. pending' \subseteq Conn
        BY <1>3, <1>5 DEF TypeOK
    <2>2. Queued \subseteq Queued' \cup {Head(commands)} /\ Head(commands).op # "RequestFinished"
        BY <1>1, <1>2
    <2> QED
        BY <1>7, <1>8, <2>1, <2>2 DEF RequestTasks, NoLeak
<1>13. PendingUp'
    BY <1>1 DEF PendingUp
<1> QED
    BY <1>9, <1>10, <1>11, <1>12, <1>13 DEF RequestTasks

\* A public connection's task moves on: neither of the commands about it is in the
\* channel yet, and it has no request left unless it waits or finishes.
LEMMA TasksMove ==
    ASSUME TypeOK, RequestTasks, UNCHANGED <<req, box, pending, registryUp>>,
           NEW c \in Conn, conn[c] \notin {"queued", "closed"},
           NEW state \in ConnState \ {"new"}, conn' = [conn EXCEPT ![c] = state],
           c \in pending => \/ state \in {"waiting", "finishing"}
                           \/ \E k \in Queued' : k.op = "RequestFinished" /\ k.item = c,
           state = "queued" => conn[c] = "new",
           \/ commands' = commands /\ state # "queued"
           \/ \E cmd \in Command :
                 /\ commands' = Append(commands, cmd) /\ cmd.item = c
                 /\ \/ cmd.op = "AcceptedPublic" /\ state = "queued"
                    \/ cmd.op = "RequestFinished" /\ state = "closed" /\ cmd.session = req[c].session
    PROVE  RequestTasks'
<1>1. conn'[c] = state /\ \A x \in Conn : x # c => conn'[x] = conn[x]
    BY DEF TypeOK
<1>2. \A k \in Queued : k.op \in {"AcceptedPublic", "RequestFinished"} =>
        k.item \in Conn /\ k.item # c
    BY QueuedItems DEF RequestTasks, AcceptedQueued, FinishedClosed
<1>3. ClaimedOnce' /\ PendingUp'
    BY <1>1 DEF RequestTasks, ClaimedOnce, PendingUp
<1>4. CASE commands' = commands
    <2>1. Queued' = Queued /\ Sole("AcceptedPublic")'
        BY <1>4, ChannelSame DEF RequestTasks, AcceptedQueued
    <2> QED
        BY <1>1, <1>2, <1>3, <2>1 DEF TypeOK, RequestTasks, AcceptedQueued, FinishedClosed, NoLeak
<1>5. ASSUME NEW cmd \in Command, commands' = Append(commands, cmd), cmd.item = c,
             \/ cmd.op = "AcceptedPublic" /\ state = "queued"
             \/ cmd.op = "RequestFinished" /\ state = "closed" /\ cmd.session = req[c].session
      PROVE  RequestTasks'
    <2>1. Queued' = Queued \cup {cmd}
        BY <1>5, ChannelSent
    <2>2. Sole("AcceptedPublic")'
        <3>1. cmd.op = "AcceptedPublic" => \A k \in Queued : ~Alike(k, cmd)
            BY <1>2, <1>5 DEF Alike
        <3> QED
            BY <1>5, <3>1, ChannelSent DEF RequestTasks, AcceptedQueued
    <2>3. AcceptedQueued'
        BY <1>1, <1>2, <1>5, <2>1, <2>2 DEF RequestTasks, AcceptedQueued
    <2>4. FinishedClosed'
        BY <1>1, <1>2, <1>5, <2>1 DEF RequestTasks, FinishedClosed
    <2>5. NoLeak'
        BY <1>1, <2>1 DEF TypeOK, RequestTasks, NoLeak
    <2> QED
        BY <1>3, <2>3, <2>4, <2>5 DEF RequestTasks
<1> QED
    BY <1>4, <1>5

\* Every step of a public connection is such a move.
LEMMA TasksPublic ==
    ASSUME TypeOK, RequestTasks, NEW c \in Conn, PublicStep(c)
    PROVE  RequestTasks'
<1>1. pending' = pending /\ registryUp' = registryUp
    BY PublicStepFrame
<1>2. req' = req /\ box' = box
    BY DEF PublicStep, AcceptPublic, DeadlinePasses, ServePublicStep, WaitEnds, TakeData,
           WriteReady, ReadyFails, ForwardCancelled, ForwardEnds, ServePublicEnds
<1>3. /\ conn[c] \in {"new", "readying", "forwarding"} => c \notin pending
      /\ box[c] # None => c \notin pending
    BY DEF RequestTasks, ClaimedOnce, NoLeak, FinishedClosed
<1>4. CASE \E l \in listeners : AcceptPublic(c, l)
    <2> DEFINE cmd == ItemCommand("AcceptedPublic", None, c)
    <2>1. cmd \in Command /\ cmd.op = "AcceptedPublic" /\ cmd.item = c
        BY CommandsTyped DEF ItemCommand
    <2>2. conn[c] = "new"
        BY <1>4 DEF AcceptPublic
    <2>3. \/ commands' = Append(commands, cmd) /\ conn' = [conn EXCEPT ![c] = "queued"]
          \/ commands' = commands /\ conn' = [conn EXCEPT ![c] = "closed"]
        BY <1>4 DEF AcceptPublic, Send, Closed
    <2> HIDE DEF cmd
    <2>4. CASE commands' = Append(commands, cmd) /\ conn' = [conn EXCEPT ![c] = "queued"]
        BY <1>1, <1>2, <1>3, <2>1, <2>2, <2>4, TasksMove DEF ConnState
    <2>5. CASE commands' = commands /\ conn' = [conn EXCEPT ![c] = "closed"]
        BY <1>1, <1>2, <1>3, <2>2, <2>5, TasksMove DEF ConnState
    <2> QED
        BY <2>3, <2>4, <2>5
<1>5. CASE DeadlinePasses(c)
    <2>1. UNCHANGED <<conn, req, registryUp, box, pending, commands>>
        BY <1>5 DEF DeadlinePasses
    <2> QED
        BY <2>1, TasksKept DEF Sends
<1>6. CASE WaitEnds(c) \/ ReadyFails(c) \/ ForwardCancelled(c) \/ ForwardEnds(c)
    <2>1. /\ conn[c] \in {"waiting", "readying", "forwarding"}
          /\ conn' = [conn EXCEPT ![c] = "finishing"] /\ commands' = commands
        BY <1>6 DEF WaitEnds, ReadyFails, ForwardCancelled, ForwardEnds, CloseBoth
    <2> QED
        BY <1>1, <1>2, <2>1, TasksMove DEF ConnState
<1>7. CASE TakeData(c)
    <2>1. /\ conn[c] = "waiting" /\ box[c] # None
          /\ conn' = [conn EXCEPT ![c] = "readying"] /\ commands' = commands
        BY <1>7 DEF TakeData
    <2> QED
        BY <1>1, <1>2, <1>3, <2>1, TasksMove DEF ConnState
<1>8. CASE WriteReady(c)
    <2>1. /\ conn[c] = "readying"
          /\ conn' = [conn EXCEPT ![c] = "forwarding"] /\ commands' = commands
        BY <1>8 DEF WriteReady
    <2> QED
        BY <1>1, <1>2, <1>3, <2>1, TasksMove DEF ConnState
<1>9. CASE ServePublicEnds(c)
    <2> DEFINE cmd == ItemCommand("RequestFinished", req[c].session, c)
    <2>1. /\ cmd \in Command /\ cmd.op = "RequestFinished" /\ cmd.item = c
          /\ cmd.session = req[c].session
        BY CommandsTyped DEF ItemCommand, TypeOK, Request
    <2>2. conn[c] = "finishing" /\ conn' = [conn EXCEPT ![c] = "closed"]
        BY <1>9 DEF ServePublicEnds
    <2>3. commands' = Append(commands, cmd) \/ (~registryUp /\ commands' = commands)
        BY <1>9 DEF ServePublicEnds, Send, Closed
    <2> HIDE DEF cmd
    <2>4. CASE commands' = Append(commands, cmd)
        <3>1. cmd \in Queued'
            BY <2>1, <2>4, ChannelSent
        <3> QED
            BY <1>1, <1>2, <2>1, <2>2, <2>4, <3>1, TasksMove DEF ConnState
    <2>5. CASE ~registryUp /\ commands' = commands
        <3>1. c \notin pending
            BY <2>5 DEF RequestTasks, PendingUp
        <3> QED
            BY <1>1, <1>2, <2>2, <2>5, <3>1, TasksMove DEF ConnState
    <2> QED
        BY <2>3, <2>4, <2>5
<1> QED
    BY <1>4, <1>5, <1>6, <1>7, <1>8, <1>9 DEF PublicStep, ServePublicStep

\* The other handlers drop requests; a RequestFinished drops its own.
LEMMA TasksRegistry ==
    ASSUME TypeOK, RequestTasks, RegistryStep, ~AcceptedPublic
    PROVE  RequestTasks'
<1>1. CASE Shutdown
    <2>1. /\ pending' = {} /\ commands' = <<>> /\ box' = box
          /\ conn' = [c \in Conn |-> IF conn[c] = "queued" THEN "closed" ELSE conn[c]]
        BY <1>1 DEF Shutdown, shutdown_all
    <2>2. Queued' = {} /\ Sole("AcceptedPublic")'
        BY <2>1, ChannelEmptied
    <2> QED
        BY <2>1, <2>2 DEF RequestTasks, AcceptedQueued, FinishedClosed, ClaimedOnce, NoLeak,
                          PendingUp
<1>2. CASE RequestFinished
    <2> DEFINE k == Head(commands)
    <2>1. /\ commands # <<>> /\ k.op = "RequestFinished" /\ commands' = Tail(commands)
          /\ UNCHANGED <<conn, req, box, registryUp>>
          /\ pending' = pending \ ({k.item} \cap RequestsOf(k.session))
        BY <1>2 DEF RequestFinished, Receive
    <2>2. k \in Queued
        BY <2>1, ChannelTaken
    <2>3. k.session = req[k.item].session
        BY <2>1, <2>2 DEF RequestTasks, FinishedClosed
    <2>4. k.item \notin pending'
        BY <2>1, <2>3 DEF RequestsOf
    <2> QED
        BY <2>1, <2>4, TasksKept
<1>3. CASE Register \/ SessionLost \/ Goodbye \/ PeekData \/ OpenFailed
    <2>1. /\ UNCHANGED <<conn, req, box, registryUp>>
          /\ commands # <<>> /\ Head(commands).op # "RequestFinished"
          /\ commands' = Tail(commands)
        BY <1>3 DEF Register, SessionLost, Goodbye, PeekData, OpenFailed, Receive
    <2>2. pending' \subseteq pending
        BY <1>3 DEF Register, Install, displace, SessionLost, session_lost, Goodbye, goodbye,
                    PeekData, OpenFailed
    <2> QED
        BY <2>1, <2>2, TasksKept
<1>4. CASE ClaimData
    <2> DEFINE d == Head(commands).item
    <2> DEFINE c == dhello[d]
    <2>1. /\ UNCHANGED <<conn, req, registryUp>>
          /\ commands # <<>> /\ Head(commands).op # "RequestFinished"
          /\ commands' = Tail(commands)
          /\ box \in [Conn -> DataConn \cup {None}]
        BY <1>4 DEF ClaimData, Receive, TypeOK
    <2>2. \/ box' = box /\ pending' \subseteq pending
          \/ /\ conn[c] = "waiting" /\ pending' = pending \ {c}
             /\ box' = [box EXCEPT ![c] = d]
        BY <1>4 DEF ClaimData, Consume
    <2> HIDE DEF c, d
    <2>3. /\ pending' \subseteq pending
          /\ \A x \in Conn : box'[x] = box[x] \/ (conn[x] \notin {"new", "queued"} /\ x \notin pending')
        BY <2>1, <2>2
    <2> QED
        BY <2>1, <2>3, TasksKept
<1> QED
    BY <1>1, <1>2, <1>3, <1>4 DEF RegistryStep

\* The step case of RequestTasks, over all steps of the server.
LEMMA TasksNext ==
    ASSUME TypeOK, RequestTasks, [Next]_vars
    PROVE  RequestTasks'
<1>1. CASE RegistryStep
    BY <1>1, TasksRegistry, TasksAccepted
<1>2. ASSUME UNCHANGED <<conn, req, registryUp, box>>, pending' \subseteq pending,
             Sends({"Register", "OpenFailed", "SessionLost", "Goodbye", "Shutdown",
                    "PeekData", "ClaimData"})
      PROVE  RequestTasks'
    BY <1>2, TasksKept
<1>3. CASE Sweep \/ (\E p \in Port : ReservationExpires(p)) \/ (\E l \in listeners : ListenerStops(l))
    BY <1>2, <1>3 DEF Sweep, ReservationExpires, ListenerStops, Sends
<1>4. CASE \E s \in Session : ControlStep(s)
    <2>1. UNCHANGED <<conn, req, registryUp, box, pending>>
        BY <1>4, ControlFrame
    <2>2. Sends({"Register", "OpenFailed", "SessionLost", "Goodbye"})
        BY <1>4, ControlSends
    <2> QED
        BY <1>2, <2>1, <2>2 DEF Sends
<1>5. CASE \E c \in Conn : PublicStep(c)
    BY <1>5, TasksPublic
<1>6. CASE \E d \in DataConn : DataStep(d)
    <2>1. UNCHANGED <<conn, req, registryUp, box, pending>>
        BY <1>6, DataStepFrame
    <2>2. Sends({"PeekData", "ClaimData"})
        BY <1>6, DataSends
    <2> QED
        BY <1>2, <2>1, <2>2 DEF Sends
<1>7. CASE SupervisorStep
    <2>1. UNCHANGED <<conn, req, registryUp, box, pending>>
        BY <1>7, SupervisorStepFrame
    <2>2. Sends({"Shutdown"})
        BY <1>7, SupervisorSends
    <2> QED
        BY <1>2, <2>1, <2>2 DEF Sends
<1>8. CASE UNCHANGED vars
    BY <1>2, <1>8 DEF vars, Sends
<1> QED
    BY <1>1, <1>3, <1>4, <1>5, <1>6, <1>7, <1>8 DEF Next, Idle

\* The invariant behind the next theorem, inductive over TypeOK.
THEOREM TasksInvariant == Spec => []RequestTasks
<1>1. Init => RequestTasks
    BY DEF Init, RequestTasks, AcceptedQueued, FinishedClosed, ClaimedOnce, NoLeak, PendingUp,
           Sole, Queued
<1>2. TypeOK /\ RequestTasks /\ [Next]_vars => RequestTasks'
    BY TasksNext
<1> QED
    BY <1>1, <1>2, TypeCorrect, PTL DEF Spec

\* A pending entry has its task, or the task's RequestFinished is on its way
\* (listener.rs: serve_public; registry.rs: the pending map): no order of
\* deadlines, claims, cancellations and ends leaks an entry.
THEOREM NoLeakedRequestHolds == Spec => []NoLeakedRequest
<1>1. RequestTasks => NoLeakedRequest
    BY DEF RequestTasks, NoLeak, NoLeakedRequest, Queued
<1> QED
    BY <1>1, TasksInvariant, PTL

-----------------------------------------------------------------------------
(* Data sockets *)

\* A claim waits in the channel, once.
ClaimsWaiting ==
    /\ Sole("ClaimData")
    /\ \A k \in Queued : k.op = "ClaimData" => data[k.item] = "claiming"

\* The task of a data connection is over when its socket has been handed on, so
\* the end of the grace period does not abort it any more.
DeliveredDone == \A d \in DataConn : data[d] = "delivered" => d \notin dispatching

\* Paired, and the data socket in the oneshot of a connection that has not taken
\* it yet.
InUse == {"waiting", "readying", "forwarding"}
Pairing ==
    /\ \A d \in DataConn : data[d] = "delivered" =>
          dhello[d] \in Conn /\ box[dhello[d]] = d /\ conn[dhello[d]] \in InUse
    /\ \A c \in Conn : conn[c] \in {"readying", "forwarding"} => box[c] # None
    /\ \A c \in Conn : conn[c] \in InUse /\ box[c] # None =>
          data[box[c]] = "delivered" /\ dhello[box[c]] = c

Delivery == ClaimsWaiting /\ DeliveredDone /\ Pairing

\* A step keeps the pairing when it hands over no socket, touches no socket that
\* was handed over, and starts, takes or drops no connection with a socket.
LEMMA PairingKept ==
    ASSUME TypeOK, Pairing, box' = box,
           \A d \in DataConn : data[d] = "delivered" \/ data'[d] = "delivered" =>
                data'[d] = data[d] /\ dhello'[d] = dhello[d],
           \A c \in Conn :
              \/ conn'[c] = conn[c]
              \/ conn[c] \notin InUse /\ conn'[c] \notin InUse
              \/ conn[c] \notin InUse /\ conn'[c] = "waiting" /\ box[c] = None
              \/ conn[c] \in InUse /\ conn'[c] \in InUse /\ box[c] # None
    PROVE  Pairing'
<1>1. \A c \in Conn : box[c] # None => box[c] \in DataConn
    BY DEF TypeOK
<1>2. \A d \in DataConn : data'[d] = "delivered" =>
        dhello'[d] \in Conn /\ box'[dhello'[d]] = d /\ conn'[dhello'[d]] \in InUse
    BY IdentityAssumption DEF Pairing
<1>3. \A c \in Conn : conn'[c] \in {"readying", "forwarding"} => box'[c] # None
    BY DEF Pairing, InUse
<1>4. \A c \in Conn : conn'[c] \in InUse /\ box'[c] # None =>
        data'[box'[c]] = "delivered" /\ dhello'[box'[c]] = c
    BY <1>1 DEF Pairing
<1> QED
    BY <1>2, <1>3, <1>4 DEF Pairing

\* A step keeps the claims when it touches no claiming connection and sends none.
LEMMA ClaimsKept ==
    ASSUME TypeOK, ClaimsWaiting,
           \A d \in DataConn : data[d] = "claiming" => data'[d] = "claiming",
           \/ Sends({"Register", "OpenFailed", "SessionLost", "Goodbye", "Shutdown",
                     "PeekData", "AcceptedPublic", "RequestFinished"})
           \/ commands # <<>> /\ commands' = Tail(commands)
    PROVE  ClaimsWaiting'
<1>1. \A k \in Queued : k.op = "ClaimData" => data'[k.item] = "claiming"
    BY QueuedItems DEF ClaimsWaiting
<1>2. CASE commands' = commands
    BY <1>1, <1>2, ChannelSame DEF ClaimsWaiting
<1>3. CASE commands # <<>> /\ commands' = Tail(commands)
    BY <1>1, <1>3, ChannelTaken DEF ClaimsWaiting
<1>4. ASSUME NEW cmd \in Command, cmd.op # "ClaimData", commands' = Append(commands, cmd)
      PROVE  ClaimsWaiting'
    <2>1. Queued' = Queued \cup {cmd} /\ Sole("ClaimData")'
        BY <1>4, ChannelSent DEF ClaimsWaiting
    <2> QED
        BY <1>1, <1>4, <2>1 DEF ClaimsWaiting
<1> QED
    BY <1>2, <1>3, <1>4 DEF Sends

\* Steps that concern neither data connections nor the use of sockets.
LEMMA DeliveryKept ==
    ASSUME TypeOK, Delivery, UNCHANGED <<conn, box, data, dhello>>,
           \A d \in DataConn : d \in dispatching' => d \in dispatching,
           \/ Sends({"Register", "OpenFailed", "SessionLost", "Goodbye", "Shutdown",
                     "PeekData", "AcceptedPublic", "RequestFinished"})
           \/ commands # <<>> /\ commands' = Tail(commands)
    PROVE  Delivery'
<1>1. ClaimsWaiting'
    BY ClaimsKept DEF Delivery
<1>2. Pairing'
    BY PairingKept DEF Delivery
<1>3. DeliveredDone'
    BY DEF Delivery, DeliveredDone
<1> QED
    BY <1>1, <1>2, <1>3 DEF Delivery

\* Control connections take and drop their own dispatch permits only.
LEMMA DispatchingControl ==
    ASSUME NEW s \in Session, ControlStep(s)
    PROVE  \A d \in DataConn : d \in dispatching' <=> d \in dispatching
<1>1. s \notin DataConn
    BY IdentityAssumption
<1>2. CASE dispatching' \in {dispatching, dispatching \ {s}, dispatching \cup {s}}
    BY <1>1, <1>2
<1>3. CASE \/ \E h \in Hellos : AcceptControl(s, h)
           \/ RefuseControl(s) \/ HandshakeFails(s) \/ Authenticate(s) \/ TakeoverFlushEnds(s)
           \/ PongDeadline(s) \/ PingTick(s) \/ WriterStep(s)
    BY <1>2, <1>3 DEF AcceptControl, RefuseControl, HandshakeFails, Authenticate,
            TakeoverFlushEnds, PongDeadline, PingTick, WriterStep, WriteFrame, WriteFails,
            CloseAfterFlushed, SendersGone
<1>4. CASE ServeStep(s)
    BY <1>2, <1>4 DEF ServeStep, SendRefusal, SendRegistered, Abandon, Cancelled,
            SendSessionLost, SendGoodbye, GoodbyeReplied, ServeEnds
<1>5. CASE ClientFrameArrives(s)
    BY <1>2, <1>5 DEF ClientFrameArrives, ReceivePing, ReceivePong, ReceiveGoodbye,
            ReceiveError, ReceiveOther, ReceiveOpenFailed
<1> QED
    BY <1>3, <1>4, <1>5 DEF ControlStep

\* A data connection's handshake: a claim is sent once, from the challenge.
LEMMA DeliveryData ==
    ASSUME TypeOK, Delivery, NEW d \in DataConn, DataStep(d)
    PROVE  Delivery'
<1>0. data \in [DataConn -> DataState] /\ dhello \in [DataConn -> Conn \cup {None}]
    BY DEF TypeOK
<1>1. box' = box /\ conn' = conn
    BY DataStepFrame
<1>2. /\ data[d] # "delivered"
      /\ \E x \in DataState \ {"delivered"} : data' = [data EXCEPT ![d] = x]
      /\ \A e \in DataConn : e # d => dhello'[e] = dhello[e]
      /\ \A e \in DataConn : e # d => (e \in dispatching' => e \in dispatching)
    <2>1. CASE \E c \in Conn : AcceptData(d, c)
        BY <1>0, <2>1 DEF AcceptData, DataState
    <2>2. CASE RefuseData(d)
        BY <1>0, <2>2 DEF RefuseData, DataState
    <2>3. CASE SendPeek(d)
        BY <1>0, <2>3 DEF SendPeek, DataState
    <2>4. CASE SendClaim(d)
        BY <1>0, <2>4 DEF SendClaim, DataState
    <2>5. CASE DataFails(d)
        BY <1>0, <2>5 DEF DataFails, DataState
    <2>6. CASE ClaimTimesOut(d)
        <3>1. data' = [data EXCEPT ![d] = "claiming"]
            BY <1>0, <2>6 DEF ClaimTimesOut
        <3> QED
            BY <1>0, <2>6, <3>1 DEF ClaimTimesOut, DataState
    <2> QED
        BY <2>1, <2>2, <2>3, <2>4, <2>5, <2>6 DEF DataStep
<1>3. data'[d] # "delivered" /\ \A e \in DataConn : e # d => data'[e] = data[e]
    BY <1>0, <1>2
<1>4. Pairing'
    BY <1>1, <1>2, <1>3, PairingKept DEF Delivery
<1>5. DeliveredDone'
    BY <1>2, <1>3 DEF Delivery, DeliveredDone
<1>6. ClaimsWaiting'
    <2>1. CASE SendClaim(d) /\ ~Closed
        <3> DEFINE cmd == ItemCommand("ClaimData", None, d)
        <3>1. cmd \in Command /\ cmd.op = "ClaimData" /\ cmd.item = d
            BY CommandsTyped DEF ItemCommand
        <3>2. commands' = Append(commands, cmd) /\ data[d] = "challenged"
              /\ data' = [data EXCEPT ![d] = "claiming"]
            BY <2>1 DEF SendClaim, Send
        <3> HIDE DEF cmd
        <3>3. \A k \in Queued : k.op = "ClaimData" => k.item \in DataConn /\ k.item # d
            BY <3>2, QueuedItems DEF Delivery, ClaimsWaiting
        <3>4. \A k \in Queued : ~Alike(k, cmd)
            BY <3>1, <3>3 DEF Alike
        <3>5. Queued' = Queued \cup {cmd} /\ Sole("ClaimData")'
            BY <3>1, <3>2, <3>4, ChannelSent DEF Delivery, ClaimsWaiting
        <3> QED
            BY <1>0, <3>1, <3>2, <3>3, <3>5 DEF Delivery, ClaimsWaiting
    <2>2. CASE ~SendClaim(d) \/ Closed
        <3>1. \A e \in DataConn : data[e] = "claiming" => data'[e] = "claiming"
            BY <1>0, <1>3, <2>2 DEF DataStep, AcceptData, RefuseData, SendPeek, SendClaim, DataFails,
                             ClaimTimesOut
        <3>2. CASE commands' = commands
            BY <3>1, <3>2, ClaimsKept DEF Delivery, Sends
        <3>3. CASE SendPeek(d) /\ ~Closed
            <4> DEFINE cmd == ItemCommand("PeekData", None, d)
            <4>1. cmd \in Command /\ cmd.op = "PeekData"
                BY CommandsTyped DEF ItemCommand
            <4>2. commands' = Append(commands, cmd)
                BY <3>3 DEF SendPeek, Send
            <4> HIDE DEF cmd
            <4>3. Sends({"Register", "OpenFailed", "SessionLost", "Goodbye", "Shutdown",
                         "PeekData", "AcceptedPublic", "RequestFinished"})
                BY <4>1, <4>2 DEF Sends
            <4> QED
                BY <3>1, <4>3, ClaimsKept DEF Delivery
        <3>4. \/ commands' = commands
              \/ SendPeek(d) /\ ~Closed
            BY <2>2 DEF DataStep, AcceptData, RefuseData, SendPeek, SendClaim, DataFails,
                        ClaimTimesOut, Closed
        <3> QED
            BY <3>2, <3>3, <3>4
    <2> QED
        BY <2>1, <2>2
<1> QED
    BY <1>4, <1>5, <1>6 DEF Delivery

\* A connection's task closes the data socket it holds, and no other.
LEMMA DeliveryClose ==
    ASSUME TypeOK, Delivery, NEW c \in Conn, conn[c] \in InUse, CloseBoth(c),
           UNCHANGED <<box, dhello, commands, dispatching>>
    PROVE  Delivery'
<1>0. /\ data \in [DataConn -> DataState] /\ conn \in [Conn -> ConnState]
      /\ box \in [Conn -> DataConn \cup {None}]
    BY DEF TypeOK
<1>1. /\ conn'[c] = "finishing" /\ \A x \in Conn : x # c => conn'[x] = conn[x]
      /\ \A d \in DataConn : data'[d] = IF d = box[c] THEN "closed" ELSE data[d]
    BY <1>0 DEF CloseBoth
<1>2. \A d \in DataConn : d = box[c] => data[d] = "delivered" /\ dhello[d] = c
    BY IdentityAssumption DEF Delivery, Pairing
<1>3. \A d \in DataConn : data'[d] = "delivered" => data[d] = "delivered" /\ dhello[d] # c
    BY <1>1 DEF Delivery, Pairing
<1>4. ASSUME NEW x \in Conn, conn'[x] \in InUse, box[x] # None
      PROVE  data'[box[x]] = "delivered" /\ dhello[box[x]] = x
    <2>1. x # c /\ conn[x] \in InUse /\ box[x] \in DataConn
        BY <1>0, <1>1, <1>4 DEF InUse
    <2>2. data[box[x]] = "delivered" /\ dhello[box[x]] = x
        BY <1>4, <2>1 DEF Delivery, Pairing
    <2> QED
        BY <1>1, <1>2, <2>1, <2>2
<1>5. Pairing'
    <2>1. \A d \in DataConn : data'[d] = "delivered" =>
            dhello[d] \in Conn /\ box[dhello[d]] = d /\ conn'[dhello[d]] \in InUse
        BY <1>1, <1>3 DEF Delivery, Pairing
    <2>2. \A x \in Conn : conn'[x] \in {"readying", "forwarding"} => box[x] # None
        BY <1>1 DEF Delivery, Pairing
    <2> QED
        BY <1>4, <2>1, <2>2 DEF Pairing
<1>6. ClaimsWaiting'
    <2>1. \A d \in DataConn : data[d] = "claiming" => data'[d] = "claiming"
        BY <1>1, <1>2
    <2> QED
        BY <2>1, ClaimsKept DEF Delivery, Sends
<1>7. DeliveredDone'
    BY <1>3 DEF Delivery, DeliveredDone
<1> QED
    BY <1>5, <1>6, <1>7 DEF Delivery

\* The task of a public connection takes the socket out of its own oneshot, or
\* drops it there, and touches nobody else's (listener.rs: serve_public).
LEMMA DeliveryPublic ==
    ASSUME TypeOK, Delivery, NEW c \in Conn, PublicStep(c)
    PROVE  Delivery'
<1>0. conn \in [Conn -> ConnState]
    BY DEF TypeOK
<1>1. CASE WaitEnds(c) \/ ReadyFails(c) \/ ForwardCancelled(c) \/ ForwardEnds(c)
    <2>1. /\ conn[c] \in InUse /\ CloseBoth(c)
          /\ UNCHANGED <<box, dhello, commands, dispatching>>
        BY <1>1 DEF WaitEnds, ReadyFails, ForwardCancelled, ForwardEnds, InUse
    <2> QED
        BY <2>1, DeliveryClose
<1>2. ASSUME UNCHANGED <<box, data, dhello, dispatching>>,
             Sends({"Register", "OpenFailed", "SessionLost", "Goodbye", "Shutdown",
                    "PeekData", "AcceptedPublic", "RequestFinished"}),
             NEW x \in ConnState, conn' = [conn EXCEPT ![c] = x],
             \/ conn[c] = x
             \/ conn[c] \notin InUse /\ x \notin InUse
             \/ conn[c] \in InUse /\ x \in InUse /\ box[c] # None
      PROVE  Delivery'
    <2>1. conn'[c] = x /\ \A y \in Conn : y # c => conn'[y] = conn[y]
        BY <1>0, <1>2
    <2>2. Pairing'
        BY <1>2, <2>1, PairingKept DEF Delivery
    <2>3. ClaimsWaiting'
        BY <1>2, ClaimsKept DEF Delivery
    <2> QED
        BY <1>2, <2>2, <2>3 DEF Delivery, DeliveredDone
<1>3. CASE TakeData(c)
    <2>1. /\ UNCHANGED <<box, data, dhello, dispatching, commands>>
          /\ conn[c] = "waiting" /\ box[c] # None /\ conn' = [conn EXCEPT ![c] = "readying"]
        BY <1>3 DEF TakeData
    <2> QED
        BY <1>2, <2>1 DEF Sends, InUse, ConnState
<1>4. CASE WriteReady(c)
    <2>1. /\ UNCHANGED <<box, data, dhello, dispatching, commands>>
          /\ conn[c] = "readying" /\ conn' = [conn EXCEPT ![c] = "forwarding"]
        BY <1>4 DEF WriteReady
    <2>2. box[c] # None
        BY <2>1 DEF Delivery, Pairing
    <2> QED
        BY <1>2, <2>1, <2>2 DEF Sends, InUse, ConnState
<1>5. CASE DeadlinePasses(c)
    <2>1. UNCHANGED <<box, data, dhello, dispatching, commands, conn>>
        BY <1>5 DEF DeadlinePasses
    <2> QED
        BY <2>1, DeliveryKept DEF Sends
<1>6. CASE \E l \in listeners : AcceptPublic(c, l)
    <2> DEFINE cmd == ItemCommand("AcceptedPublic", None, c)
    <2>1. cmd \in Command /\ cmd.op = "AcceptedPublic"
        BY CommandsTyped DEF ItemCommand
    <2>2. /\ commands' = Append(commands, cmd) \/ commands' = commands
          /\ UNCHANGED <<box, data, dhello, dispatching>> /\ conn[c] = "new"
          /\ \E x \in {"queued", "closed"} : conn' = [conn EXCEPT ![c] = x]
        BY <1>6 DEF AcceptPublic, Send, Closed
    <2> HIDE DEF cmd
    <2>3. Sends({"Register", "OpenFailed", "SessionLost", "Goodbye", "Shutdown",
                 "PeekData", "AcceptedPublic", "RequestFinished"})
        BY <2>1, <2>2 DEF Sends
    <2> QED
        BY <1>2, <2>2, <2>3 DEF InUse, ConnState
<1>7. CASE ServePublicEnds(c)
    <2> DEFINE cmd == ItemCommand("RequestFinished", req[c].session, c)
    <2>1. cmd \in Command /\ cmd.op = "RequestFinished"
        BY CommandsTyped DEF ItemCommand, TypeOK, Request
    <2>2. /\ commands' = Append(commands, cmd) \/ commands' = commands
          /\ UNCHANGED <<box, data, dhello, dispatching>> /\ conn[c] = "finishing"
          /\ conn' = [conn EXCEPT ![c] = "closed"]
        BY <1>7 DEF ServePublicEnds, Send, Closed
    <2> HIDE DEF cmd
    <2>3. Sends({"Register", "OpenFailed", "SessionLost", "Goodbye", "Shutdown",
                 "PeekData", "AcceptedPublic", "RequestFinished"})
        BY <2>1, <2>2 DEF Sends
    <2> QED
        BY <1>2, <2>2, <2>3 DEF InUse, ConnState
<1> QED
    BY <1>1, <1>3, <1>4, <1>5, <1>6, <1>7 DEF PublicStep, ServePublicStep

\* claim: the entry is consumed with the handover, so no second socket can reach
\* the same connection.
LEMMA DeliveryClaim ==
    ASSUME TypeOK, RequestTasks, Delivery, ClaimData
    PROVE  Delivery'
<1> DEFINE d == Head(commands).item
<1> DEFINE c == dhello[d]
<1>0. /\ data \in [DataConn -> DataState] /\ box \in [Conn -> DataConn \cup {None}]
      /\ pending \subseteq Conn
    BY DEF TypeOK
<1>1. /\ commands # <<>> /\ commands' = Tail(commands) /\ Head(commands).op = "ClaimData"
      /\ UNCHANGED <<conn, dhello>>
    BY DEF ClaimData, Receive
<1>2. /\ Head(commands) \in Queued /\ Queued' \subseteq Queued /\ Sole("ClaimData")'
      /\ \A k \in Queued' : ~Alike(k, Head(commands))
    BY <1>1, ChannelTaken DEF Delivery, ClaimsWaiting
<1>3. d \in DataConn /\ Head(commands).session = None /\ data[d] = "claiming"
    BY <1>1, <1>2, QueuedItems DEF Delivery, ClaimsWaiting
<1>4. /\ dispatching' = dispatching \ {d}
      /\ \/ data' = [data EXCEPT ![d] = "closed"] /\ box' = box
         \/ /\ data' = [data EXCEPT ![d] = "delivered"] /\ box' = [box EXCEPT ![c] = d]
            /\ c \in pending /\ conn[c] = "waiting"
    BY DEF ClaimData, EndData, Claimable
<1>5. \A k \in Queued' : k.op = "ClaimData" => k.item \in DataConn \ {d} /\ data[k.item] = "claiming"
    <2> SUFFICES ASSUME NEW k \in Queued', k.op = "ClaimData"
                 PROVE  k.item \in DataConn \ {d} /\ data[k.item] = "claiming"
        OBVIOUS
    <2>1. k \in Queued /\ k.item \in DataConn /\ k.session = None
        BY <1>2, QueuedItems
    <2> QED
        BY <1>1, <1>2, <1>3, <2>1 DEF Alike, Delivery, ClaimsWaiting
<1> HIDE DEF d, c
<1>6. ClaimsWaiting'
    BY <1>0, <1>2, <1>3, <1>4, <1>5 DEF ClaimsWaiting
<1>7. DeliveredDone'
    BY <1>0, <1>3, <1>4 DEF Delivery, DeliveredDone
<1>8. Pairing'
    <2>1. CASE data' = [data EXCEPT ![d] = "closed"] /\ box' = box
        BY <1>0, <1>1, <1>3, <2>1, PairingKept DEF Delivery
    <2>2. CASE /\ data' = [data EXCEPT ![d] = "delivered"] /\ box' = [box EXCEPT ![c] = d]
               /\ c \in pending /\ conn[c] = "waiting"
        <3>1. c \in Conn /\ box[c] = None /\ dhello[d] = c /\ d # None
            BY <1>0, <1>3, <2>2, IdentityAssumption DEF RequestTasks, ClaimedOnce, c
        <3>2. /\ data'[d] = "delivered" /\ \A e \in DataConn : e # d => data'[e] = data[e]
              /\ box'[c] = d /\ \A x \in Conn : x # c => box'[x] = box[x]
            BY <1>0, <1>3, <2>2, <3>1
        <3>3. \A e \in DataConn : data[e] = "delivered" => dhello[e] # c
            BY <3>1, IdentityAssumption DEF Delivery, Pairing
        <3>4. \A e \in DataConn : data'[e] = "delivered" =>
                dhello[e] \in Conn /\ box'[dhello[e]] = e /\ conn[dhello[e]] \in InUse
            BY <2>2, <3>1, <3>2, <3>3 DEF Delivery, Pairing, InUse
        <3>5. \A x \in Conn : conn[x] \in {"readying", "forwarding"} => box'[x] # None
            BY <3>1, <3>2 DEF Delivery, Pairing
        <3>6. \A x \in Conn : conn[x] \in InUse /\ box'[x] # None =>
                data'[box'[x]] = "delivered" /\ dhello[box'[x]] = x
            BY <1>0, <3>1, <3>2 DEF Delivery, Pairing
        <3> QED
            BY <1>1, <3>4, <3>5, <3>6 DEF Pairing
    <2> QED
        BY <1>4, <2>1, <2>2
<1> QED
    BY <1>6, <1>7, <1>8 DEF Delivery

\* The other handlers hand over nothing.
LEMMA DeliveryRegistry ==
    ASSUME TypeOK, RequestTasks, Delivery, RegistryStep
    PROVE  Delivery'
<1>0. data \in [DataConn -> DataState] /\ conn \in [Conn -> ConnState]
    BY DEF TypeOK
<1>1. CASE ClaimData
    BY <1>1, DeliveryClaim
<1>2. CASE Register \/ SessionLost \/ Goodbye \/ OpenFailed \/ RequestFinished
    <2>1. /\ UNCHANGED <<conn, box, data, dhello, dispatching>>
          /\ commands # <<>> /\ commands' = Tail(commands)
        BY <1>2 DEF Register, SessionLost, Goodbye, OpenFailed, RequestFinished, Receive
    <2> QED
        BY <2>1, DeliveryKept
<1>3. CASE AcceptedPublic
    <2> DEFINE c == Head(commands).item
    <2>1. /\ UNCHANGED <<box, data, dhello, dispatching>>
          /\ commands # <<>> /\ commands' = Tail(commands) /\ Head(commands).op = "AcceptedPublic"
          /\ \E x \in {"closed", "waiting"} : conn' = [conn EXCEPT ![c] = x]
        BY <1>3 DEF AcceptedPublic, Receive, Reject, FailSession, OpenRequest
    <2>2. Head(commands) \in Queued
        BY <2>1, ChannelTaken
    <2>3. c \in Conn /\ conn[c] = "queued" /\ box[c] = None
        BY <2>1, <2>2, QueuedItems DEF RequestTasks, AcceptedQueued, ClaimedOnce
    <2> HIDE DEF c
    <2>4. conn'[c] \in {"closed", "waiting"} /\ \A y \in Conn : y # c => conn'[y] = conn[y]
        BY <1>0, <2>1, <2>3
    <2>5. Pairing'
        BY <2>1, <2>3, <2>4, PairingKept DEF Delivery, InUse
    <2>6. ClaimsWaiting'
        BY <2>1, ClaimsKept DEF Delivery
    <2> QED
        BY <2>1, <2>5, <2>6 DEF Delivery, DeliveredDone
<1>4. CASE PeekData
    <2> DEFINE d == Head(commands).item
    <2>1. /\ UNCHANGED <<conn, box, dhello>>
          /\ commands # <<>> /\ commands' = Tail(commands)
          /\ \/ UNCHANGED <<data, dispatching>>
             \/ /\ data[d] = "peeking" /\ dispatching' \subseteq dispatching
                /\ \E x \in {"challenged", "closed"} : data' = [data EXCEPT ![d] = x]
        BY <1>4 DEF PeekData, Receive, EndData
    <2> HIDE DEF d
    <2>2. \A e \in DataConn :
            \/ data'[e] = data[e]
            \/ data[e] = "peeking" /\ data'[e] \in {"challenged", "closed"}
        BY <1>0, <2>1
    <2>3. Pairing'
        BY <2>1, <2>2, PairingKept DEF Delivery
    <2>4. ClaimsWaiting'
        BY <2>1, <2>2, ClaimsKept DEF Delivery
    <2> QED
        BY <2>1, <2>2, <2>3, <2>4 DEF Delivery, DeliveredDone
<1>5. CASE Shutdown
    <2>1. /\ UNCHANGED <<box, dhello>> /\ commands' = <<>> /\ dispatching' \subseteq dispatching
          /\ conn' = [c \in Conn |-> IF conn[c] = "queued" THEN "closed" ELSE conn[c]]
          /\ data' = [d \in DataConn |->
                        IF data[d] \in {"peeking", "claiming"} THEN "closed" ELSE data[d]]
        BY <1>5 DEF Shutdown
    <2>2. Pairing'
        BY <2>1, PairingKept DEF Delivery, InUse
    <2>3. ClaimsWaiting'
        BY <2>1, ChannelEmptied DEF ClaimsWaiting
    <2> QED
        BY <2>1, <2>2, <2>3 DEF Delivery, DeliveredDone
<1> QED
    BY <1>1, <1>2, <1>3, <1>4, <1>5 DEF RegistryStep

\* The step case of Delivery, over all steps of the server.
LEMMA DeliveryNext ==
    ASSUME TypeOK, RegistryStopped, RequestTasks, Delivery, [Next]_vars
    PROVE  Delivery'
<1>0. ASSUME UNCHANGED <<conn, box, data, dhello, dispatching, commands>>
      PROVE  Delivery'
    BY <1>0, DeliveryKept DEF Sends
<1>1. CASE RegistryStep
    BY <1>1, DeliveryRegistry
<1>2. CASE Sweep \/ (\E p \in Port : ReservationExpires(p)) \/ (\E l \in listeners : ListenerStops(l))
    BY <1>0, <1>2 DEF Sweep, ReservationExpires, ListenerStops
<1>3. CASE \E s \in Session : ControlStep(s)
    <2>1. UNCHANGED <<conn, box, data, dhello>>
        BY <1>3, ControlFrame
    <2>2. \A d \in DataConn : d \in dispatching' => d \in dispatching
        BY <1>3, DispatchingControl
    <2>3. Sends({"Register", "OpenFailed", "SessionLost", "Goodbye"})
        BY <1>3, ControlSends
    <2>4. Sends({"Register", "OpenFailed", "SessionLost", "Goodbye", "Shutdown",
                 "PeekData", "AcceptedPublic", "RequestFinished"})
        BY <2>3 DEF Sends
    <2> QED
        BY <2>1, <2>2, <2>4, DeliveryKept
<1>4. CASE \E c \in Conn : PublicStep(c)
    BY <1>4, DeliveryPublic
<1>5. CASE \E d \in DataConn : DataStep(d)
    BY <1>5, DeliveryData
<1>6. CASE Stop \/ SendShutdown \/ TasksJoined
    <2>1. UNCHANGED <<conn, box, data, dhello, dispatching>>
        BY <1>6 DEF Stop, SendShutdown, TasksJoined
    <2>2. Sends({"Shutdown"})
        BY <1>6, SupervisorSends DEF SupervisorStep
    <2>3. Sends({"Register", "OpenFailed", "SessionLost", "Goodbye", "Shutdown",
                 "PeekData", "AcceptedPublic", "RequestFinished"})
        BY <2>2 DEF Sends
    <2> QED
        BY <2>1, <2>3, DeliveryKept
<1>7. CASE GraceElapses
    <2>1. /\ UNCHANGED <<conn, box, dhello, commands>> /\ commands = <<>> /\ dispatching' = {}
          /\ data' = [d \in DataConn |-> IF d \in dispatching THEN "closed" ELSE data[d]]
        BY <1>7 DEF GraceElapses, RegistryStopped
    <2>2. Pairing'
        BY <2>1, PairingKept DEF Delivery, DeliveredDone
    <2>3. ClaimsWaiting'
        BY <2>1, ChannelEmptied DEF ClaimsWaiting
    <2> QED
        BY <2>1, <2>2, <2>3 DEF Delivery, DeliveredDone
<1>8. CASE UNCHANGED vars
    BY <1>0, <1>8 DEF vars
<1> QED
    BY <1>1, <1>2, <1>3, <1>4, <1>5, <1>6, <1>7, <1>8 DEF Next, Idle, SupervisorStep

\* The invariant behind the next theorem, inductive over RequestTasks and Ownership.
THEOREM DeliveryInvariant == Spec => []Delivery
<1>1. Init => Delivery
    BY DEF Init, Delivery, ClaimsWaiting, DeliveredDone, Pairing, InUse, Sole, Queued
<1>2. Ownership /\ RequestTasks /\ Delivery /\ [Next]_vars => Delivery'
    BY DeliveryNext DEF Ownership
<1> QED
    BY <1>1, <1>2, OwnershipInvariant, TasksInvariant, PTL DEF Spec

\* "A request is consumed at most once" (docs/protocol.md): a data socket that was
\* handed over is held by the task whose request it named, and a forwarding
\* task has one (registry.rs: claim; listener.rs: serve_public; data.rs).
THEOREM PairedHolds == Spec => []Paired
<1>1. TypeOK /\ Delivery => Paired
    BY DEF Delivery, Pairing, Paired, InUse
<1> QED
    BY <1>1, TypeCorrect, DeliveryInvariant, PTL

-----------------------------------------------------------------------------
(* The semaphores *)

\* The connections that hold a permit of the tunnel of s.
ServedBy(s) == {c \in Served : req[c].session = s}

\* The counts of PermitsConserved; a served connection knows its session, so the
\* permit it gives back goes to the semaphore it came from.
Semaphores ==
    /\ IsFiniteSet(Served)
    /\ \A c \in Served : req[c].session \in Session
    /\ global_connections = MAX_GLOBAL_CONNECTIONS - Cardinality(Served)
    /\ \A s \in Session : permits[s] = max_connections - Cardinality(ServedBy(s))

\* The counts depend on the served connections and their requests only.
LEMMA SemaphoresKept ==
    ASSUME Semaphores, UNCHANGED <<req, global_connections, permits>>, Served' = Served
    PROVE  Semaphores'
<1>1. \A s \in Session : ServedBy(s)' = ServedBy(s)
    BY DEF ServedBy
<1> QED
    BY <1>1 DEF Semaphores

\* A connection's task moves between states that hold its permits, or that do not.
LEMMA SemaphoresMove ==
    ASSUME TypeOK, Semaphores, UNCHANGED <<req, global_connections, permits>>,
           NEW c \in Conn, NEW x, conn' = [conn EXCEPT ![c] = x],
           c \in Served <=> x \in {"waiting", "readying", "forwarding", "finishing"}
    PROVE  Semaphores'
<1>1. conn'[c] = x /\ \A y \in Conn : y # c => conn'[y] = conn[y]
    BY DEF TypeOK
<1>2. Served' = Served
    BY <1>1 DEF Served
<1> QED
    BY <1>2, SemaphoresKept

\* accepted_public takes one permit of each semaphore for the request it opens.
LEMMA SemaphoresTaken ==
    ASSUME TypeOK, Semaphores, NEW c \in Conn, NEW s \in Session, conn[c] = "queued",
           conn' = [conn EXCEPT ![c] = "waiting"],
           \E g : req' = [req EXCEPT ![c] = [session |-> s, generation |-> g]],
           permits' = [permits EXCEPT ![s] = @ - 1],
           global_connections' = global_connections - 1
    PROVE  Semaphores'
<1>0. conn \in [Conn -> ConnState] /\ req \in [Conn -> Request] /\ permits \in [Session -> Nat]
    BY DEF TypeOK
<1>1. /\ conn'[c] = "waiting" /\ req'[c].session = s
      /\ \A y \in Conn : y # c => conn'[y] = conn[y] /\ req'[y] = req[y]
    BY <1>0
<1>2. c \notin Served /\ Served' = Served \cup {c}
    BY <1>1 DEF Served
<1>3. Cardinality(Served) \in Nat /\ IsFiniteSet(Served') /\ Cardinality(Served') = Cardinality(Served) + 1
    BY <1>2, FS_AddElement, FS_CardinalityType DEF Semaphores
<1>4. Served \subseteq Conn
    BY DEF Served
<1>5. /\ ServedBy(s)' = ServedBy(s) \cup {c} /\ c \notin ServedBy(s)
      /\ \A r \in Session : r # s => ServedBy(r)' = ServedBy(r)
    BY <1>1, <1>2, <1>4 DEF ServedBy
<1>6. \A r \in Session : IsFiniteSet(ServedBy(r))
    BY FS_Subset DEF Semaphores, ServedBy
<1>7. /\ Cardinality(ServedBy(s)) \in Nat
      /\ Cardinality(ServedBy(s)') = Cardinality(ServedBy(s)) + 1
    BY <1>5, <1>6, FS_AddElement, FS_CardinalityType
<1>8. permits'[s] = permits[s] - 1 /\ \A r \in Session : r # s => permits'[r] = permits[r]
    BY <1>0
<1>9. global_connections' = MAX_GLOBAL_CONNECTIONS - Cardinality(Served')
    BY <1>3, LimitAssumption DEF Semaphores
<1>10. permits'[s] = max_connections - Cardinality(ServedBy(s)')
    BY <1>7, <1>8, LimitAssumption DEF Semaphores
<1>11. \A r \in Session : permits'[r] = max_connections - Cardinality(ServedBy(r)')
    BY <1>5, <1>8, <1>10 DEF Semaphores
<1>12. \A y \in Served' : req'[y].session \in Session
    BY <1>1, <1>2, <1>4 DEF Semaphores
<1> QED
    BY <1>3, <1>9, <1>11, <1>12 DEF Semaphores

\* serve_public gives one permit back to each of the semaphores it took it from.
LEMMA SemaphoresReleased ==
    ASSUME TypeOK, Semaphores, NEW c \in Conn, conn[c] = "finishing",
           conn' = [conn EXCEPT ![c] = "closed"], ReleasePermits(c), req' = req
    PROVE  Semaphores'
<1>0. conn \in [Conn -> ConnState] /\ permits \in [Session -> Nat]
    BY DEF TypeOK
<1>1. conn'[c] = "closed" /\ \A y \in Conn : y # c => conn'[y] = conn[y]
    BY <1>0
<1>2. c \in Served /\ Served' = Served \ {c}
    BY <1>1 DEF Served
<1>3. PICK s \in Session : s = req[c].session
    BY <1>2 DEF Semaphores
<1>4. Cardinality(Served) \in Nat /\ IsFiniteSet(Served') /\ Cardinality(Served') = Cardinality(Served) - 1
    BY <1>2, FS_RemoveElement, FS_CardinalityType DEF Semaphores
<1>5. /\ ServedBy(s)' = ServedBy(s) \ {c} /\ c \in ServedBy(s)
      /\ \A r \in Session : r # s => ServedBy(r)' = ServedBy(r)
    BY <1>2, <1>3 DEF ServedBy
<1>6. \A r \in Session : IsFiniteSet(ServedBy(r))
    BY FS_Subset DEF Semaphores, ServedBy
<1>7. /\ Cardinality(ServedBy(s)) \in Nat
      /\ Cardinality(ServedBy(s)') = Cardinality(ServedBy(s)) - 1
    BY <1>5, <1>6, FS_RemoveElement, FS_CardinalityType
<1>8. /\ permits'[s] = permits[s] + 1 /\ \A r \in Session : r # s => permits'[r] = permits[r]
      /\ global_connections' = global_connections + 1
    BY <1>0, <1>3 DEF ReleasePermits
<1>9. global_connections' = MAX_GLOBAL_CONNECTIONS - Cardinality(Served')
    BY <1>4, <1>8, LimitAssumption DEF Semaphores
<1>10. permits'[s] = max_connections - Cardinality(ServedBy(s)')
    BY <1>7, <1>8, LimitAssumption DEF Semaphores
<1>11. \A r \in Session : permits'[r] = max_connections - Cardinality(ServedBy(r)')
    BY <1>5, <1>8, <1>10 DEF Semaphores
<1>12. \A y \in Served' : req'[y].session \in Session
    BY <1>2 DEF Semaphores
<1> QED
    BY <1>4, <1>9, <1>11, <1>12 DEF Semaphores

\* The steps of a public connection: only the last one gives permits back.
LEMMA SemaphoresPublic ==
    ASSUME TypeOK, Semaphores, NEW c \in Conn, PublicStep(c)
    PROVE  Semaphores'
<1>1. CASE ServePublicEnds(c)
    BY <1>1, SemaphoresReleased DEF ServePublicEnds
<1>2. CASE DeadlinePasses(c)
    BY <1>2, SemaphoresKept DEF DeadlinePasses, Served
<1>3. CASE \E l \in listeners : AcceptPublic(c, l)
    <2>1. /\ conn[c] = "new" /\ UNCHANGED <<req, global_connections, permits>>
          /\ \E x \in {"queued", "closed"} : conn' = [conn EXCEPT ![c] = x]
        BY <1>3 DEF AcceptPublic
    <2>2. c \notin Served
        BY <2>1 DEF Served
    <2> QED
        BY <2>1, <2>2, SemaphoresMove
<1>4. CASE ServePublicStep(c) \/ ForwardEnds(c)
    <2>1. /\ conn[c] \in InUse /\ UNCHANGED <<req, global_connections, permits>>
          /\ \E x \in {"readying", "forwarding", "finishing"} : conn' = [conn EXCEPT ![c] = x]
        BY <1>4 DEF ServePublicStep, WaitEnds, TakeData, WriteReady, ReadyFails,
                    ForwardCancelled, ForwardEnds, CloseBoth, InUse
    <2>2. c \in Served
        BY <2>1 DEF Served, InUse
    <2> QED
        BY <2>1, <2>2, SemaphoresMove
<1> QED
    BY <1>1, <1>2, <1>3, <1>4 DEF PublicStep

\* accepted_public: refused and failed connections take no permit.
LEMMA SemaphoresAccepted ==
    ASSUME TypeOK, RequestTasks, Semaphores, AcceptedPublic
    PROVE  Semaphores'
<1>1. commands # <<>> /\ Head(commands).op = "AcceptedPublic" /\ commands' = Tail(commands)
    BY DEF AcceptedPublic, Receive
<1>2. Head(commands) \in Queued
    BY <1>1, ChannelTaken
<1>3. PICK c \in Conn : c = Head(commands).item
    BY <1>1, <1>2, QueuedItems
<1>4. conn[c] = "queued" /\ c \notin Served
    BY <1>1, <1>2, <1>3 DEF RequestTasks, AcceptedQueued, Served
<1>5. CASE Reject(c) \/ FailSession(c, ports[via[c].port].session)
    <2>1. UNCHANGED <<req, global_connections, permits>> /\ conn' = [conn EXCEPT ![c] = "closed"]
        BY <1>5 DEF Reject, FailSession
    <2> QED
        BY <1>4, <2>1, SemaphoresMove
<1>6. CASE Admitted(c) /\ OpenRequest(c, ports[via[c].port].session)
    <2>1. via[c].port \in Port /\ ports[via[c].port].state = "Active"
        BY <1>6 DEF Admitted, Slots
    <2>2. PICK s \in Session : s = ports[via[c].port].session
        BY <2>1 DEF TypeOK, PortSlot
    <2>3. /\ conn' = [conn EXCEPT ![c] = "waiting"]
          /\ \E g : req' = [req EXCEPT ![c] = [session |-> s, generation |-> g]]
          /\ permits' = [permits EXCEPT ![s] = @ - 1]
          /\ global_connections' = global_connections - 1
        BY <1>6, <2>2 DEF OpenRequest
    <2> QED
        BY <1>4, <2>3, SemaphoresTaken
<1> QED
    BY <1>3, <1>5, <1>6 DEF AcceptedPublic

\* Every step keeps the counts.
LEMMA SemaphoresNext ==
    ASSUME TypeOK, RequestTasks, Semaphores, [Next]_vars
    PROVE  Semaphores'
<1>0. ASSUME UNCHANGED <<conn, req, global_connections, permits>>
      PROVE  Semaphores'
    BY <1>0, SemaphoresKept DEF Served
<1>1. CASE AcceptedPublic
    BY <1>1, SemaphoresAccepted
<1>2. CASE \/ Register \/ SessionLost \/ Goodbye \/ PeekData \/ ClaimData \/ OpenFailed
           \/ RequestFinished \/ Sweep \/ (\E p \in Port : ReservationExpires(p))
           \/ \E l \in listeners : ListenerStops(l)
    BY <1>0, <1>2 DEF Register, SessionLost, Goodbye, PeekData, ClaimData, OpenFailed,
            RequestFinished, Sweep, ReservationExpires, ListenerStops
<1>3. CASE Shutdown
    <2>1. /\ UNCHANGED <<req, global_connections, permits>>
          /\ conn' = [c \in Conn |-> IF conn[c] = "queued" THEN "closed" ELSE conn[c]]
        BY <1>3 DEF Shutdown
    <2>2. Served' = Served
        BY <2>1 DEF Served
    <2> QED
        BY <2>1, <2>2, SemaphoresKept
<1>4. CASE \E s \in Session : ControlStep(s)
    BY <1>0, <1>4, ControlFrame
<1>5. CASE \E c \in Conn : PublicStep(c)
    BY <1>5, SemaphoresPublic
<1>6. CASE \E d \in DataConn : DataStep(d)
    BY <1>0, <1>6, DataStepFrame
<1>7. CASE SupervisorStep
    BY <1>0, <1>7, SupervisorStepFrame
<1>8. CASE UNCHANGED vars
    BY <1>0, <1>8 DEF vars
<1> QED
    BY <1>1, <1>2, <1>3, <1>4, <1>5, <1>6, <1>7, <1>8 DEF Next, RegistryStep, Idle

-----------------------------------------------------------------------------
(* The dispatch permits *)

\* PermitsConserved, one connection at a time.
Holding(s) == s \in dispatching <=> phase[s] \notin {"new", "ended"}
HoldingData(d) ==
    /\ data[d] \in {"handshake", "peeking", "challenged"} => d \in dispatching
    /\ d \in dispatching => data[d] \notin {"new", "delivered", "closed"}
Dispatched ==
    /\ \A s \in Session : Holding(s)
    /\ \A d \in DataConn : HoldingData(d)

\* A control connection takes its permit with its first step and drops it with
\* its last, and leaves the permits of the others alone.
LEMMA PermitControl ==
    ASSUME TypeOK, NEW s \in Session, Holding(s), ControlStep(s)
    PROVE  /\ Holding(s)'
           /\ \A x : x # s => (x \in dispatching' <=> x \in dispatching)
           /\ \A r \in Session : r # s => phase'[r] = phase[r]
<1> DEFINE Going == {"handshake", "registering", "granted", "denied", "running", "lost",
                     "parting", "goodbye", "teardown", "draining", "abandoned"}
<1> DEFINE Local ==
        /\ Holding(s)'
        /\ \A x : x # s => (x \in dispatching' <=> x \in dispatching)
        /\ \A r \in Session : r # s => phase'[r] = phase[r]
<1> SUFFICES Local
    OBVIOUS
<1>0. phase \in [Session -> ControlPhase]
    BY DEF TypeOK
<1>1. ASSUME dispatching' = dispatching,
             \/ phase' = phase
             \/ \E x \in Going : phase' = [phase EXCEPT ![s] = x] /\ phase[s] \in Going
      PROVE  Local
    BY <1>0, <1>1 DEF Holding
<1>2. ASSUME dispatching' = dispatching \ {s}, EndServe({s})
      PROVE  Local
    BY <1>2 DEF Holding, EndServe
<1>3. CASE \E h \in Hellos : AcceptControl(s, h)
    BY <1>0, <1>3 DEF AcceptControl, Holding
<1>4. CASE RefuseControl(s)
    BY <1>0, <1>4 DEF RefuseControl, Holding
<1>5. CASE HandshakeFails(s) \/ Abandon(s) \/ ServeEnds(s)
    BY <1>2, <1>5 DEF HandshakeFails, Abandon, ServeEnds
<1>6. CASE \/ Authenticate(s) \/ SendRefusal(s) \/ SendRegistered(s) \/ Cancelled(s)
           \/ SendSessionLost(s) \/ SendGoodbye(s) \/ GoodbyeReplied(s)
    BY <1>1, <1>6 DEF Authenticate, SendRefusal, SendRegistered, Cancelled, Break,
            SendSessionLost, SendGoodbye, GoodbyeReplied, Teardown
<1>7. CASE PongDeadline(s) \/ PingTick(s) \/ WriterStep(s) \/ TakeoverFlushEnds(s)
    BY <1>1, <1>7 DEF PongDeadline, PingTick, Listening, Break, Continue, WriterStep,
            WriteFrame, WriteFails, CloseAfterFlushed, SendersGone, TakeoverFlushEnds
<1>8. CASE ClientFrameArrives(s)
    BY <1>1, <1>8 DEF ClientFrameArrives, ReceivePing, ReceivePong, ReceiveGoodbye,
            ReceiveError, ReceiveOther, ReceiveOpenFailed, Listening, Break, BreakClean,
            Continue
<1> QED
    BY <1>3, <1>4, <1>5, <1>6, <1>7, <1>8 DEF ControlStep, ServeStep

\* A data connection's task holds its permit up to the answer to its claim, or
\* until its handshake times out.
LEMMA PermitData ==
    ASSUME TypeOK, NEW d \in DataConn, HoldingData(d), DataStep(d)
    PROVE  /\ HoldingData(d)'
           /\ \A x : x # d => (x \in dispatching' <=> x \in dispatching)
           /\ \A e \in DataConn : e # d => data'[e] = data[e]
<1>0. data \in [DataConn -> DataState]
    BY DEF TypeOK
<1>1. CASE (\E c \in Conn : AcceptData(d, c)) \/ RefuseData(d)
    BY <1>0, <1>1 DEF AcceptData, RefuseData, HoldingData
<1>2. CASE SendPeek(d) \/ SendClaim(d)
    BY <1>0, <1>2 DEF SendPeek, SendClaim, HoldingData
<1>3. CASE DataFails(d) \/ ClaimTimesOut(d)
    BY <1>0, <1>3 DEF DataFails, ClaimTimesOut, HoldingData
<1> QED
    BY <1>1, <1>2, <1>3 DEF DataStep

\* A task of a public connection closes a data socket whose own task is over.
LEMMA PermitPublic ==
    ASSUME TypeOK, Delivery, Dispatched, NEW c \in Conn, PublicStep(c)
    PROVE  Dispatched'
<1>1. dispatching' = dispatching /\ phase' = phase
    BY PublicStepFrame DEF PublicStep, AcceptPublic, DeadlinePasses, ServePublicStep, WaitEnds,
       TakeData, WriteReady, ReadyFails, ForwardCancelled, ForwardEnds, ServePublicEnds
<1>2. CASE WaitEnds(c) \/ ReadyFails(c) \/ ForwardCancelled(c) \/ ForwardEnds(c)
    <2>1. conn[c] \in InUse /\ CloseBoth(c)
        BY <1>2 DEF WaitEnds, ReadyFails, ForwardCancelled, ForwardEnds, InUse
    <2>2. \A d \in DataConn : d = box[c] => d \notin dispatching
        BY <2>1, IdentityAssumption DEF Delivery, Pairing, DeliveredDone
    <2>3. \A d \in DataConn : HoldingData(d)'
        BY <1>1, <2>1, <2>2 DEF Dispatched, HoldingData, CloseBoth
    <2> QED
        BY <1>1, <2>3 DEF Dispatched, Holding
<1>3. CASE \/ (\E l \in listeners : AcceptPublic(c, l)) \/ DeadlinePasses(c)
           \/ TakeData(c) \/ WriteReady(c) \/ ServePublicEnds(c)
    <2>1. data' = data
        BY <1>3 DEF AcceptPublic, DeadlinePasses, TakeData, WriteReady, ServePublicEnds
    <2> QED
        BY <1>1, <2>1 DEF Dispatched, Holding, HoldingData
<1> QED
    BY <1>2, <1>3 DEF PublicStep, ServePublicStep

\* The registry's answers: a registration and a goodbye go on, a data connection
\* goes on after a good peek and is over otherwise.
LEMMA PermitRegistry ==
    ASSUME TypeOK, RegistersOnce, Delivery, Dispatched, RegistryStep
    PROVE  Dispatched'
<1>0. phase \in [Session -> ControlPhase] /\ data \in [DataConn -> DataState]
    BY DEF TypeOK
<1>1. CASE Register
    <2>1. /\ commands # <<>> /\ Head(commands).op = "Register" /\ UNCHANGED <<data, dispatching>>
          /\ \E x \in {"granted", "denied"} :
                phase' = [phase EXCEPT ![Head(commands).session] = x]
        BY <1>1 DEF Register, Receive
    <2>2. /\ Head(commands) = commands[1] /\ Len(commands) \in Nat /\ Len(commands) > 0
          /\ Head(commands).session \in Session
        BY <2>1, HeadCommand DEF TypeOK, Command
    <2>3. phase[Head(commands).session] = "registering"
        BY <2>1, <2>2 DEF RegistersOnce
    <2> QED
        BY <1>0, <2>1, <2>2, <2>3 DEF Dispatched, Holding, HoldingData
<1>2. CASE Goodbye
    <2>1. /\ UNCHANGED <<data, dispatching>>
          /\ phase' = [phase EXCEPT ![Head(commands).session] =
                          IF @ = "goodbye" THEN "teardown" ELSE @]
        BY <1>2 DEF Goodbye
    <2>2. \A s \in Session :
            phase'[s] = phase[s] \/ (phase[s] = "goodbye" /\ phase'[s] = "teardown")
        BY <1>0, <2>1
    <2> QED
        BY <2>1, <2>2 DEF Dispatched, Holding, HoldingData
<1>3. CASE SessionLost \/ AcceptedPublic \/ OpenFailed \/ RequestFinished
    <2>1. UNCHANGED <<phase, data, dispatching>>
        BY <1>3 DEF SessionLost, AcceptedPublic, OpenFailed, RequestFinished
    <2> QED
        BY <2>1 DEF Dispatched, Holding, HoldingData
<1>4. CASE PeekData \/ ClaimData
    <2>1. commands # <<>> /\ Head(commands).op \in {"PeekData", "ClaimData"} /\ phase' = phase
          /\ commands' = Tail(commands)
        BY <1>4 DEF PeekData, ClaimData, Receive
    <2>2. Head(commands) \in Queued
        BY <2>1, ChannelTaken
    <2>3. PICK d \in DataConn : d = Head(commands).item
        BY <2>1, <2>2, QueuedType DEF Command
    <2>4. \/ UNCHANGED <<data, dispatching>>
          \/ /\ data[d] = "peeking" /\ dispatching' = dispatching
             /\ data' = [data EXCEPT ![d] = "challenged"]
          \/ /\ \E x \in {"closed", "delivered"} : data' = [data EXCEPT ![d] = x]
             /\ dispatching' = dispatching \ {d}
        BY <1>4, <2>3 DEF PeekData, ClaimData, EndData
    <2>5. \A e \in DataConn : HoldingData(e)'
        BY <1>0, <2>4 DEF Dispatched, HoldingData
    <2>6. \A s \in Session : Holding(s)'
        BY <2>1, <2>4, IdentityAssumption DEF Dispatched, Holding
    <2> QED
        BY <2>5, <2>6 DEF Dispatched
<1>5. CASE Shutdown
    <2>1. \A s \in Session : phase'[s] = CASE phase[s] = "registering" -> "denied"
                                           [] phase[s] = "goodbye" -> "teardown"
                                           [] OTHER -> phase[s]
        BY <1>5 DEF Shutdown
    <2>2. /\ data' = [d \in DataConn |->
                        IF data[d] \in {"peeking", "claiming"} THEN "closed" ELSE data[d]]
          /\ dispatching' = dispatching \ {d \in DataConn : data[d] \in {"peeking", "claiming"}}
        BY <1>5 DEF Shutdown
    <2>3. \A d \in DataConn : HoldingData(d)'
        BY <2>2 DEF Dispatched, HoldingData
    <2>4. \A s \in Session : Holding(s)'
        BY <2>1, <2>2, IdentityAssumption DEF Dispatched, Holding
    <2> QED
        BY <2>3, <2>4 DEF Dispatched
<1> QED
    BY <1>1, <1>2, <1>3, <1>4, <1>5 DEF RegistryStep

\* Every step keeps the dispatch permits with the running tasks.
LEMMA DispatchedNext ==
    ASSUME TypeOK, RegistersOnce, Delivery, Dispatched, [Next]_vars
    PROVE  Dispatched'
<1>0. ASSUME UNCHANGED <<phase, data, dispatching>>
      PROVE  Dispatched'
    BY <1>0 DEF Dispatched, Holding, HoldingData
<1>1. CASE RegistryStep
    BY <1>1, PermitRegistry
<1>2. CASE \/ Sweep \/ (\E p \in Port : ReservationExpires(p))
           \/ (\E l \in listeners : ListenerStops(l)) \/ Stop \/ SendShutdown \/ TasksJoined
    BY <1>0, <1>2 DEF Sweep, ReservationExpires, ListenerStops, Stop, SendShutdown, TasksJoined
<1>3. ASSUME NEW s \in Session, ControlStep(s)
      PROVE  Dispatched'
    <2>1. /\ Holding(s)'
          /\ \A x : x # s => (x \in dispatching' <=> x \in dispatching)
          /\ \A r \in Session : r # s => phase'[r] = phase[r]
        BY <1>3, PermitControl DEF Dispatched
    <2>2. data' = data /\ s \notin DataConn
        BY <1>3, ControlFrame, IdentityAssumption
    <2> QED
        BY <2>1, <2>2 DEF Dispatched, Holding, HoldingData
<1>4. CASE \E c \in Conn : PublicStep(c)
    BY <1>4, PermitPublic
<1>5. ASSUME NEW d \in DataConn, DataStep(d)
      PROVE  Dispatched'
    <2>1. /\ HoldingData(d)'
          /\ \A x : x # d => (x \in dispatching' <=> x \in dispatching)
          /\ \A e \in DataConn : e # d => data'[e] = data[e]
        BY <1>5, PermitData DEF Dispatched
    <2>2. phase' = phase /\ d \notin Session
        BY <1>5, DataStepFrame, IdentityAssumption
    <2> QED
        BY <2>1, <2>2 DEF Dispatched, Holding, HoldingData
<1>6. CASE GraceElapses
    <2>1. /\ dispatching' = {}
          /\ phase' = [s \in Session |-> IF s \in Session \cap dispatching THEN "ended" ELSE phase[s]]
          /\ data' = [d \in DataConn |-> IF d \in dispatching THEN "closed" ELSE data[d]]
        BY <1>6 DEF GraceElapses, EndServe
    <2> QED
        BY <2>1 DEF Dispatched, Holding, HoldingData
<1>7. CASE UNCHANGED vars
    BY <1>0, <1>7 DEF vars
<1> QED
    BY <1>1, <1>2, <1>3, <1>4, <1>5, <1>6, <1>7 DEF Next, Idle, SupervisorStep

-----------------------------------------------------------------------------
(* The limits hold *)

\* The invariant behind the next theorem.
THEOREM PermitInvariant == Spec => [](Semaphores /\ Dispatched)
<1>1. Init => Semaphores /\ Dispatched
    <2> SUFFICES ASSUME Init PROVE Semaphores /\ Dispatched
        OBVIOUS
    <2>1. Served = {} /\ \A s \in Session : ServedBy(s) = {}
        BY DEF Init, Served, ServedBy
    <2>2. IsFiniteSet(Served) /\ Cardinality(Served) = 0
        BY <2>1, FS_EmptySet
    <2>3. \A s \in Session : Cardinality(ServedBy(s)) = 0
        BY <2>1, FS_EmptySet
    <2>4. Semaphores
        BY <2>1, <2>2, <2>3, LimitAssumption DEF Init, Semaphores
    <2>5. Dispatched
        BY DEF Init, Dispatched, Holding, HoldingData
    <2> QED
        BY <2>4, <2>5
<1>2. /\ Ownership /\ RequestTasks /\ Delivery
      /\ Semaphores /\ Dispatched /\ [Next]_vars
      => Semaphores' /\ Dispatched'
    BY SemaphoresNext, DispatchedNext DEF Ownership
<1> QED
    BY <1>1, <1>2, OwnershipInvariant, TasksInvariant, DeliveryInvariant, PTL DEF Spec

\* Permits are neither lost nor doubled: over any sequence of refusals, failures,
\* cancellations, takeovers and aborts the semaphores are short exactly by the
\* connections being served, and a dispatch permit is held exactly while its
\* task runs (registry.rs: accepted_public; listener.rs: serve_public; mod.rs: run).
THEOREM PermitsConservedHolds == Spec => []PermitsConserved
<1>1. TypeOK /\ Semaphores /\ Dispatched => PermitsConserved
    <2> SUFFICES ASSUME TypeOK, Semaphores, Dispatched PROVE PermitsConserved
        OBVIOUS
    <2>1. dispatching \cap Session = {s \in Session : phase[s] \notin {"new", "ended"}}
        BY DEF Dispatched, Holding
    <2>2. {d \in DataConn : data[d] \in {"handshake", "peeking", "challenged"}} \subseteq dispatching
        BY DEF Dispatched, HoldingData
    <2>3. \A d \in dispatching \cap DataConn : data[d] \notin {"new", "delivered", "closed"}
        BY DEF Dispatched, HoldingData
    <2> QED
        BY <2>1, <2>2, <2>3 DEF PermitsConserved, Semaphores, ServedBy
<1> QED
    BY <1>1, TypeCorrect, PermitInvariant, PTL

=============================================================================
