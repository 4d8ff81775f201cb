---------------------------- MODULE ServerState ----------------------------
(***************************************************************************)
(* The state shared by the tasks of one tunlet server process: the tables   *)
(* of the registry actor, its command channel, the control connections      *)
(* with their outbound queues, the public connections with their requests,  *)
(* and the data connections.  The modules that EXTEND this one hold the     *)
(* actions, one module per source file.                                     *)
(*                                                                          *)
(* Identities.  A Session is one control connection (its session id is      *)
(* drawn by the server, so a connection and its id are one to one); a Conn  *)
(* is one public TCP connection and also the random request id it is given; *)
(* a DataConn is one data connection; an Instance is one client process.    *)
(***************************************************************************)
EXTENDS Integers, Sequences, FiniteSets

CONSTANTS
    Session, Conn, DataConn, Instance,
    None,            \* no session, no connection, no instance
    Port,            \* the public ports, naturals above 0
    ListenPort,      \* config.listen.port()
    AutoPorts,       \* config.allowed_ports
    ForeignPorts,    \* held by another process: bind fails with AddrInUse
    BrokenPorts,     \* bind fails with any other error
    max_connections, \* config.max_connections, per tunnel
    MAX_SLOTS, MAX_GLOBAL_CONNECTIONS, MAX_HANDSHAKES,
    COMMAND_CAPACITY, WRITER_CAPACITY,
    SEQUENCE_MODULUS \* heartbeat numbers wrap here (2^64 in the code)

ASSUME IdentityAssumption ==
    /\ None \notin Session \cup Conn \cup DataConn \cup Instance
    /\ Session \cap DataConn = {}

ASSUME PortAssumption ==
    /\ Port \subseteq Nat \ {0}
    /\ AutoPorts \subseteq Port
    /\ ForeignPorts \subseteq Port
    /\ BrokenPorts \subseteq Port
    /\ ListenPort \in Nat \ {0}

ASSUME LimitAssumption ==
    /\ max_connections \in Nat \ {0}
    /\ MAX_SLOTS \in Nat \ {0}
    /\ MAX_GLOBAL_CONNECTIONS \in Nat \ {0}
    /\ MAX_HANDSHAKES \in Nat \ {0}
    /\ COMMAND_CAPACITY \in Nat \ {0}
    /\ WRITER_CAPACITY \in Nat \ {0, 1}
    /\ SEQUENCE_MODULUS \in Nat \ {0}

VARIABLES
    \* The registry actor (struct Registry).
    ports,              \* port -> slot; a Free slot is an absent map entry
    sessions,           \* session -> its SessionRef; NoRef is an absent entry
    pending,            \* requests with an entry in the pending map
    global_connections, \* permits left in the server-wide semaphore
    permits,            \* session -> permits left in its semaphore
    next_generation, next_listener_id,
    registryUp,         \* the actor runs; otherwise its channel is closed
    commands,           \* the command channel
    \* Public listeners and the tasks of accepted connections.
    listeners,          \* bound sockets with their accept loops
    conn,               \* connection -> where its task is
    via,                \* connection -> listener id and port that accepted it
    req,                \* connection -> session and generation of its request
    late,               \* connections whose request deadline has passed
    box,                \* connection -> data connection put in its oneshot
    \* Control connections.
    phase,              \* session -> where its serve task is
    hello,              \* session -> what its CONTROL_HELLO asked for
    grant,              \* session -> generation of its Registration, 0 without
    assigned,           \* session -> port of its Registration, 0 without
    refusal,            \* session -> error code of its refused registration
    clean,              \* sessions whose session_loop returned true
    outstanding,        \* sessions with an unanswered heartbeat
    sequence,           \* session -> number of its last heartbeat
    writer,             \* session -> outbound queue
    writerUp,           \* sessions whose writer task runs
    wire,               \* session -> REGISTERED and OPEN frames written
    control_cancel, data_cancel,   \* cancelled tokens
    flushing,           \* displaced sessions whose takeover flush is running
    \* Data connections and the supervisor.
    data,               \* data connection -> where its task is
    dhello,             \* data connection -> the request it names
    dispatching,        \* connections whose dispatch task holds a permit
    server              \* the supervisor

ownerVars == <<ports, sessions, next_generation, next_listener_id, registryUp>>
limitVars == <<global_connections, permits>>
publicVars == <<conn, via, req, late, box>>
localVars == <<hello, grant, assigned, refusal, clean, outstanding, sequence>>
controlVars == <<phase, localVars>>
writerVars == <<writer, writerUp, wire>>
cancelVars == <<control_cancel, data_cancel, flushing>>
dataVars == <<data, dhello>>

vars == <<ownerVars, limitVars, pending, commands, listeners, publicVars,
          controlVars, writerVars, cancelVars, dataVars, dispatching, server>>

-----------------------------------------------------------------------------
(* Types *)

Modes == {"Fresh", "Resume"}

\* ControlHello::decode refuses a resume that names no port.
Hello == {h \in [instance: Instance, mode: Modes, port: Port \cup {0, ListenPort}] :
              h.mode = "Resume" => h.port # 0}

NoHello == [instance |-> None, mode |-> "Fresh", port |-> 0]

ErrorCode == {"InvalidPort", "Replaced", "ServerBusy", "PortUnavailable",
              "NoPortAvailable", "InternalError", "ProtocolError"}

\* A control connection without a refusal is told apart from a refused one.
ASSUME RefusalAssumption == None \notin ErrorCode

\* Outbound: the frames a server sends on a control connection, and the
\* CloseAfterFlush marker.  arg is the request of an Open, the code of an Error;
\* num is the number of a Ping or Pong, the port of a Registered.
FrameType == {"Registered", "Open", "Ping", "Pong", "GoodbyeAck",
              "ServerShutdown", "Error", "CloseAfterFlush"}
Sequence == 0 .. SEQUENCE_MODULUS - 1
Outbound == [ty: FrameType, arg: Conn \cup ErrorCode \cup {None}, num: Nat]

Frame(ty) == [ty |-> ty, arg |-> None, num |-> 0]
NumberFrame(ty, n) == [ty |-> ty, arg |-> None, num |-> n]
OpenFrame(c) == [ty |-> "Open", arg |-> c, num |-> 0]
ErrorFrame(code) == [ty |-> "Error", arg |-> code, num |-> 0]
CloseAfterFlush == Frame("CloseAfterFlush")

\* An Active slot holds its session; instance and generation are those of the
\* session, or of the one a reservation is kept for.
PortSlot ==
    [state: {"Active"}, listener: Nat, session: Session,
     instance: Instance \cup {None}, generation: Nat, expired: {FALSE}]
    \cup [state: {"Free", "Reserved"}, listener: Nat, session: {None},
          instance: Instance \cup {None}, generation: Nat, expired: BOOLEAN]
FreeSlot == [state |-> "Free", listener |-> 0, session |-> None,
             instance |-> None, generation |-> 0, expired |-> FALSE]

SessionRef == [instance: Instance \cup {None}, generation: Nat, port: Port \cup {0}]
NoRef == [instance |-> None, generation |-> 0, port |-> 0]

\* The sessions with an entry in the sessions map.
Live == {s \in Session : sessions[s].generation # 0}

Listener == [id: Nat, port: Port, cancelled: BOOLEAN]

Request == [session: Session \cup {None}, generation: Nat]
NoRequest == [session |-> None, generation |-> 0]

\* One record shape for every Command.  item is the public connection of an
\* AcceptedPublic, the data connection of a PeekData or ClaimData (which
\* carries its session and request), and the request of an OpenFailed or
\* RequestFinished.
Command ==
    [op: {"Register", "SessionLost", "Goodbye"}, session: Session,
     item: {None}, generation: Nat]
    \cup [op: {"Shutdown"}, session: {None}, item: {None}, generation: Nat]
    \cup [op: {"AcceptedPublic"}, session: {None}, item: Conn, generation: Nat]
    \cup [op: {"PeekData", "ClaimData"}, session: {None}, item: DataConn,
          generation: Nat]
    \cup [op: {"OpenFailed", "RequestFinished"}, session: Session \cup {None},
          item: Conn, generation: Nat]

\* mpsc::channel(COMMAND_CAPACITY) and mpsc::channel(WRITER_CAPACITY).
Channel == {q \in Seq(Command) : Len(q) <= COMMAND_CAPACITY}
Queue == {q \in Seq(Outbound) : Len(q) <= WRITER_CAPACITY}

SessionCommand(op, s, g) ==
    [op |-> op, session |-> s, item |-> None, generation |-> g]
ItemCommand(op, s, x) ==
    [op |-> op, session |-> s, item |-> x, generation |-> 0]

ControlPhase == {"new", "handshake", "registering", "granted", "denied",
                 "running", "lost", "parting", "goodbye", "teardown",
                 "draining", "abandoned", "ended"}
ConnState == {"new", "queued", "waiting", "readying", "forwarding",
              "finishing", "closed"}
DataState == {"new", "handshake", "peeking", "challenged", "claiming",
              "delivered", "closed"}
Supervisor == {"running", "stopping", "closing", "grace", "stopped"}

TypeOK ==
    /\ ports \in [Port -> PortSlot]
    /\ sessions \in [Session -> SessionRef]
    /\ pending \subseteq Conn
    /\ global_connections \in Nat
    /\ permits \in [Session -> Nat]
    /\ next_generation \in Nat \ {0}
    /\ next_listener_id \in Nat \ {0}
    /\ registryUp \in BOOLEAN
    /\ commands \in Channel
    /\ listeners \subseteq Listener
    /\ conn \in [Conn -> ConnState]
    /\ via \in [Conn -> [id: Nat, port: Port \cup {0}]]
    /\ req \in [Conn -> Request]
    /\ late \subseteq Conn
    /\ box \in [Conn -> DataConn \cup {None}]
    /\ phase \in [Session -> ControlPhase]
    /\ hello \in [Session -> Hello \cup {NoHello}]
    /\ grant \in [Session -> Nat]
    /\ assigned \in [Session -> Port \cup {0}]
    /\ refusal \in [Session -> ErrorCode \cup {None}]
    /\ clean \subseteq Session
    /\ outstanding \subseteq Session
    /\ sequence \in [Session -> Sequence]
    /\ writer \in [Session -> Queue]
    /\ writerUp \subseteq Session
    /\ wire \in [Session -> SUBSET Outbound]
    /\ control_cancel \subseteq Session
    /\ data_cancel \subseteq Session
    /\ flushing \subseteq Session
    /\ data \in [DataConn -> DataState]
    /\ dhello \in [DataConn -> Conn \cup {None}]
    /\ dispatching \subseteq Session \cup DataConn
    /\ server \in Supervisor

\* Registry::new and the start of server::run.
Init ==
    /\ ports = [p \in Port |-> FreeSlot]
    /\ sessions = [s \in Session |-> NoRef]
    /\ pending = {}
    /\ global_connections = MAX_GLOBAL_CONNECTIONS
    /\ permits = [s \in Session |-> max_connections]
    /\ next_generation = 1
    /\ next_listener_id = 1
    /\ registryUp = TRUE
    /\ commands = <<>>
    /\ listeners = {}
    /\ conn = [c \in Conn |-> "new"]
    /\ via = [c \in Conn |-> [id |-> 0, port |-> 0]]
    /\ req = [c \in Conn |-> NoRequest]
    /\ late = {}
    /\ box = [c \in Conn |-> None]
    /\ phase = [s \in Session |-> "new"]
    /\ hello = [s \in Session |-> NoHello]
    /\ grant = [s \in Session |-> 0]
    /\ assigned = [s \in Session |-> 0]
    /\ refusal = [s \in Session |-> None]
    /\ clean = {}
    /\ outstanding = {}
    /\ sequence = [s \in Session |-> 0]
    /\ writer = [s \in Session |-> <<>>]
    /\ writerUp = {}
    /\ wire = [s \in Session |-> {}]
    /\ control_cancel = {}
    /\ data_cancel = {}
    /\ flushing = {}
    /\ data = [d \in DataConn |-> "new"]
    /\ dhello = [d \in DataConn |-> None]
    /\ dispatching = {}
    /\ server = "running"

-----------------------------------------------------------------------------
(* Channels and tasks *)

\* RegistryHandle's sends await room and fail at once when the registry has
\* stopped.  Send is the first outcome, Closed the second.
HasRoom == Len(commands) < COMMAND_CAPACITY
Send(cmd) == registryUp /\ HasRoom /\ commands' = Append(commands, cmd)
Closed == ~registryUp /\ UNCHANGED commands

\* try_send on a control connection's outbound queue: a full queue, or one
\* whose writer has ended, drops the message.
Offer(q, f) == IF Len(q) < WRITER_CAPACITY THEN Append(q, f) ELSE q
Accepts(s) == s \in writerUp /\ Len(writer[s]) < WRITER_CAPACITY
TrySend(s, f) == [writer EXCEPT ![s] = IF s \in writerUp THEN Offer(@, f) ELSE @]

\* A last frame and CloseAfterFlush to every session of S.
TrySendLast(S, f) ==
    [s \in Session |-> IF s \in S \cap writerUp
                       THEN Offer(Offer(writer[s], f), CloseAfterFlush)
                       ELSE writer[s]]

\* The serve tasks of the sessions in S return: their locals are gone, and
\* so are their dispatch permits.
EndServe(S) ==
    /\ phase' = [s \in Session |-> IF s \in S THEN "ended" ELSE phase[s]]
    /\ hello' = [s \in Session |-> IF s \in S THEN NoHello ELSE hello[s]]
    /\ grant' = [s \in Session |-> IF s \in S THEN 0 ELSE grant[s]]
    /\ assigned' = [s \in Session |-> IF s \in S THEN 0 ELSE assigned[s]]
    /\ refusal' = [s \in Session |-> IF s \in S THEN None ELSE refusal[s]]
    /\ clean' = clean \ S
    /\ outstanding' = outstanding \ S
    /\ sequence' = [s \in Session |-> IF s \in S THEN 0 ELSE sequence[s]]

=============================================================================
