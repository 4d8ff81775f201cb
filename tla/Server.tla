------------------------------- MODULE Server -------------------------------
(***************************************************************************)
(* server/mod.rs and the whole server: the supervisor that accepts          *)
(* connections and shuts the process down, composed with the registry, the  *)
(* control, public and data tasks.                                          *)
(***************************************************************************)
EXTENDS Registry, ControlServer, PublicListener, DataServer

CONSTANTS
    Hellos,            \* what clients ask for in CONTROL_HELLO
    OperatorStops      \* whether the cancellation token of run may fire

ASSUME EnvironmentAssumption == Hellos \subseteq Hello /\ OperatorStops \in BOOLEAN

-----------------------------------------------------------------------------
(* Supervisor *)

supervisorFrame == <<ownerVars, limitVars, pending, listeners, publicVars, writerVars,
                     cancelVars>>

\* The permit is taken before dispatch and dropped when dispatch returns,
\* which for a control connection is the end of its session.
HasPermit == Cardinality(dispatching) < MAX_HANDSHAKES

AcceptControl(s, h) ==
    /\ server = "running"
    /\ phase[s] = "new"
    /\ HasPermit
    /\ phase' = [phase EXCEPT ![s] = "handshake"]
    /\ hello' = [hello EXCEPT ![s] = h]
    /\ dispatching' = dispatching \cup {s}
    /\ UNCHANGED <<supervisorFrame, grant, assigned, refusal, clean, outstanding,
                   sequence, commands, dataVars, server>>

\* A client opens a data connection for a request it was sent.
AcceptData(d, c) ==
    /\ server = "running"
    /\ data[d] = "new"
    /\ \E s \in Session : OpenFrame(c) \in wire[s]
    /\ HasPermit
    /\ data' = [data EXCEPT ![d] = "handshake"]
    /\ dhello' = [dhello EXCEPT ![d] = c]
    /\ dispatching' = dispatching \cup {d}
    /\ UNCHANGED <<supervisorFrame, commands, controlVars, server>>

\* No permit: the connection is closed unread.
RefuseControl(s) ==
    /\ server = "running"
    /\ phase[s] = "new"
    /\ ~HasPermit
    /\ phase' = [phase EXCEPT ![s] = "ended"]
    /\ UNCHANGED <<supervisorFrame, commands, localVars, dataVars, dispatching, server>>

RefuseData(d) ==
    /\ server = "running"
    /\ data[d] = "new"
    /\ ~HasPermit
    /\ data' = [data EXCEPT ![d] = "closed"]
    /\ UNCHANGED <<supervisorFrame, commands, controlVars, dhello, dispatching, server>>

Stop ==
    /\ OperatorStops
    /\ server = "running"
    /\ server' = "stopping"
    /\ UNCHANGED <<supervisorFrame, commands, controlVars, dataVars, dispatching>>

\* Mutant: the request is dropped when the channel is full.
TrySendShutdown ==
    /\ server = "stopping"
    /\ commands' = IF HasRoom THEN Append(commands, SessionCommand("Shutdown", None, 0))
                   ELSE commands
    /\ server' = "closing"
    /\ UNCHANGED <<supervisorFrame, controlVars, dataVars, dispatching>>

\* RegistryHandle::shutdown awaits room, then the registry's answer.
SendShutdown ==
    /\ server = "stopping"
    /\ Send(SessionCommand("Shutdown", None, 0))
    /\ server' = "closing"
    /\ UNCHANGED <<supervisorFrame, controlVars, dataVars, dispatching>>

TasksJoined ==
    /\ server = "grace"
    /\ dispatching = {}
    /\ server' = "stopped"
    /\ UNCHANGED <<supervisorFrame, commands, controlVars, dataVars, dispatching>>

\* Mutant: the permits of the aborted tasks stay taken.
GraceKeepsPermits ==
    /\ server = "grace"
    /\ dispatching # {}
    /\ server' = "stopped"
    /\ EndServe(Session \cap dispatching)
    /\ data' = [d \in DataConn |-> IF d \in dispatching THEN "closed" ELSE data[d]]
    /\ UNCHANGED <<supervisorFrame, commands, dhello, dispatching>>

\* shutdown_grace is over: the remaining dispatch tasks are aborted.
GraceElapses ==
    /\ server = "grace"
    /\ dispatching # {}
    /\ server' = "stopped"
    /\ EndServe(Session \cap dispatching)
    /\ data' = [d \in DataConn |-> IF d \in dispatching THEN "closed" ELSE data[d]]
    /\ dispatching' = {}
    /\ UNCHANGED <<supervisorFrame, commands, dhello>>

-----------------------------------------------------------------------------
(* The server *)

RegistryStep ==
    \/ Register \/ SessionLost \/ Goodbye \/ AcceptedPublic \/ PeekData
    \/ ClaimData \/ OpenFailed \/ RequestFinished \/ Shutdown

WriterStep(s) ==
    WriteFrame(s) \/ WriteFails(s) \/ CloseAfterFlushed(s) \/ SendersGone(s)

ClientFrameArrives(s) ==
    \/ \E v \in Sequence : ReceivePing(s, v) \/ ReceivePong(s, v)
    \/ ReceiveGoodbye(s) \/ ReceiveError(s) \/ ReceiveOther(s)
    \/ \E c \in Conn : ReceiveOpenFailed(s, c)

\* Steps of a serve task that wait for nothing but their turn, or for room
\* in a channel.
ServeStep(s) ==
    \/ SendRefusal(s) \/ SendRegistered(s) \/ Abandon(s) \/ Cancelled(s)
    \/ SendSessionLost(s) \/ SendGoodbye(s) \/ GoodbyeReplied(s) \/ ServeEnds(s)

ControlStep(s) ==
    \/ \E h \in Hellos : AcceptControl(s, h)
    \/ RefuseControl(s) \/ HandshakeFails(s) \/ Authenticate(s)
    \/ ServeStep(s) \/ PongDeadline(s) \/ PingTick(s)
    \/ ClientFrameArrives(s) \/ WriterStep(s) \/ TakeoverFlushEnds(s)

ServePublicStep(c) ==
    WaitEnds(c) \/ TakeData(c) \/ WriteReady(c) \/ ReadyFails(c) \/ ForwardCancelled(c)

PublicStep(c) ==
    \/ \E l \in listeners : AcceptPublic(c, l)
    \/ DeadlinePasses(c) \/ ServePublicStep(c) \/ ForwardEnds(c) \/ ServePublicEnds(c)

DataStep(d) ==
    \/ \E c \in Conn : AcceptData(d, c)
    \/ RefuseData(d) \/ SendPeek(d) \/ SendClaim(d) \/ DataFails(d) \/ ClaimTimesOut(d)

SupervisorStep == Stop \/ SendShutdown \/ TasksJoined \/ GraceElapses

\* Every connection of the instance has come and gone: nothing is left to do.
\* Whether the supervisor is still waiting then is left to ServerStops.
Idle ==
    /\ \A s \in Session : phase[s] \in {"new", "ended"}
    /\ \A c \in Conn : conn[c] \in {"new", "closed"}
    /\ \A d \in DataConn : data[d] \in {"new", "closed"}
    /\ commands = <<>> /\ listeners = {} /\ writerUp = {} /\ flushing = {}
    /\ UNCHANGED vars

Next ==
    \/ RegistryStep
    \/ Sweep
    \/ \E p \in Port : ReservationExpires(p)
    \/ \E l \in listeners : ListenerStops(l)
    \/ \E s \in Session : ControlStep(s)
    \/ \E c \in Conn : PublicStep(c)
    \/ \E d \in DataConn : DataStep(d)
    \/ SupervisorStep
    \/ Idle

Spec == Init /\ [][Next]_vars

(***************************************************************************)
(* Fairness.  The runtime polls every runnable task, timers fire, and       *)
(* tokio's channels serve waiting senders in order, so a send that finds    *)
(* room again and again succeeds (strong fairness).  Nothing is assumed of  *)
(* clients and users: connecting, sending frames and ending a transfer are  *)
(* not fair.                                                                *)
(***************************************************************************)
Fairness ==
    /\ WF_vars(RegistryStep)
    /\ WF_vars(Sweep)
    /\ \A p \in Port : WF_vars(ReservationExpires(p))
    /\ WF_vars(\E l \in listeners : ListenerStops(l))
    /\ \A s \in Session :
          /\ WF_vars(HandshakeFails(s))
          /\ SF_vars(ServeStep(s))
          /\ WF_vars(PongDeadline(s))
          /\ WF_vars(PingTick(s))
          /\ WF_vars(WriterStep(s))
          /\ WF_vars(TakeoverFlushEnds(s))
    /\ \A c \in Conn :
          /\ WF_vars(DeadlinePasses(c))
          /\ WF_vars(ServePublicStep(c))
          /\ SF_vars(ServePublicEnds(c))
    /\ \A d \in DataConn : WF_vars(DataFails(d) \/ ClaimTimesOut(d))
    /\ SF_vars(SendShutdown)
    /\ WF_vars(TasksJoined \/ GraceElapses)

FairSpec == Spec /\ Fairness


-----------------------------------------------------------------------------
(* Safety *)

\* The sessions map and the Active slots of the ports map (registry.rs keeps
\* a SessionRef in each) name the same sessions with the same generation,
\* instance and port, after any order of takeovers, losses and goodbyes.
OwnershipConsistent ==
    /\ \A p \in Port : ports[p].state = "Active" =>
          /\ ports[p].session \in Live
          /\ sessions[ports[p].session] =
                [instance |-> ports[p].instance,
                 generation |-> ports[p].generation, port |-> p]
    /\ \A s \in Live :
          /\ sessions[s].port \in Port
          /\ ports[sessions[s].port].state = "Active"
          /\ ports[sessions[s].port].session = s

\* Every pending request belongs to a live session of the same generation:
\* displace, session_lost and goodbye all drop the requests of the session
\* they remove, so no later owner of the port can be sent its users.
RequestsOwned ==
    \A c \in pending :
        /\ req[c].session \in Live
        /\ req[c].generation = sessions[req[c].session].generation

\* A user is served by the tunnel whose slot accepted it: a connection that the
\* accept loop of a slot since given up still had in the channel is not handed to
\* the tunnel that has bound the same port again (listener_id, accepted_public).
Served == {c \in Conn : conn[c] \in {"waiting", "readying", "forwarding", "finishing"}}
ServedByItsSlot ==
    \A c \in Served : req[c].session \in Live =>
        LET p == sessions[req[c].session].port
        IN  via[c] = [id |-> ports[p].listener, port |-> p]

\* An accept loop runs uncancelled exactly for the slots of the ports map, so
\* goodbye, sweep and shutdown leak no listener and stop none still in use.
ListenersMatchSlots ==
    /\ \A l \in listeners : ~l.cancelled =>
          ports[l.port].state # "Free" /\ ports[l.port].listener = l.id
    /\ \A p \in Slots :
          [id |-> ports[p].listener, port |-> p, cancelled |-> FALSE] \in listeners

\* Public traffic never outlives its tunnel unnoticed: a connection whose
\* session left the registry has had its data token cancelled.
OrphansCancelled ==
    \A c \in Conn :
        conn[c] \in {"waiting", "readying", "forwarding"} =>
            req[c].session \in Live \cup data_cancel

\* A session in the registry has a control task that will still report its
\* end, or the report is in the channel: serve reports on every path, so no
\* ghost owns a port for ever.
NoGhostSession ==
    \A s \in Live :
        \/ phase[s] \in {"granted", "running", "abandoned", "lost", "parting"}
        \/ \E i \in 1 .. Len(commands) :
              /\ commands[i].op \in {"SessionLost", "Goodbye"}
              /\ commands[i].session = s
              /\ commands[i].generation = sessions[s].generation

\* A session the registry has dropped does not run on unnoticed: takeover_flush
\* or its control token will end it even if its queue had no room for REPLACED
\* and its client never reads.
DisplacedCutOff ==
    \A s \in Session :
        (registryUp /\ phase[s] = "running" /\ s \notin Live) =>
            s \in flushing \cup control_cancel

\* A pending entry has its task, or the task's RequestFinished is on its way:
\* serve_public's last send cleans up behind every outcome.
NoLeakedRequest ==
    \A c \in pending :
        \/ conn[c] \in {"waiting", "finishing"}
        \/ \E i \in 1 .. Len(commands) :
              commands[i].op = "RequestFinished" /\ commands[i].item = c

\* Permits are neither lost nor doubled on any path: the per-tunnel and global
\* semaphores are short exactly by the connections being served, and a
\* dispatch permit is held exactly while its task runs.
PermitsConserved ==
    /\ global_connections = MAX_GLOBAL_CONNECTIONS - Cardinality(Served)
    /\ \A s \in Session :
          permits[s] = max_connections - Cardinality({c \in Served : req[c].session = s})
    /\ dispatching \cap Session = {s \in Session : phase[s] \notin {"new", "ended"}}
    /\ {d \in DataConn : data[d] \in {"handshake", "peeking", "challenged"}}
          \subseteq dispatching
    /\ \A d \in dispatching \cap DataConn : data[d] \notin {"new", "delivered", "closed"}

\* "A request is consumed at most once" (docs/protocol.md): a data socket the
\* registry handed over is held by the one task whose request it named, and a
\* forwarding task has such a socket.
Paired ==
    /\ \A d \in DataConn : data[d] = "delivered" =>
          /\ conn[dhello[d]] \in {"waiting", "readying", "forwarding"}
          /\ box[dhello[d]] = d
    /\ \A c \in Conn : conn[c] \in {"readying", "forwarding"} =>
          box[c] # None /\ data[box[c]] = "delivered"

-----------------------------------------------------------------------------
(* Steps *)

\* A port passes from one process to another only by a fresh registration
\* that names the port: neither a resume nor an automatic one takes it over.
TakeoverStep ==
    \A p \in Port :
        /\ ports[p].state # "Free"
        /\ ports'[p].state # "Free"
        /\ ports'[p].instance # ports[p].instance
        => \E s \in Session :
              /\ ports'[p].session = s
              /\ hello[s].mode = "Fresh"
              /\ hello[s].port = p
OnlyFreshTakesOver == [][TakeoverStep]_vars

\* A tunnel keeps its port: a reserved slot is given up only after its time
\* or at shutdown, and an active one is released only by its own goodbye or at
\* shutdown, however late commands of earlier owners arrive.
ReleaseStep ==
    \A p \in Slots : ports'[p].state = "Free" =>
        \/ ports[p].state = "Reserved" /\ ports[p].expired
        \/ ports[p].state = "Active" /\ ports[p].session \in clean
        \/ ~registryUp'
TunnelKept == [][ReleaseStep]_vars

\* An automatic registration binds a new port only for a process that has none,
\* active or reserved: a client whose REGISTERED was lost gets its slot back
\* (allocate_automatic; "idempotently reclaims its slot", docs/protocol.md).
AutomaticStep ==
    \A p \in Port \ Slots :
        /\ ports'[p].state = "Active"
        /\ hello[ports'[p].session].port = 0
        => \A q \in Slots : ports[q].instance # ports'[p].instance
AutomaticIdempotent == [][AutomaticStep]_vars

\* PORT_UNAVAILABLE tells the truth: it is answered only while another process
\* has the port, or while the accept loop of a slot that was given up has not
\* ended yet; never because of a tunnel that could have been taken over or
\* resumed (ensure_slot, bind_slot).
UnavailableStep ==
    \A s \in Session :
        /\ refusal[s] = None
        /\ refusal'[s] = "PortUnavailable"
        => \/ hello[s].port \in ForeignPorts
           \/ \E l \in listeners : l.port = hello[s].port /\ l.cancelled
UnavailableForCause == [][UnavailableStep]_vars

\* The server keeps the promises of PortLease, with one exception: its slots are
\* the leases, and a session is spent once its registration has been answered,
\* its task is over or the registry has stopped.
LeaseState(p) == IF ports[p].session \in clean THEN "Leaving" ELSE ports[p].state
Leases ==
    [p \in Port |-> [state |-> LeaseState(p), owner |-> ports[p].instance,
                     holder |-> ports[p].session]]
Spent ==
    {s \in Session : ~registryUp \/ phase[s] \notin {"new", "handshake", "registering"}}
Lease == INSTANCE PortLease WITH lease <- Leases, spent <- Spent, open <- registryUp

\* The one exception: a user whom the registry handles between the GOODBYE and
\* the Goodbye command finds the queue closed or full, and accepted_public fails
\* the session, so the port of a client that left is kept for it.
GoodbyeOvertaken(p) ==
    /\ Leases[p].state = "Leaving"
    /\ Leases' = [Leases EXCEPT ![p] = Lease!Kept(@.owner)]
    /\ \E c \in Conn : conn[c] = "queued" /\ via[c].port = p /\ conn'[c] = "closed"
    /\ UNCHANGED <<Spent, registryUp>>
LeaseStep ==
    \/ UNCHANGED Lease!leaseVars
    \/ Lease!Next
    \/ \E p \in Port : GoodbyeOvertaken(p)
LeasesKeptUnlessOvertaken == Lease!Init /\ [][LeaseStep]_vars

-----------------------------------------------------------------------------
(* Liveness, under FairSpec *)

\* A public connection the listener accepted is forwarded or closed, whatever
\* the client does (request_wait, serve_public, sweep).
RequestResolved ==
    \A c \in Conn :
        conn[c] \in {"queued", "waiting", "readying"} ~> conn[c] \in {"forwarding", "closed"}

\* Forwarding stops once the session has left the registry.
TrafficStops ==
    \A c \in Conn :
        (conn[c] = "forwarding" /\ req[c].session \notin Live) ~> conn[c] = "closed"

\* A control task whose session was displaced, lost or shut down ends.
SessionSettles ==
    \A s \in Session :
        (phase[s] \notin {"new", "handshake", "registering"} /\ s \notin Live)
            ~> (phase[s] = "ended")

\* A reservation is taken up again or its listener is released.
ReservationEnds ==
    \A p \in Port : ports[p].state = "Reserved" ~> ports[p].state # "Reserved"

\* A peer that stops answering pings is noticed, whatever else it sends: the
\* loop ends, or PONGs with the expected number keep coming (session_loop).
\* Checked where heartbeats run.
DeadClientNoticed ==
    \A s \in Session :
        \/ phase[s] = "running" ~> phase[s] # "running"
        \/ []<><<\E v \in Sequence : ReceivePong(s, v)>>_vars

\* Once asked, the server stops.
ServerStops == (server = "stopping") ~> (server = "stopped")

-----------------------------------------------------------------------------
(* What comments and documents say, where the code disagrees *)

\* "The REGISTERED message is queued first. OPEN messages cannot precede it."
\* (server/control.rs)
RegisteredFirst ==
    \A s \in Session, c \in Conn :
        OpenFrame(c) \in wire[s] => \E f \in wire[s] : f.ty = "Registered"

\* "`GOODBYE` from the client is answered with `GOODBYE_ACK` and releases the port
\* immediately" (docs/protocol.md): a port whose client has said goodbye is given
\* up next, as PortLease has it, and never kept in reserve.
KeepsLeases == Lease!Spec

=============================================================================
