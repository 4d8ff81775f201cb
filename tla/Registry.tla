------------------------------ MODULE Registry ------------------------------
(***************************************************************************)
(* server/registry.rs: the actor that owns port slots, sessions and pending *)
(* requests.  It handles one command at a time, without awaiting, so each   *)
(* handler is one action.                                                   *)
(***************************************************************************)
EXTENDS ServerState

-----------------------------------------------------------------------------
(* Port slots *)

Slots == {p \in Port : ports[p].state # "Free"}
Without(S) == [s \in Session |-> IF s \in S THEN NoRef ELSE sessions[s]]
RequestsOf(s) == {c \in pending : req[c].session = s}
Lowest(S) == CHOOSE p \in S : \A q \in S : p <= q

Granted(p) == [code |-> "Ok", port |-> p]
Refused(code) == [code |-> code, port |-> 0]

\* net::bind_listener as the operating system answers it: a port is taken
\* while any process, this one included, still has a socket bound to it.
bind_listener(p) ==
    IF p \in BrokenPorts THEN "InternalError"
    ELSE IF p \in ForeignPorts \/ \E l \in listeners : l.port = p
         THEN "PortUnavailable"
         ELSE "Ok"

bind_slot(p) ==
    IF bind_listener(p) = "Ok" THEN Granted(p) ELSE Refused(bind_listener(p))

\* Mutant: a named port is bound although the registry has it.
ensure_new_slot(p, exclusive_new) ==
    IF Cardinality(Slots) >= MAX_SLOTS THEN Refused("ServerBusy") ELSE bind_slot(p)

ensure_slot(p, exclusive_new) ==
    IF p \in Slots
    THEN IF exclusive_new THEN Refused("Replaced") ELSE Granted(p)
    ELSE IF Cardinality(Slots) >= MAX_SLOTS
         THEN Refused("ServerBusy")
         ELSE bind_slot(p)

\* Mutant: a reservation of the same process is overlooked.
OwnActiveSlots(i) == {p \in Slots : ports[p].state = "Active" /\ ports[p].instance = i}

OwnSlots(i) == {p \in Slots : ports[p].instance = i}

\* The lowest slot of the instance; otherwise the lowest port of the range
\* another process does not hold, and the scan ends there even when binding
\* it fails for another reason.
allocate_automatic(i) ==
    LET mine == OwnSlots(i)
        scan == {p \in AutoPorts \ (Slots \cup {ListenPort}) :
                     bind_listener(p) # "PortUnavailable"}
    IN  IF mine # {} THEN Granted(Lowest(mine))
        ELSE IF Cardinality(Slots) >= MAX_SLOTS THEN Refused("ServerBusy")
        ELSE IF scan = {} THEN Refused("NoPortAvailable")
        ELSE bind_slot(Lowest(scan))

\* Mutant: a resume does not ask whose slot it is.
resume_any_slot(p, i) == IF p \in Slots THEN Granted(p) ELSE ensure_slot(p, TRUE)

\* A resumed tunnel must still belong to its process.
resume_slot(p, i) ==
    IF p \in Slots
    THEN IF ports[p].instance = i THEN Granted(p) ELSE Refused("Replaced")
    ELSE ensure_slot(p, TRUE)

\* The port a registration gets, or the code that refuses it.
Placement(h) ==
    CASE h.port = ListenPort -> Refused("InvalidPort")
      [] h.port # ListenPort /\ h.mode = "Fresh" /\ h.port = 0
            -> allocate_automatic(h.instance)
      [] h.port # ListenPort /\ h.mode = "Fresh" /\ h.port # 0
            -> ensure_slot(h.port, FALSE)
      [] h.port # ListenPort /\ h.mode = "Resume"
            -> resume_slot(h.port, h.instance)

-----------------------------------------------------------------------------
(* Handlers *)

\* Registry::run takes the next command.
Receive(op) ==
    /\ registryUp
    /\ commands # <<>>
    /\ Head(commands).op = op
    /\ commands' = Tail(commands)

\* Mutants: the displaced session keeps its requests; its traffic goes on.
displace_keeps_requests(S) ==
    /\ UNCHANGED pending
    /\ data_cancel' = data_cancel \cup S
    /\ writer' = TrySendLast(S, ErrorFrame("Replaced"))
    /\ flushing' = flushing \cup S
displace_keeps_traffic(S) ==
    /\ pending' = pending \ UNION {RequestsOf(s) : s \in S}
    /\ UNCHANGED data_cancel
    /\ writer' = TrySendLast(S, ErrorFrame("Replaced"))
    /\ flushing' = flushing \cup S

\* displace: the previous owner loses its requests and its traffic, is told
\* REPLACED if its queue has room, and is cut off after the takeover flush.
displace(S) ==
    /\ pending' = pending \ UNION {RequestsOf(s) : s \in S}
    /\ data_cancel' = data_cancel \cup S
    /\ writer' = TrySendLast(S, ErrorFrame("Replaced"))
    /\ flushing' = flushing \cup S

\* Mutant: the session a takeover replaces stays in the map.
PreviousForgotten(p) == {}

Previous(p) == IF ports[p].state = "Active" THEN {ports[p].session} ELSE {}

\* bind_slot's part of an installation: a new listener when the port had none.
Bind(p) ==
    IF p \in Slots
    THEN UNCHANGED <<listeners, next_listener_id>>
    ELSE /\ listeners' = listeners \cup
                {[id |-> next_listener_id, port |-> p, cancelled |-> FALSE]}
         /\ next_listener_id' = next_listener_id + 1

Install(s, p) ==
    LET i == hello[s].instance
        l == IF p \in Slots THEN ports[p].listener ELSE next_listener_id
    IN  /\ Bind(p)
        /\ next_generation' = next_generation + 1
        /\ ports' = [ports EXCEPT ![p] =
                        [state |-> "Active", listener |-> l, session |-> s,
                         instance |-> i, generation |-> next_generation,
                         expired |-> FALSE]]
        /\ displace(Previous(p))
        /\ sessions' = [Without(Previous(p)) EXCEPT ![s] =
                           [instance |-> i, generation |-> next_generation, port |-> p]]
        /\ grant' = [grant EXCEPT ![s] = next_generation]
        /\ assigned' = [assigned EXCEPT ![s] = p]

Register ==
    /\ Receive("Register")
    /\ LET s == Head(commands).session
           place == Placement(hello[s])
       IN  /\ \/ /\ \E p \in Port : place = Granted(p) /\ Install(s, p)
                 /\ phase' = [phase EXCEPT ![s] = "granted"]
                 /\ UNCHANGED refusal
              \/ /\ place.code # "Ok"
                 /\ phase' = [phase EXCEPT ![s] = "denied"]
                 /\ refusal' = [refusal EXCEPT ![s] = place.code]
                 /\ UNCHANGED <<ports, sessions, pending, listeners, writer,
                                next_generation, next_listener_id, data_cancel,
                                flushing, grant, assigned>>
           /\ hello' = [hello EXCEPT ![s] = NoHello]     \* the request is consumed
    /\ UNCHANGED <<registryUp, limitVars, publicVars, clean, outstanding, sequence,
                   writerUp, wire, control_cancel, dataVars, dispatching, server>>

Current(s, g) ==
    LET slot == ports[sessions[s].port]
    IN  sessions[s].port \in Port /\ slot.state = "Active" /\ slot.generation = g

Reserve(s, g) ==
    [ports EXCEPT ![sessions[s].port] =
        [state |-> "Reserved", listener |-> @.listener, session |-> None,
         instance |-> sessions[s].instance, generation |-> g, expired |-> FALSE]]

\* session_lost: forget the session, stop its traffic, keep its port reserved.
session_lost(s, g) ==
    IF s \in Live /\ sessions[s].generation = g
    THEN /\ sessions' = Without({s})
         /\ pending' = pending \ RequestsOf(s)
         /\ data_cancel' = data_cancel \cup {s}
         /\ control_cancel' = control_cancel \cup {s}
         /\ ports' = IF Current(s, g) THEN Reserve(s, g) ELSE ports
    ELSE UNCHANGED <<sessions, pending, data_cancel, control_cancel, ports>>

SessionLost ==
    /\ Receive("SessionLost")
    /\ session_lost(Head(commands).session, Head(commands).generation)
    /\ UNCHANGED <<next_generation, next_listener_id, registryUp, limitVars,
                   listeners, publicVars, controlVars, writerVars, flushing,
                   dataVars, dispatching, server>>

\* Mutant: the slot goes, its accept loop stays.
ListenersLeft(P) == listeners

\* Cancelling listener_cancel of the slots of a set of ports.
CancelListeners(P) ==
    {IF l.port \in P /\ ports[l.port].listener = l.id
     THEN [l EXCEPT !.cancelled = TRUE] ELSE l : l \in listeners}
ReleaseSlots(P) ==
    /\ ports' = [p \in Port |-> IF p \in P THEN FreeSlot ELSE ports[p]]
    /\ listeners' = CancelListeners(P)

\* goodbye: a clean exit releases the slot unless a newer owner holds it.
goodbye(s, g) ==
    IF s \in Live /\ sessions[s].generation = g
    THEN /\ sessions' = Without({s})
         /\ pending' = pending \ RequestsOf(s)
         /\ data_cancel' = data_cancel \cup {s}
         /\ ReleaseSlots(IF Current(s, g) THEN {sessions[s].port} ELSE {})
    ELSE UNCHANGED <<sessions, pending, data_cancel, ports, listeners>>

\* Mutant: the reply to a goodbye is lost.
GoodbyeUnanswered ==
    /\ Receive("Goodbye")
    /\ goodbye(Head(commands).session, Head(commands).generation)
    /\ UNCHANGED <<next_generation, next_listener_id, registryUp, limitVars,
                   publicVars, phase, localVars, writerVars, control_cancel,
                   flushing, dataVars, dispatching, server>>

Goodbye ==
    /\ Receive("Goodbye")
    /\ LET s == Head(commands).session
       IN  /\ goodbye(s, Head(commands).generation)
           /\ phase' = [phase EXCEPT ![s] = IF @ = "goodbye" THEN "teardown" ELSE @]
    /\ UNCHANGED <<next_generation, next_listener_id, registryUp, limitVars,
                   publicVars, localVars, writerVars, control_cancel,
                   flushing, dataVars, dispatching, server>>

-----------------------------------------------------------------------------
(* Requests *)

\* Mutant: the tunnel's limit is off by one.
AdmittedOneMore(c) ==
    LET p == via[c].port
        slot == ports[p]
    IN  /\ p \in Slots
        /\ slot.listener = via[c].id
        /\ slot.state = "Active"
        /\ permits[slot.session] >= 0
        /\ global_connections > 0

\* Mutant: the accept loop a connection came through is not looked at.
AdmittedAnyListener(c) ==
    LET p == via[c].port
        slot == ports[p]
    IN  /\ p \in Slots
        /\ slot.state = "Active"
        /\ permits[slot.session] > 0
        /\ global_connections > 0

\* accepted_public's early returns that close the connection and change
\* nothing else.
Admitted(c) ==
    LET p == via[c].port
        slot == ports[p]
    IN  /\ p \in Slots
        /\ slot.listener = via[c].id
        /\ slot.state = "Active"
        /\ permits[slot.session] > 0
        /\ global_connections > 0

\* Mutant: a connection to a reserved port is left open.
RejectLater(c) ==
    UNCHANGED <<conn, ports, sessions, pending, data_cancel, control_cancel,
                writer, req, limitVars>>

Reject(c) ==
    /\ conn' = [conn EXCEPT ![c] = "closed"]
    /\ UNCHANGED <<ports, sessions, pending, data_cancel, control_cancel,
                   writer, req, limitVars>>

\* The OPEN cannot be queued: the session fails instead of losing a request.
FailSession(c, s) ==
    /\ ~Accepts(s)
    /\ session_lost(s, ports[via[c].port].generation)
    /\ conn' = [conn EXCEPT ![c] = "closed"]
    /\ UNCHANGED <<writer, req, limitVars>>

OpenRequest(c, s) ==
    /\ Accepts(s)
    /\ writer' = TrySend(s, OpenFrame(c))
    /\ pending' = pending \cup {c}
    /\ req' = [req EXCEPT ![c] = [session |-> s,
                                  generation |-> ports[via[c].port].generation]]
    /\ permits' = [permits EXCEPT ![s] = @ - 1]
    /\ global_connections' = global_connections - 1
    /\ conn' = [conn EXCEPT ![c] = "waiting"]
    /\ UNCHANGED <<ports, sessions, data_cancel, control_cancel>>

\* The second disjunct of the refusal is auth::random failing.
AcceptedPublic ==
    /\ Receive("AcceptedPublic")
    /\ LET c == Head(commands).item
           s == ports[via[c].port].session
       IN  \/ ~Admitted(c) /\ Reject(c)
           \/ Admitted(c) /\ Reject(c)
           \/ Admitted(c) /\ FailSession(c, s)
           \/ Admitted(c) /\ OpenRequest(c, s)
    /\ UNCHANGED <<next_generation, next_listener_id, registryUp, listeners,
                   via, late, box, controlVars, writerUp, wire, flushing,
                   dataVars, dispatching, server>>

\* A data connection's dispatch task answers and ends.
EndData(d, state) ==
    /\ data' = [data EXCEPT ![d] = state]
    /\ dispatching' = dispatching \ {d}

\* A reply to a handshake that has timed out goes nowhere.
PeekData ==
    /\ Receive("PeekData")
    /\ LET d == Head(commands).item
           c == dhello[d]
       IN  \/ /\ data[d] = "peeking"
              /\ c \in pending \ late
              /\ data' = [data EXCEPT ![d] = "challenged"]
              /\ UNCHANGED dispatching
           \/ /\ data[d] = "peeking"
              /\ c \notin pending \ late
              /\ EndData(d, "closed")
           \/ /\ data[d] # "peeking"
              /\ UNCHANGED <<data, dispatching>>
    /\ UNCHANGED <<ownerVars, limitVars, pending, listeners, publicVars,
                   controlVars, writerVars, cancelVars, dhello, server>>

\* claim's checks: the session still lives, and the request is its own,
\* unclaimed and within its deadline.
Claimable(c) ==
    /\ req[c].session \in Live
    /\ c \in pending
    /\ req[c].generation = sessions[req[c].session].generation
    /\ c \notin late

\* Mutant: a claimed request can be claimed again.
ConsumeNothing(c) == UNCHANGED pending

Consume(c) == pending' = pending \ {c}

ClaimData ==
    /\ Receive("ClaimData")
    /\ LET d == Head(commands).item
           c == dhello[d]
       IN  \/ /\ Claimable(c)
              /\ Consume(c)
              /\ conn[c] = "waiting"
              /\ box' = [box EXCEPT ![c] = d]
              /\ EndData(d, "delivered")
           \/ /\ Claimable(c)
              /\ Consume(c)
              /\ conn[c] # "waiting"     \* the oneshot's receiver is gone
              /\ UNCHANGED box
              /\ EndData(d, "closed")
           \/ /\ ~Claimable(c)
              /\ UNCHANGED <<pending, box>>
              /\ EndData(d, "closed")
    /\ UNCHANGED <<ownerVars, limitVars, listeners, conn, via, req, late,
                   controlVars, writerVars, cancelVars, dhello, server>>

\* OpenFailed and RequestFinished remove the entry of (session, request).
OpenFailed ==
    /\ Receive("OpenFailed")
    /\ pending' = pending \ ({Head(commands).item} \cap RequestsOf(Head(commands).session))
    /\ UNCHANGED <<ownerVars, limitVars, listeners, publicVars, controlVars,
                   writerVars, cancelVars, dataVars, dispatching, server>>

RequestFinished ==
    /\ Receive("RequestFinished")
    /\ pending' = pending \ ({Head(commands).item} \cap RequestsOf(Head(commands).session))
    /\ UNCHANGED <<ownerVars, limitVars, listeners, publicVars, controlVars,
                   writerVars, cancelVars, dataVars, dispatching, server>>

-----------------------------------------------------------------------------
(* Time *)

\* Mutant: every reservation counts as expired.
ReservedSlots == {p \in Port : ports[p].state = "Reserved"}

ExpiredSlots == {p \in Port : ports[p].state = "Reserved" /\ ports[p].expired}

\* Mutant: the sweep looks at requests only.
SweepRequests ==
    /\ registryUp
    /\ pending \cap late # {}
    /\ pending' = pending \ late
    /\ UNCHANGED <<ownerVars, limitVars, commands, listeners, publicVars,
                   controlVars, writerVars, cancelVars, dataVars, dispatching, server>>

\* sweep, when it finds something to do.
Sweep ==
    /\ registryUp
    /\ pending \cap late # {} \/ ExpiredSlots # {}
    /\ pending' = pending \ late
    /\ ReleaseSlots(ExpiredSlots)
    /\ UNCHANGED <<sessions, next_generation, next_listener_id, registryUp,
                   limitVars, commands, publicVars, controlVars, writerVars,
                   cancelVars, dataVars, dispatching, server>>

ReservationExpires(p) ==
    /\ registryUp
    /\ ports[p].state = "Reserved"
    /\ ~ports[p].expired
    /\ ports' = [ports EXCEPT ![p].expired = TRUE]
    /\ UNCHANGED <<sessions, next_generation, next_listener_id, registryUp,
                   limitVars, pending, commands, listeners, publicVars, controlVars,
                   writerVars, cancelVars, dataVars, dispatching, server>>

\* Mutant: a displaced client is told, never cut off.
TakeoverFlushOnly(s) ==
    /\ s \in flushing
    /\ flushing' = flushing \ {s}
    /\ UNCHANGED <<ownerVars, limitVars, pending, commands, listeners, publicVars,
                   controlVars, writerVars, control_cancel, data_cancel, dataVars,
                   dispatching, server>>

\* The task displace spawns: takeover_flush after the displacement, the
\* control connection is cut.
TakeoverFlushEnds(s) ==
    /\ s \in flushing
    /\ flushing' = flushing \ {s}
    /\ control_cancel' = control_cancel \cup {s}
    /\ UNCHANGED <<ownerVars, limitVars, pending, commands, listeners, publicVars,
                   controlVars, writerVars, data_cancel, dataVars, dispatching, server>>

-----------------------------------------------------------------------------
(* Shutdown *)

\* Mutant: shutdown leaves the forwarding tasks alone.
shutdown_keeps_traffic ==
    /\ writer' = TrySendLast(Live, Frame("ServerShutdown"))
    /\ UNCHANGED data_cancel
    /\ pending' = {}
    /\ ReleaseSlots(Slots)
    /\ sessions' = Without(Session)

\* shutdown_all, the reply, and the end of run, which drops the receiver:
\* commands still queued are dropped with their sockets and reply channels.
shutdown_all ==
    /\ writer' = TrySendLast(Live, Frame("ServerShutdown"))
    /\ data_cancel' = data_cancel \cup Live
    /\ pending' = {}
    /\ ReleaseSlots(Slots)
    /\ sessions' = Without(Session)

Shutdown ==
    /\ registryUp
    /\ commands # <<>>
    /\ Head(commands).op = "Shutdown"
    /\ commands' = <<>>
    /\ shutdown_all
    /\ registryUp' = FALSE
    /\ conn' = [c \in Conn |-> IF conn[c] = "queued" THEN "closed" ELSE conn[c]]
    /\ data' = [d \in DataConn |->
                   IF data[d] \in {"peeking", "claiming"} THEN "closed" ELSE data[d]]
    /\ dispatching' = dispatching \ {d \in DataConn : data[d] \in {"peeking", "claiming"}}
    /\ phase' = [s \in Session |->
                    CASE phase[s] = "registering" -> "denied"
                      [] phase[s] = "goodbye" -> "teardown"
                      [] OTHER -> phase[s]]
    /\ refusal' = [s \in Session |->
                      IF phase[s] = "registering" THEN "InternalError" ELSE refusal[s]]
    /\ server' = "grace"
    /\ UNCHANGED <<next_generation, next_listener_id, limitVars, via, req,
                   late, box, hello, grant, assigned, clean, outstanding, sequence,
                   writerUp, wire, control_cancel, flushing, dhello>>

=============================================================================
