------------------------------- MODULE Tunnel -------------------------------
(***************************************************************************)
(* The server and its expose clients together.  A step is a step of the     *)
(* server with its effect on the connections, a step of a client, or a      *)
(* connection being cut.  The clients are this repository's: what reaches   *)
(* the server is what they send.                                            *)
(***************************************************************************)
EXTENDS Server, ClientControl, ClientData

CONSTANT RandomFails   \* whether the server's random source may fail

ASSUME RandomAssumption == RandomFails \in BOOLEAN

\* What reaches the server is decided by the clients alone.
ASSUME HelloAssumption == Hello \subseteq Hellos

tunnelVars == <<vars, clientVars>>

TunnelInit == Init /\ ClientInit

-----------------------------------------------------------------------------
(* Server steps that touch a connection *)

clientFrame == <<processVars, pulseVars, taskVars, asked, left, cut, readied>>

Next_up(s, ty) == up[s] # <<>> /\ Head(up[s]).ty = ty
Read(s) == up' = [up EXCEPT ![s] = Tail(@)]

\* One turn of the accept loop: the hello is read and answered with a challenge,
\* or with INTERNAL_ERROR when the nonce cannot be drawn, or the connection is
\* closed for want of a permit.
ServerAccepts(s) ==
    /\ asked[s] # NoHello
    /\ \/ /\ AcceptControl(s, asked[s])
          /\ \/ down' = Deliver(s, Frame("ControlChallenge"))
             \/ RandomFails /\ down' = Deliver(s, ErrorFrame("InternalError"))
       \/ /\ RefuseControl(s)
          /\ UNCHANGED down
    /\ UNCHANGED <<clientFrame, up>>

ServerAuthenticates(s) ==
    /\ Next_up(s, "ControlProof")
    /\ Authenticate(s)
    /\ Read(s)
    /\ UNCHANGED <<clientFrame, down>>

\* A timeout is not answered, and the INTERNAL_ERROR that answers a closed
\* connection reaches nobody: the client has left.
ServerHandshakeFails(s) ==
    /\ HandshakeFails(s)
    /\ UNCHANGED clientVars

\* A frame of the client reaches session_loop.
ServerReads(s) ==
    /\ up[s] # <<>>
    /\ LET f == Head(up[s])
       IN  \/ f.ty = "Ping" /\ ReceivePing(s, f.num)
           \/ f.ty = "Pong" /\ ReceivePong(s, f.num)
           \/ f.ty = "OpenFailed" /\ ReceiveOpenFailed(s, f.arg)
           \/ f.ty = "Goodbye" /\ ReceiveGoodbye(s)
    /\ Read(s)
    /\ UNCHANGED <<clientFrame, down>>

ServerReadsEnd(s) ==
    /\ ServerSeesEnd(s)
    /\ ReceiveError(s)
    /\ UNCHANGED clientVars

ServerWrites(s) ==
    /\ WriteFrame(s)
    /\ down' = Deliver(s, Head(writer[s]))
    /\ UNCHANGED <<clientFrame, up>>

ServerWriteFails(s) ==
    /\ s \in cut \cup left
    /\ WriteFails(s)
    /\ UNCHANGED clientVars

\* A data connection carries the request its task opened it for.
ServerAcceptsData(d) ==
    /\ \E c \in Conn : cdata[c] = d /\ AcceptData(d, c)
    /\ UNCHANGED clientVars

ServerRefusesData(d) ==
    /\ \E c \in Conn : cdata[c] = d
    /\ RefuseData(d)
    /\ UNCHANGED clientVars

ServerClaims(d) ==
    /\ d \in proven
    /\ SendClaim(d)
    /\ UNCHANGED clientVars

ServerReadies(c) ==
    /\ WriteReady(c)
    /\ readied' = readied \cup {box[c]}
    /\ UNCHANGED <<processVars, pulseVars, taskVars, linkVars, cut>>

\* Everything else the server does stays inside it.
InternalControl(s) ==
    \/ ServeStep(s) \/ PongDeadline(s) \/ PingTick(s) \/ TakeoverFlushEnds(s)
    \/ CloseAfterFlushed(s) \/ SendersGone(s)
InternalPublic(c) ==
    \/ \E l \in listeners : AcceptPublic(c, l)
    \/ DeadlinePasses(c) \/ WaitEnds(c) \/ TakeData(c) \/ ReadyFails(c)
    \/ ForwardCancelled(c) \/ ForwardEnds(c) \/ ServePublicEnds(c)
InternalData(d) == SendPeek(d) \/ DataFails(d) \/ ClaimTimesOut(d)

ServerInternal ==
    /\ \/ RegistryStep \/ Sweep \/ SupervisorStep
       \/ \E p \in Port : ReservationExpires(p)
       \/ \E l \in listeners : ListenerStops(l)
       \/ \E s \in Session : InternalControl(s)
       \/ \E c \in Conn : InternalPublic(c)
       \/ \E d \in DataConn : InternalData(d)
    /\ UNCHANGED clientVars

ServerControl(s) ==
    \/ ServerAccepts(s) \/ ServerAuthenticates(s)
    \/ ServerHandshakeFails(s) \/ ServerReads(s) \/ ServerReadsEnd(s)
    \/ ServerWrites(s) \/ ServerWriteFails(s)

ServerData(d) == ServerAcceptsData(d) \/ ServerRefusesData(d) \/ ServerClaims(d)

-----------------------------------------------------------------------------
(* Clients and network *)

AttemptStep(i) ==
    \/ ReadChallenge(i) \/ ReadRegistered(i) \/ AttemptRefused(i)
    \/ AttemptConfused(i) \/ AttemptFails(i) \/ AttemptCancelled(i)

SessionStep(i) ==
    \/ HearPing(i) \/ HearPong(i) \/ HearShutdown(i) \/ HearError(i) \/ HearOpen(i)
    \/ StartGoodbye(i) \/ GoodbyeEnds(i)

ProcessStep(i) ==
    \/ Dial(i) \/ AttemptStep(i) \/ SessionStep(i)
    \/ SessionEnds(i) \/ ClientPongDeadline(i) \/ ClientPingTick(i)
    \/ RunCancelled(i) \/ Interrupt(i) \/ Kill(i)

TaskStep(c) ==
    \/ DialBoth(c) \/ ReadDataChallenge(c) \/ ReadDataReady(c) \/ SetupFails(c)
    \/ TaskCancelled(c) \/ ClientForwardEnds(c)

\* A control connection is lost with everything in flight on it.
Cut(s) ==
    /\ Cardinality(cut) < MaxCuts
    /\ asked[s] # NoHello
    /\ s \notin cut
    /\ cut' = cut \cup {s}
    /\ up' = [up EXCEPT ![s] = <<>>]
    /\ down' = [down EXCEPT ![s] = <<>>]
    /\ UNCHANGED <<vars, processVars, pulseVars, taskVars, asked, left, readied>>

\* Every process has exited, or has used up the connections of the instance,
\* and the server has nothing left to do.
AtRest ==
    /\ \A i \in Instance : cphase[i] = "exited" \/ (cphase[i] = "idle" /\ Undialed = {})
    /\ \A s \in Session : phase[s] \in {"new", "ended"}
    /\ \A c \in Conn : conn[c] \in {"new", "closed"}
    /\ commands = <<>> /\ listeners = {}
    /\ UNCHANGED tunnelVars

TunnelNext ==
    \/ ServerInternal
    \/ \E s \in Session : ServerControl(s) \/ Cut(s)
    \/ \E d \in DataConn : ServerData(d)
    \/ \E c \in Conn : ServerReadies(c) \/ TaskStep(c)
    \/ \E i \in Instance : ProcessStep(i)
    \/ AtRest

TunnelSpec == TunnelInit /\ [][TunnelNext]_tunnelVars

(***************************************************************************)
(* Fairness.  The server's, and of the clients what their own timers and    *)
(* runtime do: a frame that has arrived is handled, an attempt is over      *)
(* after control_attempt, a heartbeat after heartbeat_timeout, a goodbye    *)
(* after shutdown_grace, a setup after request_wait, and a closed           *)
(* connection is noticed unless it was cut.  Users, targets and signals     *)
(* are not fair, and neither is dialing.                                    *)
(***************************************************************************)
ClientFairness ==
    /\ \A i \in Instance :
          /\ WF_tunnelVars(AttemptStep(i))
          /\ WF_tunnelVars(SessionStep(i))
          /\ WF_tunnelVars(ClientPongDeadline(i))
          /\ WF_tunnelVars(ClientPingTick(i))
          /\ WF_tunnelVars(csession[i] \notin cut /\ SessionEnds(i))
          /\ WF_tunnelVars(RunCancelled(i))
    /\ \A c \in Conn :
          /\ WF_tunnelVars(ReadDataReady(c) \/ SetupFails(c))
          /\ WF_tunnelVars(TaskCancelled(c))

TunnelFairSpec == TunnelSpec /\ Fairness /\ ClientFairness

-----------------------------------------------------------------------------
(* Safety *)

\* What the client printed is what the registry has: while a session the
\* client runs is registered, it is registered for this process and on the
\* port of remote_port=.
ClientView ==
    \A i \in Instance :
        (cphase[i] = "running" /\ csession[i] \in Live) =>
            /\ sessions[csession[i]].instance = i
            /\ sessions[csession[i]].port = last_assigned[i]

\* Heartbeats of one direction: the server's pings and the client's answers
\* that are queued or in flight on a session.
Among(q, ty) == {f \in {q[k] : k \in DOMAIN q} : f.ty = ty}
Count(q, ty) == Cardinality({k \in DOMAIN q : q[k].ty = ty})

\* A heartbeat in flight is the answer to the outstanding ping or that ping
\* itself, on both sides and although the numbers wrap: no PONG of an earlier
\* ping is ever under way, so none can satisfy a later deadline ("at most one
\* outstanding ping per direction", docs/protocol.md).
HeartbeatsMatch ==
    \A i \in Instance, s \in Session : (csession[i] = s /\ phase[s] = "running") =>
        /\ Count(writer[s], "Ping") + Count(down[s], "Ping") + Count(up[s], "Pong")
              <= IF s \in outstanding THEN 1 ELSE 0
        /\ \A f \in Among(writer[s], "Ping") \cup Among(down[s], "Ping")
                       \cup Among(up[s], "Pong") : f.num = sequence[s]
        /\ Count(up[s], "Ping") + Count(writer[s], "Pong") + Count(down[s], "Pong")
              <= IF i \in coutstanding THEN 1 ELSE 0
        /\ \A f \in Among(up[s], "Ping") \cup Among(writer[s], "Pong")
                       \cup Among(down[s], "Pong") : f.num = csequence[i]

\* A client forwards to its target only on the data connection the server has
\* paired with the user whose OPEN it answers, and only after the server has
\* begun to forward: no byte of a target reaches a user who was not asked for
\* or is gone, whatever deadlines race the handshake.
EndToEnd ==
    \A c \in Conn : ctask[c] = "forwarding" =>
        /\ box[c] = cdata[c]
        /\ dhello[cdata[c]] = c
        /\ conn[c] \in {"forwarding", "finishing", "closed"}

\* The tasks of a session never exceed the max_connections of its REGISTERED,
\* although the server takes its own permit back while the client's task for the
\* request still runs: the surplus OPEN is turned down (permits.try_acquire_owned,
\* run_session).
TargetsLimited == \A s \in Session : Cardinality(Active(s)) <= max_connections

-----------------------------------------------------------------------------
(* Steps *)

\* The public port of a process never changes while it lives, through lost
\* connections, expired reservations and other processes.
PortStep ==
    \A i \in Instance : last_assigned[i] # 0 => last_assigned'[i] = last_assigned[i]
PortStable == [][PortStep]_tunnelVars

\* A process exits with an error only when the server has given its session up:
\* no error, REPLACED in particular, ends a client whose tunnel still works.  The
\* one exception is an OPEN that overtakes REGISTERED.
ErrorStep ==
    \A i \in Instance :
        outcome[i] = "None" /\ outcome'[i] \in ErrorCode =>
            \/ csession[i] \notin Live
            \/ cphase[i] = "proving" /\ Heard(i, "Open")
ErrorForCause == [][ErrorStep]_tunnelVars

-----------------------------------------------------------------------------
(* Liveness, under TunnelFairSpec *)

\* A signal ends the process, whatever it is doing.
ClientStops ==
    \A i \in Instance : i \in cancelled ~> cphase[i] = "exited"

\* A client leaves a session that was cut, or that the registry no longer has.
OrphanNotices ==
    \A i \in Instance, s \in Session :
        (csession[i] = s /\ (s \in cut \/ s \notin Live)) ~>
            (csession[i] # s \/ (s \in Live /\ s \notin cut))

\* The registry forgets a session whose client has closed its end, or was cut
\* off from it.
AbandonedForgotten ==
    \A s \in Session : (s \in Live /\ s \in left \cup cut) ~> s \notin Live

-----------------------------------------------------------------------------
(* What documents say, where the code disagrees *)

\* "REPLACED ... another process owns this tunnel" (docs/protocol.md): a process
\* that is told so has a rival.
ReplacedByAnother ==
    \A i \in Instance : outcome[i] = "Replaced" =>
        \E s \in Session : asked[s].instance \notin {i, None}

\* "SERVER_SHUTDOWN tells clients that the server is stopping so they retry
\* rather than exit" (docs/protocol.md): where every port can be bound and one
\* process asks, nothing makes it exit with an error.
ShutdownIsRetryable ==
    \A i \in Instance : outcome[i] \notin ErrorCode

=============================================================================
