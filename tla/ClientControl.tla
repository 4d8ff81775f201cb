--------------------------- MODULE ClientControl ---------------------------
(***************************************************************************)
(* client/mod.rs and client/control.rs: the supervisor of one expose        *)
(* process, its control connection attempts and its sessions.               *)
(***************************************************************************)
EXTENDS ClientState

CONSTANTS
    ClientHeartbeats,   \* whether the clients' heartbeat interval elapses
    Interrupts,         \* the processes a signal may stop
    Kills               \* the processes that may be killed

ASSUME ProcessAssumption ==
    /\ ClientHeartbeats \in BOOLEAN
    /\ Interrupts \subseteq Instance
    /\ Kills \subseteq Instance

\* The client changes no state of the server and cuts no connection.
controlFrame == <<vars, taskVars, cut, readied>>

-----------------------------------------------------------------------------
(* Outcomes of an attempt *)

\* The attempt is over: its socket is closed and its locals are gone.
EndAttempt(i) ==
    /\ CloseClient(csession[i])
    /\ csession' = [csession EXCEPT ![i] = None]
    /\ coutstanding' = coutstanding \ {i}
    /\ csequence' = [csequence EXCEPT ![i] = 0]
    /\ UNCHANGED <<asked, up>>

\* Attempt::Retry: back to the supervisor's loop and its reconnect delay.
Retry(i) ==
    /\ EndAttempt(i)
    /\ cphase' = [cphase EXCEPT ![i] = "idle"]
    /\ UNCHANGED <<last_assigned, outcome, cancelled>>

\* Attempt::Clean and Attempt::Fatal end run.
Exit(i, result) ==
    /\ EndAttempt(i)
    /\ cphase' = [cphase EXCEPT ![i] = "exited"]
    /\ outcome' = [outcome EXCEPT ![i] = result]
    /\ UNCHANGED <<last_assigned, cancelled>>

\* ErrorCode::is_fatal_for_client, of the codes a control connection carries.
is_fatal_for_client(code) == code # "ServerBusy"

classify(i, code) ==
    IF is_fatal_for_client(code) THEN Exit(i, code) ELSE Retry(i)

-----------------------------------------------------------------------------
(* Up to the registration *)

\* Mutant: a reconnecting process asks as a new one does.
HelloAlwaysFresh(i) == [instance |-> i, mode |-> "Fresh", port |-> Wants[i]]

\* A new process asks for a fresh tunnel, one that was registered for its own.
HelloOf(i) ==
    IF last_assigned[i] # 0
    THEN [instance |-> i, mode |-> "Resume", port |-> last_assigned[i]]
    ELSE [instance |-> i, mode |-> "Fresh", port |-> Wants[i]]

\* The delay of an earlier attempt is over, the dial succeeds and CONTROL_HELLO
\* is written.  A dial that fails leaves the process where it was.
Dial(i) ==
    /\ cphase[i] = "idle"
    /\ i \notin cancelled
    /\ Listens
    /\ Undialed # {}
    /\ csession' = [csession EXCEPT ![i] = First(Undialed)]
    /\ asked' = [asked EXCEPT ![First(Undialed)] = HelloOf(i)]
    /\ cphase' = [cphase EXCEPT ![i] = "hello"]
    /\ UNCHANGED <<controlFrame, last_assigned, outcome, cancelled, pulseVars,
                   up, down, left>>

\* Both waits of an attempt; the select looks at the token first.
Attempting(i) == cphase[i] \in {"hello", "proving"} /\ i \notin cancelled

\* A frame of type ty is next on the connection of process i.
Heard(i, ty) ==
    /\ down[csession[i]] # <<>>
    /\ Head(down[csession[i]]).ty = ty
Heed(i) == down' = [down EXCEPT ![csession[i]] = Tail(@)]

\* The server's proof verifies and the client's own goes out.
ReadChallenge(i) ==
    /\ Attempting(i)
    /\ cphase[i] = "hello"
    /\ Heard(i, "ControlChallenge")
    /\ Heed(i)
    /\ up' = Put(up, csession[i], Frame("ControlProof"))
    /\ cphase' = [cphase EXCEPT ![i] = "proving"]
    /\ UNCHANGED <<controlFrame, csession, last_assigned, outcome, cancelled,
                   pulseVars, asked, left>>

\* Mutant: the client remembers the port it asked for.
KeepRequested(i) ==
    /\ Attempting(i)
    /\ cphase[i] = "proving"
    /\ Heard(i, "Registered")
    /\ Heed(i)
    /\ cphase' = [cphase EXCEPT ![i] = "running"]
    /\ last_assigned' = [last_assigned EXCEPT ![i] = asked[csession[i]].port]
    /\ UNCHANGED <<controlFrame, csession, outcome, cancelled, pulseVars, asked, up, left>>

\* Mutant: an automatic port is taken for a wrong one.
CheckExactly(i) ==
    /\ Attempting(i)
    /\ cphase[i] = "proving"
    /\ Heard(i, "Registered")
    /\ Head(down[csession[i]]).num # asked[csession[i]].port
    /\ Exit(i, "ProtocolError")
    /\ UNCHANGED controlFrame

\* The assignment is kept for later attempts before the session runs.
ReadRegistered(i) ==
    LET port == Head(down[csession[i]]).num
        requested == asked[csession[i]].port
    IN  /\ Attempting(i)
        /\ cphase[i] = "proving"
        /\ Heard(i, "Registered")
        /\ IF requested \in {0, port}
           THEN /\ Heed(i)
                /\ cphase' = [cphase EXCEPT ![i] = "running"]
                /\ last_assigned' = [last_assigned EXCEPT ![i] = port]
                /\ UNCHANGED <<csession, outcome, cancelled, pulseVars, asked, up, left>>
           ELSE Exit(i, "ProtocolError")
        /\ UNCHANGED controlFrame

AttemptRefused(i) ==
    /\ Attempting(i)
    /\ Heard(i, "Error")
    /\ classify(i, Head(down[csession[i]]).arg)
    /\ UNCHANGED controlFrame

\* require_type: any other frame is a protocol error.
Expected(i) == IF cphase[i] = "hello" THEN "ControlChallenge" ELSE "Registered"
AttemptConfused(i) ==
    /\ Attempting(i)
    /\ down[csession[i]] # <<>>
    /\ Head(down[csession[i]]).ty \notin {Expected(i), "Error"}
    /\ Exit(i, "ProtocolError")
    /\ UNCHANGED controlFrame

\* control_attempt is over, or the connection has ended.
AttemptFails(i) ==
    /\ Attempting(i)
    /\ Retry(i)
    /\ UNCHANGED controlFrame

AttemptCancelled(i) ==
    /\ cphase[i] \in {"hello", "proving"}
    /\ i \in cancelled
    /\ Exit(i, "Clean")
    /\ UNCHANGED controlFrame

-----------------------------------------------------------------------------
(* run_session *)

\* The select is biased: the process token first.
Running(i) == cphase[i] = "running" /\ i \notin cancelled

runFrame == <<controlFrame, processVars, asked, left>>

\* Goodbye goes out if the queue has room.
StartGoodbye(i) ==
    /\ cphase[i] = "running"
    /\ i \in cancelled
    /\ \/ /\ ClientAccepts(csession[i])
          /\ up' = Post(csession[i], Frame("Goodbye"))
          /\ cphase' = [cphase EXCEPT ![i] = "leaving"]
          /\ UNCHANGED <<csession, last_assigned, outcome, cancelled, pulseVars,
                         asked, down, left>>
       \/ /\ ~ClientAccepts(csession[i])
          /\ Exit(i, "Clean")
    /\ UNCHANGED controlFrame

\* GOODBYE_ACK, the end of the connection or shutdown_grace: all are Clean.
GoodbyeEnds(i) ==
    /\ cphase[i] = "leaving"
    /\ Exit(i, "Clean")
    /\ UNCHANGED controlFrame

\* The reader or the writer finds the connection closed.
SessionEnds(i) ==
    /\ Running(i)
    /\ ClientSeesEnd(csession[i])
    /\ Retry(i)
    /\ UNCHANGED controlFrame

\* Mutant: no deadline for an answer.
NoPongDeadline(i) == FALSE

ClientPongDeadline(i) ==
    /\ Running(i)
    /\ i \in coutstanding
    /\ Retry(i)
    /\ UNCHANGED controlFrame

\* Mutant: a tick sends a ping although one is outstanding.
PingAgain(i) ==
    LET n == (csequence[i] + 1) % SEQUENCE_MODULUS
    IN  /\ ClientHeartbeats
        /\ Running(i)
        /\ ClientAccepts(csession[i])
        /\ up' = Post(csession[i], NumberFrame("Ping", n))
        /\ coutstanding' = coutstanding \cup {i}
        /\ csequence' = [csequence EXCEPT ![i] = n]
        /\ UNCHANGED <<runFrame, down>>

\* Mutant: the heartbeat number does not wrap.
PingUnwrapped(i) ==
    LET n == csequence[i] + 1
    IN  /\ ClientHeartbeats
        /\ Running(i)
        /\ i \notin coutstanding
        /\ ClientAccepts(csession[i])
        /\ n <= SEQUENCE_MODULUS
        /\ up' = Post(csession[i], NumberFrame("Ping", n))
        /\ coutstanding' = coutstanding \cup {i}
        /\ csequence' = [csequence EXCEPT ![i] = n]
        /\ UNCHANGED <<runFrame, down>>

ClientPingTick(i) ==
    LET n == (csequence[i] + 1) % SEQUENCE_MODULUS
    IN  /\ ClientHeartbeats
        /\ Running(i)
        /\ i \notin coutstanding
        /\ \/ /\ ClientAccepts(csession[i])
              /\ up' = Post(csession[i], NumberFrame("Ping", n))
              /\ coutstanding' = coutstanding \cup {i}
              /\ csequence' = [csequence EXCEPT ![i] = n]
              /\ UNCHANGED <<processVars, asked, left, down>>
           \/ /\ ~ClientAccepts(csession[i])
              /\ Retry(i)
        /\ UNCHANGED controlFrame

HearPing(i) ==
    LET s == csession[i]
    IN  /\ Running(i)
        /\ Heard(i, "Ping")
        /\ \/ /\ ClientAccepts(s)
              /\ up' = Post(s, NumberFrame("Pong", Head(down[s]).num))
              /\ Heed(i)
              /\ UNCHANGED <<processVars, pulseVars, asked, left>>
           \/ /\ ~ClientAccepts(s)
              /\ Retry(i)
        /\ UNCHANGED controlFrame

HearPong(i) ==
    /\ Running(i)
    /\ Heard(i, "Pong")
    /\ Heed(i)
    /\ coutstanding' = IF Head(down[csession[i]]).num = csequence[i]
                       THEN coutstanding \ {i} ELSE coutstanding
    /\ UNCHANGED <<runFrame, csequence, up>>

HearShutdown(i) ==
    /\ Running(i)
    /\ Heard(i, "ServerShutdown")
    /\ Retry(i)
    /\ UNCHANGED controlFrame

\* ERROR; a GOODBYE_ACK nobody waits for is skipped, and any other frame is
\* a protocol error.
HearError(i) ==
    LET f == Head(down[csession[i]])
    IN  /\ Running(i)
        /\ down[csession[i]] # <<>>
        /\ f.ty \notin {"Open", "Ping", "Pong", "ServerShutdown"}
        /\ CASE f.ty = "Error" -> classify(i, f.arg)
             [] f.ty = "GoodbyeAck" -> Heed(i) /\ UNCHANGED <<processVars, pulseVars,
                                                              asked, up, left>>
             [] OTHER -> Exit(i, "ProtocolError")
        /\ UNCHANGED controlFrame

-----------------------------------------------------------------------------
(* The supervisor *)

\* Mutant: the loop starts its delay over when the token fires.
DelayUncancelled(i) ==
    /\ cphase[i] = "idle"
    /\ i \in cancelled
    /\ UNCHANGED <<controlFrame, processVars, pulseVars, linkVars>>

\* The token is looked at before an attempt and during the delay after one.
RunCancelled(i) ==
    /\ cphase[i] = "idle"
    /\ i \in cancelled
    /\ cphase' = [cphase EXCEPT ![i] = "exited"]
    /\ outcome' = [outcome EXCEPT ![i] = "Clean"]
    /\ UNCHANGED <<controlFrame, csession, last_assigned, cancelled, pulseVars, linkVars>>

\* A signal fires the token.
Interrupt(i) ==
    /\ i \in Interrupts \ cancelled
    /\ cphase[i] # "exited"
    /\ cancelled' = cancelled \cup {i}
    /\ UNCHANGED <<controlFrame, cphase, csession, last_assigned, outcome,
                   pulseVars, linkVars>>

\* The process dies and the system closes its sockets.
Kill(i) ==
    /\ i \in Kills
    /\ csession[i] # None
    /\ Exit(i, "Killed")
    /\ UNCHANGED controlFrame

=============================================================================
