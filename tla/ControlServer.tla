---------------------------- MODULE ControlServer ----------------------------
(***************************************************************************)
(* server/control.rs: one serve task and one writer task per control        *)
(* connection.  The serve task authenticates, registers, runs the session   *)
(* loop and leaves; the writer task drains the outbound queue.              *)
(***************************************************************************)
EXTENDS ServerState

CONSTANTS
    ClientFrames,   \* the frames clients send on an established session
    Heartbeats      \* whether the heartbeat interval elapses

ClientFrame == {"Ping", "Pong", "OpenFailed", "Goodbye", "Error", "Other"}

ASSUME ClientAssumption ==
    /\ ClientFrames \subseteq ClientFrame
    /\ Heartbeats \in BOOLEAN

registryVars == <<ownerVars, limitVars, pending, listeners, publicVars, dataVars>>

-----------------------------------------------------------------------------
(* Up to the registration *)

\* Timeout, closed socket, malformed frame, bad proof, failing random: an
\* error frame at best, and the task ends.
HandshakeFails(s) ==
    /\ phase[s] = "handshake"
    /\ EndServe({s})
    /\ dispatching' = dispatching \ {s}
    /\ UNCHANGED <<registryVars, commands, writerVars, cancelVars, server>>

\* The proof verifies: the writer task starts and the registration is sent.  The
\* wait for room in the channel is still "handshake" here, so HandshakeFails may
\* end a task that in the code waits without a timeout: an over-approximation.
Authenticate(s) ==
    /\ phase[s] = "handshake"
    /\ writerUp' = writerUp \cup {s}
    /\ \/ /\ Send(SessionCommand("Register", s, 0))
          /\ phase' = [phase EXCEPT ![s] = "registering"]
          /\ UNCHANGED refusal
       \/ /\ Closed
          /\ phase' = [phase EXCEPT ![s] = "denied"]
          /\ refusal' = [refusal EXCEPT ![s] = "InternalError"]
    /\ UNCHANGED <<registryVars, hello, grant, assigned, clean, outstanding, sequence,
                   writer, wire, cancelVars, dispatching, server>>

\* The refusal is the only traffic of a session the registry does not know.
SendRefusal(s) ==
    /\ phase[s] = "denied"
    /\ phase' = [phase EXCEPT ![s] = "draining"]
    /\ writer' = TrySendLast({s}, ErrorFrame(refusal[s]))
    /\ UNCHANGED <<registryVars, commands, localVars,
                   writerUp, wire, cancelVars, dispatching, server>>

\* REGISTERED is queued by the serve task, after the registry has installed
\* the session.  The send awaits room and fails when the writer has ended.
SendRegistered(s) ==
    /\ phase[s] = "granted"
    /\ \/ /\ Accepts(s)
          /\ writer' = TrySend(s, NumberFrame("Registered", assigned[s]))
          /\ phase' = [phase EXCEPT ![s] = "running"]
       \/ /\ s \notin writerUp
          /\ phase' = [phase EXCEPT ![s] = "abandoned"]
          /\ UNCHANGED writer
    /\ UNCHANGED <<registryVars, commands, localVars,
                   writerUp, wire, cancelVars, dispatching, server>>

\* serve's early return when REGISTERED cannot be queued.
Abandon(s) ==
    /\ phase[s] = "abandoned"
    /\ Send(SessionCommand("SessionLost", s, grant[s])) \/ Closed
    /\ EndServe({s})
    /\ dispatching' = dispatching \ {s}
    /\ UNCHANGED <<registryVars, writerVars, cancelVars, server>>

-----------------------------------------------------------------------------
(* session_loop *)

\* The loop breaks: the control token is cancelled and the result is returned.
Break(s) ==
    /\ phase' = [phase EXCEPT ![s] = "lost"]
    /\ control_cancel' = control_cancel \cup {s}
    /\ UNCHANGED clean

BreakClean(s) ==
    /\ phase' = [phase EXCEPT ![s] = "parting"]
    /\ control_cancel' = control_cancel \cup {s}
    /\ clean' = clean \cup {s}

Continue == UNCHANGED <<phase, control_cancel, clean>>

\* The select is biased: cancellation is looked at first.
Listening(s) == phase[s] = "running" /\ s \notin control_cancel

sessionFrame == <<registryVars, hello, grant, assigned, refusal, writerUp, wire,
                  data_cancel, flushing, dispatching, server>>
\* The loop's locals of the heartbeat.
heartbeat == <<outstanding, sequence>>

Cancelled(s) ==
    /\ phase[s] = "running"
    /\ s \in control_cancel
    /\ Break(s)
    /\ UNCHANGED <<sessionFrame, commands, heartbeat, writer>>

PongDeadline(s) ==
    /\ Listening(s)
    /\ s \in outstanding
    /\ Break(s)
    /\ UNCHANGED <<sessionFrame, commands, heartbeat, writer>>

NextSequence(n) == (n + 1) % SEQUENCE_MODULUS

\* At most one ping is outstanding; a tick that finds one does nothing.
PingTick(s) ==
    /\ Heartbeats
    /\ Listening(s)
    /\ s \notin outstanding
    /\ sequence' = [sequence EXCEPT ![s] = NextSequence(@)]
    /\ \/ /\ Accepts(s)
          /\ writer' = TrySend(s, NumberFrame("Ping", NextSequence(sequence[s])))
          /\ outstanding' = outstanding \cup {s}
          /\ Continue
       \/ /\ ~Accepts(s)
          /\ Break(s)
          /\ UNCHANGED <<writer, outstanding>>
    /\ UNCHANGED <<sessionFrame, commands>>

\* Mutant: any traffic counts as an answer to the outstanding ping.
ReceivePingAsPong(s, v) ==
    /\ "Ping" \in ClientFrames
    /\ Listening(s)
    /\ Accepts(s)
    /\ writer' = TrySend(s, NumberFrame("Pong", v))
    /\ outstanding' = outstanding \ {s}
    /\ Continue
    /\ UNCHANGED <<sessionFrame, commands, sequence>>

ReceivePing(s, v) ==
    /\ "Ping" \in ClientFrames
    /\ Listening(s)
    /\ \/ /\ Accepts(s)
          /\ writer' = TrySend(s, NumberFrame("Pong", v))
          /\ Continue
       \/ /\ ~Accepts(s)
          /\ Break(s)
          /\ UNCHANGED writer
    /\ UNCHANGED <<sessionFrame, commands, heartbeat>>

\* Only a PONG with the number of the outstanding ping satisfies it.
ReceivePong(s, v) ==
    /\ "Pong" \in ClientFrames
    /\ Listening(s)
    /\ outstanding' = IF v = sequence[s] THEN outstanding \ {s} ELSE outstanding
    /\ Continue
    /\ UNCHANGED <<sessionFrame, commands, writer, sequence>>

\* A client reports a request it has been sent.  The loop awaits room in the
\* command channel inside the select's arm, where it does not look at the token:
\* a session cancelled meanwhile still sends what it has read.
ReceiveOpenFailed(s, c) ==
    /\ "OpenFailed" \in ClientFrames
    /\ phase[s] = "running"
    /\ OpenFrame(c) \in wire[s]
    /\ Send(ItemCommand("OpenFailed", s, c)) \/ Closed
    /\ Continue
    /\ UNCHANGED <<sessionFrame, heartbeat, writer>>

ReceiveGoodbye(s) ==
    /\ "Goodbye" \in ClientFrames
    /\ Listening(s)
    /\ writer' = TrySendLast({s}, Frame("GoodbyeAck"))
    /\ BreakClean(s)
    /\ UNCHANGED <<sessionFrame, commands, heartbeat>>

\* ERROR, end of stream, an undecodable frame.
ReceiveError(s) ==
    /\ "Error" \in ClientFrames
    /\ Listening(s)
    /\ Break(s)
    /\ UNCHANGED <<sessionFrame, commands, heartbeat, writer>>

\* Any other frame type is a protocol error.
ReceiveOther(s) ==
    /\ "Other" \in ClientFrames
    /\ Listening(s)
    /\ writer' = TrySendLast({s}, ErrorFrame("ProtocolError"))
    /\ Break(s)
    /\ UNCHANGED <<sessionFrame, commands, heartbeat>>

-----------------------------------------------------------------------------
(* After the loop *)

\* serve cancels both tokens, drops its sender and awaits the writer task.
Teardown(s) ==
    /\ phase' = [phase EXCEPT ![s] = "draining"]
    /\ data_cancel' = data_cancel \cup {s}
    /\ control_cancel' = control_cancel \cup {s}

\* Mutant: a cancelled session leaves without a word to the registry.
LeaveSilently(s) ==
    /\ phase[s] = "lost"
    /\ Teardown(s)
    /\ UNCHANGED <<registryVars, commands, localVars, writerVars, flushing,
                   dispatching, server>>

SendSessionLost(s) ==
    /\ phase[s] = "lost"
    /\ Send(SessionCommand("SessionLost", s, grant[s])) \/ Closed
    /\ Teardown(s)
    /\ UNCHANGED <<registryVars, localVars, writerVars, flushing, dispatching, server>>

\* Mutant: a clean exit is reported as a loss.
SendGoodbyeAsLost(s) ==
    /\ phase[s] = "parting"
    /\ Send(SessionCommand("SessionLost", s, grant[s])) \/ Closed
    /\ Teardown(s)
    /\ UNCHANGED <<registryVars, localVars, writerVars, flushing, dispatching, server>>

SendGoodbye(s) ==
    /\ phase[s] = "parting"
    /\ \/ /\ Send(SessionCommand("Goodbye", s, grant[s]))
          /\ phase' = [phase EXCEPT ![s] = "goodbye"]
          /\ UNCHANGED <<data_cancel, control_cancel>>
       \/ Closed /\ Teardown(s)
    /\ UNCHANGED <<registryVars, localVars, writerVars, flushing, dispatching, server>>

GoodbyeReplied(s) ==
    /\ phase[s] = "teardown"
    /\ Teardown(s)
    /\ UNCHANGED <<registryVars, commands, localVars, writerVars, flushing,
                   dispatching, server>>

\* serve returns once its writer task has ended.
ServeEnds(s) ==
    /\ phase[s] = "draining"
    /\ s \notin writerUp
    /\ EndServe({s})
    /\ dispatching' = dispatching \ {s}
    /\ UNCHANGED <<registryVars, commands, writerVars, cancelVars, server>>

-----------------------------------------------------------------------------
(* writer_loop *)

writerFrame == <<registryVars, commands, controlVars, data_cancel, flushing,
                 dispatching, server>>

WriterEnds(s) ==
    /\ writerUp' = writerUp \ {s}
    /\ writer' = [writer EXCEPT ![s] = <<>>]
    /\ control_cancel' = control_cancel \cup {s}

Written(s) == wire[s] \cup {f \in {Head(writer[s])} : f.ty \in {"Registered", "Open"}}

WriteFrame(s) ==
    /\ s \in writerUp
    /\ writer[s] # <<>>
    /\ Head(writer[s]) # CloseAfterFlush
    /\ wire' = [wire EXCEPT ![s] = Written(s)]
    /\ writer' = [writer EXCEPT ![s] = Tail(@)]
    /\ UNCHANGED <<writerFrame, writerUp, control_cancel>>

\* The write errs, or stalls past write_timeout.
WriteFails(s) ==
    /\ s \in writerUp
    /\ writer[s] # <<>>
    /\ Head(writer[s]) # CloseAfterFlush
    /\ WriterEnds(s)
    /\ UNCHANGED <<writerFrame, wire>>

CloseAfterFlushed(s) ==
    /\ s \in writerUp
    /\ writer[s] # <<>>
    /\ Head(writer[s]) = CloseAfterFlush
    /\ WriterEnds(s)
    /\ UNCHANGED <<writerFrame, wire>>

\* recv returns None: the serve task and the registry hold no sender any more.
SendersGone(s) ==
    /\ s \in writerUp
    /\ writer[s] = <<>>
    /\ phase[s] \in {"draining", "ended"}
    /\ s \notin Live
    /\ WriterEnds(s)
    /\ UNCHANGED <<writerFrame, wire>>

=============================================================================
