---------------------------- MODULE SessionProofs ----------------------------
(***************************************************************************)
(* Control connections, the registry and its ports.  A session the registry *)
(* holds has a task that will report its end or a report in the channel,    *)
(* one that it dropped is cut off, and a port is given up only by its own   *)
(* goodbye.  The server implements PortLease.                               *)
(***************************************************************************)
EXTENDS RequestProofs

USE DEF ownerVars, limitVars, publicVars, localVars, controlVars, writerVars,
        cancelVars, dataVars, registryVars, sessionFrame, heartbeat, writerFrame,
        publicFrame, connFrame, dataFrame, supervisorFrame

-----------------------------------------------------------------------------
(* The invariant *)

\* The phases in which serve still has to report the end of its session.
Reporting == {"granted", "running", "abandoned", "lost", "parting"}

\* The end of a live session will be reported with its generation, by its task or
\* by a command in the channel.
Reported(s) ==
    s \in Live =>
        IF phase[s] \in Reporting
        THEN grant[s] = sessions[s].generation
        ELSE \E k \in Queued :
                /\ k.op \in {"SessionLost", "Goodbye"}
                /\ k.session = s
                /\ k.generation = sessions[s].generation

\* A clean end leads through the goodbye, which the registry answers after it
\* has removed the session.
CleanEnd(s) ==
    /\ s \in clean => phase[s] \in {"parting", "goodbye", "teardown", "draining"}
    /\ phase[s] = "parting" => s \in clean
    /\ s \in clean \cap Live => phase[s] \in {"parting", "goodbye"}

\* A task that has not registered yet knows what it will ask for.
Asking(s) == phase[s] \in {"handshake", "registering"} => hello[s] \in Hello

\* DisplacedCutOff, also while REGISTERED is still to be queued.
CutOff(s) ==
    registryUp /\ phase[s] \in {"granted", "running"} /\ s \notin Live =>
        s \in flushing \cup control_cancel

Serving(s) == Reported(s) /\ CleanEnd(s) /\ Asking(s) /\ CutOff(s)

\* A Goodbye is in the channel once, while its task waits for the answer, and
\* names the registration of that task.
GoodbyesAwaited ==
    /\ Sole("Goodbye")
    /\ \A k \in Queued : k.op = "Goodbye" =>
          /\ phase[k.session] = "goodbye"
          /\ k.session \in clean
          /\ k.session \in Live => k.generation = sessions[k.session].generation

SessionTasks == (\A s \in Session : Serving(s)) /\ GoodbyesAwaited

\* Once the registry has stopped it knows no session.
LEMMA DownEmpty ==
    ASSUME OwnershipConsistent, RegistryDown, ~registryUp
    PROVE  Live = {} /\ \A p \in Port : ports[p].state = "Free"
BY DEF OwnershipConsistent, RegistryDown, Slots

-----------------------------------------------------------------------------
(* Steps of the control connections *)

\* A step of one control connection leaves the tasks of the others alone, and
\* takes back neither a running takeover flush nor a cancellation.
LEMMA ControlLocal ==
    ASSUME TypeOK, NEW s \in Session, ControlStep(s)
    PROVE  /\ \A r \in Session : r # s =>
                 /\ phase'[r] = phase[r] /\ grant'[r] = grant[r] /\ hello'[r] = hello[r]
                 /\ r \in clean' <=> r \in clean
           /\ flushing \cup control_cancel \subseteq flushing' \cup control_cancel'
<1>0. /\ phase \in [Session -> ControlPhase] /\ grant \in [Session -> Nat]
      /\ hello \in [Session -> Hello \cup {NoHello}]
    BY DEF TypeOK
<1>1. CASE \/ \E h \in Hellos : AcceptControl(s, h)
           \/ RefuseControl(s) \/ HandshakeFails(s) \/ Authenticate(s) \/ TakeoverFlushEnds(s)
    BY <1>0, <1>1 DEF AcceptControl, RefuseControl, HandshakeFails, Authenticate,
                      TakeoverFlushEnds, EndServe
<1>2. CASE ServeStep(s)
    BY <1>0, <1>2 DEF ServeStep, SendRefusal, SendRegistered, Abandon, Cancelled, Break,
                SendSessionLost, SendGoodbye, GoodbyeReplied, ServeEnds, Teardown, EndServe
<1>3. CASE PongDeadline(s) \/ PingTick(s) \/ WriterStep(s)
    BY <1>0, <1>3 DEF PongDeadline, PingTick, Break, Continue, WriterStep, WriteFrame,
                      WriteFails, CloseAfterFlushed, SendersGone, WriterEnds
<1>4. CASE ClientFrameArrives(s)
    BY <1>0, <1>4 DEF ClientFrameArrives, ReceivePing, ReceivePong, ReceiveGoodbye,
                ReceiveError, ReceiveOther, ReceiveOpenFailed, Break, BreakClean, Continue
<1> QED
    BY <1>1, <1>2, <1>3, <1>4 DEF ControlStep

\* The steps of a serve task and its locals: which phase follows which, what is
\* sent, and when the connection counts as cleanly ended.
ServeMove(s) ==
    \* The loop goes on, or only the writer and the tokens move.
    \/ /\ UNCHANGED <<phase, clean, grant, hello>>
       /\ Sends({"OpenFailed"})
    \* Up to the answer to the registration.
    \/ /\ phase[s] \in {"new", "handshake", "denied"}
       /\ phase'[s] \in {"handshake", "registering", "denied", "draining", "ended"}
       /\ phase'[s] = "handshake" => phase[s] = "new" /\ hello'[s] \in Hello
       /\ phase'[s] = "registering" => phase[s] = "handshake" /\ hello' = hello
       /\ clean' \subseteq clean
       /\ Sends({"Register"})
    \* The session starts and is lost.
    \/ /\ <<phase[s], phase'[s]>> \in
             {<<"granted", "running">>, <<"granted", "abandoned">>, <<"running", "lost">>}
       /\ UNCHANGED <<clean, grant, commands>>
    \/ /\ phase[s] = "running" /\ phase'[s] = "parting"
       /\ clean' = clean \cup {s}
       /\ UNCHANGED <<grant, commands>>
    \* The end of the session is reported.
    \/ /\ phase[s] \in {"lost", "abandoned"} /\ phase'[s] \in {"draining", "ended"}
       /\ clean' \subseteq clean
       /\ Send(SessionCommand("SessionLost", s, grant[s])) \/ Closed
    \/ /\ phase[s] = "parting" /\ phase'[s] = "goodbye"
       /\ clean' = clean
       /\ Send(SessionCommand("Goodbye", s, grant[s]))
    \/ /\ phase[s] = "parting" /\ phase'[s] = "draining"
       /\ clean' = clean
       /\ Closed
    \* Teardown.
    \/ /\ phase[s] \in {"teardown", "draining"} /\ phase'[s] \in {"draining", "ended"}
       /\ clean' \subseteq clean
       /\ phase'[s] = "ended" => s \notin clean'
       /\ UNCHANGED commands

\* Every step of a control connection is one of them (control.rs: serve,
\* session_loop, writer_loop).
LEMMA ControlMoves ==
    ASSUME TypeOK, NEW s \in Session, ControlStep(s)
    PROVE  ServeMove(s)
<1>0. phase \in [Session -> ControlPhase] /\ hello \in [Session -> Hello \cup {NoHello}]
    BY DEF TypeOK
<1>1. ASSUME UNCHANGED commands PROVE \A ops : Sends(ops)
    BY <1>1 DEF Sends
<1>2. CASE \E h \in Hellos : AcceptControl(s, h)
    <2>1. PICK h \in Hellos : AcceptControl(s, h)
        BY <1>2
    <2>2. h \in Hello
        BY EnvironmentAssumption
    <2> QED
        BY <1>0, <1>1, <2>1, <2>2 DEF AcceptControl, ServeMove
<1>3. CASE RefuseControl(s) \/ HandshakeFails(s)
    BY <1>0, <1>1, <1>3 DEF RefuseControl, HandshakeFails, EndServe, ServeMove
<1>4. CASE Authenticate(s)
    <2>1. CASE Send(SessionCommand("Register", s, 0)) /\ phase' = [phase EXCEPT ![s] = "registering"]
        <3> DEFINE cmd == SessionCommand("Register", s, 0)
        <3>1. cmd \in Command /\ cmd.op = "Register"
            BY CommandsTyped DEF SessionCommand
        <3>2. commands' = Append(commands, cmd)
            BY <2>1 DEF Send
        <3> HIDE DEF cmd
        <3>3. Sends({"Register"})
            BY <3>1, <3>2 DEF Sends
        <3> QED
            BY <1>0, <1>4, <2>1, <3>3 DEF Authenticate, ServeMove
    <2>2. CASE Closed /\ phase' = [phase EXCEPT ![s] = "denied"]
        BY <1>0, <1>1, <1>4, <2>2 DEF Authenticate, Closed, ServeMove
    <2> QED
        BY <1>4, <2>1, <2>2 DEF Authenticate
<1>5. CASE TakeoverFlushEnds(s) \/ WriterStep(s)
    BY <1>1, <1>5 DEF TakeoverFlushEnds, WriterStep, WriteFrame, WriteFails,
                      CloseAfterFlushed, SendersGone, ServeMove
<1>6. CASE SendRefusal(s) \/ SendRegistered(s) \/ GoodbyeReplied(s) \/ ServeEnds(s)
    BY <1>0, <1>1, <1>6 DEF SendRefusal, SendRegistered, GoodbyeReplied, ServeEnds,
                            Teardown, EndServe, ServeMove
<1>7. CASE Abandon(s) \/ SendSessionLost(s) \/ SendGoodbye(s)
    BY <1>0, <1>7 DEF Abandon, SendSessionLost, SendGoodbye, Teardown, EndServe, ServeMove
<1>8. ASSUME phase[s] = "running", Break(s), UNCHANGED <<grant, commands>>
      PROVE  ServeMove(s)
    BY <1>0, <1>8 DEF Break, ServeMove
<1>9. ASSUME Continue, UNCHANGED <<grant, hello, commands>>
      PROVE  ServeMove(s)
    BY <1>1, <1>9 DEF Continue, ServeMove
<1>10. CASE Cancelled(s) \/ PongDeadline(s) \/ PingTick(s)
    BY <1>8, <1>9, <1>10 DEF Cancelled, PongDeadline, PingTick, Listening
<1>11. CASE \/ \E v \in Sequence : ReceivePing(s, v) \/ ReceivePong(s, v)
            \/ ReceiveError(s) \/ ReceiveOther(s)
    BY <1>8, <1>9, <1>11 DEF ReceivePing, ReceivePong, ReceiveError, ReceiveOther, Listening
<1>12. CASE ReceiveGoodbye(s)
    BY <1>0, <1>12 DEF ReceiveGoodbye, Listening, BreakClean, ServeMove
<1>13. CASE \E c \in Conn : ReceiveOpenFailed(s, c)
    <2>1. PICK c \in Conn : ReceiveOpenFailed(s, c)
        BY <1>13
    <2> DEFINE cmd == ItemCommand("OpenFailed", s, c)
    <2>2. cmd \in Command /\ cmd.op = "OpenFailed"
        BY CommandsTyped DEF ItemCommand
    <2>3. Send(cmd) \/ Closed
        BY <2>1 DEF ReceiveOpenFailed
    <2> HIDE DEF cmd
    <2>4. Sends({"OpenFailed"})
        BY <2>2, <2>3 DEF Send, Closed, Sends
    <2> QED
        BY <2>1, <2>4 DEF ReceiveOpenFailed, Continue, ServeMove
<1> QED
    BY <1>2, <1>3, <1>4, <1>5, <1>6, <1>7, <1>10, <1>11, <1>12, <1>13
    DEF ControlStep, ServeStep, ClientFrameArrives

\* A task that does not move keeps its part of the invariant while its session
\* stays in the registry and the reports of its end stay in the channel, or when
\* the session is removed and the task cut off.
LEMMA ServingKept ==
    ASSUME NEW r \in Session, Serving(r),
           phase'[r] = phase[r], grant'[r] = grant[r], hello'[r] = hello[r],
           r \in clean' <=> r \in clean, registryUp' = registryUp,
           \/ /\ sessions'[r] = sessions[r]
              /\ \A k \in Queued : /\ k.op \in {"SessionLost", "Goodbye"}
                                  /\ k.session = r /\ r \in Live
                                  /\ k.generation = sessions[r].generation
                                  => k \in Queued'
           \/ r \notin Live' /\ r \in flushing' \cup control_cancel',
           flushing \cup control_cancel \subseteq flushing' \cup control_cancel'
    PROVE  Serving(r)'
<1>1. CASE r \notin Live' /\ r \in flushing' \cup control_cancel'
    BY <1>1 DEF Serving, Reported, CleanEnd, Asking, CutOff
<1>2. CASE /\ sessions'[r] = sessions[r]
           /\ \A k \in Queued : /\ k.op \in {"SessionLost", "Goodbye"}
                                /\ k.session = r /\ r \in Live
                                /\ k.generation = sessions[r].generation
                                => k \in Queued'
    <2>1. r \in Live' <=> r \in Live
        BY <1>2 DEF Live
    <2>2. Reported(r)'
        BY <1>2, <2>1 DEF Serving, Reported
    <2>3. CleanEnd(r)' /\ Asking(r)' /\ CutOff(r)'
        BY <2>1 DEF Serving, CleanEnd, Asking, CutOff
    <2> QED
        BY <2>2, <2>3 DEF Serving
<1> QED
    BY <1>1, <1>2

\* Nor do the goodbyes in the channel change when no other is sent and no task
\* that awaits its answer moves.
LEMMA GoodbyesKept ==
    ASSUME TypeOK, GoodbyesAwaited, sessions' = sessions,
           NEW ops, "Goodbye" \notin ops, Sends(ops),
           \A r \in Session : phase[r] = "goodbye" /\ r \in clean =>
                phase'[r] = "goodbye" /\ r \in clean'
    PROVE  GoodbyesAwaited'
<1>1. Live' = Live
    BY DEF Live
<1>2. \A k \in Queued : k.op = "Goodbye" => k.session \in Session
    BY QueuedItems
<1>3. CASE commands' = commands
    <2>1. Queued' = Queued /\ Sole("Goodbye")'
        BY <1>3, ChannelSame DEF GoodbyesAwaited
    <2> QED
        BY <1>1, <1>2, <2>1 DEF GoodbyesAwaited
<1>4. CASE \E cmd \in Command : cmd.op \in ops /\ commands' = Append(commands, cmd)
    <2>1. PICK cmd \in Command : cmd.op \in ops /\ commands' = Append(commands, cmd)
        BY <1>4
    <2>2. Queued' = Queued \cup {cmd} /\ Sole("Goodbye")' /\ cmd.op # "Goodbye"
        BY <2>1, ChannelSent DEF GoodbyesAwaited
    <2> QED
        BY <1>1, <1>2, <2>2 DEF GoodbyesAwaited
<1> QED
    BY <1>3, <1>4 DEF Sends

\* A command that is sent is in the channel afterwards, with those before it.
LEMMA QueuedGrows ==
    ASSUME TypeOK, NEW ops, Sends(ops)
    PROVE  Queued \subseteq Queued'
<1>1. CASE commands' = commands
    BY <1>1, ChannelSame
<1>2. CASE \E cmd \in Command : cmd.op \in ops /\ commands' = Append(commands, cmd)
    BY <1>2, ChannelSent
<1> QED
    BY <1>1, <1>2 DEF Sends

\* Every step of a control connection keeps the invariant.
LEMMA SessionControl ==
    ASSUME TypeOK, RegistersOnce, OwnershipConsistent, RegistryDown, SessionTasks,
           NEW s \in Session, ControlStep(s)
    PROVE  SessionTasks'
<1>1. UNCHANGED <<ports, sessions, registryUp>>
    BY ControlFrame
<1>2. /\ \A r \in Session : r # s =>
            /\ phase'[r] = phase[r] /\ grant'[r] = grant[r] /\ hello'[r] = hello[r]
            /\ r \in clean' <=> r \in clean
      /\ flushing \cup control_cancel \subseteq flushing' \cup control_cancel'
    BY ControlLocal
<1>3. Live' = Live /\ Live \subseteq Session
    BY <1>1 DEF Live
<1>4. Sends({"Register", "OpenFailed", "SessionLost", "Goodbye"})
    BY ControlSends
<1>5. Queued \subseteq Queued'
    BY <1>4, QueuedGrows
<1>6. \A r \in Session : r # s => Serving(r)'
    BY <1>1, <1>2, <1>5, ServingKept DEF SessionTasks
<1>7. Serving(s) /\ GoodbyesAwaited
    BY DEF SessionTasks
<1>8. phase[s] \in Unregistered => s \notin Live
    BY DEF RegistersOnce
<1>9. ASSUME NEW ops, "Goodbye" \notin ops, Sends(ops),
             phase[s] = "goodbye" /\ s \in clean => phase'[s] = "goodbye" /\ s \in clean'
      PROVE  GoodbyesAwaited'
    BY <1>1, <1>2, <1>7, <1>9, GoodbyesKept
<1>10. ASSUME UNCHANGED commands,
              phase[s] = "goodbye" /\ s \in clean => phase'[s] = "goodbye" /\ s \in clean'
       PROVE  GoodbyesAwaited'
    <2>1. Sends({})
        BY <1>10 DEF Sends
    <2> QED
        BY <1>9, <1>10, <2>1
<1>11. ASSUME Send(SessionCommand("SessionLost", s, grant[s])) \/ Closed
       PROVE  /\ Sends({"SessionLost"})
              /\ s \in Live => \E k \in Queued' :
                    k.op = "SessionLost" /\ k.session = s /\ k.generation = grant[s]
    <2> DEFINE cmd == SessionCommand("SessionLost", s, grant[s])
    <2>1. cmd \in Command /\ cmd.op = "SessionLost" /\ cmd.session = s /\ cmd.generation = grant[s]
        BY CommandsTyped DEF SessionCommand, TypeOK
    <2>2. Send(cmd) \/ Closed
        BY <1>11
    <2> HIDE DEF cmd
    <2>3. CASE Send(cmd)
        <3>1. commands' = Append(commands, cmd)
            BY <2>3 DEF Send
        <3> QED
            BY <2>1, <3>1, ChannelSent DEF Sends
    <2>4. CASE Closed
        BY <2>4, DownEmpty DEF Closed, Sends
    <2> QED
        BY <2>2, <2>3, <2>4
<1>12. CASE UNCHANGED <<phase, clean, grant, hello>> /\ Sends({"OpenFailed"})
    <2>1. Serving(s)'
        BY <1>1, <1>2, <1>5, <1>7, <1>12, ServingKept
    <2> QED
        BY <1>6, <1>9, <1>12, <2>1 DEF SessionTasks
<1>13. CASE /\ phase[s] \in {"new", "handshake", "denied"}
            /\ phase'[s] \in {"handshake", "registering", "denied", "draining", "ended"}
            /\ phase'[s] = "handshake" => phase[s] = "new" /\ hello'[s] \in Hello
            /\ phase'[s] = "registering" => phase[s] = "handshake" /\ hello' = hello
            /\ clean' \subseteq clean
            /\ Sends({"Register"})
    <2>1. s \notin Live /\ s \notin clean
        BY <1>7, <1>8, <1>13 DEF Unregistered, Serving, CleanEnd
    <2>2. Serving(s)'
        BY <1>3, <1>7, <1>13, <2>1 DEF Serving, Reported, CleanEnd, Asking, CutOff
    <2> QED
        BY <1>6, <1>9, <1>13, <2>2 DEF SessionTasks
<1>14. CASE /\ <<phase[s], phase'[s]>> \in
                  {<<"granted", "running">>, <<"granted", "abandoned">>, <<"running", "lost">>}
            /\ UNCHANGED <<clean, grant, commands>>
    <2>1. Serving(s)'
        BY <1>1, <1>2, <1>3, <1>7, <1>14
        DEF Serving, Reported, CleanEnd, Asking, CutOff, Reporting
    <2>2. GoodbyesAwaited'
        BY <1>10, <1>14
    <2> QED
        BY <1>6, <2>1, <2>2 DEF SessionTasks
<1>15. CASE /\ phase[s] = "running" /\ phase'[s] = "parting"
            /\ clean' = clean \cup {s}
            /\ UNCHANGED <<grant, commands>>
    <2>1. Serving(s)'
        BY <1>1, <1>2, <1>3, <1>7, <1>15
        DEF Serving, Reported, CleanEnd, Asking, CutOff, Reporting
    <2>2. GoodbyesAwaited'
        BY <1>10, <1>15
    <2> QED
        BY <1>6, <2>1, <2>2 DEF SessionTasks
<1>16. CASE /\ phase[s] \in {"lost", "abandoned"} /\ phase'[s] \in {"draining", "ended"}
            /\ clean' \subseteq clean
            /\ Send(SessionCommand("SessionLost", s, grant[s])) \/ Closed
    <2>1. s \notin clean
        BY <1>7, <1>16 DEF Serving, CleanEnd
    <2>2. s \in Live => grant[s] = sessions[s].generation
        BY <1>7, <1>16 DEF Serving, Reported, Reporting
    <2>3. Reported(s)'
        BY <1>1, <1>3, <1>11, <1>16, <2>2 DEF Reported, Reporting
    <2>4. Serving(s)'
        BY <1>16, <2>1, <2>3 DEF Serving, CleanEnd, Asking, CutOff
    <2> QED
        BY <1>6, <1>9, <1>11, <1>16, <2>4 DEF SessionTasks
<1>17. CASE /\ phase[s] = "parting" /\ phase'[s] = "goodbye"
            /\ clean' = clean
            /\ Send(SessionCommand("Goodbye", s, grant[s]))
    <2> DEFINE cmd == SessionCommand("Goodbye", s, grant[s])
    <2>1. /\ cmd \in Command /\ cmd.op = "Goodbye" /\ cmd.session = s
          /\ cmd.generation = grant[s] /\ commands' = Append(commands, cmd)
        BY <1>17, CommandsTyped DEF SessionCommand, TypeOK, Send
    <2> HIDE DEF cmd
    <2>2. s \in clean /\ (s \in Live => grant[s] = sessions[s].generation)
        BY <1>7, <1>17 DEF Serving, CleanEnd, Reported, Reporting
    <2>3. Queued' = Queued \cup {cmd}
        BY <2>1, ChannelSent
    <2>4. \A k \in Queued : k.op = "Goodbye" => k.session \in Session \ {s}
        BY <1>7, <1>17, QueuedItems DEF GoodbyesAwaited
    <2>5. Sole("Goodbye")'
        BY <1>7, <2>1, <2>4, ChannelSent DEF GoodbyesAwaited, Alike
    <2>6. GoodbyesAwaited'
        BY <1>1, <1>2, <1>3, <1>7, <1>17, <2>1, <2>2, <2>3, <2>4, <2>5 DEF GoodbyesAwaited
    <2>7. Serving(s)'
        BY <1>1, <1>3, <1>17, <2>1, <2>2, <2>3
        DEF Serving, Reported, CleanEnd, Asking, CutOff, Reporting
    <2> QED
        BY <1>6, <2>6, <2>7 DEF SessionTasks
<1>18. CASE /\ phase[s] = "parting" /\ phase'[s] = "draining"
            /\ clean' = clean
            /\ Closed
    <2>1. Live = {}
        BY <1>18, DownEmpty DEF Closed
    <2>2. Serving(s)'
        BY <1>3, <1>18, <2>1 DEF Serving, Reported, CleanEnd, Asking, CutOff
    <2>3. GoodbyesAwaited'
        BY <1>10, <1>18 DEF Closed
    <2> QED
        BY <1>6, <2>2, <2>3 DEF SessionTasks
<1>19. CASE /\ phase[s] \in {"teardown", "draining"} /\ phase'[s] \in {"draining", "ended"}
            /\ clean' \subseteq clean
            /\ phase'[s] = "ended" => s \notin clean'
            /\ UNCHANGED commands
    <2>1. s \in Live => s \notin clean
        BY <1>7, <1>19 DEF Serving, CleanEnd
    <2>2. Reported(s)'
        BY <1>1, <1>3, <1>5, <1>7, <1>19 DEF Serving, Reported, Reporting
    <2>3. Serving(s)'
        BY <1>3, <1>19, <2>1, <2>2 DEF Serving, CleanEnd, Asking, CutOff
    <2>4. GoodbyesAwaited'
        BY <1>10, <1>19
    <2> QED
        BY <1>6, <2>3, <2>4 DEF SessionTasks
<1> QED
    BY <1>12, <1>13, <1>14, <1>15, <1>16, <1>17, <1>18, <1>19, ControlMoves DEF ServeMove

-----------------------------------------------------------------------------
(* Handlers of the registry *)

\* Taking a command leaves the other goodbyes as they are.
LEMMA GoodbyesTaken ==
    ASSUME TypeOK, GoodbyesAwaited, commands # <<>>, commands' = Tail(commands),
           UNCHANGED clean,
           \A r \in Session : phase[r] = "goodbye" =>
              /\ phase'[r] = "goodbye"
                 \/ (Head(commands).op = "Goodbye" /\ Head(commands).session = r)
              /\ r \in Live' => r \in Live /\ sessions'[r] = sessions[r]
    PROVE  GoodbyesAwaited'
<1>1. /\ Queued' \subseteq Queued /\ Sole("Goodbye")'
      /\ Head(commands) \in Queued
      /\ Head(commands).op = "Goodbye" => \A k \in Queued' : ~Alike(k, Head(commands))
    BY ChannelTaken DEF GoodbyesAwaited
<1>2. ASSUME NEW k \in Queued', k.op = "Goodbye"
      PROVE  /\ phase'[k.session] = "goodbye"
             /\ k.session \in clean'
             /\ k.session \in Live' => k.generation = sessions'[k.session].generation
    <2>1. k.session \in Session /\ k.item = None
        BY <1>1, <1>2, QueuedItems
    <2>2. /\ phase[k.session] = "goodbye" /\ k.session \in clean
          /\ k.session \in Live => k.generation = sessions[k.session].generation
        BY <1>1, <1>2 DEF GoodbyesAwaited
    <2>3. ~(Head(commands).op = "Goodbye" /\ Head(commands).session = k.session)
        BY <1>1, <1>2, <2>1, QueuedItems DEF Alike
    <2> QED
        BY <2>1, <2>2, <2>3
<1> QED
    BY <1>1, <1>2 DEF GoodbyesAwaited

\* session_lost, called for a SessionLost or for a session whose OPEN cannot be
\* queued: the session is removed and its connection cut, or nothing happens.
LEMMA SessionRemoved ==
    ASSUME TypeOK, SessionTasks, NEW s \in Session, NEW g, session_lost(s, g),
           UNCHANGED <<phase, grant, hello, clean, registryUp, flushing>>,
           commands # <<>>, commands' = Tail(commands), Head(commands).op # "Goodbye",
           Head(commands).op = "SessionLost" =>
              Head(commands).session = s /\ Head(commands).generation = g
    PROVE  SessionTasks'
<1>1. Queued \subseteq Queued' \cup {Head(commands)}
    BY ChannelTaken
<1>2. /\ \A r \in Session : r # s => sessions'[r] = sessions[r]
      /\ control_cancel \subseteq control_cancel'
      /\ IF s \in Live /\ sessions[s].generation = g
         THEN s \notin Live' /\ s \in control_cancel'
         ELSE sessions'[s] = sessions[s]
    BY DEF session_lost, Without, Live, NoRef
<1>3. \A r \in Session : Serving(r)'
    <2> SUFFICES ASSUME NEW r \in Session PROVE Serving(r)'
        OBVIOUS
    <2>1. CASE r = s /\ s \in Live /\ sessions[s].generation = g
        BY <1>2, <2>1, ServingKept DEF SessionTasks
    <2>2. CASE ~(r = s /\ s \in Live /\ sessions[s].generation = g)
        <3>1. sessions'[r] = sessions[r]
            BY <1>2, <2>2
        <3>2. ASSUME NEW k \in Queued, k.op \in {"SessionLost", "Goodbye"}, k.session = r,
                     r \in Live, k.generation = sessions[r].generation
              PROVE  k \in Queued'
            BY <1>1, <2>2, <3>2
        <3> QED
            BY <1>2, <3>1, <3>2, ServingKept DEF SessionTasks
    <2> QED
        BY <2>1, <2>2
<1>4. \A r \in Session : r \in Live' => r \in Live /\ sessions'[r] = sessions[r]
    BY <1>2 DEF Live
<1>5. GoodbyesAwaited'
    BY <1>4, GoodbyesTaken DEF SessionTasks
<1> QED
    BY <1>3, <1>5 DEF SessionTasks

\* register: the new session will report its end, and the one it displaced is cut
\* off by the takeover flush.
LEMMA SessionRegister ==
    ASSUME TypeOK, RegistersOnce, SessionTasks, Register
    PROVE  SessionTasks'
<1>0. PICK s \in Session : s = Head(commands).session
    BY HeadCommand DEF Register, Receive, Command
<1>1. /\ commands # <<>> /\ commands' = Tail(commands) /\ Head(commands).op = "Register"
      /\ UNCHANGED <<clean, registryUp, control_cancel>>
      /\ hello' = [hello EXCEPT ![s] = NoHello]
    BY <1>0 DEF Register, Receive
<1>2. s \in Session /\ Head(commands) = commands[1] /\ 1 \in 1 .. Len(commands)
    BY <1>1 DEF TypeOK, Channel
<1>3. phase[s] = "registering" /\ s \notin Live
    BY <1>0, <1>1, <1>2 DEF RegistersOnce, Unregistered
<1>4. s \notin clean
    BY <1>2, <1>3 DEF SessionTasks, Serving, CleanEnd
<1>5. Queued \subseteq Queued' \cup {Head(commands)}
    BY <1>1, ChannelTaken
<1>6. CASE (\E p \in Port : Install(s, p)) /\ phase' = [phase EXCEPT ![s] = "granted"]
    <2>1. PICK p \in Port : Install(s, p)
        BY <1>6
    <2>2. Live' = (Live \ Previous(p)) \cup {s} /\ Live \subseteq Session
        BY <1>2, <2>1, LiveInstall DEF Live
    <2>3. /\ \A r \in Session : r # s /\ r \notin Previous(p) => sessions'[r] = sessions[r]
          /\ sessions'[s].generation = next_generation
        <3>1. Without(Previous(p)) \in [Session -> SessionRef]
            BY WithoutType
        <3> QED
            BY <1>2, <2>1, <3>1 DEF Install, Without
    <2>4. /\ grant' = [grant EXCEPT ![s] = next_generation]
          /\ flushing' = flushing \cup Previous(p)
        BY <2>1 DEF Install, displace
    <2>5. \A r \in Session : r # s =>
            phase'[r] = phase[r] /\ grant'[r] = grant[r] /\ hello'[r] = hello[r]
        BY <1>1, <1>2, <1>6, <2>4 DEF TypeOK
    <2>6. phase'[s] = "granted" /\ grant'[s] = next_generation
        BY <1>2, <1>6, <2>4 DEF TypeOK
    <2>7. Serving(s)'
        BY <1>1, <1>4, <2>2, <2>3, <2>6
        DEF Serving, Reported, CleanEnd, Asking, CutOff, Reporting
    <2>8. ASSUME NEW r \in Session, r # s PROVE Serving(r)'
        <3>1. Serving(r) /\ flushing \cup control_cancel \subseteq flushing' \cup control_cancel'
            BY <1>1, <2>4 DEF SessionTasks
        <3>2. CASE r \in Previous(p)
            BY <1>1, <2>2, <2>4, <2>5, <2>8, <3>1, <3>2, ServingKept
        <3>3. CASE r \notin Previous(p)
            BY <1>1, <1>5, <2>3, <2>5, <2>8, <3>1, <3>3, ServingKept
        <3> QED
            BY <3>2, <3>3
    <2>9. GoodbyesAwaited'
        <3>1. ASSUME NEW r \in Session, phase[r] = "goodbye"
              PROVE  /\ phase'[r] = "goodbye"
                     /\ r \in Live' => r \in Live /\ sessions'[r] = sessions[r]
            BY <1>3, <2>2, <2>3, <2>5, <3>1
        <3> QED
            BY <1>1, <3>1, GoodbyesTaken DEF SessionTasks
    <2> QED
        BY <2>7, <2>8, <2>9 DEF SessionTasks
<1>7. CASE /\ phase' = [phase EXCEPT ![s] = "denied"]
           /\ UNCHANGED <<sessions, flushing, grant>>
    <2>1. Live' = Live
        BY <1>7 DEF Live
    <2>2. \A r \in Session : r # s => phase'[r] = phase[r] /\ hello'[r] = hello[r]
        BY <1>1, <1>7 DEF TypeOK
    <2>3. phase'[s] = "denied"
        BY <1>2, <1>7 DEF TypeOK
    <2>4. Serving(s)'
        BY <1>1, <1>3, <1>4, <2>1, <2>3 DEF Serving, Reported, CleanEnd, Asking, CutOff
    <2>5. ASSUME NEW r \in Session, r # s PROVE Serving(r)'
        BY <1>1, <1>5, <1>7, <2>2, <2>5, ServingKept DEF SessionTasks
    <2>6. GoodbyesAwaited'
        BY <1>1, <1>3, <1>7, <2>1, <2>2, GoodbyesTaken DEF SessionTasks
    <2> QED
        BY <2>4, <2>5, <2>6 DEF SessionTasks
<1> QED
    BY <1>0, <1>6, <1>7 DEF Register

\* goodbye: the answer follows the removal of the session.
LEMMA SessionGoodbye ==
    ASSUME TypeOK, SessionTasks, Goodbye
    PROVE  SessionTasks'
<1>0. PICK s \in Session : s = Head(commands).session
    BY HeadCommand DEF Goodbye, Receive, Command
<1> DEFINE g == Head(commands).generation
<1>1. /\ commands # <<>> /\ commands' = Tail(commands) /\ Head(commands).op = "Goodbye"
      /\ UNCHANGED <<clean, registryUp, control_cancel, flushing, grant, hello>>
      /\ phase' = [phase EXCEPT ![s] = IF @ = "goodbye" THEN "teardown" ELSE @]
      /\ goodbye(s, g)
    BY <1>0 DEF Goodbye, Receive
<1>2. Head(commands) \in Queued /\ Queued \subseteq Queued' \cup {Head(commands)}
    BY <1>1, ChannelTaken
<1>3. /\ s \in Session /\ phase[s] = "goodbye" /\ s \in clean
      /\ s \in Live => g = sessions[s].generation
    BY <1>0, <1>1, <1>2 DEF SessionTasks, GoodbyesAwaited
<1>4. /\ \A r \in Session : r # s => sessions'[r] = sessions[r]
      /\ s \notin Live'
    BY <1>1, <1>3 DEF goodbye, Without, Live, NoRef
<1> HIDE DEF g
<1>5. phase'[s] = "teardown" /\ \A r \in Session : r # s => phase'[r] = phase[r]
    BY <1>1, <1>3 DEF TypeOK
<1>6. Serving(s)'
    BY <1>1, <1>3, <1>4, <1>5 DEF Serving, Reported, CleanEnd, Asking, CutOff
<1>7. ASSUME NEW r \in Session, r # s PROVE Serving(r)'
    <2>1. \A k \in Queued : k.session = r => k \in Queued'
        BY <1>0, <1>2, <1>7
    <2> QED
        BY <1>1, <1>4, <1>5, <1>7, <2>1, ServingKept DEF SessionTasks
<1>8. GoodbyesAwaited'
    <2>1. ASSUME NEW r \in Session, phase[r] = "goodbye"
          PROVE  /\ phase'[r] = "goodbye" \/ (Head(commands).op = "Goodbye" /\ Head(commands).session = r)
                 /\ r \in Live' => r \in Live /\ sessions'[r] = sessions[r]
        <3>1. CASE r = s
            BY <1>0, <1>1, <1>4, <3>1
        <3>2. CASE r # s
            BY <1>4, <1>5, <2>1, <3>2 DEF Live
        <3> QED
            BY <3>1, <3>2
    <2> QED
        BY <1>1, <2>1, GoodbyesTaken DEF SessionTasks
<1> QED
    BY <1>6, <1>7, <1>8 DEF SessionTasks

\* Steps that touch neither the sessions nor their tasks and send no goodbye.
LEMMA SessionFrame ==
    ASSUME TypeOK, SessionTasks,
           UNCHANGED <<sessions, phase, grant, hello, clean, registryUp, flushing, control_cancel>>,
           \/ \E ops : "Goodbye" \notin ops /\ Sends(ops)
           \/ /\ commands # <<>> /\ commands' = Tail(commands)
              /\ Head(commands).op \notin {"SessionLost", "Goodbye"}
    PROVE  SessionTasks'
<1>1. Live' = Live
    BY DEF Live
<1>2. CASE \E ops : "Goodbye" \notin ops /\ Sends(ops)
    <2>1. PICK ops : "Goodbye" \notin ops /\ Sends(ops)
        BY <1>2
    <2>2. Queued \subseteq Queued'
        BY <2>1, QueuedGrows
    <2>3. \A r \in Session : Serving(r)'
        BY <2>2, ServingKept DEF SessionTasks
    <2>4. GoodbyesAwaited'
        BY <2>1, GoodbyesKept DEF SessionTasks
    <2> QED
        BY <2>3, <2>4 DEF SessionTasks
<1>3. CASE /\ commands # <<>> /\ commands' = Tail(commands)
           /\ Head(commands).op \notin {"SessionLost", "Goodbye"}
    <2>1. Queued \subseteq Queued' \cup {Head(commands)}
        BY <1>3, ChannelTaken
    <2>2. \A k \in Queued : k.op \in {"SessionLost", "Goodbye"} => k \in Queued'
        BY <1>3, <2>1
    <2>3. \A r \in Session : Serving(r)'
        BY <2>2, ServingKept DEF SessionTasks
    <2>4. GoodbyesAwaited'
        BY <1>1, <1>3, GoodbyesTaken DEF SessionTasks
    <2> QED
        BY <2>3, <2>4 DEF SessionTasks
<1> QED
    BY <1>2, <1>3

\* shutdown_all forgets every session, and the tasks that await an answer go on.
LEMMA SessionShutdown ==
    ASSUME TypeOK, SessionTasks, Shutdown
    PROVE  SessionTasks'
<1>1. /\ commands' = <<>> /\ ~registryUp' /\ UNCHANGED <<clean, hello>>
      /\ \A r \in Session : sessions'[r] = NoRef
      /\ \A r \in Session : phase'[r] = CASE phase[r] = "registering" -> "denied"
                                         [] phase[r] = "goodbye" -> "teardown"
                                         [] OTHER -> phase[r]
    BY DEF Shutdown, shutdown_all, Without
<1>2. Queued' = {} /\ Sole("Goodbye")' /\ Live' = {}
    BY <1>1, ChannelEmptied DEF Live, NoRef
<1>3. \A r \in Session : Serving(r)'
    <2> SUFFICES ASSUME NEW r \in Session PROVE Serving(r)'
        OBVIOUS
    <2>1. /\ phase[r] \in {"registering", "goodbye"} => phase'[r] \in {"denied", "teardown"}
          /\ phase[r] = "goodbye" => phase'[r] = "teardown"
          /\ phase[r] \notin {"registering", "goodbye"} => phase'[r] = phase[r]
        BY <1>1
    <2> QED
        BY <1>1, <1>2, <2>1 DEF SessionTasks, Serving, Reported, CleanEnd, Asking, CutOff
<1> QED
    BY <1>2, <1>3 DEF SessionTasks, GoodbyesAwaited

\* The end of the grace period aborts tasks only after the registry has stopped.
LEMMA SessionAborted ==
    ASSUME TypeOK, RegistryStopped, OwnershipConsistent, RegistryDown, SessionTasks, GraceElapses
    PROVE  SessionTasks'
<1>1. ~registryUp /\ registryUp' = registryUp /\ commands' = <<>> /\ sessions' = sessions
    BY DEF GraceElapses, RegistryStopped
<1>2. Live' = {} /\ Queued' = {} /\ Sole("Goodbye")'
    BY <1>1, DownEmpty, ChannelEmptied DEF Live
<1>3. \A r \in Session :
        \/ phase'[r] = "ended" /\ r \notin clean'
        \/ phase'[r] = phase[r] /\ hello'[r] = hello[r] /\ (r \in clean' <=> r \in clean)
    BY DEF GraceElapses, EndServe
<1>4. \A r \in Session : Serving(r)'
    BY <1>1, <1>2, <1>3 DEF SessionTasks, Serving, Reported, CleanEnd, Asking, CutOff
<1> QED
    BY <1>2, <1>4 DEF SessionTasks, GoodbyesAwaited

\* Every handler of the registry keeps the invariant.
LEMMA SessionRegistry ==
    ASSUME TypeOK, RegistersOnce, SessionTasks, RegistryStep
    PROVE  SessionTasks'
<1>1. CASE Register
    BY <1>1, SessionRegister
<1>2. CASE Goodbye
    BY <1>2, SessionGoodbye
<1>3. CASE Shutdown
    BY <1>3, SessionShutdown
<1>4. CASE SessionLost
    <2>1. Head(commands).session \in Session
        BY <1>4, HeadCommand DEF SessionLost, Receive, Command
    <2> QED
        BY <1>4, <2>1, SessionRemoved DEF SessionLost, Receive
<1>5. CASE AcceptedPublic
    <2> DEFINE c == Head(commands).item
    <2> DEFINE s == ports[via[c].port].session
    <2>1. /\ commands # <<>> /\ commands' = Tail(commands) /\ Head(commands).op = "AcceptedPublic"
          /\ UNCHANGED <<phase, grant, hello, clean, registryUp, flushing>>
        BY <1>5 DEF AcceptedPublic, Receive
    <2>2. CASE Admitted(c) /\ FailSession(c, s)
        <3>1. s \in Session
            BY <2>2 DEF TypeOK, Admitted, Slots, PortSlot
        <3>2. session_lost(s, ports[via[c].port].generation)
            BY <2>2 DEF FailSession
        <3> QED
            BY <2>1, <3>1, <3>2, SessionRemoved
    <2>3. CASE UNCHANGED <<sessions, control_cancel>>
        BY <2>1, <2>3, SessionFrame
    <2> QED
        BY <1>5, <2>2, <2>3 DEF AcceptedPublic, Reject, OpenRequest
<1>6. CASE PeekData \/ ClaimData \/ OpenFailed \/ RequestFinished
    BY <1>6, SessionFrame DEF PeekData, ClaimData, OpenFailed, RequestFinished, Receive
<1> QED
    BY <1>1, <1>2, <1>3, <1>4, <1>5, <1>6 DEF RegistryStep

-----------------------------------------------------------------------------
(* The theorems *)

\* Every step of the server keeps the invariant.
LEMMA SessionNext ==
    ASSUME TypeOK, RegistryStopped, RegistersOnce, OwnershipConsistent, RegistryDown,
           SessionTasks, [Next]_vars
    PROVE  SessionTasks'
<1>1. CASE RegistryStep
    BY <1>1, SessionRegistry
<1>2. ASSUME UNCHANGED <<sessions, phase, grant, hello, clean, registryUp, flushing,
                         control_cancel, commands>>
      PROVE  SessionTasks'
    <2>1. Sends({})
        BY <1>2 DEF Sends
    <2> QED
        BY <1>2, <2>1, SessionFrame
<1>3. CASE Sweep \/ (\E p \in Port : ReservationExpires(p)) \/ (\E l \in listeners : ListenerStops(l))
    BY <1>2, <1>3 DEF Sweep, ReservationExpires, ListenerStops
<1>4. CASE \E s \in Session : ControlStep(s)
    BY <1>4, SessionControl
<1>5. ASSUME NEW c \in Conn, PublicStep(c)
      PROVE  SessionTasks'
    <2>1. UNCHANGED <<sessions, phase, grant, hello, clean, registryUp, flushing, control_cancel>>
        BY <1>5, PublicStepFrame
    <2>2. Sends({"AcceptedPublic", "RequestFinished"})
        BY <1>5, PublicSends
    <2> QED
        BY <2>1, <2>2, SessionFrame
<1>6. CASE \E d \in DataConn : DataStep(d)
    <2>1. UNCHANGED <<sessions, phase, grant, hello, clean, registryUp, flushing, control_cancel>>
        BY <1>6, DataStepFrame
    <2>2. Sends({"PeekData", "ClaimData"})
        BY <1>6, DataSends
    <2> QED
        BY <2>1, <2>2, SessionFrame
<1>7. CASE SupervisorStep /\ ~GraceElapses
    <2>1. UNCHANGED <<sessions, phase, grant, hello, clean, registryUp, flushing, control_cancel>>
        BY <1>7 DEF SupervisorStep, Stop, SendShutdown, TasksJoined
    <2>2. Sends({"Shutdown"})
        BY <1>7, SupervisorSends
    <2> QED
        BY <2>1, <2>2, SessionFrame
<1>8. CASE GraceElapses
    BY <1>8, SessionAborted
<1>9. CASE UNCHANGED vars
    BY <1>2, <1>9 DEF vars
<1> QED
    BY <1>1, <1>3, <1>4, <1>5, <1>6, <1>7, <1>8, <1>9 DEF Next, Idle

\* The invariant behind the next two theorems and those about leases, inductive
\* over Ownership and RegistryDown.
THEOREM SessionInvariant == Spec => []SessionTasks
<1>1. Init => SessionTasks
    <2> SUFFICES ASSUME Init PROVE SessionTasks
        OBVIOUS
    <2>1. Live = {} /\ Queued = {} /\ Sole("Goodbye")
        BY DEF Init, Live, NoRef, Queued, Sole
    <2> QED
        BY <2>1 DEF Init, SessionTasks, GoodbyesAwaited, Serving, Reported, CleanEnd, Asking, CutOff
<1>2. Ownership /\ RegistryDown /\ SessionTasks /\ [Next]_vars => SessionTasks'
    BY SessionNext DEF Ownership
<1> QED
    BY <1>1, <1>2, OwnershipInvariant, ListenerInvariant, PTL DEF Spec

\* A session in the registry has a control task that will report its end, or the
\* report is in the channel (control.rs: serve; registry.rs: session_lost,
\* goodbye): no order of takeovers, failing queues, goodbyes and aborts leaves a
\* ghost that owns a port for ever.
THEOREM NoGhostSessionHolds == Spec => []NoGhostSession
<1>1. SessionTasks => NoGhostSession
    <2> SUFFICES ASSUME SessionTasks, NEW s \in Live, phase[s] \notin Reporting
                 PROVE  \E i \in 1 .. Len(commands) :
                           /\ commands[i].op \in {"SessionLost", "Goodbye"}
                           /\ commands[i].session = s
                           /\ commands[i].generation = sessions[s].generation
        BY DEF NoGhostSession, Reporting
    <2>1. Reported(s)
        BY DEF SessionTasks, Serving, Live
    <2> QED
        BY <2>1 DEF Reported, Queued
<1> QED
    BY <1>1, SessionInvariant, PTL

\* A running session the registry has dropped is being flushed or is cancelled
\* (registry.rs: displace, session_lost), however full its queue was.
THEOREM DisplacedCutOffHolds == Spec => []DisplacedCutOff
<1>1. SessionTasks => DisplacedCutOff
    BY DEF SessionTasks, Serving, CutOff, DisplacedCutOff
<1> QED
    BY <1>1, SessionInvariant, PTL


-----------------------------------------------------------------------------
(* Reports of a loss *)

\* A SessionLost in the channel comes from a task that is over and did not end
\* cleanly.
Over == {"draining", "ended"}
LossesUnclean ==
    \A k \in Queued : k.op = "SessionLost" =>
        phase[k.session] \in Over /\ k.session \notin clean

\* A step that sends no loss and moves no task that is over.
LEMMA LossesKept ==
    ASSUME TypeOK, LossesUnclean,
           \A k \in Queued' : k.op = "SessionLost" => k \in Queued,
           \A r \in Session : phase[r] \in Over /\ r \notin clean =>
                phase'[r] \in Over /\ r \notin clean'
    PROVE  LossesUnclean'
<1>1. \A k \in Queued : k.op = "SessionLost" => k.session \in Session
    BY QueuedItems
<1> QED
    BY <1>1 DEF LossesUnclean

\* What is sent under another name is not a loss.
LEMMA LossesSent ==
    ASSUME TypeOK, NEW ops, "SessionLost" \notin ops, Sends(ops)
    PROVE  \A k \in Queued' : k.op = "SessionLost" => k \in Queued
<1>1. CASE commands' = commands
    BY <1>1, ChannelSame
<1>2. CASE \E cmd \in Command : cmd.op \in ops /\ commands' = Append(commands, cmd)
    BY <1>2, ChannelSent
<1> QED
    BY <1>1, <1>2 DEF Sends

\* serve reports a loss for a connection that was not ended by a goodbye.
LEMMA LossesControl ==
    ASSUME TypeOK, SessionTasks, LossesUnclean, NEW s \in Session, ControlStep(s)
    PROVE  LossesUnclean'
<1>1. \A r \in Session : r # s => phase'[r] = phase[r] /\ (r \in clean' <=> r \in clean)
    BY ControlLocal
<1>2. ASSUME NEW ops, "SessionLost" \notin ops, Sends(ops),
             phase[s] \in Over /\ s \notin clean => phase'[s] \in Over /\ s \notin clean'
      PROVE  LossesUnclean'
    BY <1>1, <1>2, LossesSent, LossesKept
<1>3. UNCHANGED commands => Sends({}) /\ "SessionLost" \notin {}
    BY DEF Sends
<1>4. CASE /\ phase[s] \in {"lost", "abandoned"} /\ phase'[s] \in {"draining", "ended"}
           /\ clean' \subseteq clean
           /\ Send(SessionCommand("SessionLost", s, grant[s])) \/ Closed
    <2> DEFINE cmd == SessionCommand("SessionLost", s, grant[s])
    <2>1. cmd \in Command /\ cmd.op = "SessionLost" /\ cmd.session = s
        BY CommandsTyped DEF SessionCommand, TypeOK
    <2>2. Send(cmd) \/ Closed
        BY <1>4
    <2> HIDE DEF cmd
    <2>3. s \notin clean'
        BY <1>4 DEF SessionTasks, Serving, CleanEnd
    <2>4. \A r \in Session : phase[r] \in Over /\ r \notin clean =>
              phase'[r] \in Over /\ r \notin clean'
        BY <1>1, <1>4 DEF Over
    <2>5. Queued' \subseteq Queued \cup {cmd}
        <3>1. CASE Send(cmd)
            BY <2>1, <3>1, ChannelSent DEF Send
        <3>2. CASE Closed
            BY <3>2, ChannelSame DEF Closed
        <3> QED
            BY <2>2, <3>1, <3>2
    <2>6. \A k \in Queued : k.op = "SessionLost" => k.session \in Session
        BY QueuedItems
    <2>7. phase'[s] \in Over
        BY <1>4 DEF Over
    <2> QED
        BY <2>1, <2>3, <2>4, <2>5, <2>6, <2>7 DEF LossesUnclean
<1>5. CASE /\ phase[s] = "parting" /\ phase'[s] = "goodbye"
           /\ clean' = clean
           /\ Send(SessionCommand("Goodbye", s, grant[s]))
    <2>1. Sends({"Goodbye"})
        <3>1. SessionCommand("Goodbye", s, grant[s]) \in Command
            BY CommandsTyped DEF TypeOK
        <3> QED
            BY <1>5, <3>1 DEF Send, Sends, SessionCommand
    <2> QED
        BY <1>2, <1>5, <2>1 DEF Over
<1>6. CASE phase[s] = "parting" /\ phase'[s] = "draining" /\ clean' = clean /\ Closed
    BY <1>2, <1>3, <1>6 DEF Over, Closed
<1>7. CASE UNCHANGED <<phase, clean, grant, hello>> /\ Sends({"OpenFailed"})
    BY <1>2, <1>7
<1>8. CASE /\ phase[s] \in {"new", "handshake", "denied"}
           /\ clean' \subseteq clean
           /\ Sends({"Register"})
    BY <1>2, <1>8 DEF Over
<1>9. CASE /\ <<phase[s], phase'[s]>> \in
                 {<<"granted", "running">>, <<"granted", "abandoned">>, <<"running", "lost">>}
           /\ UNCHANGED <<clean, grant, commands>>
    BY <1>2, <1>3, <1>9 DEF Over
<1>10. CASE /\ phase[s] = "running" /\ phase'[s] = "parting"
            /\ UNCHANGED <<grant, commands>>
    BY <1>2, <1>3, <1>10 DEF Over
<1>11. CASE /\ phase[s] \in {"teardown", "draining"} /\ phase'[s] \in {"draining", "ended"}
            /\ clean' \subseteq clean
            /\ UNCHANGED commands
    BY <1>2, <1>3, <1>11 DEF Over
<1> QED
    BY <1>4, <1>5, <1>6, <1>7, <1>8, <1>9, <1>10, <1>11, ControlMoves DEF ServeMove

\* Every step of the server keeps the reports of losses true.
LEMMA LossesNext ==
    ASSUME TypeOK, RegistryStopped, RegistersOnce, SessionTasks, LossesUnclean, [Next]_vars
    PROVE  LossesUnclean'
<1>1. ASSUME UNCHANGED <<phase, clean>>, NEW ops, "SessionLost" \notin ops, Sends(ops)
      PROVE  LossesUnclean'
    BY <1>1, LossesSent, LossesKept
<1>2. ASSUME commands # <<>>, commands' = Tail(commands), clean' = clean,
             \A r \in Session : phase[r] \in Over => phase'[r] = phase[r]
      PROVE  LossesUnclean'
    <2>1. Queued' \subseteq Queued
        BY <1>2, ChannelTaken
    <2> QED
        BY <1>2, <2>1, LossesKept
<1>3. CASE Register
    <2>1. PICK s \in Session : s = Head(commands).session
        BY <1>3, HeadCommand DEF Register, Receive, Command
    <2>2. /\ commands # <<>> /\ Head(commands).op = "Register" /\ Head(commands) = commands[1]
          /\ 1 \in 1 .. Len(commands) /\ commands' = Tail(commands) /\ clean' = clean
        BY <1>3 DEF Register, Receive, TypeOK, Channel
    <2>3. phase[s] = "registering"
        BY <2>1, <2>2 DEF RegistersOnce
    <2>4. \A r \in Session : r # s => phase'[r] = phase[r]
        BY <1>3, <2>1 DEF Register, TypeOK
    <2> QED
        BY <1>2, <2>2, <2>3, <2>4 DEF Over
<1>4. CASE Goodbye
    <2>1. PICK s \in Session : s = Head(commands).session
        BY <1>4, HeadCommand DEF Goodbye, Receive, Command
    <2>2. /\ commands # <<>> /\ commands' = Tail(commands) /\ clean' = clean
          /\ phase' = [phase EXCEPT ![s] = IF @ = "goodbye" THEN "teardown" ELSE @]
        BY <1>4, <2>1 DEF Goodbye, Receive
    <2>3. \A r \in Session : phase'[r] = phase[r] \/ phase[r] = "goodbye"
        BY <2>2 DEF TypeOK
    <2> QED
        BY <1>2, <2>2, <2>3 DEF Over
<1>5. CASE SessionLost \/ AcceptedPublic \/ PeekData \/ ClaimData \/ OpenFailed \/ RequestFinished
    BY <1>2, <1>5 DEF SessionLost, AcceptedPublic, PeekData, ClaimData, OpenFailed, RequestFinished, Receive
<1>6. ASSUME commands' = <<>> PROVE LossesUnclean'
    BY <1>6, ChannelEmptied DEF LossesUnclean
<1>7. CASE Shutdown
    BY <1>6, <1>7 DEF Shutdown
<1>8. CASE GraceElapses
    BY <1>6, <1>8 DEF GraceElapses, RegistryStopped
<1>9. CASE \E s \in Session : ControlStep(s)
    BY <1>9, LossesControl
<1>10. ASSUME UNCHANGED <<phase, clean, commands>> PROVE LossesUnclean'
    <2>1. Sends({}) /\ "SessionLost" \notin {}
        BY <1>10 DEF Sends
    <2> QED
        BY <1>1, <1>10, <2>1
<1>11. CASE \/ Sweep \/ (\E p \in Port : ReservationExpires(p))
            \/ (\E l \in listeners : ListenerStops(l)) \/ UNCHANGED vars
    BY <1>10, <1>11 DEF Sweep, ReservationExpires, ListenerStops, vars
<1>12. CASE \E c \in Conn : PublicStep(c)
    BY <1>1, <1>12, PublicStepFrame, PublicSends
<1>13. CASE \E d \in DataConn : DataStep(d)
    BY <1>1, <1>13, DataStepFrame, DataSends
<1>14. CASE SupervisorStep /\ ~GraceElapses
    <2>1. UNCHANGED <<phase, clean>>
        BY <1>14 DEF SupervisorStep, Stop, SendShutdown, TasksJoined
    <2>2. Sends({"Shutdown"})
        BY <1>14, SupervisorSends
    <2> QED
        BY <1>1, <2>1, <2>2
<1> QED
    BY <1>3, <1>4, <1>5, <1>7, <1>8, <1>9, <1>11, <1>12, <1>13, <1>14 DEF Next, Idle, RegistryStep

\* Only a session that did not end cleanly is reported lost (control.rs: serve).
THEOREM LossesInvariant == Spec => []LossesUnclean
<1>1. Init => LossesUnclean
    BY DEF Init, LossesUnclean, Queued
<1>2. Ownership /\ SessionTasks /\ LossesUnclean /\ [Next]_vars => LossesUnclean'
    BY LossesNext DEF Ownership
<1> QED
    BY <1>1, <1>2, OwnershipInvariant, SessionInvariant, PTL DEF Spec

-----------------------------------------------------------------------------
(* Steps of a port *)

\* The registration at the head of the channel gets port p.
Gets(s, p) ==
    /\ Register
    /\ s = Head(commands).session
    /\ Placement(hello[s]) = Granted(p)
    /\ Install(s, p)

\* The owner of p is lost and p stays reserved for its process.
Loses(p) ==
    /\ ports[p].state = "Active"
    /\ ports'[p].state = "Reserved" /\ ports'[p].session = None
    /\ ports'[p].instance = ports[p].instance
    /\ \A q \in Port : q # p => ports'[q] = ports[q]

\* The owner of p has said goodbye and p is given up.
Leaves(p) ==
    /\ ports[p].state = "Active" /\ ports[p].session \in clean
    /\ ports'[p] = FreeSlot
    /\ \A q \in Port : q # p => ports'[q] = ports[q]

\* session_lost changes no slot, or turns the slot of its session into a
\* reservation for the same process.
LEMMA LostSlot ==
    ASSUME TypeOK, OwnershipConsistent, NEW s \in Session, NEW g \in Nat, session_lost(s, g)
    PROVE  ports' = ports \/ \E p \in Port : Loses(p) /\ ports[p].session = s
<1>1. CASE s \in Live /\ sessions[s].generation = g
    <2> DEFINE p == sessions[s].port
    <2>1. p \in Port /\ ports[p].state = "Active" /\ ports[p].session = s
        BY <1>1 DEF OwnershipConsistent
    <2>2. sessions[s].instance = ports[p].instance
        <3>1. sessions[s] = [instance |-> ports[p].instance,
                             generation |-> ports[p].generation, port |-> p]
            BY <2>1 DEF OwnershipConsistent
        <3> QED
            BY <3>1
    <2>3. CASE ports' = Reserve(s, g)
        <3>1. ports' = [ports EXCEPT ![p] =
                          [state |-> "Reserved", listener |-> ports[p].listener, session |-> None,
                           instance |-> ports[p].instance, generation |-> g, expired |-> FALSE]]
            BY <2>1, <2>2, <2>3 DEF TypeOK, Reserve
        <3> HIDE DEF p
        <3>2. Loses(p)
            BY <2>1, <3>1 DEF TypeOK, Loses
        <3> QED
            BY <2>1, <3>2
    <2> QED
        BY <1>1, <2>3 DEF session_lost
<1>2. CASE ~(s \in Live /\ sessions[s].generation = g)
    BY <1>2 DEF session_lost
<1> QED
    BY <1>1, <1>2

\* goodbye gives up the port of the session at the head of the channel, which has
\* ended cleanly, or changes no slot.
LEMMA GoodbyeSlot ==
    ASSUME TypeOK, OwnershipConsistent, SessionTasks, Goodbye
    PROVE  ports' = ports \/ \E p \in Port : Leaves(p)
<1>0. PICK s \in Session : s = Head(commands).session
    BY HeadCommand DEF Goodbye, Receive, Command
<1> DEFINE g == Head(commands).generation
<1>1. commands # <<>> /\ Head(commands).op = "Goodbye" /\ goodbye(s, g)
    BY <1>0 DEF Goodbye, Receive
<1>2. s \in clean
    <2>1. Head(commands) \in Queued
        BY <1>1 DEF Queued, TypeOK, Channel
    <2> QED
        BY <1>0, <1>1, <2>1 DEF SessionTasks, GoodbyesAwaited
<1>3. CASE s \in Live /\ sessions[s].generation = g
    <2> DEFINE p == sessions[s].port
    <2>1. p \in Port /\ ports[p].state = "Active" /\ ports[p].session = s
        BY <1>3 DEF OwnershipConsistent
    <2>2. sessions[s].generation = ports[p].generation
        BY <2>1, OwnerEntry
    <2>3. Current(s, g)
        BY <1>3, <2>1, <2>2 DEF Current
    <2>4. ports' = [q \in Port |-> IF q \in {p} THEN FreeSlot ELSE ports[q]]
        BY <1>1, <1>3, <2>3 DEF goodbye, ReleaseSlots
    <2> HIDE DEF p
    <2>5. Leaves(p)
        BY <1>2, <2>1, <2>4 DEF Leaves
    <2> QED
        BY <2>1, <2>5
<1>4. CASE ~(s \in Live /\ sessions[s].generation = g)
    BY <1>1, <1>4 DEF goodbye
<1> QED
    BY <1>3, <1>4

\* Every step leaves the slots alone or is one of these.
LEMMA PortSteps ==
    ASSUME TypeOK, OwnershipConsistent, SessionTasks, [Next]_vars
    PROVE  \/ ports' = ports
           \/ \E s \in Session, p \in Port : Gets(s, p)
           \/ \E p \in Port : Loses(p) \/ Leaves(p)
           \/ Sweep \/ (\E p \in Port : ReservationExpires(p)) \/ Shutdown
<1>1. CASE Register
    <2>1. PICK s \in Session : s = Head(commands).session
        BY <1>1, HeadCommand DEF Register, Receive, Command
    <2> QED
        BY <1>1, <2>1 DEF Register, Gets
<1>2. CASE SessionLost
    <2>1. Head(commands).session \in Session /\ Head(commands).generation \in Nat
        BY <1>2, HeadCommand DEF SessionLost, Receive, Command
    <2> QED
        BY <1>2, <2>1, LostSlot DEF SessionLost
<1>3. CASE Goodbye
    BY <1>3, GoodbyeSlot
<1>4. CASE AcceptedPublic
    <2> DEFINE c == Head(commands).item
    <2> DEFINE s == ports[via[c].port].session
    <2>1. CASE Admitted(c) /\ FailSession(c, s)
        <3>1. s \in Session /\ ports[via[c].port].generation \in Nat
            BY <2>1 DEF TypeOK, Admitted, Slots, PortSlot
        <3>2. session_lost(s, ports[via[c].port].generation)
            BY <2>1 DEF FailSession
        <3> QED
            BY <3>1, <3>2, LostSlot
    <2>2. Reject(c) \/ (Admitted(c) /\ FailSession(c, s)) \/ OpenRequest(c, s)
        BY <1>4 DEF AcceptedPublic
    <2> HIDE DEF s, c
    <2>3. ASSUME Reject(c) \/ OpenRequest(c, s) PROVE ports' = ports
        BY <2>3 DEF Reject, OpenRequest
    <2> QED
        BY <2>1, <2>2, <2>3
<1>5. CASE PeekData \/ ClaimData \/ OpenFailed \/ RequestFinished
    BY <1>5 DEF PeekData, ClaimData, OpenFailed, RequestFinished
<1>6. CASE \/ \E s \in Session : ControlStep(s)
           \/ \E c \in Conn : PublicStep(c)
           \/ \E d \in DataConn : DataStep(d)
           \/ SupervisorStep
    BY <1>6, ControlFrame, PublicStepFrame, DataStepFrame, SupervisorStepFrame
<1>7. CASE (\E l \in listeners : ListenerStops(l)) \/ UNCHANGED vars
    BY <1>7 DEF ListenerStops, vars
<1> QED
    BY <1>1, <1>2, <1>3, <1>4, <1>5, <1>6, <1>7 DEF Next, Idle, RegistryStep

\* A slot is given up only after its reservation has run out, by the goodbye of its
\* own session, or at shutdown (registry.rs: goodbye, sweep, shutdown_all): no
\* late command of an earlier owner releases it, for any number of sessions.
THEOREM TunnelKeptHolds == Spec => TunnelKept
<1>1. TypeOK /\ OwnershipConsistent /\ SessionTasks /\ [Next]_vars => [ReleaseStep]_vars
    <2> SUFFICES ASSUME TypeOK, OwnershipConsistent, SessionTasks, [Next]_vars,
                        NEW p \in Slots, ports'[p].state = "Free"
                 PROVE  \/ ports[p].state = "Reserved" /\ ports[p].expired
                        \/ ports[p].state = "Active" /\ ports[p].session \in clean
                        \/ ~registryUp'
        BY DEF ReleaseStep
    <2>1. p \in Port /\ ports[p].state # "Free" /\ ports' # ports
        BY DEF Slots
    <2>2. ASSUME NEW s \in Session, NEW q \in Port, Gets(s, q) PROVE FALSE
        BY <2>1, <2>2 DEF Gets, Install, TypeOK
    <2>3. ASSUME NEW q \in Port, Loses(q) PROVE FALSE
        BY <2>1, <2>3 DEF Loses
    <2>4. ASSUME NEW q \in Port, Leaves(q)
          PROVE  ports[p].state = "Active" /\ ports[p].session \in clean
        BY <2>1, <2>4 DEF Leaves
    <2>5. CASE Sweep
        BY <2>1, <2>5 DEF Sweep, ReleaseSlots, ExpiredSlots
    <2>6. ASSUME NEW q \in Port, ReservationExpires(q) PROVE FALSE
        BY <2>1, <2>6 DEF ReservationExpires, TypeOK, PortSlot
    <2>7. CASE Shutdown
        BY <2>7 DEF Shutdown
    <2> QED
        BY <2>1, <2>2, <2>3, <2>4, <2>5, <2>6, <2>7, PortSteps
<1> QED
    BY <1>1, OwnershipInvariant, SessionInvariant, PTL DEF Spec, Ownership, TunnelKept

\* A port passes from one process to another only by a fresh registration that
\* names it (registry.rs: register, resume_slot, allocate_automatic).
THEOREM OnlyFreshTakesOverHolds == Spec => OnlyFreshTakesOver
<1>1. TypeOK /\ OwnershipConsistent /\ SessionTasks /\ [Next]_vars => [TakeoverStep]_vars
    <2> SUFFICES ASSUME TypeOK, OwnershipConsistent, SessionTasks, [Next]_vars,
                        NEW p \in Port, ports[p].state # "Free", ports'[p].state # "Free",
                        ports'[p].instance # ports[p].instance
                 PROVE  \E s \in Session : /\ ports'[p].session = s
                                           /\ hello[s].mode = "Fresh" /\ hello[s].port = p
        BY DEF TakeoverStep
    <2>1. ASSUME NEW s \in Session, NEW q \in Port, Gets(s, q)
          PROVE  /\ ports'[p].session = s
                 /\ hello[s].mode = "Fresh" /\ hello[s].port = p
        <3>1. /\ q = p /\ ports'[p].session = s
              /\ ports'[p].instance = hello[s].instance
            BY <2>1 DEF Gets, Install, TypeOK
        <3>2. hello[s] \in Hello \cup {NoHello} /\ Placement(hello[s]) = Granted(p) /\ p \in Slots
            BY <2>1, <3>1 DEF TypeOK, Gets, Slots
        <3>3. ports[p].instance = hello[s].instance \/ (hello[s].mode = "Fresh" /\ hello[s].port = p)
            BY <3>2, PlacementGranted
        <3> QED
            BY <3>1, <3>3
    <2>2. ASSUME NEW q \in Port, Loses(q) \/ Leaves(q) PROVE FALSE
        BY <2>2 DEF Loses, Leaves, FreeSlot
    <2>3. CASE Sweep
        BY <2>3 DEF Sweep, ReleaseSlots, FreeSlot
    <2>4. ASSUME NEW q \in Port, ReservationExpires(q) PROVE FALSE
        BY <2>4 DEF ReservationExpires, TypeOK, PortSlot
    <2>5. CASE Shutdown
        BY <2>5 DEF Shutdown, shutdown_all, ReleaseSlots, Slots, FreeSlot
    <2> QED
        BY <2>1, <2>2, <2>3, <2>4, <2>5, PortSteps
<1> QED
    BY <1>1, OwnershipInvariant, SessionInvariant, PTL DEF Spec, Ownership, OnlyFreshTakesOver

\* An automatic registration binds a new port only for a process that has none
\* (registry.rs: allocate_automatic), so a client that retries because REGISTERED
\* was lost gets its slot back.
THEOREM AutomaticIdempotentHolds == Spec => AutomaticIdempotent
<1>1. TypeOK /\ OwnershipConsistent /\ SessionTasks /\ [Next]_vars => [AutomaticStep]_vars
    <2> SUFFICES ASSUME TypeOK, OwnershipConsistent, SessionTasks, [Next]_vars,
                        NEW p \in Port \ Slots, ports'[p].state = "Active",
                        hello[ports'[p].session].port = 0, NEW q \in Slots
                 PROVE  ports[q].instance # ports'[p].instance
        BY DEF AutomaticStep
    <2>1. p \in Port /\ ports[p].state = "Free" /\ ports' # ports
        BY DEF Slots
    <2>2. ASSUME NEW s \in Session, NEW r \in Port, Gets(s, r)
          PROVE  ports[q].instance # ports'[p].instance
        <3>1. /\ r = p /\ ports'[p].session = s
              /\ ports'[p].instance = hello[s].instance
            BY <2>1, <2>2 DEF Gets, Install, TypeOK
        <3>2. hello[s] \in Hello \cup {NoHello} /\ Placement(hello[s]) = Granted(p)
            BY <2>2, <3>1 DEF TypeOK, Gets
        <3>3. OwnSlots(hello[s].instance) = {}
            BY <3>1, <3>2, PlacementGranted
        <3> QED
            BY <3>1, <3>3 DEF OwnSlots
    <2>3. ASSUME NEW r \in Port, Loses(r) \/ Leaves(r) PROVE FALSE
        BY <2>1, <2>3 DEF Loses, Leaves, FreeSlot
    <2>4. CASE Sweep
        BY <2>1, <2>4 DEF Sweep, ReleaseSlots, FreeSlot
    <2>5. ASSUME NEW r \in Port, ReservationExpires(r) PROVE FALSE
        BY <2>1, <2>5 DEF ReservationExpires, TypeOK, PortSlot
    <2>6. CASE Shutdown
        BY <2>6 DEF Shutdown, shutdown_all, ReleaseSlots, Slots, FreeSlot
    <2> QED
        BY <2>1, <2>2, <2>3, <2>4, <2>5, <2>6, PortSteps
<1> QED
    BY <1>1, OwnershipInvariant, SessionInvariant, PTL DEF Spec, Ownership, AutomaticIdempotent

-----------------------------------------------------------------------------
(* Users and the slots that accepted them *)

\* The session whose registration is handled is waiting for the answer.
LEMMA RegisteringNow ==
    ASSUME TypeOK, RegistersOnce, Register
    PROVE  Head(commands).session \in Session /\ phase[Head(commands).session] = "registering"
<1>1. commands # <<>> /\ Head(commands).op = "Register"
    BY DEF Register, Receive
<1>2. /\ Head(commands).session \in Session
      /\ Head(commands) = commands[1] /\ 1 \in 1 .. Len(commands)
    BY <1>1, HeadCommand DEF Command, TypeOK, Channel
<1> QED
    BY <1>1, <1>2 DEF RegistersOnce

\* A session that has had the answer to its registration does not register again.
LEMMA RegisteredStays ==
    ASSUME TypeOK, RegistersOnce, [Next]_vars, NEW s \in Session, phase[s] \notin Unregistered
    PROVE  phase'[s] \notin Unregistered
<1>1. ASSUME NEW r \in Session, ControlStep(r) PROVE phase'[s] \notin Unregistered
    <2>1. CASE r # s
        BY <1>1, <2>1, ControlLocal
    <2>2. CASE r = s
        BY <1>1, <2>2, ControlMoves DEF ServeMove, Unregistered
    <2> QED
        BY <2>1, <2>2
<1>2. CASE Register
    <2>1. PICK r \in Session : r = Head(commands).session
        BY <1>2, RegisteringNow
    <2>2. phase[r] = "registering"
        BY <1>2, <2>1, RegisteringNow
    <2>3. phase' \in {[phase EXCEPT ![r] = "granted"], [phase EXCEPT ![r] = "denied"]}
        BY <1>2, <2>1 DEF Register
    <2> QED
        BY <2>2, <2>3 DEF Unregistered, TypeOK
<1>3. CASE Goodbye
    <2>1. PICK r \in Session : r = Head(commands).session
        BY <1>3, HeadCommand DEF Goodbye, Receive, Command
    <2>2. phase' = [phase EXCEPT ![r] = IF @ = "goodbye" THEN "teardown" ELSE @]
        BY <1>3, <2>1 DEF Goodbye
    <2> QED
        BY <2>2 DEF Unregistered, TypeOK
<1>4. CASE Shutdown
    BY <1>4 DEF Shutdown, Unregistered
<1>5. CASE GraceElapses
    BY <1>5 DEF GraceElapses, EndServe, Unregistered
<1>6. CASE SessionLost \/ AcceptedPublic \/ PeekData \/ ClaimData \/ OpenFailed \/ RequestFinished
    BY <1>6 DEF SessionLost, AcceptedPublic, PeekData, ClaimData, OpenFailed, RequestFinished
<1>7. CASE \/ Sweep \/ (\E p \in Port : ReservationExpires(p))
           \/ (\E l \in listeners : ListenerStops(l)) \/ UNCHANGED vars
    BY <1>7 DEF Sweep, ReservationExpires, ListenerStops, vars
<1>8. CASE (\E c \in Conn : PublicStep(c)) \/ (\E d \in DataConn : DataStep(d))
    BY <1>8, PublicStepFrame, DataStepFrame
<1>9. CASE SupervisorStep /\ ~GraceElapses
    BY <1>9 DEF SupervisorStep, Stop, SendShutdown, TasksJoined
<1> QED
    BY <1>1, <1>2, <1>3, <1>4, <1>5, <1>6, <1>7, <1>8, <1>9 DEF Next, Idle, RegistryStep

\* Its entry in the sessions map stays as it is until it is removed.
LEMMA EntryStays ==
    ASSUME TypeOK, RegistersOnce, [Next]_vars,
           NEW s \in Session, s \in Live', phase[s] \notin Unregistered
    PROVE  s \in Live /\ sessions'[s] = sessions[s]
<1>0. SUFFICES sessions'[s] = sessions[s]
    BY DEF Live
<1>1. sessions'[s] # NoRef
    BY DEF Live, NoRef
<1>2. ASSUME NEW S, sessions' = Without(S) PROVE sessions'[s] = sessions[s]
    BY <1>1, <1>2 DEF Without
<1>3. CASE Register
    <2>1. PICK r \in Session : r = Head(commands).session
        BY <1>3, RegisteringNow
    <2>2. r # s
        BY <1>3, <2>1, RegisteringNow DEF Unregistered
    <2>3. CASE \E p \in Port : Install(r, p)
        <3>1. PICK p \in Port : Install(r, p)
            BY <2>3
        <3>2. Without(Previous(p)) \in [Session -> SessionRef]
            BY WithoutType
        <3>3. sessions'[s] = Without(Previous(p))[s]
            BY <2>2, <3>1, <3>2 DEF Install
        <3> QED
            BY <1>1, <3>3 DEF Without
    <2> QED
        BY <1>3, <2>1, <2>3 DEF Register
<1>4. CASE SessionLost \/ Goodbye \/ Shutdown
    BY <1>2, <1>4 DEF SessionLost, session_lost, Goodbye, goodbye, Shutdown, shutdown_all
<1>5. CASE AcceptedPublic
    <2>1. PICK r, g, c :
            Reject(c) \/ (Admitted(c) /\ FailSession(c, r) /\ session_lost(r, g)) \/ OpenRequest(c, r)
        BY <1>5 DEF AcceptedPublic, FailSession
    <2>2. CASE session_lost(r, g)
        BY <1>2, <2>2 DEF session_lost
    <2>3. CASE Reject(c) \/ OpenRequest(c, r)
        BY <2>3 DEF Reject, OpenRequest
    <2> QED
        BY <2>1, <2>2, <2>3
<1>6. CASE PeekData \/ ClaimData \/ OpenFailed \/ RequestFinished
    BY <1>6 DEF PeekData, ClaimData, OpenFailed, RequestFinished
<1>7. CASE \/ Sweep \/ (\E p \in Port : ReservationExpires(p))
           \/ (\E l \in listeners : ListenerStops(l)) \/ UNCHANGED vars
    BY <1>7 DEF Sweep, ReservationExpires, ListenerStops, vars
<1>8. CASE \/ \E r \in Session : ControlStep(r)
           \/ \E c \in Conn : PublicStep(c)
           \/ \E d \in DataConn : DataStep(d)
           \/ SupervisorStep
    BY <1>8, ControlFrame, PublicStepFrame, DataStepFrame, SupervisorStepFrame
<1> QED
    BY <1>3, <1>4, <1>5, <1>6, <1>7, <1>8 DEF Next, Idle, RegistryStep

\* And its slot keeps its accept loop: a port is bound again only after its slot
\* was given up.
LEMMA ListenerStays ==
    ASSUME TypeOK, RegistersOnce, OwnershipConsistent, OwnershipConsistent', SessionTasks,
           [Next]_vars, NEW s \in Session, s \in Live', phase[s] \notin Unregistered
    PROVE  ports'[sessions[s].port].listener = ports[sessions[s].port].listener
<1> DEFINE q == sessions[s].port
<1>1. s \in Live /\ sessions'[s] = sessions[s]
    BY EntryStays
<1>2. /\ q \in Port /\ ports[q].state = "Active"
      /\ ports'[q].state = "Active" /\ ports'[q].session = s
    BY <1>1 DEF OwnershipConsistent
<1> HIDE DEF q
<1> SUFFICES ports'[q].listener = ports[q].listener
    BY DEF q
<1>3. ASSUME NEW r \in Session, NEW p \in Port, Gets(r, p)
      PROVE  ports'[q].listener = ports[q].listener
    <2>1. phase[r] = "registering"
        BY <1>3, RegisteringNow DEF Gets
    <2>2. ports'[p].session = r /\ \A x \in Port : x # p => ports'[x] = ports[x]
        BY <1>3 DEF Gets, Install, TypeOK
    <2> QED
        BY <1>2, <2>1, <2>2 DEF Unregistered
<1>4. ASSUME NEW p \in Port, Loses(p) \/ Leaves(p)
      PROVE  ports'[q].listener = ports[q].listener
    BY <1>2, <1>4 DEF Loses, Leaves, FreeSlot
<1>5. CASE Sweep \/ Shutdown
    BY <1>2, <1>5 DEF Sweep, Shutdown, shutdown_all, ReleaseSlots, ExpiredSlots, Slots, FreeSlot
<1>6. ASSUME NEW p \in Port, ReservationExpires(p)
      PROVE  ports'[q].listener = ports[q].listener
    BY <1>2, <1>6 DEF ReservationExpires, TypeOK
<1> QED
    BY <1>3, <1>4, <1>5, <1>6, PortSteps

\* A connection is served on, unchanged, or accepted_public has just admitted it.
LEMMA ServedSteps ==
    ASSUME TypeOK, RequestTasks, [Next]_vars, NEW c \in Conn, c \in Served'
    PROVE  \/ c \in Served /\ req'[c] = req[c] /\ via'[c] = via[c]
           \/ /\ Admitted(c) /\ OpenRequest(c, ports[via[c].port].session)
              /\ UNCHANGED <<phase, via>>
<1>0. c \in Served' <=> conn'[c] \in {"waiting", "readying", "forwarding", "finishing"}
    BY DEF Served
<1>1. ASSUME UNCHANGED <<conn, req, via>>
      PROVE  c \in Served /\ req'[c] = req[c] /\ via'[c] = via[c]
    BY <1>1 DEF Served
<1>2. CASE AcceptedPublic
    <2>1. /\ commands # <<>> /\ commands' = Tail(commands) /\ Head(commands).op = "AcceptedPublic"
          /\ Head(commands) \in Queued
        BY <1>2, ChannelTaken DEF AcceptedPublic, Receive
    <2>2. PICK k \in Conn : k = Head(commands).item
        BY <2>1, QueuedItems
    <2>3. UNCHANGED <<phase, via>>
        BY <1>2 DEF AcceptedPublic
    <2>4. CASE Reject(k) \/ FailSession(k, ports[via[k].port].session)
        <3>1. conn' = [conn EXCEPT ![k] = "closed"] /\ req' = req
            BY <2>4 DEF Reject, FailSession
        <3> QED
            BY <1>0, <2>3, <3>1 DEF TypeOK, Served
    <2>5. CASE Admitted(k) /\ OpenRequest(k, ports[via[k].port].session)
        <3>1. \A x \in Conn : x # k => conn'[x] = conn[x] /\ req'[x] = req[x]
            BY <2>5 DEF OpenRequest, TypeOK
        <3> QED
            BY <1>0, <2>3, <2>5, <3>1 DEF Served
    <2> QED
        BY <1>2, <2>2, <2>4, <2>5 DEF AcceptedPublic
<1>3. CASE \E k \in Conn : PublicStep(k)
    <2>1. PICK k \in Conn : PublicStep(k)
        BY <1>3
    <2>2. CASE ServePublicEnds(k) \/ ServePublicStep(k) \/ ForwardEnds(k) \/ DeadlinePasses(k)
        <3>1. /\ UNCHANGED <<req, via>>
              /\ conn' = conn \/ conn[k] \in {"waiting", "readying", "forwarding", "finishing"}
              /\ conn' = conn \/ \E x : conn' = [conn EXCEPT ![k] = x]
            BY <2>2 DEF ServePublicEnds, ServePublicStep, WaitEnds, TakeData, WriteReady,
                        ReadyFails, ForwardCancelled, ForwardEnds, CloseBoth, DeadlinePasses
        <3> QED
            BY <1>0, <3>1 DEF Served, TypeOK
    <2>3. CASE \E l \in listeners : AcceptPublic(k, l)
        <3>1. /\ \E x \in {"queued", "closed"} : conn' = [conn EXCEPT ![k] = x]
              /\ req' = req /\ \A x \in Conn : x # k => via'[x] = via[x]
            BY <2>3 DEF AcceptPublic, TypeOK
        <3> QED
            BY <1>0, <3>1 DEF Served, TypeOK
    <2> QED
        BY <2>1, <2>2, <2>3 DEF PublicStep
<1>4. CASE Shutdown
    <2>1. /\ UNCHANGED <<req, via>>
          /\ conn' = [x \in Conn |-> IF conn[x] = "queued" THEN "closed" ELSE conn[x]]
        BY <1>4 DEF Shutdown
    <2> QED
        BY <1>0, <2>1 DEF Served
<1>5. CASE \/ Register \/ SessionLost \/ Goodbye \/ PeekData \/ ClaimData \/ OpenFailed
           \/ RequestFinished \/ Sweep \/ (\E p \in Port : ReservationExpires(p))
           \/ \E l \in listeners : ListenerStops(l)
    BY <1>1, <1>5 DEF Register, SessionLost, Goodbye, PeekData, ClaimData, OpenFailed,
            RequestFinished, Sweep, ReservationExpires, ListenerStops
<1>6. CASE \/ \E s \in Session : ControlStep(s)
           \/ \E d \in DataConn : DataStep(d)
           \/ SupervisorStep
    BY <1>1, <1>6, ControlFrame, DataStepFrame, SupervisorStepFrame
<1>7. CASE UNCHANGED vars
    BY <1>1, <1>7 DEF vars
<1> QED
    BY <1>2, <1>3, <1>4, <1>5, <1>6, <1>7 DEF Next, RegistryStep, Idle

\* The tunnel of a user has registered.
ServedRegistered == \A c \in Served : phase[req[c].session] \notin Unregistered

LEMMA ServedNext ==
    ASSUME TypeOK, RegistersOnce, OwnershipConsistent, OwnershipConsistent', SessionTasks,
           RequestTasks, Semaphores, ServedRegistered, ServedByItsSlot, [Next]_vars
    PROVE  ServedRegistered' /\ ServedByItsSlot'
<1> SUFFICES ASSUME NEW c \in Conn, c \in Served'
             PROVE  /\ phase'[req'[c].session] \notin Unregistered
                    /\ req'[c].session \in Live' =>
                         via'[c] = [id |-> ports'[sessions'[req'[c].session].port].listener,
                                    port |-> sessions'[req'[c].session].port]
    BY DEF ServedRegistered, ServedByItsSlot, Served
<1>1. CASE c \in Served /\ req'[c] = req[c] /\ via'[c] = via[c]
    <2>1. PICK s \in Session : s = req[c].session
        BY <1>1 DEF Semaphores
    <2>2. phase[s] \notin Unregistered /\ phase'[s] \notin Unregistered
        BY <1>1, <2>1, RegisteredStays DEF ServedRegistered
    <2>3. ASSUME s \in Live'
          PROVE  via'[c] = [id |-> ports'[sessions'[s].port].listener, port |-> sessions'[s].port]
        <3>1. s \in Live /\ sessions'[s] = sessions[s]
            BY <2>2, <2>3, EntryStays
        <3>2. ports'[sessions[s].port].listener = ports[sessions[s].port].listener
            BY <2>2, <2>3, ListenerStays
        <3>3. via[c] = [id |-> ports[sessions[s].port].listener, port |-> sessions[s].port]
            BY <1>1, <2>1, <3>1 DEF ServedByItsSlot
        <3> QED
            BY <1>1, <3>1, <3>2, <3>3
    <2> QED
        BY <1>1, <2>1, <2>2, <2>3
<1>2. CASE /\ Admitted(c) /\ OpenRequest(c, ports[via[c].port].session)
           /\ UNCHANGED <<phase, via>>
    <2> DEFINE p == via[c].port
    <2>1. /\ p \in Port /\ ports[p].state = "Active" /\ ports[p].listener = via[c].id
          /\ ports[p].session \in Session
        BY <1>2 DEF Admitted, Slots, TypeOK, PortSlot
    <2>2. PICK s \in Session : s = ports[p].session
        BY <2>1
    <2>3. s \in Live /\ sessions[s].port = p
        BY <2>1, <2>2, OwnerEntry
    <2>4. phase[s] \notin Unregistered
        BY <2>3 DEF RegistersOnce
    <2>5. req'[c].session = s /\ UNCHANGED <<ports, sessions>>
        BY <1>2, <2>2 DEF OpenRequest, TypeOK
    <2>6. via[c] = [id |-> via[c].id, port |-> p]
        BY DEF TypeOK
    <2> QED
        BY <1>2, <2>1, <2>3, <2>4, <2>5, <2>6
<1> QED
    BY <1>1, <1>2, ServedSteps

\* A user is served by the tunnel whose accept loop took its connection: one that
\* was still in the channel when its slot was given up is never handed to the
\* tunnel that binds the port next (registry.rs: accepted_public's listener_id).
THEOREM ServedByItsSlotHolds == Spec => []ServedByItsSlot
<1>1. Init => ServedRegistered /\ ServedByItsSlot
    BY DEF Init, ServedRegistered, ServedByItsSlot, Served
<1>2. /\ Ownership /\ Ownership' /\ SessionTasks /\ RequestTasks /\ Semaphores
      /\ ServedRegistered /\ ServedByItsSlot /\ [Next]_vars
      => ServedRegistered' /\ ServedByItsSlot'
    BY ServedNext DEF Ownership
<1> QED
    BY <1>1, <1>2, OwnershipInvariant, SessionInvariant, TasksInvariant, PermitInvariant, PTL
    DEF Spec

-----------------------------------------------------------------------------
(* The refinement *)

\* What a lease is made of, and that nobody is called None.
LEMMA LeaseRecord ==
    ASSUME TypeOK
    PROVE  /\ None \notin clean
           /\ Leases = [p \in Port |-> Leases[p]]
           /\ \A p \in Port :
                 Leases[p] = [state |-> IF ports[p].session \in clean THEN "Leaving"
                                        ELSE ports[p].state,
                              owner |-> ports[p].instance, holder |-> ports[p].session]
<1>1. None \notin clean
    BY IdentityAssumption DEF TypeOK
<1> QED
    BY <1>1 DEF Leases, LeaseState

\* A slot without an owner names no session, and one with an owner names a session
\* of the registry.
LEMMA Holders ==
    ASSUME TypeOK, OwnershipConsistent, NEW p \in Port
    PROVE  /\ ports[p].state # "Active" => ports[p].session = None
           /\ ports[p].session \in Live \cup {None}
           /\ ports[p].state \in {"Free", "Reserved", "Active"}
<1>1. ports[p] \in PortSlot
    BY DEF TypeOK
<1>2. ports[p].state # "Active" => ports[p].session = None
    BY <1>1 DEF PortSlot
<1>3. ports[p].state = "Active" => ports[p].session \in Live
    BY OwnerEntry
<1> QED
    BY <1>1, <1>2, <1>3 DEF PortSlot

\* Leases do not change with tasks that own no port.
LEMMA LeasesSame ==
    ASSUME TypeOK, TypeOK', OwnershipConsistent, ports' = ports,
           \A r \in Live : r \in clean' <=> r \in clean
    PROVE  Leases' = Leases
<1>1. None \notin clean /\ None \notin clean'
    BY IdentityAssumption DEF TypeOK
<1>2. \A p \in Port : ports[p].session \in Live \cup {None}
    BY Holders
<1>3. \A p \in Port : LeaseState(p)' = LeaseState(p)
    BY <1>1, <1>2 DEF LeaseState
<1> QED
    BY <1>3 DEF Leases

\* One lease changes.
LEMMA LeaseChanged ==
    ASSUME NEW p \in Port, NEW l, Leases'[p] = l,
           \A q \in Port : q # p => ports'[q] = ports[q],
           \A q \in Port : q # p => (ports[q].session \in clean' <=> ports[q].session \in clean)
    PROVE  Leases' = [Leases EXCEPT ![p] = l]
<1>1. \A q \in Port : q # p => Leases'[q] = Leases[q]
    BY DEF Leases, LeaseState
<1>2. Leases' = [q \in Port |-> Leases'[q]] /\ Leases = [q \in Port |-> Leases[q]]
    BY DEF Leases
<1> HIDE DEF Leases
<1> QED
    BY <1>1, <1>2

\* The sessions that have had their chance, by the state of the registry.
LEMMA SpentSets ==
    /\ ~registryUp => Spent = Session
    /\ registryUp => Spent = {s \in Session : phase[s] \notin {"new", "handshake", "registering"}}
BY DEF Spent

\* Steps of the control connections: a connection turned away has had its chance,
\* and a goodbye read from the owner of a port makes it leave.
LEMMA LeaseControl ==
    ASSUME TypeOK, TypeOK', RegistersOnce, OwnershipConsistent, RegistryDown, SessionTasks,
           NEW s \in Session, ControlStep(s)
    PROVE  [Lease!Next]_(Lease!leaseVars)
<1>1. UNCHANGED <<ports, sessions, registryUp>>
    BY ControlFrame
<1>2. \A r \in Session : r # s => phase'[r] = phase[r] /\ (r \in clean' <=> r \in clean)
    BY ControlLocal
<1>3. Live \subseteq Session
    BY DEF Live
<1>4. ASSUME s \in Live => (s \in clean' <=> s \in clean)
      PROVE  Leases' = Leases
    BY <1>1, <1>2, <1>3, <1>4, LeasesSame
<1>5. Serving(s)
    BY DEF SessionTasks
<1> DEFINE Before == {"new", "handshake", "registering"}
<1>6. ASSUME phase[s] \in Before <=> phase'[s] \in Before
      PROVE  Spent' = Spent
    BY <1>1, <1>2, <1>6 DEF Spent
<1>7. ASSUME phase[s] \in Before <=> phase'[s] \in Before,
             s \in Live => (s \in clean' <=> s \in clean)
      PROVE  UNCHANGED Lease!leaseVars
    BY <1>1, <1>4, <1>6, <1>7 DEF Lease!leaseVars
<1>8. CASE UNCHANGED <<phase, clean, grant, hello>> /\ Sends({"OpenFailed"})
    BY <1>7, <1>8
<1>9. CASE /\ phase[s] \in {"new", "handshake", "denied"}
           /\ phase'[s] \in {"handshake", "registering", "denied", "draining", "ended"}
           /\ phase'[s] = "handshake" => phase[s] = "new" /\ hello'[s] \in Hello
           /\ phase'[s] = "registering" => phase[s] = "handshake" /\ hello' = hello
           /\ clean' \subseteq clean
           /\ Sends({"Register"})
    <2>1. s \notin Live
        BY <1>9 DEF RegistersOnce, Unregistered
    <2>2. Leases' = Leases
        BY <1>4, <2>1
    <2>3. CASE ~registryUp
        BY <1>1, <2>2, <2>3, SpentSets DEF Spent, Lease!leaseVars
    <2>4. CASE registryUp /\ (phase[s] \in Before <=> phase'[s] \in Before)
        BY <1>7, <2>1, <2>4
    <2>5. CASE registryUp /\ ~(phase[s] \in Before <=> phase'[s] \in Before)
        <3>1. phase[s] \in Before /\ phase'[s] \notin Before
            BY <1>9, <2>5
        <3>2. s \notin Spent /\ Spent' = Spent \cup {s}
            BY <1>1, <1>2, <2>5, <3>1 DEF Spent
        <3>3. Lease!Ask(s)
            BY <1>1, <2>2, <2>5, <3>2 DEF Lease!Ask
        <3> QED
            BY <3>2, <3>3 DEF Lease!Next
    <2> QED
        BY <2>3, <2>4, <2>5
<1>10. CASE /\ <<phase[s], phase'[s]>> \in
                  {<<"granted", "running">>, <<"granted", "abandoned">>, <<"running", "lost">>}
            /\ UNCHANGED <<clean, grant, commands>>
    BY <1>7, <1>10
<1>11. CASE /\ phase[s] = "running" /\ phase'[s] = "parting"
            /\ clean' = clean \cup {s}
            /\ UNCHANGED <<grant, commands>>
    <2>1. CASE s \notin Live
        BY <1>7, <1>11, <2>1
    <2>2. CASE s \in Live
        <3> DEFINE p == sessions[s].port
        <3>1. p \in Port /\ ports[p].state = "Active" /\ ports[p].session = s
            BY <2>2 DEF OwnershipConsistent
        <3>2. \A q \in Port : q # p => ports[q].session # s
            <4>1. \A q \in Port : ports[q].session = s => ports[q].state = "Active"
                BY <1>3, <2>2, Holders, IdentityAssumption
            <4> QED
                BY <4>1, OwnerEntry
        <3>3. s \notin clean
            BY <1>5, <1>11 DEF Serving, CleanEnd
        <3> HIDE DEF p
        <3>4. /\ Leases[p] = [state |-> "Active", owner |-> ports[p].instance, holder |-> s]
              /\ Leases'[p] = [state |-> "Leaving", owner |-> ports[p].instance, holder |-> s]
            BY <1>1, <1>11, <3>1, <3>3 DEF Leases, LeaseState
        <3>5. Leases' = [Leases EXCEPT ![p] =
                           [state |-> "Leaving", owner |-> ports[p].instance, holder |-> s]]
            BY <1>1, <1>11, <3>1, <3>2, <3>4, LeaseChanged
        <3>6. [Leases[p] EXCEPT !.state = "Leaving"] =
                [state |-> "Leaving", owner |-> ports[p].instance, holder |-> s]
            BY <3>4
        <3>7. Leases' = [Leases EXCEPT ![p].state = "Leaving"]
            BY <3>1, <3>5, <3>6 DEF Leases
        <3>8. Leases[p].state = "Active" /\ Spent' = Spent
            BY <1>6, <1>11, <3>4
        <3>9. Lease!SayGoodbye(p)
            BY <1>1, <3>7, <3>8 DEF Lease!SayGoodbye
        <3> QED
            BY <3>1, <3>9 DEF Lease!Next
    <2> QED
        BY <2>1, <2>2
<1>12. CASE /\ phase[s] \in {"lost", "abandoned"} /\ phase'[s] \in {"draining", "ended"}
            /\ clean' \subseteq clean
            /\ Send(SessionCommand("SessionLost", s, grant[s])) \/ Closed
    BY <1>5, <1>7, <1>12 DEF Serving, CleanEnd
<1>13. CASE /\ phase[s] = "parting" /\ phase'[s] \in {"goodbye", "draining"}
            /\ clean' = clean
    BY <1>7, <1>13
<1>14. CASE /\ phase[s] \in {"teardown", "draining"} /\ phase'[s] \in {"draining", "ended"}
            /\ clean' \subseteq clean
            /\ phase'[s] = "ended" => s \notin clean'
            /\ UNCHANGED commands
    BY <1>5, <1>7, <1>14 DEF Serving, CleanEnd
<1> QED
    BY <1>8, <1>9, <1>10, <1>11, <1>12, <1>13, <1>14, ControlMoves DEF ServeMove

\* register uses the chance of its session: it takes a port for the process that
\* asked, or is refused.
LEMMA LeaseRegister ==
    ASSUME TypeOK, TypeOK', RegistersOnce, OwnershipConsistent, SessionTasks, Register
    PROVE  [Lease!Next]_(Lease!leaseVars)
<1>0. PICK s \in Session : s = Head(commands).session
    BY HeadCommand DEF Register, Receive, Command
<1>1. /\ commands # <<>> /\ Head(commands).op = "Register" /\ Head(commands) = commands[1]
      /\ 1 \in 1 .. Len(commands) /\ registryUp /\ UNCHANGED <<clean, registryUp>>
    BY DEF Register, Receive, TypeOK, Channel
<1>2. phase[s] = "registering" /\ s \notin Live
    BY <1>0, <1>1 DEF RegistersOnce, Unregistered
<1>3. s \notin clean /\ hello[s] \in Hello
    BY <1>2 DEF SessionTasks, Serving, CleanEnd, Asking
<1>4. s \notin Spent /\ Spent' = Spent \cup {s}
    <2>1. phase' \in {[phase EXCEPT ![s] = "granted"], [phase EXCEPT ![s] = "denied"]}
        BY <1>0 DEF Register
    <2>2. /\ \A r \in Session : r # s => phase'[r] = phase[r]
          /\ phase'[s] \in {"granted", "denied"}
        BY <2>1 DEF TypeOK
    <2> QED
        BY <1>1, <1>2, <2>2 DEF Spent
<1>5. CASE \E p \in Port : Install(s, p)
    <2>1. PICK p \in Port : Install(s, p)
        BY <1>5
    <2> DEFINE i == hello[s].instance
    <2>2. i \in Instance
        BY <1>3 DEF Hello
    <2>3. /\ ports'[p].state = "Active" /\ ports'[p].session = s /\ ports'[p].instance = i
          /\ \A q \in Port : q # p => ports'[q] = ports[q]
        BY <2>1 DEF TypeOK, Install
    <2>4. Leases'[p] = Lease!Held(i, s)
        BY <1>1, <1>3, <2>3 DEF Leases, LeaseState, Lease!Held
    <2>5. Leases' = [Leases EXCEPT ![p] = Lease!Held(i, s)]
        BY <1>1, <2>3, <2>4, LeaseChanged
    <2>6. Lease!Take(s)
        BY <2>2, <2>5 DEF Lease!Take
    <2>7. Lease!Ask(s)
        BY <1>1, <1>4, <2>6 DEF Lease!Ask
    <2> QED
        BY <1>4, <2>7 DEF Lease!Next
<1>6. CASE UNCHANGED ports
    <2>1. Leases' = Leases
        BY <1>1, <1>6, LeasesSame
    <2>2. Lease!Ask(s)
        BY <1>1, <1>4, <2>1 DEF Lease!Ask
    <2> QED
        BY <1>4, <2>2 DEF Lease!Next
<1> QED
    BY <1>0, <1>5, <1>6 DEF Register

\* A port is lost by a session that did not end cleanly, or to a user who came
\* between its goodbye and the Goodbye command (accepted_public).
LEMMA LostCause ==
    ASSUME TypeOK, OwnershipConsistent, SessionTasks, LossesUnclean, RequestTasks, [Next]_vars,
           NEW p \in Port, Loses(p)
    PROVE  \/ ports[p].session \notin clean
           \/ \E c \in Conn : conn[c] = "queued" /\ via[c].port = p /\ conn'[c] = "closed"
<1>0. ports' # ports /\ ports[p].state = "Active" /\ ports'[p].state = "Reserved"
    BY DEF Loses
<1>1. ASSUME NEW q \in Port, Loses(q) PROVE q = p
    BY <1>0, <1>1 DEF Loses
<1>2. CASE SessionLost
    <2>1. PICK s \in Session : s = Head(commands).session
        BY <1>2, HeadCommand DEF SessionLost, Receive, Command
    <2>2. /\ commands # <<>> /\ commands' = Tail(commands)
          /\ Head(commands).op = "SessionLost" /\ Head(commands).generation \in Nat
          /\ session_lost(s, Head(commands).generation)
        BY <1>2, <2>1, HeadCommand DEF SessionLost, Receive, Command
    <2>3. ports[p].session = s
        BY <1>0, <1>1, <2>2, LostSlot
    <2>4. s \notin clean
        BY <2>1, <2>2, ChannelTaken DEF LossesUnclean
    <2> QED
        BY <2>3, <2>4
<1>3. CASE AcceptedPublic
    <2>1. /\ commands # <<>> /\ commands' = Tail(commands) /\ Head(commands).op = "AcceptedPublic"
          /\ Head(commands) \in Queued
        BY <1>3, ChannelTaken DEF AcceptedPublic, Receive
    <2>2. PICK c \in Conn : c = Head(commands).item
        BY <2>1, QueuedItems
    <2> DEFINE s == ports[via[c].port].session
    <2>3. Admitted(c) /\ FailSession(c, s)
        <3>1. Reject(c) \/ (Admitted(c) /\ FailSession(c, s)) \/ OpenRequest(c, s)
            BY <1>3, <2>2 DEF AcceptedPublic
        <3> QED
            BY <1>0, <3>1 DEF Reject, OpenRequest
    <2>4. /\ via[c].port \in Port /\ s \in Session /\ ports[via[c].port].generation \in Nat
          /\ ports[via[c].port].state = "Active"
        BY <2>3 DEF TypeOK, Admitted, Slots, PortSlot
    <2>5. session_lost(s, ports[via[c].port].generation) /\ conn' = [conn EXCEPT ![c] = "closed"]
        BY <2>3 DEF FailSession
    <2> HIDE DEF s
    <2>6. ports[p].session = s
        BY <1>0, <1>1, <2>4, <2>5, LostSlot
    <2>7. via[c].port = p
        BY <1>0, <2>4, <2>6, OwnerEntry DEF s
    <2>8. conn[c] = "queued" /\ conn'[c] = "closed"
        BY <2>1, <2>2, <2>5 DEF RequestTasks, AcceptedQueued, TypeOK
    <2> QED
        BY <2>7, <2>8
<1>4. CASE Register
    <2>1. PICK s \in Session, q \in Port : Install(s, q)
        BY <1>0, <1>4, HeadCommand DEF Register, Receive, Command
    <2>2. ports'[q].state = "Active" /\ \A x \in Port : x # q => ports'[x] = ports[x]
        BY <2>1 DEF Install, TypeOK
    <2> QED
        BY <1>0, <2>2
<1>5. CASE Goodbye
    <2>1. PICK q \in Port : Leaves(q)
        BY <1>0, <1>5, GoodbyeSlot
    <2> QED
        BY <1>0, <2>1 DEF Leaves, FreeSlot
<1>6. CASE Sweep \/ Shutdown
    BY <1>0, <1>6 DEF Sweep, Shutdown, shutdown_all, ReleaseSlots, FreeSlot
<1>7. CASE \E q \in Port : ReservationExpires(q)
    BY <1>0, <1>7 DEF ReservationExpires, TypeOK
<1>8. CASE PeekData \/ ClaimData \/ OpenFailed \/ RequestFinished
    BY <1>0, <1>8 DEF PeekData, ClaimData, OpenFailed, RequestFinished
<1>9. CASE \/ \E s \in Session : ControlStep(s)
           \/ \E c \in Conn : PublicStep(c)
           \/ \E d \in DataConn : DataStep(d)
           \/ SupervisorStep
    BY <1>0, <1>9, ControlFrame, PublicStepFrame, DataStepFrame, SupervisorStepFrame
<1>10. CASE (\E l \in listeners : ListenerStops(l)) \/ UNCHANGED vars
    BY <1>0, <1>10 DEF ListenerStops, vars
<1> QED
    BY <1>2, <1>3, <1>4, <1>5, <1>6, <1>7, <1>8, <1>9, <1>10 DEF Next, Idle, RegistryStep

\* The other steps of a port: its owner is lost or leaves, reservations run out,
\* and the server closes.
LEMMA LeasePorts ==
    ASSUME TypeOK, TypeOK', OwnershipConsistent, SessionTasks, LossesUnclean, RequestTasks,
           [Next]_vars,
           \/ \E p \in Port : Loses(p) \/ Leaves(p) \/ ReservationExpires(p)
           \/ Sweep,
           UNCHANGED <<clean, registryUp>>, Spent' = Spent
    PROVE  LeaseStep
<1>1. None \notin clean
    BY LeaseRecord
<1>2. ASSUME NEW p \in Port, Loses(p) PROVE LeaseStep
    <2>1. /\ Leases[p].state = IF ports[p].session \in clean THEN "Leaving" ELSE "Active"
          /\ Leases[p].owner = ports[p].instance
        BY <1>2 DEF Loses, Leases, LeaseState
    <2>2. Leases'[p] = Lease!Kept(ports[p].instance)
        BY <1>1, <1>2 DEF Loses, Leases, LeaseState, Lease!Kept
    <2>3. Leases' = [Leases EXCEPT ![p] = Lease!Kept(Leases[p].owner)]
        BY <1>2, <2>1, <2>2, LeaseChanged DEF Loses
    <2>4. CASE ports[p].session \notin clean
        <3>1. Lease!Lose(p)
            BY <2>1, <2>3, <2>4 DEF Lease!Lose
        <3> QED
            BY <3>1 DEF LeaseStep, Lease!Next
    <2>5. CASE ports[p].session \in clean
        <3>1. \E c \in Conn : conn[c] = "queued" /\ via[c].port = p /\ conn'[c] = "closed"
            BY <1>2, <2>5, LostCause
        <3>2. GoodbyeOvertaken(p)
            BY <2>1, <2>3, <2>5, <3>1 DEF GoodbyeOvertaken
        <3> QED
            BY <3>2 DEF LeaseStep
    <2> QED
        BY <2>4, <2>5
<1>3. ASSUME NEW p \in Port, Leaves(p) PROVE Lease!Leave(p)
    <2>1. Leases[p].state = "Leaving"
        BY <1>3 DEF Leaves, Leases, LeaseState
    <2>2. Leases'[p] = Lease!Free
        BY <1>1, <1>3 DEF Leaves, Leases, LeaseState, Lease!Free, FreeSlot
    <2>3. Leases' = [Leases EXCEPT ![p] = Lease!Free]
        BY <1>3, <2>2, LeaseChanged DEF Leaves
    <2> QED
        BY <2>1, <2>3 DEF Lease!Leave
<1>4. ASSUME NEW p \in Port, ReservationExpires(p) PROVE UNCHANGED Lease!leaseVars
    <2>1. \A q \in Port : /\ ports'[q].state = ports[q].state
                         /\ ports'[q].session = ports[q].session
                         /\ ports'[q].instance = ports[q].instance
        BY <1>4 DEF ReservationExpires, TypeOK, PortSlot
    <2>2. Leases' = Leases
        BY <2>1 DEF Leases, LeaseState
    <2> QED
        BY <2>2 DEF Lease!leaseVars
<1>5. CASE Sweep
    <2>1. ports' = [p \in Port |-> IF p \in ExpiredSlots THEN FreeSlot ELSE ports[p]]
        BY <1>5 DEF Sweep, ReleaseSlots
    <2>2. \A p \in ExpiredSlots : p \in Port /\ ports[p].state = "Reserved" /\ ports[p].session = None
        BY Holders DEF ExpiredSlots
    <2>3. Leases' = [p \in Port |-> IF p \in ExpiredSlots THEN Lease!Free ELSE Leases[p]]
        BY <1>1, <2>1 DEF Leases, LeaseState, Lease!Free, FreeSlot
    <2>4. ExpiredSlots \subseteq Lease!Reserved
        BY <1>1, <2>2 DEF Lease!Reserved, Leases, LeaseState
    <2>5. CASE ExpiredSlots = {}
        <3>1. Leases' = Leases
            BY <2>3, <2>5 DEF Leases
        <3> QED
            BY <3>1 DEF LeaseStep, Lease!leaseVars
    <2>6. CASE ExpiredSlots # {}
        <3>1. Lease!Expire(ExpiredSlots)
            BY <2>3, <2>6 DEF Lease!Expire
        <3> QED
            BY <2>4, <3>1 DEF LeaseStep, Lease!Next
    <2> QED
        BY <2>5, <2>6
<1> QED
    BY <1>2, <1>3, <1>4, <1>5 DEF LeaseStep, Lease!Next

\* A port without an entry in the map has no trace of an earlier owner.
Blank == \A p \in Port : ports[p].state = "Free" => ports[p] = FreeSlot

\* Slots are given up as a whole (registry.rs: the ports map's remove).
LEMMA BlankNext ==
    ASSUME TypeOK, OwnershipConsistent, SessionTasks, Blank, [Next]_vars
    PROVE  Blank'
<1>1. CASE ports' = ports
    BY <1>1 DEF Blank
<1>2. ASSUME NEW s \in Session, NEW p \in Port, Gets(s, p) PROVE Blank'
    <2>1. ports'[p].state = "Active" /\ \A q \in Port : q # p => ports'[q] = ports[q]
        BY <1>2 DEF Gets, Install, TypeOK
    <2> QED
        BY <2>1 DEF Blank
<1>3. ASSUME NEW p \in Port, Loses(p) \/ Leaves(p) PROVE Blank'
    BY <1>3 DEF Loses, Leaves, Blank
<1>4. CASE Sweep \/ Shutdown
    BY <1>4 DEF Sweep, Shutdown, shutdown_all, ReleaseSlots, Blank
<1>5. ASSUME NEW p \in Port, ReservationExpires(p) PROVE Blank'
    <2>1. ports'[p].state = "Reserved" /\ \A q \in Port : q # p => ports'[q] = ports[q]
        BY <1>5 DEF ReservationExpires, TypeOK, PortSlot
    <2> QED
        BY <2>1 DEF Blank
<1> QED
    BY <1>1, <1>2, <1>3, <1>4, <1>5, PortSteps

\* Shutdown closes the leases.
LEMMA LeaseShutdown ==
    ASSUME TypeOK, TypeOK', Blank, Shutdown
    PROVE  Lease!Close
<1>1. registryUp /\ registryUp' = FALSE /\ clean' = clean
    BY DEF Shutdown
<1>2. \A p \in Port : ports'[p] = FreeSlot
    BY DEF Shutdown, shutdown_all, ReleaseSlots, Blank, Slots
<1>3. None \notin clean
    BY LeaseRecord
<1>4. Leases' = [p \in Port |-> Lease!Free]
    BY <1>1, <1>2, <1>3 DEF Leases, LeaseState, Lease!Free, FreeSlot
<1>5. Spent' = Session
    BY <1>1 DEF Spent
<1> QED
    BY <1>1, <1>4, <1>5 DEF Lease!Close

\* Every step of the server is a step of PortLease, the exception, or leaves the
\* leases alone.
LEMMA LeaseNext ==
    ASSUME TypeOK, TypeOK', RegistryStopped, RegistersOnce, OwnershipConsistent, RegistryDown,
           SessionTasks, LossesUnclean, RequestTasks, Blank, [Next]_vars
    PROVE  LeaseStep
<1>1. CASE Register
    BY <1>1, LeaseRegister DEF LeaseStep
<1>2. CASE Shutdown
    BY <1>2, LeaseShutdown DEF LeaseStep, Lease!Next
<1>3. CASE \E s \in Session : ControlStep(s)
    BY <1>3, LeaseControl DEF LeaseStep
<1>4. CASE GraceElapses
    <2>1. ~registryUp /\ UNCHANGED <<ports, registryUp>>
        BY <1>4 DEF GraceElapses, RegistryStopped
    <2>2. Leases' = Leases
        BY <2>1, DownEmpty, LeasesSame
    <2>3. Spent' = Spent
        BY <2>1 DEF Spent
    <2> QED
        BY <2>1, <2>2, <2>3 DEF LeaseStep, Lease!leaseVars
<1>5. ASSUME UNCHANGED <<clean, registryUp>>, Spent' = Spent, ~Register, ~Shutdown
      PROVE  LeaseStep
    <2>1. CASE ports' = ports
        <3>1. Leases' = Leases
            BY <1>5, <2>1, LeasesSame
        <3> QED
            BY <1>5, <3>1 DEF LeaseStep, Lease!leaseVars
    <2>2. CASE \/ \E p \in Port : Loses(p) \/ Leaves(p) \/ ReservationExpires(p)
               \/ Sweep
        BY <1>5, <2>2, LeasePorts
    <2> QED
        BY <1>5, <2>1, <2>2, PortSteps DEF Gets
<1>6. ASSUME UNCHANGED <<phase, registryUp>> PROVE Spent' = Spent
    BY <1>6 DEF Spent
<1>7. CASE Goodbye
    <2>1. PICK s \in Session : s = Head(commands).session
        BY <1>7, HeadCommand DEF Goodbye, Receive, Command
    <2>2. /\ UNCHANGED <<clean, registryUp>>
          /\ phase' = [phase EXCEPT ![s] = IF @ = "goodbye" THEN "teardown" ELSE @]
        BY <1>7, <2>1 DEF Goodbye
    <2>3. \A r \in Session : phase'[r] = phase[r] \/ (phase[r] = "goodbye" /\ phase'[r] = "teardown")
        BY <2>2 DEF TypeOK
    <2>4. Spent' = Spent
        BY <2>2, <2>3 DEF Spent
    <2> QED
        BY <1>1, <1>2, <1>5, <2>2, <2>4
<1>8. CASE SessionLost \/ AcceptedPublic \/ PeekData \/ ClaimData \/ OpenFailed \/ RequestFinished
    <2>1. UNCHANGED <<clean, phase, registryUp>>
        BY <1>8 DEF SessionLost, AcceptedPublic, PeekData, ClaimData, OpenFailed, RequestFinished
    <2> QED
        BY <1>1, <1>2, <1>5, <1>6, <2>1
<1>9. CASE \/ Sweep \/ (\E p \in Port : ReservationExpires(p))
           \/ (\E l \in listeners : ListenerStops(l)) \/ UNCHANGED vars
    <2>1. UNCHANGED <<clean, phase, registryUp>>
        BY <1>9 DEF Sweep, ReservationExpires, ListenerStops, vars
    <2> QED
        BY <1>1, <1>2, <1>5, <1>6, <2>1
<1>10. CASE (\E c \in Conn : PublicStep(c)) \/ (\E d \in DataConn : DataStep(d))
    <2>1. UNCHANGED <<clean, phase, registryUp>>
        BY <1>10, PublicStepFrame, DataStepFrame
    <2> QED
        BY <1>1, <1>2, <1>5, <1>6, <2>1
<1>11. CASE SupervisorStep /\ ~GraceElapses
    <2>1. UNCHANGED <<clean, phase, registryUp>>
        BY <1>11 DEF SupervisorStep, Stop, SendShutdown, TasksJoined
    <2> QED
        BY <1>1, <1>2, <1>5, <1>6, <2>1
<1> QED
    BY <1>1, <1>2, <1>3, <1>4, <1>7, <1>8, <1>9, <1>10, <1>11 DEF Next, Idle, RegistryStep

\* The server implements PortLease (registry.rs with control.rs) but for a goodbye
\* that a user overtakes: a session has one chance at a port, a port passes on in
\* one step, it is kept for its process after a loss, and it becomes free only by
\* the goodbye of its holder, by an expired reservation or at shutdown.
THEOREM ImplementsLease == Spec => LeasesKeptUnlessOvertaken
<1>1. Init => Blank /\ Lease!Init
    <2> SUFFICES ASSUME Init PROVE Blank /\ Lease!Init
        OBVIOUS
    <2>1. Leases = [p \in Port |-> Lease!Free]
        BY DEF Init, Leases, LeaseState, FreeSlot, Lease!Free
    <2>2. Spent = {} /\ registryUp = TRUE
        BY DEF Init, Spent
    <2>3. Blank
        BY DEF Init, Blank
    <2> QED
        BY <2>1, <2>2, <2>3 DEF Lease!Init
<1>2. Ownership /\ SessionTasks /\ Blank /\ [Next]_vars => Blank'
    BY BlankNext DEF Ownership
<1>3. /\ Ownership /\ RegistryDown /\ SessionTasks /\ LossesUnclean /\ RequestTasks /\ Blank
      /\ Ownership' /\ [Next]_vars
      => LeaseStep
    BY LeaseNext DEF Ownership
<1> QED
    BY <1>1, <1>2, <1>3, OwnershipInvariant, ListenerInvariant, SessionInvariant, LossesInvariant,
       TasksInvariant, PTL DEF Spec, LeasesKeptUnlessOvertaken

=============================================================================
