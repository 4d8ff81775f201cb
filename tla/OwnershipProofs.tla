--------------------------- MODULE OwnershipProofs ---------------------------
(***************************************************************************)
(* The sessions map, the port slots and the accept loops agree in every     *)
(* reachable state.                                                         *)
(*                                                                          *)
(* OwnershipConsistent is not inductive by itself: a second registration of *)
(* a live session would make it own two ports.  RegistersOnce excludes it,  *)
(* and the conjunction of the two with TypeOK is inductive.                 *)
(*                                                                          *)
(* An uncancelled accept loop runs exactly for every slot of the ports map. *)
(* That is inductive together with the fact that the ports map is empty     *)
(* once the registry has stopped, because an accept loop ends itself when   *)
(* it finds the channel closed.                                             *)
(***************************************************************************)
EXTENDS ServerProofs, WellFoundedInduction

USE DEF ownerVars, limitVars, publicVars, localVars, controlVars, writerVars,
        cancelVars, dataVars, registryVars, sessionFrame, writerFrame,
        publicFrame, connFrame, dataFrame, supervisorFrame

\* Each authenticated connection registers once: its Register is in the channel
\* at most once and only while its task waits for the reply, and the registry
\* does not know it before.  A second registration of one session could make
\* it own two ports.
Unregistered == {"new", "handshake", "registering", "denied"}
RegistersOnce ==
    /\ \A i \in 1 .. Len(commands) :
          commands[i].op = "Register" => phase[commands[i].session] = "registering"
    /\ \A i, j \in 1 .. Len(commands) :
          /\ commands[i].op = "Register"
          /\ commands[j].op = "Register"
          /\ commands[i].session = commands[j].session
          => i = j
    /\ \A s \in Session : phase[s] \in Unregistered => s \notin Live

\* Past the registry's last command no task can send another.
RegistryStopped ==
    /\ server \in {"grace", "stopped"} => ~registryUp
    /\ ~registryUp => commands = <<>>

Ownership == TypeOK /\ RegistryStopped /\ RegistersOnce /\ OwnershipConsistent

\* A step that leaves the registry's tables alone, sends no registration, and
\* moves no task across its registration.
Passive ==
    /\ UNCHANGED <<ports, sessions, registryUp>>
    /\ \/ UNCHANGED commands
       \/ /\ registryUp
          /\ \E cmd \in Command : cmd.op # "Register" /\ commands' = Append(commands, cmd)
    /\ \A s \in Session : phase[s] = "registering" => phase'[s] = "registering"
    /\ \A s \in Session : phase'[s] \in Unregistered => phase[s] \in Unregistered
    /\ server' \in {"grace", "stopped"} => server \in {"grace", "stopped"}

-----------------------------------------------------------------------------
(* One registration per session *)

\* A Register in the channel names a session.
LEMMA RegisterNamesSession ==
    ASSUME TypeOK
    PROVE  \A i \in 1 .. Len(commands) :
              commands[i].op = "Register" => commands[i].session \in Session
<1>1. \A i \in 1 .. Len(commands) : commands[i] \in Command
    BY DEF TypeOK, Channel
<1> QED
    BY <1>1 DEF Command

\* A step keeps RegistersOnce when it adds no Register to the channel, moves no
\* task back before its registration, lets no waiting task go on, and adds no
\* session to the registry.  Only Authenticate and Register do more.
LEMMA RegistersOnceFrame ==
    ASSUME TypeOK, RegistersOnce,
           \/ commands' = commands
           \/ \E cmd \in Command : cmd.op # "Register" /\ commands' = Append(commands, cmd)
           \/ commands # <<>> /\ commands' = Tail(commands)
           \/ commands' = <<>>,
           \A s \in Session : phase[s] = "registering" =>
                phase'[s] = "registering" \/ commands' = <<>>,
           \A s \in Session : phase'[s] \in Unregistered => phase[s] \in Unregistered,
           Live' \subseteq Live
    PROVE  RegistersOnce'
<1>2. \A i \in 1 .. Len(commands) :
        commands[i].op = "Register" => commands[i].session \in Session
    BY RegisterNamesSession
<1>3. \A s \in Session : phase'[s] \in Unregistered => s \notin Live'
    BY DEF RegistersOnce
<1>4. CASE commands' = <<>>
    BY <1>3, <1>4 DEF RegistersOnce
<1>5. CASE commands' = commands /\ commands' # <<>>
    BY <1>2, <1>3, <1>5 DEF RegistersOnce
<1>6. CASE commands' # <<>> /\ \E cmd \in Command :
             cmd.op # "Register" /\ commands' = Append(commands, cmd)
    <2>1. PICK cmd \in Command : cmd.op # "Register" /\ commands' = Append(commands, cmd)
        BY <1>6
    <2>2. /\ Len(commands') = Len(commands) + 1
          /\ \A i \in 1 .. Len(commands) : commands'[i] = commands[i]
          /\ commands'[Len(commands) + 1] = cmd
          /\ Len(commands) \in Nat
        BY <2>1 DEF TypeOK
    <2>3. \A i \in 1 .. Len(commands') : commands'[i].op = "Register" =>
            i \in 1 .. Len(commands) /\ commands[i].op = "Register"
        BY <2>1, <2>2
    <2> QED
        BY <1>2, <1>3, <1>6, <2>2, <2>3 DEF RegistersOnce
<1>7. CASE commands # <<>> /\ commands' = Tail(commands) /\ commands' # <<>>
    <2>1. /\ Len(commands') = Len(commands) - 1
          /\ Len(commands) \in Nat
          /\ \A i \in 1 .. Len(commands') :
                i + 1 \in 1 .. Len(commands) /\ commands'[i] = commands[i + 1]
        BY <1>7 DEF TypeOK
    <2>2. \A i \in 1 .. Len(commands') :
            commands'[i].op = "Register" => phase'[commands'[i].session] = "registering"
        <3> TAKE i \in 1 .. Len(commands')
        <3>1. commands'[i].op = "Register" =>
                commands[i + 1].session \in Session /\ phase[commands[i + 1].session] = "registering"
            BY <1>2, <2>1 DEF RegistersOnce
        <3> QED
            BY <1>7, <2>1, <3>1
    <2>3. ASSUME NEW i \in 1 .. Len(commands'), NEW j \in 1 .. Len(commands'),
                 commands'[i].op = "Register", commands'[j].op = "Register",
                 commands'[i].session = commands'[j].session
          PROVE  i = j
        <3>1. i + 1 = j + 1
            BY <2>1, <2>3 DEF RegistersOnce
        <3> QED
            BY <2>1, <3>1
    <2> QED
        BY <1>3, <2>2, <2>3 DEF RegistersOnce
<1> QED
    BY <1>4, <1>5, <1>6, <1>7

\* Authenticate sends the only Register of its session.
LEMMA RegistersOnceAuthenticate ==
    ASSUME TypeOK, RegistersOnce, NEW s \in Session, Authenticate(s)
    PROVE  RegistersOnce'
<1>1. Live' = Live /\ phase \in [Session -> ControlPhase]
    <2>1. sessions' = sessions
        BY DEF Authenticate
    <2> QED
        BY <2>1 DEF Live, TypeOK
<1>2. CASE Closed
    <2>1. commands' = commands /\ phase' \in {[phase EXCEPT ![s] = "denied"], [phase EXCEPT ![s] = "registering"]}
        BY <1>2 DEF Authenticate, Closed
    <2>2. phase[s] = "handshake"
        BY DEF Authenticate
    <2> QED
        BY <1>1, <2>1, <2>2, RegistersOnceFrame DEF Unregistered
<1>3. CASE Send(SessionCommand("Register", s, 0)) /\ phase' = [phase EXCEPT ![s] = "registering"]
    <2> DEFINE cmd == SessionCommand("Register", s, 0)
    <2>1. cmd.op = "Register" /\ cmd.session = s
        BY DEF SessionCommand
    <2>2. /\ Len(commands') = Len(commands) + 1
          /\ \A i \in 1 .. Len(commands) : commands'[i] = commands[i]
          /\ commands'[Len(commands) + 1] = cmd
          /\ Len(commands) \in Nat
        BY <1>3 DEF TypeOK, Send
    <2>3. phase[s] = "handshake"
        BY DEF Authenticate
    <2>4. \A i \in 1 .. Len(commands) :
            commands[i].op = "Register" =>
                commands[i].session # s /\ phase'[commands[i].session] = "registering"
        BY <1>1, <1>3, <2>3, RegisterNamesSession DEF RegistersOnce
    <2>5. phase'[s] = "registering"
        BY <1>1, <1>3
    <2>6. \A r \in Session : phase'[r] \in Unregistered => r \notin Live'
        BY <1>1, <1>3, <2>3 DEF RegistersOnce, Unregistered
    <2> HIDE DEF cmd
    <2>7. \A i \in 1 .. Len(commands') : i \in 1 .. Len(commands) \/ i = Len(commands) + 1
        BY <2>2
    <2> QED
        BY <2>1, <2>2, <2>4, <2>5, <2>6, <2>7 DEF RegistersOnce
<1> QED
    BY <1>2, <1>3 DEF Authenticate


-----------------------------------------------------------------------------
(* Ownership *)

\* The entry of an owner names the port and the generation of its slot, so no
\* session owns two ports.
LEMMA OwnerEntry ==
    ASSUME OwnershipConsistent, NEW q \in Port, ports[q].state = "Active"
    PROVE  /\ ports[q].session \in Live
           /\ sessions[ports[q].session].port = q
           /\ sessions[ports[q].session].generation = ports[q].generation
<1>1. /\ ports[q].session \in Live
      /\ sessions[ports[q].session] =
            [instance |-> ports[q].instance, generation |-> ports[q].generation, port |-> q]
    BY DEF OwnershipConsistent
<1> QED
    BY <1>1

\* Installing a session removes the previous owner and adds the new one.
LEMMA LiveInstall ==
    ASSUME TypeOK, NEW s \in Session, NEW p \in Port, Install(s, p)
    PROVE  Live' = (Live \ Previous(p)) \cup {s}
<1>1. next_generation # 0 /\ sessions \in [Session -> SessionRef]
    BY DEF TypeOK
<1>2. sessions' = [Without(Previous(p)) EXCEPT ![s] =
                      [instance |-> hello[s].instance, generation |-> next_generation,
                       port |-> p]]
    BY DEF Install
<1>3. Without(Previous(p)) \in [Session -> SessionRef]
    BY WithoutType
<1>4. \A r \in Session : r # s =>
        sessions'[r] = IF r \in Previous(p) THEN NoRef ELSE sessions[r]
    BY <1>2, <1>3 DEF Without
<1>5. sessions'[s].generation = next_generation
    BY <1>2, <1>3
<1> QED
    BY <1>1, <1>4, <1>5 DEF Live, NoRef

\* register: the takeover of a port leaves no other session with that port
\* and touches no other slot.
LEMMA OwnershipInstall ==
    ASSUME TypeOK, OwnershipConsistent, NEW s \in Session, s \notin Live,
           NEW p \in Port, Install(s, p)
    PROVE  OwnershipConsistent'
<1> DEFINE r0 == [instance |-> hello[s].instance, generation |-> next_generation, port |-> p]
<1>1. Live' = (Live \ Previous(p)) \cup {s}
    BY LiveInstall
<1>2. /\ sessions'[s] = r0
      /\ \A r \in Session : r # s /\ r \notin Previous(p) => sessions'[r] = sessions[r]
    <2>1. Without(Previous(p)) \in [Session -> SessionRef]
        BY WithoutType
    <2> QED
        BY <2>1 DEF Install, Without
<1>3. /\ ports'[p].state = "Active" /\ ports'[p].session = s
      /\ ports'[p].instance = hello[s].instance
      /\ ports'[p].generation = next_generation
      /\ \A q \in Port : q # p => ports'[q] = ports[q]
    BY DEF TypeOK, Install
<1>4. \A q \in Port : q # p /\ ports[q].state = "Active" =>
        /\ ports[q].session \in Live
        /\ ports[q].session \notin Previous(p)
        /\ ports[q].session # s
    BY OwnerEntry DEF Previous
<1>5. \A r \in Live : r \notin Previous(p) => sessions[r].port # p
    BY DEF OwnershipConsistent, Previous
<1>6. ASSUME NEW q \in Port, ports'[q].state = "Active"
      PROVE  /\ ports'[q].session \in Live'
             /\ sessions'[ports'[q].session] =
                   [instance |-> ports'[q].instance,
                    generation |-> ports'[q].generation, port |-> q]
    <2>1. CASE q = p
        BY <1>1, <1>2, <1>3, <2>1
    <2>2. CASE q # p
        <3>1. /\ ports'[q] = ports[q]
              /\ ports[q].session \in Live /\ ports[q].session \notin Previous(p)
              /\ ports[q].session # s /\ ports[q].session \in Session
            BY <1>3, <1>4, <1>6, <2>2 DEF Live
        <3>2. sessions[ports[q].session] =
                [instance |-> ports[q].instance, generation |-> ports[q].generation, port |-> q]
            BY <1>6, <3>1 DEF OwnershipConsistent
        <3> QED
            BY <1>1, <1>2, <3>1, <3>2
    <2> QED
        BY <2>1, <2>2
<1>7. ASSUME NEW r \in Live'
      PROVE  /\ sessions'[r].port \in Port
             /\ ports'[sessions'[r].port].state = "Active"
             /\ ports'[sessions'[r].port].session = r
    <2>1. CASE r = s
        BY <1>2, <1>3, <2>1
    <2>2. CASE r # s
        <3>1. r \in Live /\ r \notin Previous(p) /\ sessions'[r] = sessions[r]
            BY <1>1, <1>2, <1>7, <2>2 DEF Live
        <3> QED
            BY <1>3, <1>5, <3>1 DEF OwnershipConsistent
    <2> QED
        BY <2>1, <2>2
<1> QED
    BY <1>6, <1>7 DEF OwnershipConsistent

\* session_lost: the port of the lost session becomes reserved, no other
\* session or slot changes.
LEMMA OwnershipLost ==
    ASSUME TypeOK, OwnershipConsistent, NEW s \in Session, NEW g \in Nat,
           session_lost(s, g)
    PROVE  OwnershipConsistent' /\ Live' \subseteq Live
<1>1. CASE s \in Live /\ sessions[s].generation = g
    <2> DEFINE p == sessions[s].port
    <2>1. p \in Port /\ ports[p].state = "Active" /\ ports[p].session = s
        BY <1>1 DEF OwnershipConsistent
    <2>2. Current(s, g)
        <3>1. sessions[s].generation = ports[p].generation
            BY <2>1, OwnerEntry
        <3> QED
            BY <1>1, <2>1, <3>1 DEF Current
    <2>3. /\ \A r \in Session : r # s => sessions'[r] = sessions[r]
          /\ sessions'[s] = NoRef
        BY <1>1 DEF session_lost, Without
    <2>4. Live' = Live \ {s}
        BY <2>3 DEF Live, NoRef
    <2>5. /\ ports'[p].state = "Reserved"
          /\ \A q \in Port : q # p => ports'[q] = ports[q]
        BY <1>1, <2>1, <2>2 DEF TypeOK, session_lost, Reserve
    <2>6. \A q \in Port : q # p /\ ports[q].state = "Active" => ports[q].session # s
        BY OwnerEntry
    <2>7. \A r \in Live : r # s => sessions[r].port # p
        BY <2>1 DEF OwnershipConsistent
    <2> HIDE DEF p
    <2>8. \A q \in Port : ports'[q].state = "Active" =>
            /\ ports'[q].session \in Live'
            /\ sessions'[ports'[q].session] =
                  [instance |-> ports'[q].instance,
                   generation |-> ports'[q].generation, port |-> q]
        BY <2>3, <2>4, <2>5, <2>6 DEF OwnershipConsistent, Live
    <2>9. \A r \in Live' :
            /\ sessions'[r].port \in Port
            /\ ports'[sessions'[r].port].state = "Active"
            /\ ports'[sessions'[r].port].session = r
        BY <2>3, <2>4, <2>5, <2>7 DEF OwnershipConsistent, Live
    <2> QED
        BY <2>4, <2>8, <2>9 DEF OwnershipConsistent
<1>2. CASE ~(s \in Live /\ sessions[s].generation = g)
    <2>1. ports' = ports /\ sessions' = sessions
        BY <1>2 DEF session_lost
    <2> QED
        BY <2>1 DEF OwnershipConsistent, Live
<1> QED
    BY <1>1, <1>2

\* goodbye: the slot of the leaving session is released, no other session or
\* slot changes.
LEMMA OwnershipGoodbye ==
    ASSUME TypeOK, OwnershipConsistent, NEW s \in Session, NEW g \in Nat,
           goodbye(s, g)
    PROVE  OwnershipConsistent' /\ Live' \subseteq Live
<1>1. CASE s \in Live /\ sessions[s].generation = g
    <2> DEFINE p == sessions[s].port
    <2>1. p \in Port /\ ports[p].state = "Active" /\ ports[p].session = s
        BY <1>1 DEF OwnershipConsistent
    <2>2. Current(s, g)
        <3>1. sessions[s].generation = ports[p].generation
            BY <2>1, OwnerEntry
        <3> QED
            BY <1>1, <2>1, <3>1 DEF Current
    <2>3. /\ \A r \in Session : r # s => sessions'[r] = sessions[r]
          /\ sessions'[s] = NoRef
        BY <1>1 DEF goodbye, Without
    <2>4. Live' = Live \ {s}
        BY <2>3 DEF Live, NoRef
    <2>5. /\ ports'[p].state = "Free"
          /\ \A q \in Port : q # p => ports'[q] = ports[q]
        BY <1>1, <2>1, <2>2 DEF goodbye, ReleaseSlots, FreeSlot
    <2>6. \A q \in Port : q # p /\ ports[q].state = "Active" => ports[q].session # s
        BY OwnerEntry
    <2>7. \A r \in Live : r # s => sessions[r].port # p
        BY <2>1 DEF OwnershipConsistent
    <2> HIDE DEF p
    <2>8. \A q \in Port : ports'[q].state = "Active" =>
            /\ ports'[q].session \in Live'
            /\ sessions'[ports'[q].session] =
                  [instance |-> ports'[q].instance,
                   generation |-> ports'[q].generation, port |-> q]
        BY <2>3, <2>4, <2>5, <2>6 DEF OwnershipConsistent, Live
    <2>9. \A r \in Live' :
            /\ sessions'[r].port \in Port
            /\ ports'[sessions'[r].port].state = "Active"
            /\ ports'[sessions'[r].port].session = r
        BY <2>3, <2>4, <2>5, <2>7 DEF OwnershipConsistent, Live
    <2> QED
        BY <2>4, <2>8, <2>9 DEF OwnershipConsistent
<1>2. CASE ~(s \in Live /\ sessions[s].generation = g)
    <2>1. ports' = ports /\ sessions' = sessions
        BY <1>2 DEF goodbye
    <2> QED
        BY <2>1 DEF OwnershipConsistent, Live
<1> QED
    BY <1>1, <1>2

-----------------------------------------------------------------------------
(* Steps that leave the registry alone *)

\* Sending anything but a registration is passive as far as the channel goes.
LEMMA PassiveSend ==
    ASSUME NEW cmd \in Command, cmd.op # "Register", Send(cmd) \/ Closed
    PROVE  \/ UNCHANGED commands
           \/ /\ registryUp
              /\ \E x \in Command : x.op # "Register" /\ commands' = Append(commands, x)
BY DEF Send, Closed

\* Every step of a control connection but Authenticate is passive.
LEMMA PassiveControl ==
    ASSUME TypeOK, NEW s \in Session, ControlStep(s), ~Authenticate(s)
    PROVE  Passive
<1>1. phase \in [Session -> ControlPhase] /\ grant[s] \in Nat
    BY DEF TypeOK
<1>2. CASE \E h \in Hellos : AcceptControl(s, h)
    BY <1>1, <1>2 DEF AcceptControl, Passive, Unregistered
<1>3. CASE \E c \in Conn : ReceiveOpenFailed(s, c)
    <2>1. PICK c \in Conn : ReceiveOpenFailed(s, c)
        BY <1>3
    <2> DEFINE cmd == ItemCommand("OpenFailed", s, c)
    <2>2. cmd \in Command /\ cmd.op # "Register"
        BY CommandsTyped DEF ItemCommand
    <2>3. Send(cmd) \/ Closed
        BY <2>1 DEF ReceiveOpenFailed
    <2> HIDE DEF cmd
    <2> QED
        BY <2>1, <2>2, <2>3, PassiveSend DEF ReceiveOpenFailed, Continue, Passive
<1>4. CASE Abandon(s) \/ SendSessionLost(s)
    <2> DEFINE cmd == SessionCommand("SessionLost", s, grant[s])
    <2>1. cmd \in Command /\ cmd.op # "Register"
        BY <1>1, CommandsTyped DEF SessionCommand
    <2>2. Send(cmd) \/ Closed
        BY <1>4 DEF Abandon, SendSessionLost
    <2> HIDE DEF cmd
    <2> QED
        BY <1>1, <1>4, <2>1, <2>2, PassiveSend
        DEF Abandon, SendSessionLost, EndServe, Teardown, Passive, Unregistered
<1>5. CASE SendGoodbye(s)
    <2> DEFINE cmd == SessionCommand("Goodbye", s, grant[s])
    <2>1. cmd \in Command /\ cmd.op # "Register"
        BY <1>1, CommandsTyped DEF SessionCommand
    <2>2. Send(cmd) \/ Closed
        BY <1>5 DEF SendGoodbye
    <2> HIDE DEF cmd
    <2> QED
        BY <1>1, <1>5, <2>1, <2>2, PassiveSend
        DEF SendGoodbye, Teardown, Passive, Unregistered
<1>6. CASE RefuseControl(s)
    BY <1>1, <1>6 DEF RefuseControl, Passive, Unregistered
<1>7. CASE HandshakeFails(s)
    BY <1>1, <1>7 DEF HandshakeFails, EndServe, Passive, Unregistered
<1>8. CASE SendRefusal(s)
    BY <1>1, <1>8 DEF SendRefusal, Passive, Unregistered
<1>9. CASE SendRegistered(s)
    BY <1>1, <1>9 DEF SendRegistered, Passive, Unregistered
<1>10. CASE Cancelled(s)
    BY <1>1, <1>10 DEF Cancelled, Break, Passive, Unregistered
<1>11. CASE PongDeadline(s)
    BY <1>1, <1>11 DEF PongDeadline, Break, Listening, Passive, Unregistered
<1>12. CASE PingTick(s)
    BY <1>1, <1>12 DEF PingTick, Break, Continue, Listening, Passive, Unregistered
<1>13. CASE \E v \in Sequence : ReceivePing(s, v)
    BY <1>1, <1>13 DEF ReceivePing, Break, Continue, Listening, Passive, Unregistered
<1>14. CASE \E v \in Sequence : ReceivePong(s, v)
    BY <1>1, <1>14 DEF ReceivePong, Continue, Passive, Unregistered
<1>15. CASE ReceiveGoodbye(s)
    BY <1>1, <1>15 DEF ReceiveGoodbye, BreakClean, Listening, Passive, Unregistered
<1>16. CASE ReceiveError(s)
    BY <1>1, <1>16 DEF ReceiveError, Break, Listening, Passive, Unregistered
<1>17. CASE ReceiveOther(s)
    BY <1>1, <1>17 DEF ReceiveOther, Break, Listening, Passive, Unregistered
<1>18. CASE GoodbyeReplied(s)
    BY <1>1, <1>18 DEF GoodbyeReplied, Teardown, Passive, Unregistered
<1>19. CASE ServeEnds(s)
    BY <1>1, <1>19 DEF ServeEnds, EndServe, Passive, Unregistered
<1>20. CASE WriteFrame(s)
    BY <1>1, <1>20 DEF WriteFrame, Passive, Unregistered
<1>21. CASE WriteFails(s)
    BY <1>1, <1>21 DEF WriteFails, Passive, Unregistered
<1>22. CASE CloseAfterFlushed(s)
    BY <1>1, <1>22 DEF CloseAfterFlushed, Passive, Unregistered
<1>23. CASE SendersGone(s)
    BY <1>1, <1>23 DEF SendersGone, Passive, Unregistered
<1>24. CASE TakeoverFlushEnds(s)
    BY <1>1, <1>24 DEF TakeoverFlushEnds, Passive, Unregistered
<1> QED
    BY <1>2, <1>3, <1>4, <1>5, <1>6, <1>7, <1>8, <1>9, <1>10, <1>11, <1>12, <1>13, <1>14, <1>15,
       <1>16, <1>17, <1>18, <1>19, <1>20, <1>21, <1>22, <1>23, <1>24
    DEF ControlStep, ServeStep, ClientFrameArrives, WriterStep

\* So is every step of a public connection or of its accept loop.
LEMMA PassivePublic ==
    ASSUME TypeOK, NEW c \in Conn, PublicStep(c)
    PROVE  Passive
<1>1. CASE \E l \in listeners : AcceptPublic(c, l)
    <2> DEFINE cmd == ItemCommand("AcceptedPublic", None, c)
    <2>1. cmd \in Command /\ cmd.op # "Register"
        BY CommandsTyped DEF ItemCommand
    <2>2. Send(cmd) \/ UNCHANGED commands
        BY <1>1 DEF AcceptPublic, Closed
    <2> HIDE DEF cmd
    <2> QED
        BY <1>1, <2>1, <2>2, PassiveSend DEF AcceptPublic, Passive, Send
<1>2. CASE DeadlinePasses(c)
    BY <1>2 DEF DeadlinePasses, Passive
<1>3. CASE ServePublicStep(c)
    BY <1>3 DEF ServePublicStep, WaitEnds, TakeData, WriteReady, ReadyFails,
                ForwardCancelled, CloseBoth, Passive
<1>4. CASE ForwardEnds(c)
    BY <1>4 DEF ForwardEnds, CloseBoth, Passive
<1>5. CASE ServePublicEnds(c)
    <2> DEFINE cmd == ItemCommand("RequestFinished", req[c].session, c)
    <2>1. cmd \in Command /\ cmd.op # "Register"
        BY CommandsTyped DEF ItemCommand, TypeOK, Request
    <2>2. Send(cmd) \/ Closed
        BY <1>5 DEF ServePublicEnds
    <2> HIDE DEF cmd
    <2> QED
        BY <1>5, <2>1, <2>2, PassiveSend DEF ServePublicEnds, Passive
<1> QED
    BY <1>1, <1>2, <1>3, <1>4, <1>5 DEF PublicStep

\* So is every step of a data connection.
LEMMA PassiveData ==
    ASSUME TypeOK, NEW d \in DataConn, DataStep(d)
    PROVE  Passive
<1>1. CASE (\E c \in Conn : AcceptData(d, c)) \/ RefuseData(d) \/ DataFails(d) \/ ClaimTimesOut(d)
    BY <1>1 DEF AcceptData, RefuseData, DataFails, ClaimTimesOut, Passive
<1>2. CASE SendPeek(d)
    <2> DEFINE cmd == ItemCommand("PeekData", None, d)
    <2>1. cmd \in Command /\ cmd.op # "Register"
        BY CommandsTyped DEF ItemCommand
    <2>2. Send(cmd) \/ Closed
        BY <1>2 DEF SendPeek
    <2> HIDE DEF cmd
    <2> QED
        BY <1>2, <2>1, <2>2, PassiveSend DEF SendPeek, Passive
<1>3. CASE SendClaim(d)
    <2> DEFINE cmd == ItemCommand("ClaimData", None, d)
    <2>1. cmd \in Command /\ cmd.op # "Register"
        BY CommandsTyped DEF ItemCommand
    <2>2. Send(cmd) \/ Closed
        BY <1>3 DEF SendClaim
    <2> HIDE DEF cmd
    <2> QED
        BY <1>3, <2>1, <2>2, PassiveSend DEF SendClaim, Passive
<1> QED
    BY <1>1, <1>2, <1>3 DEF DataStep

\* A passive step keeps the invariant.
LEMMA PassiveKeeps ==
    ASSUME TypeOK, RegistryStopped, RegistersOnce, OwnershipConsistent, Passive
    PROVE  RegistryStopped' /\ RegistersOnce' /\ OwnershipConsistent'
<1>1. Live' = Live
    BY DEF Passive, Live
<1>2. OwnershipConsistent'
    BY <1>1 DEF Passive, OwnershipConsistent
<1>3. RegistersOnce'
    BY <1>1, RegistersOnceFrame DEF Passive
<1>4. RegistryStopped'
    BY DEF Passive, RegistryStopped
<1> QED
    BY <1>2, <1>3, <1>4

-----------------------------------------------------------------------------
(* Handlers of the registry *)

\* register takes the only Register of its session out of the channel, and
\* the registry did not know the session before.
LEMMA OwnershipRegister ==
    ASSUME TypeOK, RegistryStopped, RegistersOnce, OwnershipConsistent, Register
    PROVE  RegistersOnce' /\ OwnershipConsistent'
<1> DEFINE s == Head(commands).session
<1>1. /\ commands # <<>> /\ commands' = Tail(commands)
      /\ Head(commands).op = "Register" /\ Head(commands) = commands[1]
      /\ Len(commands) \in Nat /\ Len(commands) > 0
    BY DEF Register, Receive, TypeOK
<1>2. s \in Session
    BY <1>1, HeadCommand DEF Command
<1>3. phase[s] = "registering" /\ s \notin Live
    BY <1>1, <1>2 DEF RegistersOnce, Unregistered
<1>4. /\ Len(commands') = Len(commands) - 1
      /\ \A i \in 1 .. Len(commands') :
            i + 1 \in 1 .. Len(commands) /\ commands'[i] = commands[i + 1]
    BY <1>1 DEF TypeOK
<1>5. phase' \in {[phase EXCEPT ![s] = "granted"], [phase EXCEPT ![s] = "denied"]}
    BY DEF Register
<1>6. ASSUME NEW i \in 1 .. Len(commands'), commands'[i].op = "Register"
      PROVE  /\ commands'[i].session \in Session \ {s}
             /\ phase'[commands'[i].session] = "registering"
    <2>1. commands[i + 1].session \in Session /\ phase[commands[i + 1].session] = "registering"
        BY <1>4, <1>6, RegisterNamesSession DEF RegistersOnce
    <2>2. commands[i + 1].session # commands[1].session
        <3>1. i + 1 \in 1 .. Len(commands) /\ 1 \in 1 .. Len(commands) /\ i + 1 # 1
            BY <1>1, <1>4
        <3>2. commands[i + 1].op = "Register" /\ commands[1].op = "Register"
            BY <1>1, <1>4, <1>6
        <3> QED
            BY <3>1, <3>2 DEF RegistersOnce
    <2>3. phase \in [Session -> ControlPhase]
        BY DEF TypeOK
    <2> QED
        BY <1>1, <1>4, <1>5, <2>1, <2>2, <2>3
<1>7. ASSUME NEW i \in 1 .. Len(commands'), NEW j \in 1 .. Len(commands'),
             commands'[i].op = "Register", commands'[j].op = "Register",
             commands'[i].session = commands'[j].session
      PROVE  i = j
    <2>1. i + 1 = j + 1
        BY <1>4, <1>7 DEF RegistersOnce
    <2> QED
        BY <1>4, <2>1
<1>8. CASE (\E p \in Port : Install(s, p)) /\ phase' = [phase EXCEPT ![s] = "granted"]
    <2>1. PICK p \in Port : Install(s, p)
        BY <1>8
    <2>2. Live' \subseteq Live \cup {s}
        BY <1>2, <2>1, LiveInstall
    <2>3. \A r \in Session : phase'[r] \in Unregistered => r \notin Live'
        BY <1>2, <1>8, <2>2 DEF TypeOK, RegistersOnce, Unregistered
    <2>4. OwnershipConsistent'
        BY <1>2, <1>3, <2>1, OwnershipInstall
    <2> QED
        BY <1>6, <1>7, <2>3, <2>4 DEF RegistersOnce
<1>9. CASE UNCHANGED <<ports, sessions>> /\ phase' = [phase EXCEPT ![s] = "denied"]
    <2>1. Live' = Live
        BY <1>9 DEF Live
    <2>2. OwnershipConsistent'
        BY <1>9, <2>1 DEF OwnershipConsistent
    <2>3. \A r \in Session : phase'[r] \in Unregistered => r \notin Live'
        BY <1>2, <1>3, <1>9, <2>1 DEF TypeOK, RegistersOnce
    <2> QED
        BY <1>6, <1>7, <2>2, <2>3 DEF RegistersOnce
<1> QED
    BY <1>8, <1>9 DEF Register

\* Releasing slots without an owner, or with their owners, as sweep and
\* shutdown do.
LEMMA OwnershipSweep ==
    ASSUME OwnershipConsistent, Sweep
    PROVE  OwnershipConsistent' /\ Live' = Live
<1>1. /\ sessions' = sessions
      /\ ports' = [p \in Port |-> IF p \in ExpiredSlots THEN FreeSlot ELSE ports[p]]
    BY DEF Sweep, ReleaseSlots
<1>2. \A p \in Port : ports[p].state = "Active" => ports'[p] = ports[p]
    BY <1>1 DEF ExpiredSlots
<1>3. \A p \in Port : ports'[p].state = "Active" => ports[p].state = "Active"
    BY <1>1 DEF FreeSlot
<1>4. Live' = Live
    BY <1>1 DEF Live
<1> QED
    BY <1>1, <1>2, <1>3, <1>4 DEF OwnershipConsistent

\* A reservation that runs out stays a Reserved slot until the sweep
\* (registry.rs: deadline), so it changes no owner.
LEMMA OwnershipExpiry ==
    ASSUME TypeOK, OwnershipConsistent, NEW p \in Port, ReservationExpires(p)
    PROVE  OwnershipConsistent' /\ Live' = Live
<1>1. /\ sessions' = sessions
      /\ ports'[p].state = "Reserved"
      /\ \A q \in Port : q # p => ports'[q] = ports[q]
      /\ ports[p].state = "Reserved"
    BY DEF TypeOK, ReservationExpires, PortSlot
<1>2. Live' = Live
    BY <1>1 DEF Live
<1> QED
    BY <1>1, <1>2 DEF OwnershipConsistent

\* shutdown_all empties both tables and the channel: nobody owns a port, and
\* nothing is left to register.
LEMMA OwnershipShutdown ==
    ASSUME TypeOK, RegistersOnce, OwnershipConsistent, Shutdown
    PROVE  RegistryStopped' /\ RegistersOnce' /\ OwnershipConsistent'
<1>1. sessions' = [s \in Session |-> NoRef]
    BY DEF Shutdown, shutdown_all, Without
<1>2. \A p \in Port : ports'[p].state = "Free"
    BY DEF Shutdown, shutdown_all, ReleaseSlots, Slots, FreeSlot
<1>3. Live' = {}
    BY <1>1 DEF Live, NoRef
<1>4. OwnershipConsistent'
    BY <1>2, <1>3 DEF OwnershipConsistent
<1>5. commands' = <<>> /\ ~registryUp'
    BY DEF Shutdown
<1> QED
    BY <1>3, <1>4, <1>5 DEF RegistersOnce, RegistryStopped

\* accepted_public removes a session only when its OPEN cannot be queued.
LEMMA OwnershipAccepted ==
    ASSUME TypeOK, OwnershipConsistent, AcceptedPublic
    PROVE  OwnershipConsistent' /\ Live' \subseteq Live
<1> DEFINE c == Head(commands).item
<1> DEFINE s == ports[via[c].port].session
<1>1. CASE UNCHANGED <<ports, sessions>>
    BY <1>1 DEF OwnershipConsistent, Live
<1>2. CASE Admitted(c) /\ FailSession(c, s)
    <2>1. c \in Conn
        BY HeadCommand DEF AcceptedPublic, Receive, Command
    <2>2. s \in Session /\ ports[via[c].port].generation \in Nat
        BY <1>2, <2>1 DEF TypeOK, Admitted, Slots, PortSlot
    <2>3. session_lost(s, ports[via[c].port].generation)
        BY <1>2 DEF FailSession
    <2> QED
        BY <2>2, <2>3, OwnershipLost
<1> QED
    BY <1>1, <1>2 DEF AcceptedPublic, Reject, OpenRequest

\* Every handler keeps the invariant.
LEMMA OwnershipRegistry ==
    ASSUME TypeOK, RegistryStopped, RegistersOnce, OwnershipConsistent, RegistryStep
    PROVE  RegistryStopped' /\ RegistersOnce' /\ OwnershipConsistent'
<1>1. CASE Shutdown
    BY <1>1, OwnershipShutdown
<1>2. CASE ~Shutdown
    <2>1. registryUp /\ commands # <<>> /\ commands' = Tail(commands) /\ UNCHANGED <<server, registryUp>>
        BY <1>2 DEF RegistryStep, Receive, Register, SessionLost, Goodbye, AcceptedPublic,
                    PeekData, ClaimData, OpenFailed, RequestFinished
    <2>2. RegistryStopped'
        BY <2>1 DEF RegistryStopped
    <2>3. CASE Register
        BY <2>2, <2>3, OwnershipRegister
    <2>4. CASE SessionLost
        <3>1. Head(commands).session \in Session /\ Head(commands).generation \in Nat
            BY <2>4, HeadCommand DEF SessionLost, Receive, Command
        <3>2. OwnershipConsistent' /\ Live' \subseteq Live
            BY <2>4, <3>1, OwnershipLost DEF SessionLost
        <3>3. phase' = phase
            BY <2>4 DEF SessionLost
        <3> QED
            BY <2>1, <2>2, <3>2, <3>3, RegistersOnceFrame
    <2>5. CASE Goodbye
        <3> DEFINE s == Head(commands).session
        <3>1. s \in Session /\ Head(commands).generation \in Nat
            BY <2>5, HeadCommand DEF Goodbye, Receive, Command
        <3>2. OwnershipConsistent' /\ Live' \subseteq Live
            BY <2>5, <3>1, OwnershipGoodbye DEF Goodbye
        <3>3. phase' = [phase EXCEPT ![s] = IF @ = "goodbye" THEN "teardown" ELSE @]
            BY <2>5 DEF Goodbye
        <3>4. \A r \in Session :
                /\ phase[r] = "registering" => phase'[r] = "registering"
                /\ phase'[r] \in Unregistered => phase[r] \in Unregistered
            BY <3>1, <3>3 DEF TypeOK, Unregistered
        <3> QED
            BY <2>1, <2>2, <3>2, <3>4, RegistersOnceFrame
    <2>6. CASE AcceptedPublic
        <3>1. OwnershipConsistent' /\ Live' \subseteq Live
            BY <2>6, OwnershipAccepted
        <3>2. phase' = phase
            BY <2>6 DEF AcceptedPublic
        <3> QED
            BY <2>1, <2>2, <3>1, <3>2, RegistersOnceFrame
    <2>7. CASE PeekData \/ ClaimData \/ OpenFailed \/ RequestFinished
        <3>1. UNCHANGED <<ports, sessions, phase>>
            BY <2>7 DEF PeekData, ClaimData, OpenFailed, RequestFinished
        <3>2. Live' = Live
            BY <3>1 DEF Live
        <3>3. OwnershipConsistent'
            BY <3>1, <3>2 DEF OwnershipConsistent
        <3> QED
            BY <2>1, <2>2, <3>1, <3>2, <3>3, RegistersOnceFrame
    <2> QED
        BY <1>2, <2>3, <2>4, <2>5, <2>6, <2>7 DEF RegistryStep
<1> QED
    BY <1>1, <1>2

-----------------------------------------------------------------------------
(* The supervisor, and the theorem *)

\* When the grace period ends the channel is already empty, so aborting a
\* task strands no registration.
LEMMA OwnershipSupervisor ==
    ASSUME TypeOK, RegistryStopped, RegistersOnce, OwnershipConsistent, SupervisorStep
    PROVE  RegistryStopped' /\ RegistersOnce' /\ OwnershipConsistent'
<1>1. CASE Stop
    <2>1. Passive
        BY <1>1 DEF Stop, Passive
    <2> QED
        BY <2>1, PassiveKeeps
<1>2. CASE SendShutdown
    <2> DEFINE cmd == SessionCommand("Shutdown", None, 0)
    <2>1. cmd \in Command /\ cmd.op # "Register"
        BY CommandsTyped DEF SessionCommand
    <2>2. Send(cmd) \/ Closed
        BY <1>2 DEF SendShutdown
    <2> HIDE DEF cmd
    <2>3. Passive
        BY <1>2, <2>1, <2>2, PassiveSend DEF SendShutdown, Passive
    <2> QED
        BY <2>3, PassiveKeeps
<1>3. CASE TasksJoined
    <2>1. Passive
        BY <1>3 DEF TasksJoined, Passive
    <2> QED
        BY <2>1, PassiveKeeps
<1>4. CASE GraceElapses
    <2>1. /\ UNCHANGED <<ports, sessions, registryUp, commands>>
          /\ commands = <<>>
          /\ \A s \in Session : phase'[s] \in Unregistered => phase[s] \in Unregistered
        BY <1>4 DEF GraceElapses, EndServe, RegistryStopped, Unregistered
    <2>2. Live' = Live
        BY <2>1 DEF Live
    <2>3. OwnershipConsistent'
        BY <2>1, <2>2 DEF OwnershipConsistent
    <2>4. RegistersOnce'
        BY <2>1, <2>2, RegistersOnceFrame
    <2>5. RegistryStopped'
        BY <1>4, <2>1 DEF RegistryStopped, GraceElapses
    <2> QED
        BY <2>3, <2>4, <2>5
<1> QED
    BY <1>1, <1>2, <1>3, <1>4 DEF SupervisorStep

\* The base case: the server starts with empty tables.
LEMMA OwnershipInit ==
    ASSUME Init
    PROVE  RegistryStopped /\ RegistersOnce /\ OwnershipConsistent
<1>1. Live = {}
    BY DEF Init, Live, NoRef
<1> QED
    BY <1>1 DEF Init, RegistryStopped, RegistersOnce, OwnershipConsistent, FreeSlot

\* The step case, over all steps of the server: the registry, the sweep and the
\* shutdown change the tables, all other steps are Passive.
LEMMA OwnershipNext ==
    ASSUME TypeOK, RegistryStopped, RegistersOnce, OwnershipConsistent, [Next]_vars
    PROVE  RegistryStopped' /\ RegistersOnce' /\ OwnershipConsistent'
<1>1. CASE RegistryStep
    BY <1>1, OwnershipRegistry
<1>2. CASE Sweep
    <2>1. OwnershipConsistent' /\ Live' = Live
        BY <1>2, OwnershipSweep
    <2>2. UNCHANGED <<commands, phase, server, registryUp>>
        BY <1>2 DEF Sweep
    <2> QED
        BY <2>1, <2>2, RegistersOnceFrame DEF RegistryStopped
<1>3. CASE \E p \in Port : ReservationExpires(p)
    <2>1. OwnershipConsistent' /\ Live' = Live
        BY <1>3, OwnershipExpiry
    <2>2. UNCHANGED <<commands, phase, server, registryUp>>
        BY <1>3 DEF ReservationExpires
    <2> QED
        BY <2>1, <2>2, RegistersOnceFrame DEF RegistryStopped
<1>4. CASE \E l \in listeners : ListenerStops(l)
    <2>1. Passive
        BY <1>4 DEF ListenerStops, Passive
    <2> QED
        BY <2>1, PassiveKeeps
<1>5. ASSUME NEW s \in Session, ControlStep(s)
      PROVE  RegistryStopped' /\ RegistersOnce' /\ OwnershipConsistent'
    <2>1. CASE Authenticate(s)
        <3>1. /\ UNCHANGED <<ports, sessions, registryUp, server>>
              /\ registryUp \/ UNCHANGED commands
            BY <2>1 DEF Authenticate, Send, Closed
        <3>2. OwnershipConsistent'
            BY <3>1 DEF OwnershipConsistent, Live
        <3>3. RegistryStopped'
            BY <3>1 DEF RegistryStopped
        <3> QED
            BY <2>1, <3>2, <3>3, RegistersOnceAuthenticate
    <2>2. CASE ~Authenticate(s)
        BY <1>5, <2>2, PassiveControl, PassiveKeeps
    <2> QED
        BY <2>1, <2>2
<1>6. CASE \E c \in Conn : PublicStep(c)
    BY <1>6, PassivePublic, PassiveKeeps
<1>7. CASE \E d \in DataConn : DataStep(d)
    BY <1>7, PassiveData, PassiveKeeps
<1>8. CASE SupervisorStep
    BY <1>8, OwnershipSupervisor
<1>9. CASE UNCHANGED vars
    BY <1>9 DEF vars, RegistryStopped, RegistersOnce, OwnershipConsistent, Live
<1> QED
    BY <1>1, <1>2, <1>3, <1>4, <1>5, <1>6, <1>7, <1>8, <1>9 DEF Next, Idle

\* The inductive invariant behind the next two theorems.
THEOREM OwnershipInvariant == Spec => []Ownership
<1>1. Init => RegistryStopped /\ RegistersOnce /\ OwnershipConsistent
    BY OwnershipInit
<1>2. TypeOK /\ RegistryStopped /\ RegistersOnce /\ OwnershipConsistent /\ [Next]_vars
        => RegistryStopped' /\ RegistersOnce' /\ OwnershipConsistent'
    BY OwnershipNext
<1> QED
    BY <1>1, <1>2, TypeCorrect, PTL DEF Spec, Ownership

\* The sessions map and the Active slots agree in every reachable state
\* (registry.rs: register, displace, session_lost, goodbye, sweep,
\* shutdown_all), however many sessions contend for however many ports and
\* however late their commands arrive.
THEOREM OwnershipHolds == Spec => []OwnershipConsistent
BY OwnershipInvariant, PTL DEF Ownership

-----------------------------------------------------------------------------
(* What the steps of the other tasks leave alone *)

\* No step of a control connection touches the registry's tables, the
\* listeners, or a public or data connection.
LEMMA ControlFrame ==
    ASSUME NEW s \in Session, ControlStep(s)
    PROVE  UNCHANGED <<ports, sessions, next_generation, next_listener_id, registryUp,
                       global_connections, permits, pending, listeners, conn, via, req,
                       late, box, data, dhello>>
<1>1. CASE \/ \E h \in Hellos : AcceptControl(s, h)
           \/ RefuseControl(s) \/ HandshakeFails(s) \/ Authenticate(s) \/ TakeoverFlushEnds(s)
    BY <1>1 DEF AcceptControl, RefuseControl, HandshakeFails, Authenticate, TakeoverFlushEnds
<1>2. CASE ServeStep(s)
    BY <1>2 DEF ServeStep, SendRefusal, SendRegistered, Abandon, Cancelled,
                SendSessionLost, SendGoodbye, GoodbyeReplied, ServeEnds
<1>3. CASE PongDeadline(s) \/ PingTick(s) \/ WriterStep(s)
    BY <1>3 DEF PongDeadline, PingTick, WriterStep, WriteFrame, WriteFails,
                CloseAfterFlushed, SendersGone
<1>4. CASE ClientFrameArrives(s)
    BY <1>4 DEF ClientFrameArrives, ReceivePing, ReceivePong, ReceiveGoodbye,
                ReceiveError, ReceiveOther, ReceiveOpenFailed
<1> QED
    BY <1>1, <1>2, <1>3, <1>4 DEF ControlStep

\* No step of a public connection touches the registry's tables or a control
\* connection.
LEMMA PublicStepFrame ==
    ASSUME NEW c \in Conn, PublicStep(c)
    PROVE  UNCHANGED <<ports, sessions, next_generation, next_listener_id, registryUp,
                       pending, phase, hello, grant, assigned, refusal, clean, outstanding,
                       sequence, writer, writerUp, wire, control_cancel, data_cancel,
                       flushing, server>>
<1>1. CASE (\E l \in listeners : AcceptPublic(c, l)) \/ DeadlinePasses(c)
    BY <1>1 DEF AcceptPublic, DeadlinePasses
<1>2. CASE ServePublicStep(c)
    BY <1>2 DEF ServePublicStep, WaitEnds, TakeData, WriteReady, ReadyFails, ForwardCancelled
<1>3. CASE ForwardEnds(c) \/ ServePublicEnds(c)
    BY <1>3 DEF ForwardEnds, ServePublicEnds
<1> QED
    BY <1>1, <1>2, <1>3 DEF PublicStep

\* A step of a data connection's handshake touches nothing but the channel,
\* that connection and its dispatch permit.
LEMMA DataStepFrame ==
    ASSUME NEW d \in DataConn, DataStep(d)
    PROVE  UNCHANGED <<ports, sessions, next_generation, next_listener_id, registryUp,
                       global_connections, permits, pending, listeners, conn, via, req,
                       late, box, phase, hello, grant, assigned, refusal, clean, outstanding,
                       sequence, writer, writerUp, wire, control_cancel, data_cancel,
                       flushing, server>>
BY DEF DataStep, AcceptData, RefuseData, SendPeek, SendClaim, DataFails, ClaimTimesOut

\* Nor does the supervisor touch the tables, listeners and public connections.
LEMMA SupervisorStepFrame ==
    ASSUME SupervisorStep
    PROVE  UNCHANGED <<ports, sessions, next_generation, next_listener_id, registryUp,
                       global_connections, permits, pending, listeners, conn, via, req,
                       late, box, writer, writerUp, wire, control_cancel, data_cancel,
                       flushing, dhello>>
BY DEF SupervisorStep, Stop, SendShutdown, TasksJoined, GraceElapses

-----------------------------------------------------------------------------
(* Listeners *)

\* Once the registry has stopped it holds no port.
RegistryDown == ~registryUp => Slots = {}

\* Releasing slots cancels exactly their accept loops (goodbye, sweep and
\* shutdown_all).
LEMMA ListenersRelease ==
    ASSUME ListenersMatchSlots, listeners \subseteq Listener, NEW P, ReleaseSlots(P)
    PROVE  ListenersMatchSlots'
<1>1. /\ ports' = [p \in Port |-> IF p \in P THEN FreeSlot ELSE ports[p]]
      /\ listeners' = {IF l.port \in P /\ ports[l.port].listener = l.id
                       THEN [l EXCEPT !.cancelled = TRUE] ELSE l : l \in listeners}
    BY DEF ReleaseSlots, CancelListeners
<1>2. ASSUME NEW k \in listeners', ~k.cancelled
      PROVE  ports'[k.port].state # "Free" /\ ports'[k.port].listener = k.id
    <2>1. PICK l \in listeners :
            k = IF l.port \in P /\ ports[l.port].listener = l.id
                THEN [l EXCEPT !.cancelled = TRUE] ELSE l
        BY <1>1
    <2>2. l \in Listener
        OBVIOUS
    <2>3. ~(l.port \in P /\ ports[l.port].listener = l.id) /\ k = l
        BY <1>2, <2>1, <2>2 DEF Listener
    <2>4. ports[l.port].state # "Free" /\ ports[l.port].listener = l.id
        BY <1>2, <2>3 DEF ListenersMatchSlots
    <2> QED
        BY <1>1, <2>2, <2>3, <2>4 DEF Listener
<1>3. ASSUME NEW p \in Slots'
      PROVE  [id |-> ports'[p].listener, port |-> p, cancelled |-> FALSE] \in listeners'
    <2>1. p \in Port /\ ports'[p].state # "Free"
        BY DEF Slots
    <2>2. p \notin P /\ ports'[p] = ports[p] /\ p \in Slots
        BY <1>1, <2>1 DEF FreeSlot, Slots
    <2> DEFINE l == [id |-> ports[p].listener, port |-> p, cancelled |-> FALSE]
    <2>3. l \in listeners /\ l.port = p
        BY <2>2 DEF ListenersMatchSlots
    <2>4. (IF l.port \in P /\ ports[l.port].listener = l.id
           THEN [l EXCEPT !.cancelled = TRUE] ELSE l) = l
        BY <2>2, <2>3
    <2> HIDE DEF l
    <2>5. l \in listeners'
        BY <1>1, <2>3, <2>4
    <2> QED
        BY <2>2, <2>5 DEF l
<1> QED
    BY <1>2, <1>3 DEF ListenersMatchSlots

\* register: a port without a slot gets an accept loop, one with a slot keeps
\* the one it has.
LEMMA ListenersInstall ==
    ASSUME TypeOK, ListenersMatchSlots, NEW s \in Session, NEW p \in Port, Install(s, p)
    PROVE  ListenersMatchSlots'
<1>1. /\ ports'[p].state = "Active"
      /\ ports'[p].listener = IF p \in Slots THEN ports[p].listener ELSE next_listener_id
      /\ \A q \in Port : q # p => ports'[q] = ports[q]
    BY DEF TypeOK, Install
<1>2. Slots' = Slots \cup {p}
    BY <1>1 DEF Slots
<1>3. \A l \in listeners : l.port \in Port
    BY DEF TypeOK, Listener
<1>4. CASE p \in Slots
    <2>1. listeners' = listeners
        BY <1>4 DEF Install, Bind
    <2> QED
        BY <1>1, <1>2, <1>3, <1>4, <2>1 DEF ListenersMatchSlots
<1>5. CASE p \notin Slots
    <2> DEFINE n == [id |-> next_listener_id, port |-> p, cancelled |-> FALSE]
    <2>1. listeners' = listeners \cup {n}
        BY <1>5 DEF Install, Bind
    <2>2. \A l \in listeners : ~l.cancelled => l.port # p
        BY <1>5 DEF ListenersMatchSlots, Slots
    <2>3. n.id = next_listener_id /\ n.port = p
        OBVIOUS
    <2>4. [id |-> ports'[p].listener, port |-> p, cancelled |-> FALSE] = n
        BY <1>1, <1>5
    <2> HIDE DEF n
    <2>5. \A l \in listeners' : ~l.cancelled =>
            ports'[l.port].state # "Free" /\ ports'[l.port].listener = l.id
        BY <1>1, <1>3, <1>5, <2>1, <2>2, <2>3 DEF ListenersMatchSlots
    <2>6. \A q \in Slots' : [id |-> ports'[q].listener, port |-> q, cancelled |-> FALSE] \in listeners'
        BY <1>1, <1>2, <2>1, <2>4 DEF ListenersMatchSlots, Slots
    <2> QED
        BY <2>5, <2>6 DEF ListenersMatchSlots
<1> QED
    BY <1>4, <1>5

\* A step that keeps every slot in the map, with its listener, and adds none.
LEMMA ListenersKept ==
    ASSUME ListenersMatchSlots, listeners \subseteq Listener, listeners' = listeners,
           \A p \in Port :
              /\ ports'[p].listener = ports[p].listener
              /\ ports'[p].state = "Free" <=> ports[p].state = "Free"
    PROVE  ListenersMatchSlots' /\ Slots' = Slots
<1>1. Slots' = Slots
    BY DEF Slots
<1>2. \A l \in listeners : l.port \in Port
    BY DEF Listener
<1> QED
    BY <1>1, <1>2 DEF ListenersMatchSlots, Slots

\* session_lost keeps the listener of the port it reserves.
LEMMA SlotsLost ==
    ASSUME TypeOK, NEW s \in Session, NEW g \in Nat, session_lost(s, g)
    PROVE  \A p \in Port :
              /\ ports'[p].listener = ports[p].listener
              /\ ports'[p].state = "Free" <=> ports[p].state = "Free"
<1>1. CASE ports' = ports
    BY <1>1
<1>2. CASE Current(s, g) /\ ports' = Reserve(s, g)
    BY <1>2 DEF TypeOK, Current, Reserve
<1> QED
    BY <1>1, <1>2 DEF session_lost

-----------------------------------------------------------------------------
(* The steps *)

\* Every handler of the registry keeps accept loops and slots matched.
LEMMA ListenersRegistry ==
    ASSUME TypeOK, RegistryDown, ListenersMatchSlots, RegistryStep
    PROVE  RegistryDown' /\ ListenersMatchSlots'
<1>0. listeners \subseteq Listener
    BY DEF TypeOK
<1>1. CASE Shutdown
    <2>1. ReleaseSlots(Slots)
        BY <1>1 DEF Shutdown, shutdown_all
    <2>2. Slots' = {}
        BY <2>1 DEF ReleaseSlots, Slots, FreeSlot
    <2> QED
        BY <1>0, <2>1, <2>2, ListenersRelease DEF RegistryDown
<1>2. CASE ~Shutdown
    <2>1. registryUp /\ registryUp' = registryUp /\ commands # <<>>
        BY <1>2 DEF RegistryStep, Receive, Register, SessionLost, Goodbye, AcceptedPublic,
                    PeekData, ClaimData, OpenFailed, RequestFinished
    <2>2. RegistryDown'
        BY <2>1 DEF RegistryDown
    <2>3. Head(commands) \in Command
        BY <2>1, HeadCommand
    <2>4. CASE Register
        <3> DEFINE s == Head(commands).session
        <3>1. s \in Session
            BY <2>3, <2>4 DEF Register, Receive, Command
        <3>2. CASE \E p \in Port : Install(s, p)
            BY <2>2, <3>1, <3>2, ListenersInstall
        <3>3. CASE UNCHANGED <<ports, listeners>>
            BY <1>0, <2>2, <3>3, ListenersKept
        <3> QED
            BY <2>2, <2>4, <3>2, <3>3 DEF Register
    <2>5. CASE SessionLost
        <3>1. Head(commands).session \in Session /\ Head(commands).generation \in Nat
            BY <2>3, <2>5 DEF SessionLost, Receive, Command
        <3>2. session_lost(Head(commands).session, Head(commands).generation)
              /\ listeners' = listeners
            BY <2>5 DEF SessionLost
        <3> QED
            BY <1>0, <2>2, <3>1, <3>2, SlotsLost, ListenersKept
    <2>6. CASE Goodbye
        <3> DEFINE s == Head(commands).session
        <3> DEFINE g == Head(commands).generation
        <3>1. goodbye(s, g)
            BY <2>6 DEF Goodbye
        <3>2. CASE s \in Live /\ sessions[s].generation = g
            BY <1>0, <2>2, <3>1, <3>2, ListenersRelease DEF goodbye
        <3>3. CASE ~(s \in Live /\ sessions[s].generation = g)
            BY <1>0, <2>2, <3>1, <3>3, ListenersKept DEF goodbye
        <3> QED
            BY <3>2, <3>3
    <2>7. CASE AcceptedPublic
        <3> DEFINE c == Head(commands).item
        <3> DEFINE s == ports[via[c].port].session
        <3>1. listeners' = listeners
            BY <2>7 DEF AcceptedPublic
        <3>2. CASE ports' = ports
            BY <1>0, <2>2, <3>1, <3>2, ListenersKept
        <3>3. CASE Admitted(c) /\ FailSession(c, s)
            <4>1. s \in Session /\ ports[via[c].port].generation \in Nat
                BY <3>3 DEF TypeOK, Admitted, Slots, PortSlot
            <4>2. session_lost(s, ports[via[c].port].generation)
                BY <3>3 DEF FailSession
            <4> QED
                BY <1>0, <2>2, <3>1, <4>1, <4>2, SlotsLost, ListenersKept
        <3> QED
            BY <2>7, <3>2, <3>3 DEF AcceptedPublic, Reject, OpenRequest
    <2>8. CASE PeekData \/ ClaimData \/ OpenFailed \/ RequestFinished
        <3>1. UNCHANGED <<ports, listeners>>
            BY <2>8 DEF PeekData, ClaimData, OpenFailed, RequestFinished
        <3> QED
            BY <1>0, <2>2, <3>1, ListenersKept
    <2> QED
        BY <1>2, <2>4, <2>5, <2>6, <2>7, <2>8 DEF RegistryStep
<1> QED
    BY <1>1, <1>2

\* An accept loop ends when it was cancelled, or when the channel is closed,
\* and then there is no slot left.
LEMMA ListenersPublic ==
    ASSUME TypeOK, RegistryDown, ListenersMatchSlots, NEW l \in listeners,
           ListenerStops(l) \/ \E c \in Conn : AcceptPublic(c, l)
    PROVE  RegistryDown' /\ ListenersMatchSlots'
<1>1. ports' = ports /\ registryUp' = registryUp
    BY DEF ListenerStops, AcceptPublic
<1>2. Slots' = Slots
    BY <1>1 DEF Slots
<1>3. CASE listeners' = listeners
    BY <1>1, <1>2, <1>3 DEF RegistryDown, ListenersMatchSlots
<1>4. CASE listeners' = listeners \ {l} /\ (l.cancelled \/ ~registryUp)
    <2>1. \A p \in Slots : [id |-> ports[p].listener, port |-> p, cancelled |-> FALSE] # l
        BY <1>4 DEF RegistryDown
    <2> QED
        BY <1>1, <1>2, <1>4, <2>1 DEF RegistryDown, ListenersMatchSlots
<1> QED
    BY <1>3, <1>4 DEF ListenerStops, AcceptPublic, Closed

\* The step case, over all steps of the server: only the registry, the sweep and the
\* accept loops themselves touch a slot's loop.
LEMMA ListenersNext ==
    ASSUME TypeOK, RegistryDown, ListenersMatchSlots, [Next]_vars
    PROVE  RegistryDown' /\ ListenersMatchSlots'
<1>0. listeners \subseteq Listener
    BY DEF TypeOK
<1>1. CASE RegistryStep
    BY <1>1, ListenersRegistry
<1>2. CASE Sweep
    <2>1. ReleaseSlots(ExpiredSlots) /\ registryUp /\ registryUp' = registryUp
        BY <1>2 DEF Sweep
    <2> QED
        BY <1>0, <2>1, ListenersRelease DEF RegistryDown
<1>3. CASE \E p \in Port : ReservationExpires(p)
    <2>1. PICK p \in Port : ReservationExpires(p)
        BY <1>3
    <2>2. /\ listeners' = listeners /\ registryUp' = registryUp
          /\ \A q \in Port : /\ ports'[q].listener = ports[q].listener
                             /\ ports'[q].state = ports[q].state
        BY <2>1 DEF ReservationExpires, TypeOK, PortSlot
    <2> QED
        BY <1>0, <2>2, ListenersKept DEF RegistryDown
<1>4. CASE \E l \in listeners : ListenerStops(l)
    BY <1>4, ListenersPublic
<1>5. CASE \E c \in Conn : \E l \in listeners : AcceptPublic(c, l)
    BY <1>5, ListenersPublic
<1>6. CASE UNCHANGED <<ports, listeners, registryUp>>
    BY <1>0, <1>6, ListenersKept DEF RegistryDown
<1>7. CASE \E c \in Conn : PublicStep(c) /\ ~\E l \in listeners : AcceptPublic(c, l)
    <2>1. listeners' = listeners
        BY <1>7 DEF PublicStep, DeadlinePasses, ServePublicStep, WaitEnds, TakeData, WriteReady,
                    ReadyFails, ForwardCancelled, ForwardEnds, ServePublicEnds
    <2> QED
        BY <1>6, <1>7, <2>1, PublicStepFrame
<1>8. CASE \/ \E s \in Session : ControlStep(s)
           \/ \E d \in DataConn : DataStep(d)
           \/ SupervisorStep
    BY <1>6, <1>8, ControlFrame, DataStepFrame, SupervisorStepFrame
<1> QED
    BY <1>1, <1>2, <1>3, <1>4, <1>5, <1>6, <1>7, <1>8 DEF Next, Idle, vars

\* The inductive invariant behind the next two theorems.
THEOREM ListenerInvariant == Spec => [](RegistryDown /\ ListenersMatchSlots)
<1>1. Init => RegistryDown /\ ListenersMatchSlots
    BY DEF Init, RegistryDown, ListenersMatchSlots, Slots, FreeSlot
<1>2. TypeOK /\ RegistryDown /\ ListenersMatchSlots /\ [Next]_vars
        => RegistryDown' /\ ListenersMatchSlots'
    BY ListenersNext
<1> QED
    BY <1>1, <1>2, TypeCorrect, PTL DEF Spec

\* An accept loop runs uncancelled exactly for the slots of the ports map
\* (registry.rs: bind_slot, goodbye, sweep, shutdown_all; listener.rs: run),
\* for any number of ports, sessions and connections.
THEOREM ListenersHold == Spec => []ListenersMatchSlots
BY ListenerInvariant, PTL

-----------------------------------------------------------------------------
(* The port of a registration *)

\* A set of ports has a lowest one, and Lowest is it.
LEMMA LowestIn ==
    ASSUME NEW S, S \subseteq Port, S # {}
    PROVE  Lowest(S) \in S
<1>1. S \subseteq Nat
    BY PortAssumption
<1>2. \E x \in S : \A y \in S : ~(<<y, x>> \in OpToRel(<, Nat))
    BY <1>1, NatLessThanWellFounded, WFMin
<1>3. PICK x \in S : \A y \in S : ~(y < x)
    BY <1>1, <1>2 DEF OpToRel
<1>4. \A y \in S : x <= y
    BY <1>1, <1>3
<1> QED
    BY <1>4 DEF Lowest

\* allocate_automatic gives a process a slot it has, or else binds a port that
\* has no slot; it never answers PORT_UNAVAILABLE, as it passes over the ports
\* that are taken.
LEMMA AutomaticPlace ==
    ASSUME NEW i
    PROVE  /\ allocate_automatic(i).code # "PortUnavailable"
           /\ \A p \in Port : allocate_automatic(i) = Granted(p) =>
                 \/ p \in OwnSlots(i)
                 \/ OwnSlots(i) = {} /\ p \notin Slots
<1> DEFINE scan == {p \in AutoPorts \ (Slots \cup {ListenPort}) :
                        bind_listener(p) # "PortUnavailable"}
<1>1. CASE OwnSlots(i) # {}
    <2>1. Lowest(OwnSlots(i)) \in OwnSlots(i)
        BY <1>1, LowestIn DEF OwnSlots, Slots
    <2>2. allocate_automatic(i) = Granted(Lowest(OwnSlots(i)))
        BY <1>1 DEF allocate_automatic
    <2> QED
        BY <2>1, <2>2 DEF Granted
<1>2. CASE /\ OwnSlots(i) = {}
           /\ Cardinality(Slots) >= MAX_SLOTS \/ scan = {}
    BY <1>2 DEF allocate_automatic, Refused, Granted
<1>3. CASE /\ OwnSlots(i) = {}
           /\ ~(Cardinality(Slots) >= MAX_SLOTS) /\ scan # {}
    <2>1. Lowest(scan) \in scan
        BY <1>3, LowestIn, PortAssumption
    <2>2. allocate_automatic(i) = bind_slot(Lowest(scan))
        BY <1>3 DEF allocate_automatic
    <2>3. bind_listener(Lowest(scan)) # "PortUnavailable" /\ Lowest(scan) \notin Slots
        BY <2>1
    <2> QED
        BY <1>3, <2>2, <2>3 DEF bind_slot, Granted, Refused
<1> QED
    BY <1>1, <1>2, <1>3

\* ensure_slot answers for the port it is asked for, and calls it unavailable only
\* when the port has no slot and binding it fails.
LEMMA NamedPlace ==
    ASSUME NEW q, NEW exclusive_new \in BOOLEAN
    PROVE  /\ \A p : ensure_slot(q, exclusive_new) = Granted(p) => p = q
           /\ ensure_slot(q, exclusive_new).code = "PortUnavailable" =>
                 q \notin Slots /\ bind_slot(q).code = "PortUnavailable"
<1>1. \A p : bind_slot(q) = Granted(p) => p = q
    BY DEF bind_slot, Granted, Refused
<1>2. CASE exclusive_new
    BY <1>1, <1>2 DEF ensure_slot, Granted, Refused
<1>3. CASE ~exclusive_new
    BY <1>1, <1>3 DEF ensure_slot, Granted, Refused
<1> QED
    BY <1>2, <1>3

\* resume_slot answers for the port it is asked for, gives out no slot of another
\* process, and otherwise does what ensure_slot does.
LEMMA ResumedPlace ==
    ASSUME NEW q, NEW i
    PROVE  /\ \A p : resume_slot(q, i) = Granted(p) =>
                 p = q /\ (p \in Slots => ports[p].instance = i)
           /\ resume_slot(q, i).code = "PortUnavailable" =>
                 q \notin Slots /\ bind_slot(q).code = "PortUnavailable"
<1> DEFINE ensured == ensure_slot(q, TRUE)
<1>1. /\ \A p : ensured = Granted(p) => p = q
      /\ ensured.code = "PortUnavailable" =>
            q \notin Slots /\ bind_slot(q).code = "PortUnavailable"
    BY NamedPlace
<1>2. CASE q \in Slots
    BY <1>2 DEF resume_slot, Granted, Refused
<1>3. CASE q \notin Slots
    <2>1. resume_slot(q, i) = ensured
        BY <1>3 DEF resume_slot
    <2> HIDE DEF ensured
    <2> QED
        BY <1>1, <1>3, <2>1
<1> QED
    BY <1>2, <1>3

\* A registration is given a slot of another process only when it is fresh and
\* names the port, and an automatic one binds a port only for a process without
\* a slot.
LEMMA PlacementGranted ==
    ASSUME NEW h \in Hello \cup {NoHello}, NEW p \in Port, Placement(h) = Granted(p)
    PROVE  /\ p \in Slots =>
                 ports[p].instance = h.instance \/ (h.mode = "Fresh" /\ h.port = p)
           /\ p \notin Slots /\ h.port = 0 => OwnSlots(h.instance) = {}
           /\ h.port \in {0, p}
<1>1. h.mode \in Modes /\ (h.mode = "Resume" => h.port # 0)
    BY DEF Hello, NoHello, Modes
<1>2. CASE h.port = ListenPort
    BY <1>2 DEF Placement, Refused, Granted
<1>3. CASE h.port # ListenPort /\ h.mode = "Fresh" /\ h.port = 0
    <2>1. allocate_automatic(h.instance) = Granted(p)
        BY <1>3 DEF Placement
    <2> QED
        BY <1>3, <2>1, AutomaticPlace DEF OwnSlots
<1>4. CASE h.port # ListenPort /\ h.mode = "Fresh" /\ h.port # 0
    <2>1. ensure_slot(h.port, FALSE) = Granted(p)
        BY <1>4 DEF Placement
    <2>2. p = h.port
        BY <2>1, NamedPlace
    <2> QED
        BY <1>4, <2>2
<1>5. CASE h.port # ListenPort /\ h.mode = "Resume"
    <2>1. resume_slot(h.port, h.instance) = Granted(p)
        BY <1>5 DEF Placement
    <2> QED
        BY <1>1, <1>5, <2>1, ResumedPlace
<1> QED
    BY <1>1, <1>2, <1>3, <1>4, <1>5 DEF Modes

\* A registration is refused as unavailable only when it names a port that has
\* no slot and a socket bound to it.
LEMMA PlacementUnavailable ==
    ASSUME NEW h \in Hello \cup {NoHello}, Placement(h).code = "PortUnavailable"
    PROVE  /\ h.port \notin Slots
           /\ h.port \in ForeignPorts \/ \E l \in listeners : l.port = h.port
<1>1. h.mode \in Modes
    BY DEF Hello, NoHello, Modes
<1>2. h.port # ListenPort
    BY DEF Placement, Refused
<1>3. ~(h.mode = "Fresh" /\ h.port = 0)
    <2>1. (h.mode = "Fresh" /\ h.port = 0) => Placement(h) = allocate_automatic(h.instance)
        BY <1>2 DEF Placement
    <2> QED
        BY <2>1, AutomaticPlace
<1>4. ASSUME bind_slot(h.port).code = "PortUnavailable"
      PROVE  h.port \in ForeignPorts \/ \E l \in listeners : l.port = h.port
    BY <1>4 DEF bind_slot, bind_listener, Granted, Refused
<1>5. CASE h.mode = "Fresh" /\ h.port # 0
    <2>1. ensure_slot(h.port, FALSE).code = "PortUnavailable"
        BY <1>2, <1>5 DEF Placement
    <2>2. h.port \notin Slots /\ bind_slot(h.port).code = "PortUnavailable"
        BY <2>1, NamedPlace
    <2> QED
        BY <1>4, <2>2
<1>6. CASE h.mode = "Resume"
    <2>1. Placement(h) = resume_slot(h.port, h.instance)
        BY <1>2, <1>6 DEF Placement
    <2>2. h.port \notin Slots /\ bind_slot(h.port).code = "PortUnavailable"
        BY <2>1, ResumedPlace
    <2> QED
        BY <1>4, <2>2
<1> QED
    BY <1>1, <1>3, <1>5, <1>6 DEF Modes

\* Only register answers PORT_UNAVAILABLE.
LEMMA RefusalStep ==
    ASSUME TypeOK, [Next]_vars, ~Register
    PROVE  \A s \in Session : refusal'[s] \in {refusal[s], None, "InternalError"}
<1>1. refusal \in [Session -> ErrorCode \cup {None}]
    BY DEF TypeOK
<1>2. CASE refusal' = refusal
    BY <1>2
<1>3. CASE \E S : EndServe(S)
    BY <1>3 DEF EndServe
<1>4. CASE Shutdown
    BY <1>4 DEF Shutdown
<1>5. CASE \E s \in Session : Authenticate(s)
    BY <1>1, <1>5 DEF Authenticate
<1>6. CASE RegistryStep
    BY <1>2, <1>4, <1>6 DEF RegistryStep, SessionLost, Goodbye, AcceptedPublic, PeekData,
                            ClaimData, OpenFailed, RequestFinished
<1>7. ASSUME NEW s \in Session, ControlStep(s)
      PROVE  refusal' = refusal \/ (\E S : EndServe(S)) \/ Authenticate(s)
    <2>1. CASE (\E h \in Hellos : AcceptControl(s, h)) \/ RefuseControl(s) \/ TakeoverFlushEnds(s)
        BY <2>1 DEF AcceptControl, RefuseControl, TakeoverFlushEnds
    <2>2. CASE HandshakeFails(s) \/ ServeStep(s)
        BY <2>2 DEF HandshakeFails, ServeStep, SendRefusal, SendRegistered, Abandon, Cancelled,
                    SendSessionLost, SendGoodbye, GoodbyeReplied, ServeEnds
    <2>3. CASE PongDeadline(s) \/ PingTick(s) \/ WriterStep(s)
        BY <2>3 DEF PongDeadline, PingTick, WriterStep, WriteFrame, WriteFails,
                    CloseAfterFlushed, SendersGone
    <2>4. CASE ClientFrameArrives(s)
        BY <2>4 DEF ClientFrameArrives, ReceivePing, ReceivePong, ReceiveGoodbye,
                    ReceiveError, ReceiveOther, ReceiveOpenFailed
    <2> QED
        BY <1>7, <2>1, <2>2, <2>3, <2>4 DEF ControlStep
<1>8. CASE SupervisorStep
    BY <1>2, <1>3, <1>8 DEF SupervisorStep, Stop, SendShutdown, TasksJoined, GraceElapses
<1>9. CASE \/ Sweep \/ (\E p \in Port : ReservationExpires(p))
           \/ (\E l \in listeners : ListenerStops(l)) \/ UNCHANGED vars
    BY <1>2, <1>9 DEF Sweep, ReservationExpires, ListenerStops, vars
<1> QED
    BY <1>2, <1>3, <1>5, <1>6, <1>7, <1>8, <1>9, PublicStepFrame, DataStepFrame DEF Next, Idle

\* PORT_UNAVAILABLE is answered only for a port that another process has, or
\* whose given-up accept loop has not ended: an uncancelled loop would have a
\* slot, and a port with a slot is taken over or refused otherwise
\* (registry.rs: ensure_slot, bind_slot, resume_slot, allocate_automatic).
THEOREM UnavailableOnlyForCause == Spec => UnavailableForCause
<1>1. TypeOK /\ ListenersMatchSlots /\ [Next]_vars => [UnavailableStep]_vars
    <2> SUFFICES ASSUME TypeOK, ListenersMatchSlots, [Next]_vars,
                        NEW s \in Session, refusal[s] = None, refusal'[s] = "PortUnavailable"
                 PROVE  \/ hello[s].port \in ForeignPorts
                        \/ \E l \in listeners : l.port = hello[s].port /\ l.cancelled
        BY DEF UnavailableStep
    <2>1. Register
        BY RefusalStep, RefusalAssumption DEF ErrorCode
    <2> DEFINE r == Head(commands).session
    <2>2. /\ commands # <<>> /\ Head(commands).op = "Register"
          /\ refusal \in [Session -> ErrorCode \cup {None}]
        BY <2>1 DEF Register, Receive, TypeOK
    <2>3. r \in Session
        BY <2>2, HeadCommand DEF Command
    <2>4. refusal' = [refusal EXCEPT ![r] = Placement(hello[r]).code]
        <3>1. refusal' # refusal
            BY RefusalAssumption DEF ErrorCode
        <3> QED
            BY <2>1, <3>1 DEF Register
    <2>5. r = s /\ Placement(hello[s]).code = "PortUnavailable"
        <3> DEFINE code == Placement(hello[r]).code
        <3>1. refusal' = [refusal EXCEPT ![r] = code]
            BY <2>4
        <3> HIDE DEF code
        <3>2. r = s /\ code = "PortUnavailable"
            BY <2>2, <2>3, <3>1, RefusalAssumption DEF ErrorCode
        <3> QED
            BY <3>2 DEF code
    <2>6. hello[s] \in Hello \cup {NoHello}
        BY DEF TypeOK
    <2>7. /\ hello[s].port \notin Slots
          /\ hello[s].port \in ForeignPorts \/ \E l \in listeners : l.port = hello[s].port
        BY <2>5, <2>6, PlacementUnavailable
    <2>8. \A l \in listeners : l.port \in Port
        BY DEF TypeOK, Listener
    <2> QED
        BY <2>7, <2>8 DEF ListenersMatchSlots, Slots
<1> QED
    BY <1>1, TypeCorrect, ListenersHold, PTL DEF Spec, UnavailableForCause

=============================================================================
