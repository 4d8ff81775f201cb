----------------------------- MODULE ClientData -----------------------------
(***************************************************************************)
(* client/data.rs, and the OPEN branch of run_session that starts it: one   *)
(* task per request, which dials the target and the server, authenticates   *)
(* the data connection and forwards.                                        *)
(***************************************************************************)
EXTENDS ClientState

\* The frame is left to each action: none changes the server, the processes
\* or what the network has lost.
requestFrame == <<vars, processVars, pulseVars, asked, left, cut, readied>>

-----------------------------------------------------------------------------
(* OPEN *)

Undialed_data == {d \in DataConn : data[d] = "new" /\ \A c \in Conn : cdata[c] # d}
Active(s) ==
    {c \in Conn : req[c].session = s /\ ctask[c] \notin {"none", "done"}}

\* OPEN_FAILED, dropped when the queue is full.
Report(s, c) == Post(s, [ty |-> "OpenFailed", arg |-> c, num |-> 0])

\* Mutant: the client relies on the server's limit.
HearOpenUnlimited(i) ==
    LET s == csession[i]
        c == Head(down[s]).arg
    IN  /\ cphase[i] = "running"
        /\ i \notin cancelled
        /\ down[s] # <<>>
        /\ Head(down[s]).ty = "Open"
        /\ down' = [down EXCEPT ![s] = Tail(@)]
        /\ ctask' = [ctask EXCEPT ![c] = "dialing"]
        /\ UNCHANGED <<requestFrame, cdata, proven, up>>

\* A permit is taken per request; without one the request fails at once.
HearOpen(i) ==
    LET s == csession[i]
        c == Head(down[s]).arg
    IN  /\ cphase[i] = "running"
        /\ i \notin cancelled
        /\ down[s] # <<>>
        /\ Head(down[s]).ty = "Open"
        /\ down' = [down EXCEPT ![s] = Tail(@)]
        /\ \/ /\ Cardinality(Active(s)) < max_connections
              /\ ctask' = [ctask EXCEPT ![c] = "dialing"]
              /\ UNCHANGED up
           \/ /\ Cardinality(Active(s)) >= max_connections
              /\ ctask' = [ctask EXCEPT ![c] = "done"]
              /\ up' = Report(s, c)
        /\ UNCHANGED <<requestFrame, cdata, proven>>

-----------------------------------------------------------------------------
(* setup *)

\* The tasks of a cancelled session end without a word, so the other steps
\* are those of a session that is not.
Step(c, from, to) ==
    /\ ctask[c] = from
    /\ ~SessionCancelled(req[c].session)
    /\ ctask' = [ctask EXCEPT ![c] = to]

\* Target and server are dialed together; DATA_HELLO names the request.
DialBoth(c) ==
    /\ Step(c, "dialing", "hello")
    /\ Listens
    /\ Undialed_data # {}
    /\ cdata' = [cdata EXCEPT ![c] = First(Undialed_data)]
    /\ UNCHANGED <<requestFrame, proven, up, down>>

ReadDataChallenge(c) ==
    /\ Step(c, "hello", "proof")
    /\ data[cdata[c]] = "challenged"
    /\ proven' = proven \cup {cdata[c]}
    /\ UNCHANGED <<requestFrame, cdata, up, down>>

\* Mutant: the client forwards as soon as its proof is sent.
ForwardUnready(c) ==
    /\ Step(c, "proof", "forwarding")
    /\ UNCHANGED <<requestFrame, cdata, proven, up, down>>

ReadDataReady(c) ==
    /\ Step(c, "proof", "forwarding")
    /\ cdata[c] \in readied
    /\ UNCHANGED <<requestFrame, cdata, proven, up, down>>

\* A dial or the handshake fails, or the setup budget is spent: whatever the
\* reason, it is reported.
SetupFails(c) ==
    /\ \E from \in {"dialing", "hello", "proof"} : Step(c, from, "done")
    /\ up' = Report(req[c].session, c)
    /\ UNCHANGED <<requestFrame, cdata, proven, down>>

\* session_cancel ends a setup, and forward with it.
TaskCancelled(c) ==
    /\ ctask[c] \notin {"none", "done"}
    /\ SessionCancelled(req[c].session)
    /\ ctask' = [ctask EXCEPT ![c] = "done"]
    /\ UNCHANGED <<requestFrame, cdata, proven, up, down>>

\* forward: both directions are done, or one errs.
ClientForwardEnds(c) ==
    /\ Step(c, "forwarding", "done")
    /\ UNCHANGED <<requestFrame, cdata, proven, up, down>>

=============================================================================
