--------------------------- MODULE PublicListener ---------------------------
(***************************************************************************)
(* server/listener.rs and forward.rs: the accept loop of each public port,  *)
(* and the task that waits for a data connection and forwards bytes.        *)
(***************************************************************************)
EXTENDS ServerState

publicFrame == <<ownerVars, pending, controlVars, writerVars, cancelVars, server>>

\* The select is not biased: a cancelled loop may still accept.  A full
\* channel closes the connection, a closed channel also ends the loop.
AcceptPublic(c, l) ==
    /\ conn[c] = "new"
    /\ l \in listeners
    /\ \/ /\ Send(ItemCommand("AcceptedPublic", None, c))
          /\ conn' = [conn EXCEPT ![c] = "queued"]
          /\ via' = [via EXCEPT ![c] = [id |-> l.id, port |-> l.port]]
          /\ UNCHANGED listeners
       \/ /\ registryUp
          /\ ~HasRoom
          /\ conn' = [conn EXCEPT ![c] = "closed"]
          /\ UNCHANGED <<commands, via, listeners>>
       \/ /\ Closed
          /\ conn' = [conn EXCEPT ![c] = "closed"]
          /\ listeners' = listeners \ {l}
          /\ UNCHANGED via
    /\ UNCHANGED <<publicFrame, limitVars, req, late, box, dataVars, dispatching>>

ListenerStops(l) ==
    /\ l \in listeners
    /\ l.cancelled
    /\ listeners' = listeners \ {l}
    /\ UNCHANGED <<publicFrame, limitVars, commands, publicVars, dataVars, dispatching>>

\* request_wait after the accept.
DeadlinePasses(c) ==
    /\ conn[c] \in {"queued", "waiting", "readying"}
    /\ c \notin late
    /\ late' = late \cup {c}
    /\ UNCHANGED <<publicFrame, limitVars, commands, listeners, conn, via, req,
                   box, dataVars, dispatching>>

-----------------------------------------------------------------------------
(* serve_public *)

connFrame == <<publicFrame, limitVars, commands, listeners, via, req, late, box,
               dhello, dispatching>>

Interrupted(c) == req[c].session \in data_cancel \/ c \in late

\* The public socket is closed, and so is a data socket already handed over.
CloseBoth(c) ==
    /\ conn' = [conn EXCEPT ![c] = "finishing"]
    /\ data' = [d \in DataConn |-> IF d = box[c] THEN "closed" ELSE data[d]]

\* Cancelled, past the deadline, or the sender was dropped with its entry.
WaitEnds(c) ==
    /\ conn[c] = "waiting"
    /\ Interrupted(c) \/ (box[c] = None /\ c \notin pending)
    /\ CloseBoth(c)
    /\ UNCHANGED connFrame

TakeData(c) ==
    /\ conn[c] = "waiting"
    /\ ~Interrupted(c)
    /\ box[c] # None
    /\ conn' = [conn EXCEPT ![c] = "readying"]
    /\ UNCHANGED <<connFrame, data>>

WriteReady(c) ==
    /\ conn[c] = "readying"
    /\ ~Interrupted(c)
    /\ conn' = [conn EXCEPT ![c] = "forwarding"]
    /\ UNCHANGED <<connFrame, data>>

\* Cancelled, past the deadline, or the write of DATA_READY failed.
ReadyFails(c) ==
    /\ conn[c] = "readying"
    /\ CloseBoth(c)
    /\ UNCHANGED connFrame

\* forward: both directions finished, an error, ...
ForwardEnds(c) ==
    /\ conn[c] = "forwarding"
    /\ CloseBoth(c)
    /\ UNCHANGED connFrame

\* Mutant: the copy loop does not watch the token.
ForwardUncancelled(c) == FALSE

\* ... or the session's data token was cancelled.
ForwardCancelled(c) ==
    /\ conn[c] = "forwarding"
    /\ req[c].session \in data_cancel
    /\ CloseBoth(c)
    /\ UNCHANGED connFrame

\* Mutant: the global permit leaks.
ReleaseSessionPermit(c) ==
    /\ permits' = [permits EXCEPT ![req[c].session] = @ + 1]
    /\ UNCHANGED global_connections

\* The last send, then the task's permits are dropped.
ReleasePermits(c) ==
    /\ permits' = [permits EXCEPT ![req[c].session] = @ + 1]
    /\ global_connections' = global_connections + 1

\* Mutant: the task ends without its last send.
EndSilently(c) ==
    /\ conn[c] = "finishing"
    /\ conn' = [conn EXCEPT ![c] = "closed"]
    /\ ReleasePermits(c)
    /\ UNCHANGED <<publicFrame, commands, listeners, via, req, late, box, dataVars,
                   dispatching>>

ServePublicEnds(c) ==
    /\ conn[c] = "finishing"
    /\ Send(ItemCommand("RequestFinished", req[c].session, c)) \/ Closed
    /\ conn' = [conn EXCEPT ![c] = "closed"]
    /\ ReleasePermits(c)
    /\ UNCHANGED <<publicFrame, listeners, via, req, late, box, dataVars, dispatching>>

=============================================================================
