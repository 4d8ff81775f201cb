----------------------------- MODULE DataServer -----------------------------
(***************************************************************************)
(* server/data.rs: the handshake of a data connection.  Its socket ends up  *)
(* with the task of the public connection whose request it names.           *)
(***************************************************************************)
EXTENDS ServerState

dataFrame == <<ownerVars, limitVars, pending, listeners, publicVars, controlVars,
               writerVars, cancelVars, dhello, server>>

\* DATA_HELLO arrives and the registry is asked whether the request exists.
SendPeek(d) ==
    /\ data[d] = "handshake"
    /\ \/ /\ Send(ItemCommand("PeekData", None, d))
          /\ data' = [data EXCEPT ![d] = "peeking"]
          /\ UNCHANGED dispatching
       \/ /\ Closed
          /\ data' = [data EXCEPT ![d] = "closed"]
          /\ dispatching' = dispatching \ {d}
    /\ UNCHANGED dataFrame

\* DATA_PROOF verifies: the socket travels with the claim.
SendClaim(d) ==
    /\ data[d] = "challenged"
    /\ \/ /\ Send(ItemCommand("ClaimData", None, d))
          /\ data' = [data EXCEPT ![d] = "claiming"]
          /\ UNCHANGED dispatching
       \/ /\ Closed
          /\ data' = [data EXCEPT ![d] = "closed"]
          /\ dispatching' = dispatching \ {d}
    /\ UNCHANGED dataFrame

\* A wrong frame, a bad proof, a closed socket, or the handshake timeout
\* while the task holds the socket.
DataFails(d) ==
    /\ data[d] \in {"handshake", "peeking", "challenged"}
    /\ data' = [data EXCEPT ![d] = "closed"]
    /\ dispatching' = dispatching \ {d}
    /\ UNCHANGED <<dataFrame, commands>>

\* The handshake timeout while the claim is queued: the task is gone, the
\* socket is still in the command.
ClaimTimesOut(d) ==
    /\ data[d] = "claiming"
    /\ d \in dispatching
    /\ dispatching' = dispatching \ {d}
    /\ UNCHANGED <<dataFrame, commands, data>>

=============================================================================
