---------------------------- MODULE ClientState ----------------------------
(***************************************************************************)
(* The state of the expose processes and of the connections between them    *)
(* and the server of ServerState.  An Instance is one process.  A Session   *)
(* is one control connection, numbered in the order they are opened; so is  *)
(* a DataConn.                                                              *)
(*                                                                          *)
(* A control connection delivers frames in order.  up[s] holds what the     *)
(* client has queued or written and the server has not read, down[s] what   *)
(* the server has written and the client has not read.  A connection that   *)
(* is cut (reset, stalled, lost in the network) delivers nothing more, and  *)
(* neither end need ever learn of it.                                       *)
(***************************************************************************)
EXTENDS ServerState

CONSTANTS
    Wants,           \* process -> --remote-port, 0 without
    MaxCuts          \* how many control connections are cut

ASSUME TunnelAssumption ==
    /\ Session \subseteq Nat
    /\ DataConn \subseteq Nat
    /\ Wants \in [Instance -> Port \cup {0, ListenPort}]
    /\ MaxCuts \in Nat

VARIABLES
    \* client::run and ClientState
    cphase,          \* process -> where its supervisor is
    csession,        \* process -> its current control connection
    last_assigned,   \* process -> its port; 0 is None, and not ever_registered
    outcome,         \* process -> how it exited
    cancelled,       \* processes whose cancellation token has fired
    \* locals of run_session
    csequence,       \* process -> number of its last heartbeat
    coutstanding,    \* processes with an unanswered heartbeat
    \* data.rs
    ctask,           \* request -> where its handle_open task is
    cdata,           \* request -> the data connection its task opened
    \* the network
    asked,           \* session -> the CONTROL_HELLO sent on it
    up, down, cut,
    left,            \* sessions whose client end is closed
    proven,          \* data connections whose DATA_PROOF was sent
    readied          \* data connections whose DATA_READY was sent

processVars == <<cphase, csession, last_assigned, outcome, cancelled>>
pulseVars == <<csequence, coutstanding>>
taskVars == <<ctask, cdata, proven>>
linkVars == <<asked, up, down, left>>
clientVars == <<processVars, pulseVars, taskVars, linkVars, cut, readied>>

ClientPhase == {"idle", "hello", "proving", "running", "leaving", "exited"}
Outcome == ErrorCode \cup {"None", "Clean", "Killed"}
TaskState == {"none", "dialing", "hello", "proof", "forwarding", "done"}

\* Frames on the wire, the control handshake included.
WireFrame ==
    [ty: FrameType \cup {"ControlChallenge", "ControlProof", "OpenFailed", "Goodbye"},
     arg: Conn \cup ErrorCode \cup {None}, num: Nat]

ClientTypeOK ==
    /\ cphase \in [Instance -> ClientPhase]
    /\ csession \in [Instance -> Session \cup {None}]
    /\ last_assigned \in [Instance -> Port \cup {0}]
    /\ outcome \in [Instance -> Outcome]
    /\ cancelled \subseteq Instance
    /\ csequence \in [Instance -> Sequence]
    /\ coutstanding \subseteq Instance
    /\ ctask \in [Conn -> TaskState]
    /\ cdata \in [Conn -> DataConn \cup {None}]
    /\ asked \in [Session -> Hello \cup {NoHello}]
    /\ up \in [Session -> Seq(WireFrame)]
    /\ down \in [Session -> Seq(WireFrame)]
    /\ cut \subseteq Session
    /\ left \subseteq Session
    /\ proven \subseteq DataConn
    /\ readied \subseteq DataConn

ClientInit ==
    /\ cphase = [i \in Instance |-> "idle"]
    /\ csession = [i \in Instance |-> None]
    /\ last_assigned = [i \in Instance |-> 0]
    /\ outcome = [i \in Instance |-> "None"]
    /\ cancelled = {}
    /\ csequence = [i \in Instance |-> 0]
    /\ coutstanding = {}
    /\ ctask = [c \in Conn |-> "none"]
    /\ cdata = [c \in Conn |-> None]
    /\ asked = [s \in Session |-> NoHello]
    /\ up = [s \in Session |-> <<>>]
    /\ down = [s \in Session |-> <<>>]
    /\ cut = {}
    /\ left = {}
    /\ proven = {}
    /\ readied = {}

-----------------------------------------------------------------------------
(* Control connections *)

Undialed == {s \in Session : asked[s] = NoHello}
First(S) == CHOOSE x \in S : \A y \in S : x <= y

\* The server's listening socket completes connections until the process ends.
Listens == server # "stopped"

\* The server has shut its sending side: its writer task is over, or its
\* serve task never had one.
ServerClosed(s) ==
    \/ phase[s] = "ended"
    \/ phase[s] \notin {"new", "handshake"} /\ s \notin writerUp

\* What a reader at either end may see once the frames are read.
ClientSeesEnd(s) == s \in cut \/ (down[s] = <<>> /\ ServerClosed(s))
ServerSeesEnd(s) == s \in cut \/ (up[s] = <<>> /\ s \in left)

Put(pipe, s, f) == IF s \in cut THEN pipe ELSE [pipe EXCEPT ![s] = Append(@, f)]
Deliver(s, f) == IF s \in left THEN down ELSE Put(down, s, f)

\* try_send on the client's outbound queue.
ClientAccepts(s) == Len(up[s]) < WRITER_CAPACITY
Post(s, f) == IF ClientAccepts(s) THEN Put(up, s, f) ELSE up

\* The client closes its end; what it had not read is gone.
CloseClient(s) ==
    /\ left' = left \cup {s}
    /\ down' = [down EXCEPT ![s] = <<>>]

\* session_cancel of the attempt that used session s: its tasks end with it.
SessionCancelled(s) ==
    ~\E i \in Instance : csession[i] = s /\ cphase[i] \in {"running", "leaving"}

=============================================================================
