------------------------------- MODULE Intake -------------------------------
(***************************************************************************)
(* What a process takes in from outside: its configuration when it starts,  *)
(* and the bytes of its peer afterwards.  A behaviour is either a start     *)
(* (Startup) or one read (Wire).                                            *)
(***************************************************************************)
EXTENDS Startup, Wire

intakeVars == <<startupVars, wireVars>>

Nothing == [what |-> "nothing", kind |-> "Control", ty |-> "none", bytes |-> <<>>,
            sent |-> {}]

NotStarting ==
    /\ args = <<>> /\ environment = <<>> /\ files = <<>>
    /\ stage = "done" /\ index = 1 /\ mode = "none"
    /\ config = Absent /\ config_explicit = FALSE
    /\ cli = NoSettings /\ line = 0 /\ file = NoSettings /\ merged = NoSettings
    /\ outcome = "none"

IntakeInit ==
    \/ StartupInit /\ input = Nothing /\ result = Unread
    \/ WireInit /\ NotStarting

\* The start is over, or the input has been read.
Over == stage = "done" /\ (result.read \/ input = Nothing) /\ UNCHANGED intakeVars

IntakeNext ==
    \/ StartupNext /\ UNCHANGED wireVars
    \/ WireNext /\ UNCHANGED startupVars
    \/ Over

IntakeSpec == IntakeInit /\ [][IntakeNext]_intakeVars

-----------------------------------------------------------------------------
(* What a process sends because of its configuration *)

Bytes(n) == [k \in 1 .. n |-> k]

FirstHello ==
    [ty |-> "ControlHello", instance_id |-> Bytes(16), client_nonce |-> Bytes(32),
     mode |-> "Fresh", requested_port |-> get(merged, "REMOTE_PORT", Number(0)).a]

RegisteredAt(port) ==
    [ty |-> "Registered", assigned_port |-> port, ready_mac |-> Bytes(32),
     max_connections |-> get(merged, "MAX_CONNECTIONS", Number(256)).a]

\* What config.rs lets pass, the peer's protocol.rs accepts: a client that
\* starts is never refused for the port its first CONTROL_HELLO names, and no
\* REGISTERED of a server that starts is a protocol error to its clients,
\* whichever end of ALLOWED_PORTS it assigns.
Accepted(m) == LET r == decode(m.ty, encode(m)) IN r.ok /\ r.value = m
PeerAccepts ==
    /\ outcome = "expose" => Accepted(FirstHello)
    /\ outcome = "server" =>
          LET range == get(merged, "ALLOWED_PORTS", PortRange(10000, 65535))
          IN  Accepted(RegisteredAt(range.a)) /\ Accepted(RegisteredAt(range.b))

=============================================================================
