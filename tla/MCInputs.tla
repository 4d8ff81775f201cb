------------------------------ MODULE MCInputs ------------------------------
(***************************************************************************)
(* Small sets of inputs for TLC.                                            *)
(***************************************************************************)
EXTENDS Intake

UpTo(S, n) == UNION {[1 .. k -> S] : k \in 0 .. n}

-----------------------------------------------------------------------------
(* Command lines, environments, files *)

\* Enough settings for either mode, so that what follows decides.
Ready == <<Inline("--key", Word("secret")), Inline("--server", HostPort("name", 4000)),
           Flag("--target"), Plain(ColonPort(80))>>

AnyArgs ==
    {Flag("server"), Flag("expose"), Flag("--help"), Inline("--version", Empty),
     Flag("-V"), Flag("--config"), Inline("--config", Empty), Plain(Word("other.cfg")),
     Flag("--quiet"), Flag("--key"), Inline("--unknown", Empty), Inline("server", Empty)}

Settings ==
    {Inline("--quiet", Word("loud")), Inline("--quiet", Quoted(Word("true"))),
     Inline("--max-connections", Number(0)), Inline("--max-connections", Number(65535)),
     Inline("--max-connections", Number(65536)),
     Inline("--remote-port", Number(0)), Inline("--remote-port", Number(1024)),
     Inline("--remote-port", Number(65536)),
     Inline("--listen", ColonPort(1023)), Inline("--listen", HostPort("name", 4000)),
     Inline("--listen", HostPort("address", 1024)),
     Inline("--allowed-ports", Spaced(PortRange(1024, 1024))),
     Inline("--allowed-ports", PortRange(2000, 1999)),
     Inline("--allowed-ports", PortRange(1023, 2000)),
     Inline("--data-bind", HostPort("address", 4000)),
     Inline("--server", ColonPort(4000)), Inline("--server", HostPort("name", 65536)),
     Inline("--target", HostPort("", 80)), Inline("--target", ColonPort(0)),
     Inline("--log-level", Word("warn")), Inline("--log-level", Word("debug")),
     Inline("--key", Empty), Flag("--config"), Plain(Word("other.cfg"))}

SomeCommandLines ==
    UpTo(AnyArgs, 3)
    \cup {<<Flag(m)>> \o Ready \o more : m \in Subcommands, more \in UpTo(Settings, 2)}

SomeEnvironments ==
    {<<>>,
     [name \in {"KEY", "TUNNEL"} |-> Quoted(Word("secret"))],
     [name \in {"MAX_CONNECTIONS", "REMOTE_PORT"} |-> Number(2000)],
     [name \in {"QUIET"} |-> Quoted(Word("true"))]}

SomeFiles ==
    {Missing, Contents("unreadable", <<>>),
     Contents("text", <<Line("blank", "", Absent), Line("setting", "KEY", Quoted(Word("k"))),
                        Line("setting", "KEY", Quoted(Empty))>>),
     Contents("text", <<Line("setting", "MAX_CONNECTIONS", Number(0)),
                        Line("setting", "QUIET", Quoted(Word("true")))>>),
     Contents("text", <<Line("setting", "UNKNOWN", Empty)>>),
     Contents("text", <<Line("setting", "TARGET", Unclosed(ColonPort(80)))>>),
     Contents("text", <<Line("bare", "", Absent)>>)}
SomeFileSystems ==
    {[path \in {Word("tunlet.cfg")} |-> f] : f \in SomeFiles}
    \cup {[path \in {Word("other.cfg")} |-> f] : f \in SomeFiles}

-----------------------------------------------------------------------------
(* Bytes *)

Input(what, kind, ty, bytes, sent) ==
    [what |-> what, kind |-> kind, ty |-> ty, bytes |-> bytes, sent |-> sent]

Preambles ==
    {MAGIC \o <<v, k, a, b>> : v \in 0 .. 2, k \in 0 .. 3, a \in {0, 1}, b \in {0, 128}}
    \cup {<<84, 84, 85, 79, 1, 1, 0, 0>>, <<85, 84, 85, 78, 1, 1, 0, 0>>}

Headers ==
    {<<code>> \o to_be_bytes(n, 2) :
        code \in 0 .. 36 \cup {127, 128, 255},
        n \in {0, 2, 8, 16, 17, 32, 38, 51, 64, 80, 81, 256, 1024, 1025, 65535}}

Fill(n, b) == [k \in 1 .. n |-> (b + k) % 256]

\* Every message either side sends, with the ends of each field.
Messages ==
    {[ty |-> "ControlHello", instance_id |-> Fill(16, 250), client_nonce |-> Fill(32, 7),
      mode |-> m, requested_port |-> p] :
         m \in {"Fresh", "Resume"}, p \in {0, 1, 1023, 1024, 4096, 65535}}
    \cup {[ty |-> "Registered", assigned_port |-> p, max_connections |-> n,
           ready_mac |-> Fill(32, 9)] :
              p \in {0, 1023, 1024, 65535}, n \in {0, 1, 256, 65535, 16777216}}
    \cup {[ty |-> "OpenFailed", request_id |-> Fill(16, 3), reason |-> r] :
              r \in {OpenFailures[k] : k \in 1 .. 4}}
    \cup {[ty |-> "Error", code |-> ErrorCodes[k]] : k \in 1 .. 10}
    \cup {[ty |-> "Ping", sequence |-> n] : n \in {0, 1, 255, 256, 65536, 2147483646}}
    \cup {[ty |-> "ControlChallenge", server_nonce |-> Fill(32, 1), session_id |-> Fill(16, 99),
           server_mac |-> Fill(32, 200)],
          [ty |-> "DataHello", session_id |-> Fill(16, 1), request_id |-> Fill(16, 50),
           client_nonce |-> Fill(32, 100)],
          [ty |-> "DataChallenge", server_nonce |-> Fill(32, 60), server_mac |-> Fill(32, 160)],
          [ty |-> "Open", request_id |-> Fill(16, 77)]}

\* Payloads no peer of this version writes: numbers outside the enumerations,
\* and lengths the header would not have let through.
Strange ==
    {Input("payload", "Control", "OpenFailed", Fill(16, 3) \o <<r>>, {}) : r \in {0, 5, 255}}
    \cup {Input("payload", "Control", "Error", to_be_bytes(n, 2), {}) : n \in {0, 11, 256, 65535}}
    \cup {Input("payload", "Control", "ControlHello", Fill(48, 3) \o <<m, 8, 0>>, {}) :
              m \in {2, 255}}
    \cup {Input("payload", "Control", t, Fill(n, 1), {}) :
              t \in {"Open", "Ping", "Registered"}, n \in {0, 7, 17, 37}}

SomeInputs ==
    {Input("preamble", "Control", "none", b, {}) : b \in Preambles}
    \cup {Input("header", k, "none", b, {}) : b \in Headers, k \in {"Control", "Data"}}
    \cup {Input("payload", "Control", m.ty, encode(m), {m}) : m \in Messages}
    \cup Strange

=============================================================================
