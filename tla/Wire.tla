-------------------------------- MODULE Wire --------------------------------
(***************************************************************************)
(* protocol.rs and the codes of error.rs: what a connection's preamble,     *)
(* frame headers and payloads look like, and what a reader makes of bytes   *)
(* that may be anything.  A byte is a number, a payload a sequence of       *)
(* bytes.  One input is read per behaviour.                                 *)
(***************************************************************************)
EXTENDS Integers, Sequences

CONSTANT Inputs        \* what may arrive: preambles, frame headers, payloads

MAGIC == <<84, 84, 85, 78>>
VERSION == 1
MAX_PAYLOAD == 1024

\* A decoder's two outcomes.
Ok(v) == [ok |-> TRUE, read |-> TRUE, value |-> v]
Err(code) == [ok |-> FALSE, read |-> TRUE, value |-> code]

-----------------------------------------------------------------------------
(* Integers, big endian *)

Byte == 0 .. 255

\* n without its last k bytes, for each k up to a width.
Shifted(n, width) ==
    LET rest[k \in 0 .. width] == IF k = 0 THEN n ELSE rest[k - 1] \div 256
    IN  rest

to_be_bytes(n, width) == [k \in 1 .. width |-> Shifted(n, width)[width - k] % 256]

\* The number in the first k bytes, for each k.
Prefix(bytes) ==
    LET value[k \in 0 .. Len(bytes)] == IF k = 0 THEN 0 ELSE value[k - 1] * 256 + bytes[k]
    IN  value

from_be_bytes(bytes) == Prefix(bytes)[Len(bytes)]

\* Mutant: the field starts one byte late.
take_late(bytes, at, n) == SubSeq(bytes, at + 2, at + n)

\* n bytes from an offset that counts from zero.
take(bytes, at, n) == SubSeq(bytes, at + 1, at + n)

-----------------------------------------------------------------------------
(* Types *)

Row(name, code, payload_len, kinds) ==
    [name |-> name, code |-> code, payload_len |-> payload_len, kinds |-> kinds]

\* Type, from_u8, payload_len, is_control and is_data.
Type == {
    Row("ControlHello", 1, 51, {"Control"}), Row("ControlChallenge", 2, 80, {"Control"}),
    Row("ControlProof", 3, 32, {"Control"}), Row("Registered", 4, 38, {"Control"}),
    Row("Open", 5, 16, {"Control"}), Row("OpenFailed", 6, 17, {"Control"}),
    Row("Ping", 7, 8, {"Control"}), Row("Pong", 8, 8, {"Control"}),
    Row("Goodbye", 9, 0, {"Control"}), Row("GoodbyeAck", 10, 0, {"Control"}),
    Row("ServerShutdown", 11, 0, {"Control"}),
    Row("DataHello", 32, 64, {"Data"}), Row("DataChallenge", 33, 64, {"Data"}),
    Row("DataProof", 34, 32, {"Data"}), Row("DataReady", 35, 0, {"Data"}),
    Row("Error", 127, 2, {"Control", "Data"})}

\* ErrorCode, in the order of its numbers.
ErrorCodes ==
    <<"AuthFailed", "ProtocolError", "UnsupportedVersion", "InvalidPort",
      "PortUnavailable", "NoPortAvailable", "Replaced", "ServerBusy",
      "RequestUnavailable", "InternalError">>
Modes == <<"Fresh", "Resume">>                \* numbered from 0
Kinds == <<"Control", "Data">>
OpenFailures == <<"TargetConnect", "SetupTimeout", "DataAuth", "LocalCapacity">>

\* as u8, as_u16 and the from_ functions of an enumeration numbered from first.
Ordinal(names, name, first) == (CHOOSE k \in DOMAIN names : names[k] = name) + first - 1
Named(names, n, first) ==
    IF n - first + 1 \in DOMAIN names THEN Ok(names[n - first + 1]) ELSE Err("ProtocolError")

-----------------------------------------------------------------------------
(* The preamble and the frame header *)

encode_preamble(kind) == MAGIC \o <<VERSION, Ordinal(Kinds, kind, 1), 0, 0>>

\* Mutant: the last reserved byte is not looked at.
decode_preamble_loosely(b) ==
    IF SubSeq(b, 1, 4) # MAGIC THEN Err("ProtocolError")
    ELSE IF b[5] # VERSION THEN Err("UnsupportedVersion")
    ELSE IF b[7] # 0 THEN Err("ProtocolError")
    ELSE Named(Kinds, b[6], 1)

decode_preamble(b) ==
    IF SubSeq(b, 1, 4) # MAGIC THEN Err("ProtocolError")
    ELSE IF b[5] # VERSION THEN Err("UnsupportedVersion")
    ELSE IF b[7] # 0 \/ b[8] # 0 THEN Err("ProtocolError")
    ELSE Named(Kinds, b[6], 1)

\* Mutant: only the limit is checked before the payload is read.
read_header_limit(b) ==
    IF from_be_bytes(take(b, 1, 2)) > MAX_PAYLOAD
       \/ \A t \in Type : t.code # b[1]
    THEN Err("ProtocolError")
    ELSE Ok(CHOOSE t \in Type : t.code = b[1])

\* read_frame's checks before it allocates the payload.
read_header(b) ==
    LET declared == from_be_bytes(take(b, 1, 2))
        types == {t \in Type : t.code = b[1] /\ t.payload_len = declared}
    IN  IF declared > MAX_PAYLOAD \/ types = {}
        THEN Err("ProtocolError")
        ELSE Ok(CHOOSE t \in types : TRUE)

encode_header(t) == <<t.code>> \o to_be_bytes(t.payload_len, 2)

require_kind(t, kind) == kind \in t.kinds

-----------------------------------------------------------------------------
(* Payloads: encode and decode of each message *)

encode(m) ==
    CASE m.ty = "ControlHello" ->
            m.instance_id \o m.client_nonce \o <<Ordinal(Modes, m.mode, 0)>>
                \o to_be_bytes(m.requested_port, 2)
      [] m.ty = "ControlChallenge" -> m.server_nonce \o m.session_id \o m.server_mac
      [] m.ty = "Registered" ->
            to_be_bytes(m.assigned_port, 2) \o to_be_bytes(m.max_connections, 4)
                \o m.ready_mac
      [] m.ty = "OpenFailed" -> m.request_id \o <<Ordinal(OpenFailures, m.reason, 1)>>
      [] m.ty = "DataHello" -> m.session_id \o m.request_id \o m.client_nonce
      [] m.ty = "DataChallenge" -> m.server_nonce \o m.server_mac
      [] m.ty = "Open" -> m.request_id
      [] m.ty = "Ping" -> to_be_bytes(m.sequence, 8)
      [] m.ty = "Error" -> to_be_bytes(Ordinal(ErrorCodes, m.code, 1), 2)

\* The structs: arrays of bytes, and integers of so many bytes.
Array(n) == [1 .. n -> Byte]
Unsigned(width) == {n \in Nat : Shifted(n, width)[width] = 0}
Message ==
    [ty: {"ControlHello"}, instance_id: Array(16), client_nonce: Array(32),
     mode: {"Fresh", "Resume"}, requested_port: Unsigned(2)]
    \cup [ty: {"ControlChallenge"}, server_nonce: Array(32), session_id: Array(16),
          server_mac: Array(32)]
    \cup [ty: {"Registered"}, assigned_port: Unsigned(2), max_connections: Unsigned(4),
          ready_mac: Array(32)]
    \cup [ty: {"OpenFailed"}, request_id: Array(16),
          reason: {"TargetConnect", "SetupTimeout", "DataAuth", "LocalCapacity"}]
    \cup [ty: {"DataHello"}, session_id: Array(16), request_id: Array(16),
          client_nonce: Array(32)]
    \cup [ty: {"DataChallenge"}, server_nonce: Array(32), server_mac: Array(32)]
    \cup [ty: {"Open"}, request_id: Array(16)]
    \cup [ty: {"Ping"}, sequence: Unsigned(8)]
    \cup [ty: {"Error"}, code: {ErrorCodes[k] : k \in 1 .. 10}]
MessageTypes == {"ControlHello", "ControlChallenge", "Registered", "OpenFailed", "DataHello",
                 "DataChallenge", "Open", "Ping", "Error"}

decode_control_hello(p) ==
    LET mode == Named(Modes, p[49], 0)
        port == from_be_bytes(take(p, 49, 2))
    IN  IF ~mode.ok THEN mode
        ELSE IF (mode.value = "Resume" /\ port = 0) \/ port \in 1 .. 1023
        THEN Err("InvalidPort")
        ELSE Ok([ty |-> "ControlHello", instance_id |-> take(p, 0, 16),
                 client_nonce |-> take(p, 16, 32), mode |-> mode.value,
                 requested_port |-> port])

decode_registered(p) ==
    LET port == from_be_bytes(take(p, 0, 2))
        maximum == from_be_bytes(take(p, 2, 4))
    IN  IF port < 1024 THEN Err("InvalidPort")
        ELSE IF maximum = 0 THEN Err("ProtocolError")
        ELSE Ok([ty |-> "Registered", assigned_port |-> port,
                 max_connections |-> maximum, ready_mac |-> take(p, 6, 32)])

decode_open_failed(p) ==
    LET reason == Named(OpenFailures, p[17], 1)
    IN  IF reason.ok
        THEN Ok([ty |-> "OpenFailed", request_id |-> take(p, 0, 16), reason |-> reason.value])
        ELSE reason

\* An ERROR's payload: an unknown code is a protocol error.
decode_error(p) ==
    LET code == Named(ErrorCodes, from_be_bytes(p), 1)
    IN  IF code.ok THEN Ok([ty |-> "Error", code |-> code.value]) ELSE code

payload_len(name) == (CHOOSE t \in Type : t.name = name).payload_len

\* Every decoder looks at the length before anything else.
decode(ty, p) ==
    IF Len(p) # payload_len(ty) THEN Err("ProtocolError")
    ELSE CASE ty = "ControlHello" -> decode_control_hello(p)
           [] ty = "ControlChallenge" ->
                 Ok([ty |-> ty, server_nonce |-> take(p, 0, 32),
                     session_id |-> take(p, 32, 16), server_mac |-> take(p, 48, 32)])
           [] ty = "Registered" -> decode_registered(p)
           [] ty = "OpenFailed" -> decode_open_failed(p)
           [] ty = "DataHello" ->
                 Ok([ty |-> ty, session_id |-> take(p, 0, 16),
                     request_id |-> take(p, 16, 16), client_nonce |-> take(p, 32, 32)])
           [] ty = "DataChallenge" ->
                 Ok([ty |-> ty, server_nonce |-> take(p, 0, 32),
                     server_mac |-> take(p, 32, 32)])
           [] ty = "Open" -> Ok([ty |-> ty, request_id |-> take(p, 0, 16)])
           [] ty = "Ping" -> Ok([ty |-> ty, sequence |-> from_be_bytes(p)])
           [] ty = "Error" -> decode_error(p)

-----------------------------------------------------------------------------
(* Reading one input *)

VARIABLES input, result
wireVars == <<input, result>>

Unread == [ok |-> FALSE, read |-> FALSE, value |-> "none"]

\* The readers fill a buffer of the preamble's and of the header's length; a
\* payload may have any, and may be what was encoded of a message.
ASSUME InputAssumption ==
    \A i \in Inputs :
        /\ i.bytes \in Seq(Byte)
        /\ i.kind \in {"Control", "Data"}
        /\ \/ i.what = "preamble" /\ Len(i.bytes) = 8
           \/ i.what = "header" /\ Len(i.bytes) = 3
           \/ /\ i.what = "payload" /\ i.ty \in MessageTypes
              /\ \A m \in i.sent : m \in Message /\ m.ty = i.ty /\ i.bytes = encode(m)

WireInit == input \in Inputs /\ result = Unread

Reading(what) == input.what = what /\ ~result.read

ReadPreamble ==
    /\ Reading("preamble")
    /\ result' = decode_preamble(input.bytes)
    /\ UNCHANGED input

\* A frame that does not belong on this kind of connection is refused too.
ReadHeader ==
    /\ Reading("header")
    /\ LET header == read_header(input.bytes)
       IN  result' = IF header.ok /\ ~require_kind(header.value, input.kind)
                     THEN Err("ProtocolError") ELSE header
    /\ UNCHANGED input

ReadPayload ==
    /\ Reading("payload")
    /\ result' = decode(input.ty, input.bytes)
    /\ UNCHANGED input

WireNext == ReadPreamble \/ ReadHeader \/ ReadPayload

-----------------------------------------------------------------------------
(* Properties *)

Read(what) == input.what = what /\ result.read

\* Of the eight bytes a connection may start with, exactly the two preambles of
\* this version are accepted, each for its kind (decode_preamble).
PreambleExact ==
    Read("preamble") =>
        \A kind \in {"Control", "Data"} :
            (result = Ok(kind)) <=> (input.bytes = encode_preamble(kind))

\* Of the headers that may arrive, exactly those the encoder writes for a type
\* of this connection's kind are accepted (read_frame, require_kind): no
\* declared length that disagrees with the type is ever allocated.
HeaderExact ==
    Read("header") =>
        (result.ok <=> \E t \in Type : /\ input.kind \in t.kinds
                                       /\ input.bytes = encode_header(t))

\* Encoder and decoder are inverse: what is decoded encodes to the same bytes,
\* and with the length of its type, so every field is read where it was
\* written; and what either side may send is never refused.
Sendable(m) ==
    CASE m.ty = "ControlHello" ->
            m.requested_port >= 1024 \/ (m.requested_port = 0 /\ m.mode = "Fresh")
      [] m.ty = "Registered" -> m.assigned_port >= 1024 /\ m.max_connections > 0
      [] OTHER -> TRUE
RoundTrip ==
    Read("payload") =>
        /\ result.ok => /\ encode(result.value) = input.bytes
                        /\ Sendable(result.value)
                        /\ \E t \in Type : /\ t.name = input.ty
                                           /\ t.payload_len = Len(input.bytes)
        /\ \A m \in input.sent : Sendable(m) => result.ok /\ result.value = m

=============================================================================
