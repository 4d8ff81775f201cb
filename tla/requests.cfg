\* Three users of a tunnel that admits two at a time, and two data connections
\* that may name the same request. The channel, the queue and the tunnel's limit
\* fill; the server-wide limit is one more than the tunnel takes.
SPECIFICATION Spec
CONSTANTS
    None = None
    Session = {s1}
    Conn = {c1, c2, c3}
    DataConn = {d1, d2}
    Instance = {i1}
    Port = {1}
    ListenPort = 9
    AutoPorts = {1}
    ForeignPorts = {}
    BrokenPorts = {}
    max_connections = 2
    MAX_SLOTS = 1
    MAX_GLOBAL_CONNECTIONS = 3
    MAX_HANDSHAKES = 2
    COMMAND_CAPACITY = 1
    WRITER_CAPACITY = 2
    SEQUENCE_MODULUS = 1
    ClientFrames = {"Error"}
    Heartbeats = FALSE
    OperatorStops = FALSE
    Hellos <- Takeovers
SYMMETRY Identities
INVARIANTS
    TypeOK
    Paired
    NoLeakedRequest
    PermitsConserved
