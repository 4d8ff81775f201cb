\* The server stops while a handshake, a tunnel, a request, a data
\* connection and heartbeats are in any state.
\* The client pings and never answers a ping.
SPECIFICATION FairSpec
CONSTANTS
    None = None
    Session = {s1}
    Conn = {c1}
    DataConn = {d1}
    Instance = {i1}
    Port = {1}
    ListenPort = 9
    AutoPorts = {1}
    ForeignPorts = {}
    BrokenPorts = {}
    max_connections = 1
    MAX_SLOTS = 1
    MAX_GLOBAL_CONNECTIONS = 2
    MAX_HANDSHAKES = 2
    COMMAND_CAPACITY = 1
    WRITER_CAPACITY = 2
    SEQUENCE_MODULUS = 1
    ClientFrames = {"Ping", "Goodbye", "OpenFailed"}
    Heartbeats = TRUE
    OperatorStops = TRUE
    Hellos <- Takeovers
INVARIANTS
    OrphansCancelled
    PermitsConserved
PROPERTIES
    RequestResolved
    TrafficStops
    SessionSettles
    ReservationEnds
    DeadClientNoticed
    ServerStops
