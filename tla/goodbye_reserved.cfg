\* A user reaches the port of a client that has said goodbye, before the registry
\* has heard of it.
SPECIFICATION Spec
CONSTANTS
    None = None
    Session = {s1}
    Conn = {c1}
    DataConn = {}
    Instance = {i1}
    Port = {1}
    ListenPort = 9
    AutoPorts = {1}
    ForeignPorts = {}
    BrokenPorts = {}
    max_connections = 1
    MAX_SLOTS = 1
    MAX_GLOBAL_CONNECTIONS = 2
    MAX_HANDSHAKES = 2
    COMMAND_CAPACITY = 1
    WRITER_CAPACITY = 4
    SEQUENCE_MODULUS = 1
    ClientFrames = {"Goodbye"}
    Heartbeats = FALSE
    OperatorStops = FALSE
    Hellos <- Takeovers
PROPERTIES
    KeepsLeases
