\* Two processes, one of which takes any port and the other the port the first
\* one gets, and two connections between them; each process may make both.
\* The first may be interrupted, the second killed; a connection may be cut.
SPECIFICATION TunnelSpec
CONSTANTS
    None = None
    i1 = i1
    i2 = i2
    Session = {1, 2}
    Conn = {}
    DataConn = {}
    Instance = {i1, i2}
    Port = {1, 2}
    ListenPort = 9
    AutoPorts = {1, 2}
    ForeignPorts = {}
    BrokenPorts = {}
    max_connections = 1
    MAX_SLOTS = 2
    MAX_GLOBAL_CONNECTIONS = 2
    MAX_HANDSHAKES = 4
    COMMAND_CAPACITY = 1
    WRITER_CAPACITY = 2
    SEQUENCE_MODULUS = 1
    ClientFrames = {"Ping", "Pong", "OpenFailed", "Goodbye", "Error"}
    Heartbeats = FALSE
    ClientHeartbeats = FALSE
    OperatorStops = FALSE
    Hellos <- Hello
    Wants <- AnyAndFirst
    MaxCuts = 1
    Interrupts = {i1}
    Kills = {i2}
    RandomFails = FALSE
INVARIANTS
    ClientView
PROPERTIES
    PortStable
    ErrorForCause
