\* Two users of a tunnel that admits one at a time; the control connection may
\* be cut and the process interrupted.
SPECIFICATION TunnelSpec
CONSTANTS
    None = None
    i1 = i1
    i2 = i2
    Session = {1}
    Conn = {c1, c2}
    DataConn = {11, 12}
    Instance = {i1}
    Port = {1}
    ListenPort = 9
    AutoPorts = {1}
    ForeignPorts = {}
    BrokenPorts = {}
    max_connections = 1
    MAX_SLOTS = 1
    MAX_GLOBAL_CONNECTIONS = 2
    MAX_HANDSHAKES = 2
    COMMAND_CAPACITY = 1
    WRITER_CAPACITY = 2
    SEQUENCE_MODULUS = 1
    ClientFrames = {"Ping", "Pong", "OpenFailed", "Goodbye", "Error"}
    Heartbeats = FALSE
    ClientHeartbeats = FALSE
    OperatorStops = FALSE
    Hellos <- Hello
    Wants <- FirstOnly
    MaxCuts = 1
    Interrupts = {i1}
    Kills = {}
    RandomFails = FALSE
SYMMETRY Users
INVARIANTS
    EndToEnd
    TargetsLimited
