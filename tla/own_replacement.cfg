\* One process that gives up an attempt and makes another.
SPECIFICATION TunnelSpec
CONSTANTS
    None = None
    i1 = i1
    i2 = i2
    Session = {1, 2}
    Conn = {}
    DataConn = {}
    Instance = {i1}
    Port = {1}
    ListenPort = 9
    AutoPorts = {1}
    ForeignPorts = {}
    BrokenPorts = {}
    max_connections = 1
    MAX_SLOTS = 1
    MAX_GLOBAL_CONNECTIONS = 2
    MAX_HANDSHAKES = 4
    COMMAND_CAPACITY = 1
    WRITER_CAPACITY = 2
    SEQUENCE_MODULUS = 1
    ClientFrames = {"Ping", "Pong", "OpenFailed", "Goodbye", "Error"}
    Heartbeats = FALSE
    ClientHeartbeats = FALSE
    OperatorStops = FALSE
    Hellos <- Hello
    Wants <- FirstOnly
    MaxCuts = 0
    Interrupts = {i1}
    Kills = {}
    RandomFails = FALSE
INVARIANTS
    ReplacedByAnother
