\* Three sessions ask for every kind of port: free, automatic, held by
\* another process, unusable, the server's own; two slots.
SPECIFICATION Spec
CONSTANTS
    None = None
    Session = {s1, s2, s3}
    Conn = {}
    DataConn = {}
    Instance = {i1, i2}
    Port = {1, 2, 3, 4, 5}
    ListenPort = 2
    AutoPorts = {1, 2, 4, 5}
    ForeignPorts = {1}
    BrokenPorts = {3}
    max_connections = 1
    MAX_SLOTS = 2
    MAX_GLOBAL_CONNECTIONS = 2
    MAX_HANDSHAKES = 2
    COMMAND_CAPACITY = 1
    WRITER_CAPACITY = 2
    SEQUENCE_MODULUS = 1
    ClientFrames = {"Goodbye", "Error", "Other", "Pong"}
    Heartbeats = FALSE
    OperatorStops = FALSE
    Hellos <- EveryKind
SYMMETRY Identities
INVARIANTS
    OwnershipConsistent
    NoGhostSession
    DisplacedCutOff
    ListenersMatchSlots
PROPERTIES
    OnlyFreshTakesOver
    TunnelKept
    AutomaticIdempotent
    UnavailableForCause
