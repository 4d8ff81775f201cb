\* A user's connection while one session takes the port over from another, or
\* leaves and the other binds the port again; two commands fit.
SPECIFICATION Spec
CONSTANTS
    None = None
    Session = {s1, s2}
    Conn = {c1}
    DataConn = {d1}
    Instance = {i1}
    Port = {1}
    ListenPort = 9
    AutoPorts = {1}
    ForeignPorts = {}
    BrokenPorts = {}
    max_connections = 1
    MAX_SLOTS = 1
    MAX_GLOBAL_CONNECTIONS = 2
    MAX_HANDSHAKES = 4
    COMMAND_CAPACITY = 2
    WRITER_CAPACITY = 2
    SEQUENCE_MODULUS = 1
    ClientFrames = {"Goodbye"}
    Heartbeats = FALSE
    OperatorStops = FALSE
    Hellos <- Takeovers
SYMMETRY Identities
INVARIANTS
    RequestsOwned
    OrphansCancelled
    ServedByItsSlot
PROPERTIES
    LeasesKeptUnlessOvertaken
