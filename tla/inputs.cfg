\* Command lines of up to three arguments, or a subcommand with every setting
\* of its mode and two more; each with several environments and files.
\* Preambles, headers and payloads at and beyond the ends of their fields.
SPECIFICATION IntakeSpec
CONSTANTS
    CommandLines <- SomeCommandLines
    Environments <- SomeEnvironments
    FileSystems <- SomeFileSystems
    Inputs <- SomeInputs
INVARIANTS
    Precedence
    StartsExactly
    PeerAccepts
    PreambleExact
    HeaderExact
    RoundTrip
