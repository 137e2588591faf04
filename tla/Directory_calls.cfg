\* Up to two requests at a time, three in all.
SPECIFICATION GSpec
CONSTANTS
    Requests = {r1, r2}
    Operations <- Asked
    Stored <- AtStart
    MaxCalls = 3
    Text <- Strings
    None = None
    NoOp = NoOp
SYMMETRY Alike
INVARIANTS TypeOK Provisioned DoublesOnlyByRace
PROPERTIES RemovalRemoves EventsTrue
CHECK_DEADLOCK FALSE
