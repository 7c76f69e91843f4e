SPECIFICATION FairDataSpec
CONSTANTS
    Ids = {0, 1}
    Kinds = {"cipstart", "cipclose", "cipssl", "cipsend", "httpconf", "httpexe", "filesup", "fwsend"}
    Lengths = {0, 1, 3}
    BufferSize = 2
    Escapes = {"cipsend", "httpexe", "filesup"}
    Faults = {"early", "chunk", "wide"}
    MaxCommands = 3
    MaxTyped = 4
INVARIANTS
    NothingLeftOver
    TransfersRight
PROPERTIES
    DataModeEnds
CHECK_DEADLOCK FALSE
