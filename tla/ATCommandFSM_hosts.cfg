SPECIFICATION FairSpec
CONSTANTS
    Symbols <- Alphabet
    Commands <- Cmds
    Text <- Texts
    Slow <- SlowCmds
    Data <- DataCmds
    Raising <- SlowCmds
    Payload <- TwoBytes
    Lines <- HostLines
    MaxLines = 3
INVARIANTS
    KeepsItsHead
    EditIsTyped
PROPERTIES
    ServesAndRests
CHECK_DEADLOCK FALSE
