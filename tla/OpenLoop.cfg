SPECIFICATION FairSpec
CONSTANTS
    Servos = {1}
    Commands <- MixedCommands
    Calls = {"registerCommand", "sendPing", "pull"}
    FaultKinds = {"read", "write", "noise"}
    OpenLoop = TRUE
    LateAnswers = TRUE
    Echo = TRUE
    StaleAnswers <- NoStale
    MaxPortErrors = 2
    MaxCommands = 2
    MaxStarts = 1
    MaxFaults = 1
    MaxChunk = 2
INVARIANTS
    TypeOK
    OrderWillEnd
    CommandWillRun
    SingleReadLoop
PROPERTIES
    ImplementsCommandStream
    EveryCommandEnds
