SPECIFICATION Spec
CONSTANTS
    Servos = {1}
    Commands <- NoCommands
    Calls = {"stop"}
    FaultKinds = {}
    OpenLoop = FALSE
    LateAnswers = FALSE
    Echo = TRUE
    StaleAnswers <- NoStale
    MaxPortErrors = 20
    MaxCommands = 0
    MaxStarts = 8
    MaxFaults = 0
    MaxChunk = 2
INVARIANTS
    OnlyFaultsTerminate
