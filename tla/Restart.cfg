SPECIFICATION Spec
CONSTANTS
    Servos = {1}
    Commands <- TwoWrites
    Calls = {"registerCommand", "stop", "destroy"}
    FaultKinds = {"read", "open"}
    OpenLoop = TRUE
    LateAnswers = TRUE
    Echo = FALSE
    StaleAnswers <- StaleStatus
    MaxPortErrors = 3
    MaxCommands = 2
    MaxStarts = 2
    MaxFaults = 1
    MaxChunk = 2
INVARIANTS
    Backlog
    ReadLoopAlive
    ReadLoopPerStart
    ThreadHasPort
    NoCrashAfterFirstOrder
