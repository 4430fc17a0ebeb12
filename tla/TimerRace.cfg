SPECIFICATION Spec
CONSTANTS
    Servos = {1}
    Commands <- TwoWrites
    Calls = {"registerCommand"}
    FaultKinds = {}
    OpenLoop = TRUE
    LateAnswers = FALSE
    Echo = FALSE
    StaleAnswers <- NoStale
    MaxPortErrors = 2
    MaxCommands = 3
    MaxStarts = 1
    MaxFaults = 0
    MaxChunk = 2
INVARIANTS
    TimerEndsOnlyItsOrder
