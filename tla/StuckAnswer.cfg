SPECIFICATION Spec
CONSTANTS
    Servos = {1}
    Commands <- OneWrite
    Calls = {"registerCommand"}
    FaultKinds = {"noise"}
    OpenLoop = FALSE
    LateAnswers = FALSE
    Echo = TRUE
    StaleAnswers <- NoStale
    MaxPortErrors = 2
    MaxCommands = 3
    MaxStarts = 1
    MaxFaults = 1
    MaxChunk = 2
INVARIANTS
    AnswerEndsOnlyItsOrder
