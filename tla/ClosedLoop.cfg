SPECIFICATION Spec
CONSTANTS
    Servos = {1, 2}
    Commands <- MixedCommands
    Calls = {"registerCommand", "sendPing", "pull"}
    FaultKinds = {}
    OpenLoop = FALSE
    LateAnswers = FALSE
    Echo = TRUE
    StaleAnswers <- NoStale
    MaxPortErrors = 2
    MaxCommands = 4
    MaxStarts = 1
    MaxFaults = 0
    MaxChunk = 2
INVARIANTS
    TimerEndsOnlyItsOrder
    AnswerEndsOnlyItsOrder
    PingResultFresh
