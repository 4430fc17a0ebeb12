SPECIFICATION Spec
CONSTANTS
    Ids = {1, 252}
    Selections <- OneOrTwo
    Values = {0, 255, 65023, 33023}
    HostRegisters <- EveryHostRegister
    ArduinoRegisters <- EveryArduinoRegister
    Flips = {1, 128, 255}
INVARIANTS
    BuiltIsValid
