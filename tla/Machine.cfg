CONSTANTS
    RxBufferSizeMax = 64
    SelectSizeMax = 2
    Bauds <- SomeBauds
    ServoBaud = 115200
    Chain <- TwoServos
    Silences <- Silent
    Regs <- SomeRegs
    Value <- SomeValue
    Selections <- NoSelections
    Fronts <- Nothing
    Quiet <- Nothing
    Backs <- Nothing
    Chunks <- NoChunk
    Beyond <- SomeBytes
    ShortInt = TRUE
    MaxCalls = 9
    CmdBufferSize = 12
    Lines <- SomeLines
    NumberOf <- SomeNumbers
    Wide <- WideNumbers
    MaxLines = 3
SPECIFICATION MachineFairSpec
INVARIANTS MachineTypeOK OverrunsHaveACause
PROPERTIES KeepsPromise EveryLineAnswered
