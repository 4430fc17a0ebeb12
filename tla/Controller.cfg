CONSTANTS
    RxBufferSizeMax = 40
    SelectSizeMax = 2
    Bauds <- SomeBauds
    ServoBaud = 1000000
    Chain <- ThreeServos
    Silences <- SomeSilences
    Regs <- SomeRegs
    Value <- SomeValue
    Selections <- SomeSelections
    Fronts <- SomeFronts
    Quiet <- SilenceOrEcho
    Backs <- SomeBacks
    Chunks <- SomeChunks
    Beyond <- SomeBytes
    ShortInt = TRUE
    MaxCalls = 2
SPECIFICATION FairSpec
INVARIANTS TypeOK OverrunNeedsCutHeader AnswersBound
PROPERTIES PingTellsWho PullTellsTruth FittingCallEnds
