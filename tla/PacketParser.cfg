SPECIFICATION Spec
CONSTANTS
    Lines <- SomeLines
    MaxChunk = 12
INVARIANTS
    BytesConserved
    CutDoesNotMatter
    PromptWhenClean
    NoiseOnlyDelays
