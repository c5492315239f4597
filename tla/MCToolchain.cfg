SPECIFICATION MCSpec
CONSTANTS
    WordBytes = 3
    MaxSlots = 1
    NarrowLabels = 1
    WideLabels = 2
    MaxLabels = 3
    MaxBytes = 8
    MaxLines = 5
    Emitted <- MCEmitted
    Constants <- MCConstants
    Lines <- MCLines
INVARIANTS BufferOK SourceIsProgram ErrorsDeserved LoadedIsBuilt ListingComplete
PROPERTIES KeepsItsPromise
CHECK_DEADLOCK FALSE
