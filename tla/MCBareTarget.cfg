SPECIFICATION MCSpec
CONSTANTS
    WordBytes = 3
    MaxSlots = 1
    NarrowLabels = 1
    WideLabels = 2
    MaxLabels = 3
    MaxBytes = 8
    MaxLines = 5
    Emitted <- WithBareTarget
    Constants <- MCConstants
    Lines <- MCLines
INVARIANT JumpsReachTheirLabels
CHECK_DEADLOCK FALSE
