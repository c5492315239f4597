SPECIFICATION MCSpec
CONSTANTS
    WordBits = 6
    Reg = {0, 1, 2, 3}
    StackLimit = 4
    MaxSteps = 20
    DefaultStepLimit = 20
    OverflowChecks = TRUE
    Models = {}
    Samples = {}
    Programs = {}
    Calldatas = {}
    OutputCounts = {}
    StepLimits = {}
    HostValues = {}
PROPERTY ArbitraryWeights
CHECK_DEADLOCK FALSE
