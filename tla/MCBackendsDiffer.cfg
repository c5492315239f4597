SPECIFICATION MCSpec
CONSTANTS
    WordBits = 4
    Reg = {0, 1}
    StackLimit = 3
    MaxSteps = 60
    DefaultStepLimit = 40
    OverflowChecks = TRUE
    Models = {}
    Samples = {}
    Programs <- EmptyBodies
    Calldatas = {}
    OutputCounts = {2}
    StepLimits = {}
    HostValues = {}
    HostVecs <- OneVec
    HostData <- Data
INVARIANT BackendsAgree
CHECK_DEADLOCK FALSE
