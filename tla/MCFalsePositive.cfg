SPECIFICATION VerifiedSpec
CONSTANTS
    WordBits = 4
    Reg = {0, 1}
    StackLimit = 5
    DepthLimit = 5
    MaxSteps = 60
    DefaultStepLimit = 60
    OverflowChecks = FALSE
    Models = {}
    Samples = {}
    Programs = {}
    Calldatas <- Calldata
    OutputCounts = {1}
    StepLimits = {0}
    HostValues = {}
    Codes <- BranchInLoop
INVARIANT NoFalsePositives
CHECK_DEADLOCK FALSE
