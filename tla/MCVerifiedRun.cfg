SPECIFICATION VerifiedSpec
CONSTANTS
    WordBits = 4
    Reg = {0, 1}
    StackLimit = 5
    DepthLimit = 5
    MaxSteps = 24
    DefaultStepLimit = 24
    OverflowChecks = FALSE
    Models = {}
    Samples = {}
    Programs = {}
    Calldatas <- Calldata
    OutputCounts = {1}
    StepLimits = {}
    HostValues = {}
    Codes <- AllCodes
INVARIANTS VerifiedTypeOK ScanIsPhase1 PhasesAgree DepthSound LoopsSound AcceptedRunsClean TypesSound Inductive
CHECK_DEADLOCK FALSE
