SPECIFICATION MCSpec
CONSTANTS
    WordBits = 6
    Reg = {0, 1, 2, 3}
    StackLimit = 4
    MaxSteps = 20
    DefaultStepLimit = 20
    OverflowChecks = TRUE
    Models = {}
    Samples = {}
    Programs = {}
    Calldatas = {}
    OutputCounts = {}
    StepLimits = {}
    HostValues = {}
INVARIANTS XqmxTypeOK TraceComplete
PROPERTIES ExpansionsExact SlacksExact AuxiliaryForced FailedInstructionAddsNothing ModelInstructionsAgree
CHECK_DEADLOCK FALSE
