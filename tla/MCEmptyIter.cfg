SPECIFICATION MCSpec
CONSTANTS
    WordBits = 4
    Reg = {0, 1}
    StackLimit = 3
    MaxSteps = 9
    DefaultStepLimit = 9
    OverflowChecks = TRUE
    m1 = m1
    s1 = s1
    Models = {m1}
    Samples = {s1}
    Programs <- AllPrograms
    Calldatas <- Calldata
    OutputCounts = {1}
    StepLimits = {0, 3}
    HostValues <- HostRegisters
INVARIANT EmptySlicesSkipped
CHECK_DEADLOCK FALSE
