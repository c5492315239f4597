SPECIFICATION MCSpec
CONSTANTS
    WordBits = 4
    Reg = {0, 1}
    StackLimit = 3
    MaxSteps = 30
    DefaultStepLimit = 12
    OverflowChecks = TRUE
    Models = {}
    Samples = {}
    Programs <- Other
    Calldatas = {}
    OutputCounts = {2}
    StepLimits = {0, 7, 20}
    HostValues = {}
    HostVecs <- OneVec
    HostData <- Data
INVARIANTS PythonTypeOK PortableRunsAgree
PROPERTIES BothEnd
CHECK_DEADLOCK FALSE
