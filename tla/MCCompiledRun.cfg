SPECIFICATION CompiledSpec
CONSTANTS
    WordBits = 8
    Reg <- Registers
    MaxRegister = 12
    StackLimit = 8
    DepthLimit = 8
    MaxSteps = 400
    DefaultStepLimit = 400
    OverflowChecks = TRUE
    Models = {}
    Samples = {}
    Programs = {}
    Calldatas = {}
    OutputCounts = {}
    StepLimits = {}
    HostValues = {}
    Codes = {}
    Scripts <- AllScripts
    MaxSampled = 4
INVARIANTS CompiledTypeOK CompileAccepts EncoderMeansProblem VerdictSound DecoderMeansOutputs
CHECK_DEADLOCK FALSE
