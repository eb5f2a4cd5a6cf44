SPECIFICATION CarefulSpec
CONSTANTS
    Outputs = {out1}
    NoOutput = NoOutput
    CallCounts <- OneCall
    AllowUserInput = FALSE
    Drivers = {d1}
    Keys = {}
    Policies <- OpenPolicy
    ToolKinds <- ReadsAndWrites
    MaxHarnessSteps = 6
    MaxModelCalls = 2
    MaxOperations = 4
    MaxBatchSize = 1
    ApprovalTTL = 1
    MaxClock = 0
    MaxCrashes = 1
PROPERTIES
    InterruptedRunEnds
CHECK_DEADLOCK FALSE
