SPECIFICATION Spec
CONSTANTS
    Outputs = {out1}
    NoOutput = NoOutput
    CallCounts <- UpToTwoCalls
    AllowUserInput = FALSE
    Drivers = {d1}
    Keys = {}
    Policies <- AnyPolicy
    ToolKinds <- ReadsAndWrites
    MaxHarnessSteps = 4
    MaxModelCalls = 1
    MaxOperations = 3
    MaxBatchSize = 2
    ApprovalTTL = 1
    MaxClock = 0
    MaxCrashes = 0
INVARIANTS
    ApprovalWaitIsActionable
CHECK_DEADLOCK FALSE
