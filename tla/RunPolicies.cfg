SPECIFICATION Spec
CONSTANTS
    Outputs = {out1}
    NoOutput = NoOutput
    CallCounts <- UpToTwoCalls
    AllowUserInput = FALSE
    Drivers = {d1, d2}
    Keys = {}
    Policies <- Revocations
    ToolKinds <- AllTools
    MaxHarnessSteps = 3
    MaxModelCalls = 1
    MaxOperations = 3
    MaxBatchSize = 2
    ApprovalTTL = 1
    MaxClock = 1
    MaxCrashes = 0
SYMMETRY DriverSymmetry
INVARIANTS
    ApprovalCoversAttempt
CHECK_DEADLOCK FALSE
