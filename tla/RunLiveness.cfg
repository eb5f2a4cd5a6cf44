SPECIFICATION FairSpec
CONSTANTS
    Outputs = {out1}
    NoOutput = NoOutput
    CallCounts <- UpToTwoCalls
    AllowUserInput = TRUE
    Drivers = {d1}
    Keys = {k1, k2}
    Policies <- GuardedOrWithdrawn
    ToolKinds <- WritesOnly
    MaxHarnessSteps = 5
    MaxModelCalls = 2
    MaxOperations = 4
    MaxBatchSize = 2
    ApprovalTTL = 1
    MaxClock = 1
    MaxCrashes = 1
PROPERTIES
    RunEnds
    RevokedRunEnds
    CancellationConfirmed
CHECK_DEADLOCK FALSE
