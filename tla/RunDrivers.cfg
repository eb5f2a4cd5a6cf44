SPECIFICATION Spec
CONSTANTS
    Outputs = {out1}
    NoOutput = NoOutput
    CallCounts <- UpToTwoCalls
    AllowUserInput = TRUE
    Drivers = {d1, d2}
    Keys = {k1, k2}
    Policies <- OpenPolicy
    ToolKinds <- WritesOnly
    MaxHarnessSteps = 6
    MaxModelCalls = 2
    MaxOperations = 5
    MaxBatchSize = 2
    ApprovalTTL = 1
    MaxClock = 0
    MaxCrashes = 1
SYMMETRY DriverKeySymmetry
INVARIANTS
    TypeOK
    AtMostOnce
    NoOvertaking
    TerminalSettled
    CompletedVerified
    LoopInSync
    WaitNamesItsCause
    RefusedNeverRan
    BudgetRespected
    AnswerOnce
PROPERTIES
    OutcomesAreFinal
    NoWorkAfterCancel
    WritesFollowLedger
CHECK_DEADLOCK FALSE
