SPECIFICATION FairSpec
CONSTANTS
    Runs = {r1, r2, bad}
    Invalid = {bad}
    Workers = {w1, w2}
    BatchLimit = 1
    MaxCrashes = 1
    MaxFailures = 1
INVARIANTS
    TypeOK
    ExecutedOnce
    AckedWasAccepted
    NeverForgotten
PROPERTIES
    EventuallyPublished
CHECK_DEADLOCK FALSE
