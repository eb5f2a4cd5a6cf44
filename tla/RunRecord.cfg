SPECIFICATION Spec
CONSTANTS
    long = long
    short = short
    Runs = {long, short}
    Followed = long
    Longest <- LongAndShort
    Sizes <- MediumAndLarge
    Drivers = {d1, d2}
    Keys = {k1, k2}
    Window = 6
    OffloadSize = 2
    Recent = 1
    RecallLimit = 2
    Share = 1
    MaxRecords = 2
    PageSize = 2
    MaxRetries = 1
    MaxRestarts = 1
SYMMETRY Symmetry
INVARIANTS
    TypeOK
    SameEvidence
    Recoverable
    ForgottenStaysForgotten
    FollowerSeesAll
CONSTRAINT OneConcernAtOnce
CHECK_DEADLOCK FALSE
