SPECIFICATION FairSpec
CONSTANTS
    lead = lead
    first = first
    second = second
    Runs = {lead, first, second}
    NoRun = NoRun
    Parent <- MixedParent
    DependsOn <- Independent
    Tasks = {t1, t2}
    NoTask = NoTask
    MaxRequests = 3
    MaxEffort = 1
    MaxFaults = 1
INVARIANTS
    TypeOK
    OneLoopPerRun
    Attended
PROPERTIES
    ResumeHonoured
CHECK_DEADLOCK FALSE
