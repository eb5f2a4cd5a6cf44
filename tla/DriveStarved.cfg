SPECIFICATION FairSpec
CONSTANTS
    lead = lead
    first = first
    second = second
    Runs = {lead, first, second}
    NoRun = NoRun
    Parent <- TeamParent
    DependsOn <- Chained
    Tasks = {t1, t2, t3}
    NoTask = NoTask
    MaxRequests = 3
    MaxEffort = 1
    MaxFaults = 0
PROPERTIES
    ResumeHonoured
CHECK_DEADLOCK FALSE
