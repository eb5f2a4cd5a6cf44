SPECIFICATION FairSpec
CONSTANTS
    h1 = h1
    h2 = h2
    lookup = lookup
    first = first
    retry = retry
    other = other
    NoSource = NoSource
    MaxAgents = 2
    Hosts = {h1, h2}
    Catalog <- TwoHosts
    Requests = {lookup, first, retry, other}
    Bodies <- AllBodies
    Submissions <- TwoRuns
    Startup <- HelperAlone
    Revocable <- LookupPolicy
    Executors = {x1, x2}
    CacheSize = 1
    MaxDeaths = 1
INVARIANTS
    DefinitionsMatch
    WithinBudget
PROPERTIES
    AnswersAgree
    PublishedRunEnds
CONSTRAINT TwoAtOnce
CHECK_DEADLOCK FALSE
