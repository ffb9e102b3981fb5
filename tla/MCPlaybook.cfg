SPECIFICATION MCSpec
CONSTANTS
    a = a
    b = b
    Insights = {a, b}
    Proposed = {a}
    Reviewers = {r}
    Commands = {c, d}
    Servers = {s}
    Starts <- Histories
    Cases = {k}
    TooLong <- Long
    MaxInsights = 1
    MaxVersions = 3
    MaxCommands = 2
    MaxEvals = 1
    MaxSuites = 2
    MaxReads = 2
    MaxFaults = 1
CHECK_DEADLOCK FALSE
INVARIANTS ApprovedIsInAVersion
PROPERTIES GoesLiveEvaluated ServersFollow
