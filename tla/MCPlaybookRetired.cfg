SPECIFICATION MCSpec
CONSTANTS
    a = a
    b = b
    Insights = {a, b}
    Proposed = {a, b}
    Reviewers = {r}
    Commands = {}
    Servers = {}
    Starts <- Fresh
    Cases = {k}
    TooLong <- Long
    MaxInsights = 2
    MaxVersions = 3
    MaxCommands = 0
    MaxEvals = 0
    MaxSuites = 1
    MaxReads = 1
    MaxFaults = 0
PROPERTIES
    RetiredStaysOut
CHECK_DEADLOCK FALSE
