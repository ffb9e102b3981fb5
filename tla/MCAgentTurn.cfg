CONSTANTS
    Drafts <- MCDrafts
    Kinds = {"inbound", "nudge"}
    HasCloser = TRUE
    MAX_STEPS = 3
    MAX_READS_PER_TURN = 2
    RECURSION_LIMIT = 6
    MaxCalls = 2
    MaxTurns = 2
SPECIFICATION Spec
CHECK_DEADLOCK FALSE
INVARIANTS ReplyIsReached NothingInternalIsSaid LinkIsSaid ToldTheTruth
