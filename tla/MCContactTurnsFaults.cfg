SPECIFICATION FairSpec
CONSTANTS
  N = 2
  MaxWait = 3
  RaceDeadline = 1
  ModelAbort = 2
  BurstWindows = {1}
  FlowPlays = 1
  HistoryLimit = 10
  FoldBursts = TRUE
  Enforced = TRUE
  SlowDb = FALSE
  Kinds = {"text", "over", "media", "keyword"}
  Tokens = {TRUE, FALSE}
  Endings = {"reply", "flow", "fallback"}
  Aborts = TRUE
  MaxFaults = 1
  Crashes = TRUE
INVARIANTS SilenceIsFilled
PROPERTIES AnsweredInTime EveryMessageAnswered
