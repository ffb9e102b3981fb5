SPECIFICATION Spec
CONSTANTS
  N = 2
  MaxWait = 5
  RaceDeadline = 2
  ModelAbort = 3
  BurstWindows = {1}
  FlowPlays = 1
  HistoryLimit = 10
  FoldBursts = FALSE
  Enforced = TRUE
  SlowDb = FALSE
  Kinds = {"text", "media"}
  Tokens = {TRUE}
  Endings = {"reply", "fallback"}
  Aborts = FALSE
  MaxFaults = 0
  Crashes = FALSE
INVARIANT
  FoldedAreAnswered
