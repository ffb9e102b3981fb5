SPECIFICATION Spec
CONSTANTS
  N = 3
  MaxWait = 3
  RaceDeadline = 1
  ModelAbort = 2
  BurstWindows = {0, 1}
  FlowPlays = 1
  HistoryLimit = 10
  FoldBursts = TRUE
  Enforced = TRUE
  SlowDb = FALSE
  Kinds = {"text", "media", "opening"}
  Tokens = {TRUE, FALSE}
  Endings = {"reply"}
  Aborts = FALSE
  MaxFaults = 0
  Crashes = FALSE
INVARIANTS OneAtATime HistoryInOrder RepliesInOrder OneAnswer
