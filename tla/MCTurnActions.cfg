SPECIFICATION Spec
CONSTANTS
  N = 2
  Kinds = {"ordered", "unbound", "nudge"}
  LinkSent = 2
  Values = {1}
  OnStage = 1
  EventStages = {1, 2}
  Cap = 2
  Plain = {}
  MaxFaults = 1
CHECK_DEADLOCK FALSE
INVARIANTS CapHeld OpeningOnce RecordedIsSent BelievedIsTrue
