SPECIFICATION Spec
CONSTANTS
  N = 2
  Kinds = {"ordered"}
  LinkSent = 2
  Values = {1}
  OnStage = 1
  EventStages = {1, 2}
  Cap = 2
  Plain = {}
  MaxFaults = 0
CHECK_DEADLOCK FALSE
PROPERTIES StageMovesOn
