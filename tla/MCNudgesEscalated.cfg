SPECIFICATION Spec
CONSTANTS
  N = 2
  Plans = {"none", "nudge", "escalate"}
  MaxFaults = 0
  Crashes = FALSE
CHECK_DEADLOCK FALSE
INVARIANT EscalatedIsSilent
