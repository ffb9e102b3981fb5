SPECIFICATION FairSpec
CONSTANTS
  N = 2
  Plans = {"none", "nudge", "link", "nudge_link", "link_nudge", "escalate"}
  MaxFaults = 2
  Crashes = TRUE
CHECK_DEADLOCK FALSE
INVARIANTS ReadsWhatItFollows LinkedIsSilent NeverSentTwice
PROPERTIES EveryNudgeSettles
