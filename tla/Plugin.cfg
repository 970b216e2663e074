SPECIFICATION Spec
CONSTANTS
  Lives = {TRUE, FALSE}
  Overlaps = {TRUE, FALSE}
  Batches <- MCBatches
  MaxEdits = 1
INVARIANTS AudioUsable GroupsStayValid HostKnowsLatency SettledValid
  RestartAsked
CHECK_DEADLOCK FALSE
