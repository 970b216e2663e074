SPECIFICATION Spec
CONSTANTS
  Lives = {FALSE}
  Overlaps = {FALSE}
  Batches <- MCFormants
  MaxEdits = 2
INVARIANT SettledAny
CHECK_DEADLOCK FALSE
