SPECIFICATION TeasedSpec
CONSTANTS
  Fifo = 1152
  Window = 128
  Search = 8
  HalfTaps = 20
  MaxBlock = 64
  TimeRatios = {1, 16}
  PitchRatios = {4}
  Blocks = {1}
  Pulls = {1024}
  InputLimit = 2000
  MaxRatioChanges = 2000
INVARIANTS PullMakesRoom
CHECK_DEADLOCK FALSE
