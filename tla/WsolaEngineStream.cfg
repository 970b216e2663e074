SPECIFICATION FairSpec
CONSTANTS
  Fifo = 16
  Window = 4
  Search = 1
  HalfTaps = 1
  MaxBlock = 2
  TimeRatios = {3, 8}
  PitchRatios = {1, 8}
  Blocks = {5, 17}
  Pulls = {3}
  InputLimit = 20
  MaxRatioChanges = 1
PROPERTIES ExactStream CallsReturn FlushDrains
