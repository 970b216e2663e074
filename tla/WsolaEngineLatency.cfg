SPECIFICATION Spec
CONSTANTS
  Fifo = 262144
  Window = 1024
  Search = 16
  HalfTaps = 20
  MaxBlock = 2048
  TimeRatios = {4}
  PitchRatios = {1, 4}
  Blocks = {256}
  Pulls = {256}
  InputLimit = 4096
  MaxRatioChanges = 2
INVARIANTS LatencyCovers
