SPECIFICATION Spec
CONSTANTS
  Fifo = 28
  Window = 8
  Search = 1
  HalfTaps = 2
  MaxBlock = 2
  TimeRatios = {2, 4, 8}
  PitchRatios = {2, 4}
  Blocks = {9}
  Pulls = {6}
  InputLimit = 63
  MaxRatioChanges = 1
INVARIANTS TypeOK RingsWellFormed NoHopLost FrameReadsLive TapsLive
  CallLeavesNothing DrainedIsExact PullMakesRoomFixed LatencyCoversFixed
