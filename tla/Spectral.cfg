SPECIFICATION Spec
CONSTANTS
  Unit = 4
  Nodes = 64
  RampFrames = 2
  N = 8
  Hop = 2
  Half = 2
  InCap = 64
  OlaCap = 128
  PvCap = 128
  FifoCap = 64
  StepsPerInput = 2
  FlushGuard = 24
  Kinds <- MCKinds
  Reserve = 32
  FrameSteps = {1, 4}
  Blocks <- MCBlocks
  Pulls = {8}
  Pitches = {2, 8}
  Batches <- MCBatches
  InputLimit <- MCInputLimit
  MaxChanges <- MCMaxChanges
INVARIANTS NeverFaults NeverLate RingsHold StretchBounded
PROPERTIES RefusalKeeps
CHECK_DEADLOCK FALSE
