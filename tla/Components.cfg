SPECIFICATION Spec
CONSTANTS
  Params = {a, b}
  NoParam = none
  Levels = {0}
  Size = 7
  Lists <- MCLists
  Automatable = {"wet", "dry"}
  Structural = {"backend"}
  Foreign = {"foreign"}
  Frames = 2
  Cap = 3
  Bins = 6
  Magnitudes = {0, 1, 3, 4}
  Depth = 2
  Base <- MCBase
  Half = 2
  Modes = {"locked", "wsola"}
  Configs <- MCPlayed
  BlockSizes = {3}
  EventLists <- MCEvents
  Seeks = {0, 3}
  OutputLimit = 48
  ChangeLimit = 2
  Word = 16777216
  AskedConfigs <- MCAsked
  Values <- MCValues
  N = 8
  Hop = 3
  OlaCap = 128
  FifoCap = 24
  Guard = 16
  Ratios = {1, 4, 16}
  Blocks = {3, 7}
  InputLimit = 16
  MoveLimit = 24
  Limits <- MCLimits
  FormantLimit = 1
  Meanwhile <- MCMeanwhile
INVARIANTS Bracketed PeaksOwn AdaptersAgree TransportSound ConfigSound SettingsHold
  ResearchExact WorkSliced EditorSound
CHECK_DEADLOCK FALSE
