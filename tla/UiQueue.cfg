SPECIFICATION FairSpec
CONSTANTS
  Params = {a, b}
  NoParam = none
  Levels = {0, 1}
  Initial = 0
  Size = 3
  Wrap = 6
INVARIANTS SlotPrivate HostTold
PROPERTIES GesturesKept GestureEnds
