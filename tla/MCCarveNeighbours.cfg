SPECIFICATION Spec
CONSTANTS
  Base = 40
  kMaxIfds = 3
  kMaxStrips = 4
  kTrailerLookback = 4
  kNameSample = 4
  Files <- MCFiles
  Noise = 98
  Damage = {0, 1, 3, 39, 40, 82}
  MaxCarve = 40
  Floors <- MCFloors
  Allowlists <- MCAllowlists
INVARIANT
  EveryExtentIsExact
CHECK_DEADLOCK FALSE
