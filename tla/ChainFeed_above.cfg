CONSTANTS
  Channels = {c1, c2}
  Old = {c2}
  MaxTip = 3
  MaxMoves = 0
  MaxRestarts = 0
  MaxFails = 0
SPECIFICATION Spec
INVARIANT NeverAboveBest
