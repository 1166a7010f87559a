CONSTANTS
  Coins = {c1, c2}
  Seats = {s1, s2}
  Pools = {p1, p2}
  SettleDepth = 2
  MaxStarts = 2
  MaxTip = 3
  MaxCuts = 1
  MaxRestores = 0
  MaxRollbacks = 0
SPECIFICATION Spec
INVARIANTS TypeOK SignedIsKept SignedIsHeld NoOrphanHold
PROPERTY SendSparesSigned
SYMMETRY Alike
