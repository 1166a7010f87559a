CONSTANTS
  Coins = {c1}
  Seats = {s1}
  Pools = {p1, p2}
  SettleDepth = 2
  MaxStarts = 2
  MaxTip = 3
  MaxCuts = 1
  MaxRestores = 1
  MaxRollbacks = 1
SPECIFICATION FairSpec
INVARIANTS SignedIsKept SignedIsHeld
PROPERTY SettledIsWiped
