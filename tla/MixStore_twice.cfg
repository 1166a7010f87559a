CONSTANTS
  Coins = {c1}
  Seats = {s1}
  Pools = {p1, p2}
  SettleDepth = 2
  MaxStarts = 2
  MaxTip = 2
  MaxCuts = 0
  MaxRestores = 0
  MaxRollbacks = 0
SPECIFICATION Spec
INVARIANT CoinSignedOnce
