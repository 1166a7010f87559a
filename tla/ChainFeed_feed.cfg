CONSTANTS
  Channels = {c1}
  Old = {}
  MaxTip = 3
  MaxMoves = 1
  MaxRestarts = 1
  MaxFails = 1
SPECIFICATION FairSpec
INVARIANTS TypeOK HealthyNotClosed SpendIsKept
PROPERTIES BestNeverFalls FundingIsNoticed SpendIsNoticed
