CONSTANTS
  RefundBlocks = 5
  StopBlocks = 2
  Birthday = 0
  MaxTip = 7
  MaxReorgs = 1
  MaxFaults = 1
SPECIFICATION FairSpec
INVARIANTS TypeOK NeverBoth 
PROPERTIES LockIsSeen PayEnds
