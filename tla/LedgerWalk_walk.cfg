CONSTANTS
  Birthday = 1
  Batch = 2
  MaxBatches = 2
  ReorgWindow = 2
  TailVerify = 3
  Start = 3
  MaxHeight = 4
  MaxReorgs = 1
  MaxFails = 1
  MaxCloses = 1
  MaxRereads = 1
  MaxRewalks = 1
SPECIFICATION FairSpec
INVARIANTS TypeOK NoPhantom NothingMissed
PROPERTIES TopCatchesUp HistoryCompletesOrOrphaned
