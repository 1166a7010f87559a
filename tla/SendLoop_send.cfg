CONSTANTS
  Tries = 2
  MaxPays = 3
  MaxCalls = 2
  MaxAtOnce = 2
  MaxRestarts = 1
SPECIFICATION FairSpec
CHECK_DEADLOCK FALSE
INVARIANTS TypeOK OneTryAtATime AskedSendIsBack
PROPERTIES OvertakesOnlyRunning RowSettles
