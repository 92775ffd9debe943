\* Three evals per client and one relaunch, two requests per tick; REAPER may
\* hang or die at any point.  The behaviours end at the bounds, so no deadlock check.
SPECIFICATION Spec
CONSTANTS
  MaxSeq = 3
  MaxLaunch = 2
  MaxTick = 3
  MaxClock = 4
  LossyPurge = FALSE
  LossyWrite = FALSE
  Batch = 2
  HangTimeout = 1
  Timeout = 2
  ReadyTimeout = 1
  MaxSkew = 1
  ZombieProbe = FALSE
INVARIANTS
  TypeOK
  NoFalseAnswer
  CrashLosesNoAnswer
  DeadReaperIsACrash
  HangOnlyAfterSilence
  ExecutedInOrder
  AtMostOnce
  ReadyIsFresh
CHECK_DEADLOCK FALSE
