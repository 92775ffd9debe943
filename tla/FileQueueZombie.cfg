\* Liveness by signal 0 on an unreaped child, as on Linux.
SPECIFICATION Spec
CONSTANTS
  MaxSeq = 2
  MaxLaunch = 2
  MaxTick = 3
  MaxClock = 3
  LossyPurge = FALSE
  LossyWrite = FALSE
  Batch = 1
  HangTimeout = 1
  Timeout = 2
  ReadyTimeout = 1
  MaxSkew = 0
  ZombieProbe = TRUE
INVARIANT
  DeadReaperIsACrash
CHECK_DEADLOCK FALSE
