\* The bridge's atomic_write may give up (ready file, heartbeat or response), and REAPER
\* may hang or die at any point: only the client's thread and the clock are fair.
SPECIFICATION FairSpec
CONSTANTS
  MaxSeq = 2
  MaxLaunch = 2
  MaxTick = 2
  MaxClock = 2
  LossyPurge = FALSE
  LossyWrite = TRUE
  Batch = 1
  HangTimeout = 1
  Timeout = 1
  ReadyTimeout = 1
  MaxSkew = 0
  ZombieProbe = FALSE
PROPERTIES
  ImplementsRpc
  RerunsOnlyUnanswered
  EvalReturns
  SentIsExecuted
CHECK_DEADLOCK FALSE
