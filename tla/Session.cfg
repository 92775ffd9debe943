\* Three launches under either context manager; REAPER crashes, hangs or never gets
\* ready, launches fail, snapshots cannot be written, Ctrl-C anywhere.  A session that is over stops.
SPECIFICATION Spec
CONSTANTS
  MaxLaunch = 3
  MaxStored = 2
  ZombieProbe = FALSE
INVARIANTS
  TypeOK
  NoOrphan
  OneReaper
  FailureHasEvidence
  CleanRestartKeepsState
  FirstCrashIsReported
CHECK_DEADLOCK FALSE
