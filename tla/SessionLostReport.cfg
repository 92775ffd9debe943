\* A REAPER that restart() launched crashes (macOS).
SPECIFICATION Spec
CONSTANTS
  MaxLaunch = 2
  MaxStored = 0
  ZombieProbe = FALSE
INVARIANT
  CrashIsReported
CHECK_DEADLOCK FALSE
