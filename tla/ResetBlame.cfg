SPECIFICATION Spec
CONSTANTS
  MaxMishaps = 1
  Threshold = 1
  Full = 3
  Params = 2
  MaxParams = 1
  MaxComponents = 1
  MaxRuns = 2
  MaxPackages = 2
  Subjects <- MCResets
  Repos <- MCRepos
CHECK_DEADLOCK FALSE
INVARIANT ResetBlame
