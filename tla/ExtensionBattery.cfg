\* Three actions of any kind, each with any effect.  The battery ends.
SPECIFICATION FairSpec
CONSTANTS
  Last = 3
  Kinds = {"named", "elsewhere", "unresolved"}
  Effects = {"clean", "leak", "panel", "late", "lateleak", "hang", "die"}
INVARIANTS
  TypeOK
  PassedIsClean
  LeakBlame
PROPERTY
  BatteryEnds
CHECK_DEADLOCK FALSE
