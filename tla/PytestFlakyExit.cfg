\* Runs that disagree, the last of them passing.
SPECIFICATION Spec
CONSTANTS
  Tests = {a, b}
  NoItem = NoItem
  Repeat = 2
  MutationCheck = FALSE
  ValueBearing = {}
  Expected = {}
  Strict = {}
  Interrupts = FALSE
INVARIANTS
  FlakyFailsSession
CHECK_DEADLOCK FALSE
