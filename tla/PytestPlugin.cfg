\* Two tests, one of them a strict xfail (a plain one is the same but where it passes, and
\* then it is an ordinary test); two runs each, any outcome of any phase, Ctrl-C anywhere.
SPECIFICATION Spec
CONSTANTS
  Tests = {a, b}
  NoItem = NoItem
  Repeat = 2
  MutationCheck = TRUE
  ValueBearing = {a}
  Expected = {b}
  Strict = {b}
  Interrupts = TRUE
INVARIANTS
  TypeOK
  PassedInEveryRun
  ReportAndExitAgree
  ReportIsComplete
  VacuousFailsSession
CHECK_DEADLOCK FALSE
