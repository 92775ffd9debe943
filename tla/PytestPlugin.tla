----------------------------- MODULE PytestPlugin -----------------------------
(***************************************************************************)
(* The pytest plugin (runner/pytest_plugin.py) and the gate of its report  *)
(* (report/results.py): every test is run Repeat times, each run setting   *)
(* up, calling and tearing down; makereport keeps one record per test,     *)
(* overwritten by later runs; runs that disagree quarantine the test; at   *)
(* the end there are an exit status and a report with a gate.  Pytest      *)
(* itself is modelled by what it does around the hooks: it makes a report  *)
(* of each phase, logs those of the last run as they are made, and counts  *)
(* a logged failure then and there.  The record is made of the exception   *)
(* of a phase, not of pytest's report of it, and the two may differ.       *)
(***************************************************************************)
EXTENDS Integers, FiniteSets

CONSTANTS
  Tests,          \* the collected tests
  NoItem,         \* no test in progress
  Repeat,         \* --reaproof-repeat
  MutationCheck,  \* --mutation-check
  ValueBearing,   \* tests marked value_bearing
  Expected,       \* tests marked xfail
  Strict,         \* those of them marked strict
  Interrupts      \* the session may be interrupted (Ctrl-C)

ASSUME PluginAssumption ==
  /\ NoItem \notin Tests
  /\ Repeat \in Nat \ {0}
  /\ MutationCheck \in BOOLEAN
  /\ ValueBearing \subseteq Tests
  /\ Expected \subseteq Tests /\ Strict \subseteq Expected
  /\ Interrupts \in BOOLEAN

VARIABLES
  pending,      \* tests not started
  item,         \* the test in progress
  phase,        \* "pick", "setup", "call", "teardown", "judge", "over"
  run,          \* its run, 1..Repeat
  lastCall,     \* reported outcome of this run's call phase ("none": no call)
  calls,        \* calls[t]: the call outcomes of t's runs (the list outcomes)
  status,       \* status[t] in _reaproof_results ("none": no record)
  quarantined,  \* _reaproof_quarantined
  proven,       \* MUTATION_VERIFIED
  recorded,     \* tests whose record says mutation_verified
  logged,       \* tests of which pytest logged a failed report
  forgiven,     \* history: tests of which it logged an exception as a skip
  torn,         \* history: tests the last teardown of which raised
  exitstatus    \* of the session

itemVars == <<pending, item>>
recordVars == <<status, recorded>>
logVars == <<logged, forgiven>>
vars == <<itemVars, phase, run, lastCall, calls, recordVars, quarantined, proven,
          logVars, torn, exitstatus>>

Exception == {"no", "skip", "xfail", "error"}   \* call.excinfo of a phase
CallOutcome == {"none", "passed", "skipped", "failed"}

(* No test has more than Repeat runs. *)
TypeOK ==
  /\ pending \subseteq Tests
  /\ item \in Tests \cup {NoItem}
  /\ phase \in {"pick", "setup", "call", "teardown", "judge", "over"}
  /\ run \in 1..Repeat
  /\ lastCall \in CallOutcome
  /\ calls \in [Tests -> SUBSET CallOutcome]
  /\ status \in [Tests -> {"none", "passed", "failed", "skipped", "quarantined"}]
  /\ quarantined \subseteq Tests /\ proven \subseteq Tests
  /\ recorded \subseteq proven
  /\ logged \subseteq Tests /\ forgiven \subseteq Tests /\ torn \subseteq Tests
  /\ exitstatus \in 0..2

Init ==
  /\ pending = Tests /\ item = NoItem /\ phase = "pick" /\ run = 1
  /\ lastCall = "none" /\ calls = [t \in Tests |-> {}]
  /\ status = [t \in Tests |-> "none"] /\ recorded = {}
  /\ quarantined = {} /\ proven = {} /\ logged = {} /\ forgiven = {}
  /\ torn = {}  /\ exitstatus = 0

(* _record: one record per test, of the latest run. *)
Record(s) ==
  /\ status' = [status EXCEPT ![item] = s]
  /\ recorded' = recorded \cup ({item} \cap proven')

(* runtestprotocol(log=...): only the last run's reports are logged. *)
MutLastRun == run > Repeat
LastRun == run = Repeat

(* The outcomes pytest may report of a phase.  A strict xfail that passes  *)
(* is a failure; an error of an xfail, if it is of the expected type, and  *)
(* pytest.xfail() are skips.                                               *)
Reported(exc) ==
  CASE exc = "no" -> {IF phase = "call" /\ item \in Strict THEN "failed" ELSE "passed"}
    [] exc \in {"skip", "xfail"} -> {"skipped"}
    [] exc = "error" -> {"failed"} \cup (IF item \in Expected THEN {"skipped"} ELSE {})

Log(exc, outcome) ==
  /\ logged' = logged \cup {t \in {item} : LastRun /\ outcome = "failed"}
  /\ forgiven' = forgiven \cup {t \in {item} : LastRun /\ exc # "no" /\ outcome = "skipped"}

-----------------------------------------------------------------------------

Pick ==
  /\ phase = "pick"
  /\ \E t \in pending : item' = t /\ pending' = pending \ {t}
  /\ phase' = "setup" /\ run' = 1 /\ lastCall' = "none"
  /\ UNCHANGED <<calls, recordVars, quarantined, proven, logVars, torn, exitstatus>>

(* makereport after setup: a skip or an error is recorded, as there will   *)
(* be no call phase.                                                       *)
MutRecordSetup(exc) == UNCHANGED recordVars
RecordSetup(exc) ==
  IF exc = "no" THEN UNCHANGED recordVars
  ELSE Record(IF exc = "skip" THEN "skipped" ELSE "failed")

Setup ==
  /\ phase = "setup"
  /\ UNCHANGED proven
  /\ \E exc \in Exception :
       /\ RecordSetup(exc)
       /\ \E outcome \in Reported(exc) : Log(exc, outcome)
       /\ phase' = IF exc = "no" THEN "call" ELSE "teardown"
  /\ lastCall' = "none"
  /\ UNCHANGED <<itemVars, run, calls, quarantined, torn, exitstatus>>

(* makereport after the call.  The test may have proved an assertion       *)
(* non-vacuous (raise_if_vacuous) before it ended.                         *)
RecordCall(exc) ==
  Record(CASE item \in quarantined -> "quarantined"
           [] item \notin quarantined /\ exc = "no" -> "passed"
           [] item \notin quarantined /\ exc = "skip" -> "skipped"
           [] item \notin quarantined /\ exc \in {"xfail", "error"} -> "failed")

Call ==
  /\ phase = "call"
  /\ proven' \in {proven, proven \cup {item}}
  /\ \E exc \in Exception : \E outcome \in Reported(exc) :
       /\ lastCall' = outcome
       /\ RecordCall(exc)
       /\ Log(exc, outcome)
  /\ phase' = "teardown"
  /\ UNCHANGED <<itemVars, run, calls, quarantined, torn, exitstatus>>

(* makereport after teardown: an exception, whatever pytest makes of it,   *)
(* downgrades a record that says passed.                                   *)
MutDowngrade(exc) == UNCHANGED status
Downgrade(exc) ==
  status' = [status EXCEPT ![item] = IF exc # "no" /\ @ = "passed" THEN "failed" ELSE @]

Teardown ==
  /\ phase = "teardown"
  /\ \E exc \in Exception :
       /\ Downgrade(exc)
       /\ \E outcome \in Reported(exc) : Log(exc, outcome)
       /\ torn' = IF exc = "no" THEN torn \ {item} ELSE torn \cup {item}
  /\ calls' = [calls EXCEPT ![item] = @ \cup {lastCall}]
  /\ \/ /\ ~LastRun
        /\ run' = run + 1 /\ phase' = "setup"
     \/ /\ LastRun
        /\ run' = run /\ phase' = IF Repeat = 1 THEN "pick" ELSE "judge"
  /\ UNCHANGED <<itemVars, lastCall, recorded, quarantined, proven, exitstatus>>

(* The runs of t disagreed on whether the call passed. *)
MutDisagree(t) == {"passed", "failed"} \subseteq calls[t]
Disagree(t) == "passed" \in calls[t] /\ calls[t] # {"passed"}

(* After the last run: disagreement quarantines the test; its record is    *)
(* overridden if the last run has a call report.  That report is marked    *)
(* failed, too, but pytest has logged it already.                          *)
Judge ==
  /\ phase = "judge"
  /\ UNCHANGED proven
  /\ IF Disagree(item)
     THEN /\ quarantined' = quarantined \cup {item}
          /\ IF lastCall # "none" THEN Record("quarantined") ELSE UNCHANGED recordVars
     ELSE UNCHANGED <<quarantined, recordVars>>
  /\ phase' = "pick"
  /\ UNCHANGED <<itemVars, run, lastCall, calls, logVars, torn, exitstatus>>

(* pytest_sessionfinish: the exit status, then the report. *)
MutVacuous == {t \in ValueBearing : status[t] = "passed" /\ t \notin recorded}
Vacuous == {t \in ValueBearing : status[t] # "none" /\ t \notin recorded}

Finish ==
  /\ phase = "pick" /\ pending = {}
  /\ phase' = "over"
  /\ exitstatus' = IF logged # {} \/ (MutationCheck /\ Vacuous # {}) THEN 1 ELSE 0
  /\ UNCHANGED <<itemVars, run, lastCall, calls, recordVars, quarantined, proven,
                 logVars, torn>>

(* Ctrl-C ends the session at once, with a report of what was recorded. *)
Interrupt ==
  /\ Interrupts /\ phase \in {"setup", "call", "teardown"}
  /\ phase' = "over" /\ exitstatus' = 2
  /\ UNCHANGED <<itemVars, run, lastCall, calls, recordVars, quarantined, proven,
                 logVars, torn>>

Next == Pick \/ Setup \/ Call \/ Teardown \/ Judge \/ Finish \/ Interrupt

Spec == Init /\ [][Next]_vars

(* ResultSet.gate_green of the report; tests without a record are not in   *)
(* it.                                                                     *)
GateGreen ==
  /\ \E t \in Tests : status[t] = "passed"
  /\ \A t \in Tests : status[t] \in {"none", "passed", "skipped"}

-----------------------------------------------------------------------------
(* Properties *)

Over == phase = "over"
Judged(t) == t \notin pending /\ (t # item \/ phase = "pick")

(* Never retried to green: a test recorded as passed once its runs are     *)
(* done passed its call in every one of them, and the teardown of the last *)
(* did not raise.  Excepted is a strict xfail that passed, which pytest    *)
(* reports as failed and the record as passed.                             *)
PassedInEveryRun ==
  \A t \in Tests : Judged(t) /\ status[t] = "passed" =>
    (calls[t] = {"passed"} \/ t \in Strict) /\ t \notin torn

(* No invisible tests: a session that ran to its end has a record of every *)
(* test, those that never reached their call phase included.               *)
ReportIsComplete ==
  Over /\ exitstatus # 2 => \A t \in Tests : status[t] # "none"

(* --mutation-check: a value-bearing test that passed without proving an   *)
(* assertion non-vacuous, or was skipped, fails the session.               *)
VacuousFailsSession ==
  (Over /\ MutationCheck) =>
    \A t \in ValueBearing : status[t] # "none" /\ t \notin proven => exitstatus # 0

(* A flaky test is red: a test that failed in one run fails the session,   *)
(* even if it passed in another.                                           *)
FlakyFailsSession ==
  \A t \in Tests : Over /\ {"passed", "failed"} \subseteq calls[t] => exitstatus # 0

(* Report and exit status tell the same story: a test recorded as failed   *)
(* fails the session (no record is left over from a run pytest did not     *)
(* log), unless pytest took an exception for a skip: an expected failure,  *)
(* or a skip in a teardown.  Under a green gate pytest has logged no       *)
(* failure, except for a skipped test whose teardown raised, and for a     *)
(* strict xfail that passed.                                               *)
ReportAndExitAgree ==
  Over => /\ \A t \in Tests \ forgiven : status[t] = "failed" => exitstatus # 0
          /\ GateGreen => \A t \in logged \ Strict : status[t] = "skipped"

=============================================================================
