-------------------------- MODULE PytestPluginProofs --------------------------
(***************************************************************************)
(* Theorems about PytestPlugin, for any tests, any number of runs, with    *)
(* and without --mutation-check and Ctrl-C: no test reads as green that    *)
(* has not passed every run, none is missing from the report, and the      *)
(* report and the exit status tell the same story, but for what pytest     *)
(* forgives and the record does not.                                       *)
(***************************************************************************)
EXTENDS PytestPlugin, TLAPS

-----------------------------------------------------------------------------
(* The inductive invariant *)

InProgress == phase \in {"setup", "call", "teardown", "judge"}

(* A test is in progress, or about to be.  What is pending has left no     *)
(* trace, and the first run of a test finds none.                          *)
ItemInv ==
  /\ InProgress => item \in Tests
  /\ item \notin pending
  /\ \A t \in pending : status[t] = "none" /\ calls[t] = {} /\ t \notin torn \cup logged
  /\ phase \in {"setup", "call", "teardown"} /\ run = 1 => calls[item] = {}

(* A record that says passed is the record of the last call.  While a run  *)
(* is on, it may be the last run's: nothing is said of it then.            *)
PassedInv ==
  /\ PassedInEveryRun
  /\ phase = "teardown" /\ status[item] = "passed" => lastCall = "passed" \/ item \in Strict
  /\ phase = "judge" /\ status[item] = "passed" =>
       /\ lastCall = "passed" \/ item \in Strict
       /\ lastCall \in calls[item] /\ item \notin torn

(* Every run ends with a record. *)
RecordInv ==
  /\ \A t \in Tests : Judged(t) => status[t] # "none"
  /\ phase \in {"teardown", "judge"} => status[item] # "none"

(* What pytest has logged is recorded as no pass, but for a strict xfail;  *)
(* what is recorded as failed when the runs are done was logged or         *)
(* forgiven.  Only the last run logs.                                      *)
LoggedInv ==
  /\ \A t \in logged : status[t] \in {"failed", "quarantined", "skipped"} \/ t \in Strict
  /\ phase \in {"setup", "call"} \/ (phase = "teardown" /\ ~LastRun) => item \notin logged
  /\ \A t \in Tests : Judged(t) /\ status[t] = "failed" => t \in logged \cup forgiven
  /\ (phase = "teardown" /\ LastRun) \/ phase = "judge" =>
       (status[item] = "failed" => item \in logged \cup forgiven)

IInv ==
  /\ TypeOK /\ ItemInv /\ PassedInv /\ RecordInv /\ LoggedInv
  /\ ReportIsComplete /\ VacuousFailsSession /\ ReportAndExitAgree

-----------------------------------------------------------------------------
(* Initially *)

LEMMA Initially == Init => IInv
<1> SUFFICES ASSUME Init PROVE IInv
  OBVIOUS
<1> USE PluginAssumption DEF PluginAssumption
<1>1. TypeOK
  BY DEF Init, TypeOK, CallOutcome
<1>2. ItemInv
  BY DEF Init, ItemInv, InProgress
<1>3. PassedInv /\ RecordInv /\ LoggedInv
  BY DEF Init, PassedInv, PassedInEveryRun, RecordInv, LoggedInv, Judged, LastRun
<1>4. ReportIsComplete /\ VacuousFailsSession /\ ReportAndExitAgree
  BY DEF Init, ReportIsComplete, VacuousFailsSession, ReportAndExitAgree, Over
<1> QED BY <1>1, <1>2, <1>3, <1>4 DEF IInv

-----------------------------------------------------------------------------
(* Types *)

LEMMA TypeStep == ASSUME TypeOK, ItemInv, [Next]_vars PROVE TypeOK'
<1> USE PluginAssumption DEF PluginAssumption, TypeOK, CallOutcome, Exception, recordVars, logVars,
        itemVars
<1>1. CASE Pick
  BY <1>1 DEF Pick
<1>2. CASE Setup
  BY <1>2 DEF Setup, RecordSetup, Record, Log, Reported, LastRun, ItemInv, InProgress
<1>3. CASE Call
  BY <1>3 DEF Call, RecordCall, Record, Log, Reported, LastRun, ItemInv, InProgress
<1>4. CASE Teardown
  BY <1>4 DEF Teardown, Downgrade, Log, Reported, LastRun, ItemInv, InProgress
<1>5. CASE Judge
  BY <1>5 DEF Judge, Disagree, Record, ItemInv, InProgress
<1>6. CASE Finish \/ Interrupt
  BY <1>6 DEF Finish, Interrupt
<1>7. CASE UNCHANGED vars
  BY <1>7 DEF vars
<1> QED BY <1>1, <1>2, <1>3, <1>4, <1>5, <1>6, <1>7 DEF Next

-----------------------------------------------------------------------------
(* The test in progress *)

LEMMA ItemStep == ASSUME TypeOK, ItemInv, [Next]_vars PROVE ItemInv'
<1> USE PluginAssumption DEF PluginAssumption, TypeOK, CallOutcome, Exception, recordVars, logVars,
        itemVars,
        ItemInv, InProgress
<1>1. CASE Pick
  BY <1>1 DEF Pick
<1>2. CASE Setup
  BY <1>2 DEF Setup, RecordSetup, Record, Log, Reported, LastRun
<1>3. CASE Call
  BY <1>3 DEF Call, RecordCall, Record, Log, Reported, LastRun
<1>4. CASE Teardown
  BY <1>4 DEF Teardown, Downgrade, Log, Reported, LastRun
<1>5. CASE Judge
  BY <1>5 DEF Judge, Record
<1>6. CASE Finish \/ Interrupt
  BY <1>6 DEF Finish, Interrupt
<1>7. CASE UNCHANGED vars
  BY <1>7 DEF vars
<1> QED BY <1>1, <1>2, <1>3, <1>4, <1>5, <1>6, <1>7 DEF Next

-----------------------------------------------------------------------------
(* What is recorded as passed *)

LEMMA PassedStep == ASSUME TypeOK, ItemInv, PassedInv, [Next]_vars PROVE PassedInv'
<1> USE PluginAssumption DEF PluginAssumption, TypeOK, CallOutcome, Exception, recordVars, logVars,
        itemVars,
        ItemInv, InProgress, PassedInv, PassedInEveryRun, Judged
<1>1. CASE Pick
  BY <1>1 DEF Pick
<1>2. CASE Setup
  BY <1>2 DEF Setup, RecordSetup, Record, Log, Reported, LastRun
<1>3. CASE Call
  BY <1>3 DEF Call, RecordCall, Record, Log, Reported, LastRun
<1>4. CASE Teardown
  BY <1>4 DEF Teardown, Downgrade, Log, Reported, LastRun
<1>5. CASE Judge
  BY <1>5 DEF Judge, Disagree, Record
<1>6. CASE Finish \/ Interrupt
  BY <1>6 DEF Finish, Interrupt
<1>7. CASE UNCHANGED vars
  BY <1>7 DEF vars
<1> QED BY <1>1, <1>2, <1>3, <1>4, <1>5, <1>6, <1>7 DEF Next

-----------------------------------------------------------------------------
(* Every test has a record *)

LEMMA RecordStep == ASSUME TypeOK, ItemInv, RecordInv, [Next]_vars PROVE RecordInv'
<1> USE PluginAssumption DEF PluginAssumption, TypeOK, CallOutcome, Exception, recordVars, logVars,
        itemVars,
        ItemInv, InProgress, RecordInv, Judged
<1>1. CASE Pick
  BY <1>1 DEF Pick
<1>2. CASE Setup
  BY <1>2 DEF Setup, RecordSetup, Record, Log, Reported, LastRun
<1>3. CASE Call
  BY <1>3 DEF Call, RecordCall, Record, Log, Reported, LastRun
<1>4. CASE Teardown
  BY <1>4 DEF Teardown, Downgrade, Log, Reported, LastRun
<1>5. CASE Judge
  BY <1>5 DEF Judge, Disagree, Record
<1>6. CASE Finish \/ Interrupt
  BY <1>6 DEF Finish, Interrupt
<1>7. CASE UNCHANGED vars
  BY <1>7 DEF vars
<1> QED BY <1>1, <1>2, <1>3, <1>4, <1>5, <1>6, <1>7 DEF Next

-----------------------------------------------------------------------------
(* What pytest logs and what is recorded *)

LEMMA LoggedStep == ASSUME TypeOK, ItemInv, RecordInv, LoggedInv, [Next]_vars PROVE LoggedInv'
<1> USE PluginAssumption DEF PluginAssumption, TypeOK, CallOutcome, Exception, recordVars, logVars,
        itemVars,
        ItemInv, InProgress, RecordInv, LoggedInv, Judged, LastRun
<1>1. CASE Pick
  BY <1>1 DEF Pick
<1>2. CASE Setup
  BY <1>2 DEF Setup, RecordSetup, Record, Log, Reported
<1>3. CASE Call
  BY <1>3 DEF Call, RecordCall, Record, Log, Reported
<1>4. CASE Teardown
  BY <1>4 DEF Teardown, Downgrade, Log, Reported
<1>5. CASE Judge
  BY <1>5 DEF Judge, Disagree, Record
<1>6. CASE Finish \/ Interrupt
  BY <1>6 DEF Finish, Interrupt
<1>7. CASE UNCHANGED vars
  BY <1>7 DEF vars
<1> QED BY <1>1, <1>2, <1>3, <1>4, <1>5, <1>6, <1>7 DEF Next

-----------------------------------------------------------------------------
(* The end of the session *)

(* Nothing happens to a session that is over. *)
LEMMA OverIsOver ==
  ASSUME [Next]_vars, Over PROVE UNCHANGED vars
BY DEF Next, Pick, Setup, Call, Teardown, Judge, Finish, Interrupt, Over

LEMMA EndsByFinishOrInterrupt ==
  ASSUME Next, Over' PROVE Finish \/ Interrupt
BY DEF Next, Pick, Setup, Call, Teardown, Judge, Over, LastRun

(* At the end a test without a record of its proof has none. *)
LEMMA VacuousIsSeen ==
  ASSUME TypeOK, NEW t \in ValueBearing, status[t] # "none", t \notin proven
  PROVE  Vacuous # {}
BY DEF Vacuous, TypeOK

LEMMA EndStep ==
  ASSUME IInv, [Next]_vars
  PROVE  ReportIsComplete' /\ VacuousFailsSession' /\ ReportAndExitAgree'
<1> USE DEF IInv, ReportIsComplete, VacuousFailsSession, ReportAndExitAgree
<1>1. CASE UNCHANGED vars
  BY <1>1 DEF vars, recordVars, logVars, Over, GateGreen
<1>2. CASE Next /\ ~Over'
  BY <1>2
<1>3. CASE Next /\ Over' /\ Finish
  <2>1. ReportIsComplete'
    BY <1>3 DEF Finish, RecordInv, Judged, recordVars
  <2>2. VacuousFailsSession'
    BY <1>3, VacuousIsSeen DEF Finish, recordVars
  <2>3. ReportAndExitAgree'
    BY <1>3 DEF Finish, LoggedInv, Judged, recordVars, logVars, GateGreen, TypeOK
  <2> QED BY <2>1, <2>2, <2>3
<1>4. CASE Next /\ Over' /\ Interrupt
  BY <1>4 DEF Interrupt, LoggedInv, recordVars, logVars, GateGreen, TypeOK
<1> QED BY <1>1, <1>2, <1>3, <1>4, EndsByFinishOrInterrupt

-----------------------------------------------------------------------------

LEMMA Inductive == Spec => []IInv
<1>1. IInv /\ [Next]_vars => IInv'
  BY TypeStep, ItemStep, PassedStep, RecordStep, LoggedStep, EndStep DEF IInv
<1> QED BY <1>1, Initially, PTL DEF Spec

(* Every reachable state of a pytest session is well typed; no test is run *)
(* more often than --reaproof-repeat asks for.                             *)
THEOREM TypeCorrect == Spec => []TypeOK
<1>1. IInv => TypeOK
  BY DEF IInv
<1> QED BY <1>1, Inductive, PTL

(* Never retried to green, however often tests are run and whichever       *)
(* phases skip, fail or err in which run; a strict xfail is excepted.      *)
THEOREM NeverRetriedToGreen == Spec => []PassedInEveryRun
<1>1. IInv => PassedInEveryRun
  BY DEF IInv, PassedInv
<1> QED BY <1>1, Inductive, PTL

(* No test is missing from the report of a session that ran to its end.    *)
THEOREM NoInvisibleTests == Spec => []ReportIsComplete
<1>1. IInv => ReportIsComplete
  BY DEF IInv
<1> QED BY <1>1, Inductive, PTL

(* Under --mutation-check no value-bearing test ends a session with exit   *)
(* status 0 without having proved an assertion non-vacuous.                *)
THEOREM VacuousTestsFail == Spec => []VacuousFailsSession
<1>1. IInv => VacuousFailsSession
  BY DEF IInv
<1> QED BY <1>1, Inductive, PTL

(* Two artifacts, one verdict: report and exit status contradict each      *)
(* other only over an exception that pytest took for a skip and over a     *)
(* strict xfail that passed.                                               *)
THEOREM OneStory == Spec => []ReportAndExitAgree
<1>1. IInv => ReportAndExitAgree
  BY DEF IInv
<1> QED BY <1>1, Inductive, PTL

=============================================================================
