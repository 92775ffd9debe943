------------------------------- MODULE Battery -------------------------------
(***************************************************************************)
(* What the batteries of `reaproof test` share (runner/*.py): a subject, a *)
(* list of results (report/results.py), the REAPER of the session that is  *)
(* open, and the way a battery ends: it emits its report and returns, or   *)
(* an exception leaves it and there is no report.                          *)
(*                                                                         *)
(* A subject is [kind, traits, flaws].  Traits are what it is and has, and *)
(* the options of the command; flaws are defects, which a result ought to  *)
(* name.  Mishaps are events outside of the subject that promises except;  *)
(* MaxMishaps bounds them.                                                 *)
(***************************************************************************)
EXTENDS Naturals, Sequences, FiniteSets

CONSTANTS
  Subjects,    \* [kind, traits, flaws]
  MaxMishaps

ASSUME MishapAssumption == MaxMishaps \in Nat

VARIABLES
  subject,   \* what is tested
  package,   \* the number of the repository's package that is, 0: none
  step,      \* what the battery does next
  results,   \* the results so far, <<package, name, status>>
  engine,    \* REAPER of the open session: "none", "running", "hung"
  mishaps    \* those that have happened

batteryVars == <<subject, package, step, results, engine, mishaps>>

Status == {"passed", "failed", "skipped"}

Has(trait) == trait \in subject.traits
Flawed(flaw) == flaw \in subject.flaws

Mishap(m) ==
  /\ Cardinality(mishaps) < MaxMishaps \/ m \in mishaps
  /\ mishaps' = mishaps \cup {m}

Result(name, status) == <<package, name, status>> \in results

-----------------------------------------------------------------------------

(* A run that proves nothing is not green. *)
GateGreen(rs) ==
  /\ \E r \in rs : r[3] = "passed"
  /\ \A r \in rs : r[3] \in {"passed", "skipped"}

AddAll(rs) == results' = results \cup {<<package, r[1], r[2]>> : r \in rs}
Add(name, status) == AddAll({<<name, status>>})

Go(next) == step' = next

(* The battery writes its report and returns: to the command line, or to   *)
(* the repository battery.                                                 *)
Emit == step' = IF package = 0 THEN "emitted" ELSE "packaged"

(* An exception leaves the battery, and whatever called it. *)
Raise == step' = "aborted"

(* `with ReaperSession(...)`: entered with a fresh REAPER, left without.    *)
OpenSession == engine' = "running"
CloseSession == engine' = "none"

(* An eval outside of any try when REAPER died under it, no one's fault.   *)
EvalRaises(steps) ==
  /\ step \in steps
  /\ Mishap("died")
  /\ Raise /\ CloseSession
  /\ UNCHANGED <<subject, package, results>>

Over == step \in {"exited", "killed"}

=============================================================================
