--------------------------- MODULE AudioUnitBattery ---------------------------
(***************************************************************************)
(* The Audio Unit battery (runner/aubattery.py).  macOS finds components   *)
(* only where it scans, so one that is not registered is copied into the   *)
(* user's components directory for the run and removed afterwards.  The    *)
(* process may be killed and the command run again, on a subject that was  *)
(* rebuilt in the meantime: the directory outlives the run.                *)
(*                                                                         *)
(* auval and REAPER find a component by its codes.  Which build they get,  *)
(* when several have the codes, is for macOS to say; from then on that     *)
(* build is `subject`, what is tested, whatever the command was given.     *)
(*                                                                         *)
(* traits  registered (the codes are, by another build), scanned (the      *)
(*         subject lies where macOS scans), many (more than one component),*)
(*         noninsertable, instrument; the option quick                     *)
(* flaws   manifest, invalid, invalid2 (the last of many), noload, sick,   *)
(*         stalls, varies                                                  *)
(***************************************************************************)
EXTENDS OfflineRender

CONSTANTS
  MaxComponents,  \* the cap on auval runs
  MaxRuns         \* times the command is run

ASSUME ComponentAssumption ==
  MaxComponents \in Nat \ {0} /\ MaxRuns \in Nat \ {0}

VARIABLES
  copy,       \* <stem>_RP.component: what there is of it, with which defects
  mine,       \* installed_copy: this run removes it
  tested,     \* the build under test: "own", "another", "stale", or "none"
  run         \* the run of the command

auVars == <<copy, mine, tested, run>>

NoCopy == [what |-> "none", flaws |-> {}]

AuTypeOK ==
  /\ copy \in [what : {"none", "partial", "whole"},
                flaws : {{}} \cup {s.flaws : s \in Subjects}]
  /\ mine \in BOOLEAN
  /\ tested \in {"none", "another", "own", "stale"}
  /\ run \in 1..MaxRuns

Manifest ==
  /\ step = "manifest"
  /\ IF Flawed("manifest") THEN Add("manifest", "failed") /\ Emit
                           ELSE Add("manifest", "passed") /\ Go("install")
  /\ UNCHANGED <<subject, package, engine, mishaps, renderVars, loopVars, auVars>>

MutAnswering ==
  {b \in {"own", "another", "stale"} :
     CASE b = "own" -> Has("scanned")
       [] b = "another" -> Has("registered")
       [] b = "stale" -> copy.what # "none"}
(* The builds registered for the codes before anything is installed.       *)
Answering ==
  {b \in {"own", "another", "stale"} :
     CASE b = "own" -> Has("scanned")
       [] b = "another" -> Has("registered")
       [] b = "stale" -> copy.what = "whole"}

(* What there may be of each. *)
Builds(b) ==
  {s \in Subjects :
     /\ s.kind = "au" /\ s.traits = subject.traits
     /\ CASE b = "own" -> s = subject
          [] b = "another" -> TRUE
          [] b = "stale" -> s.flaws = copy.flaws}

Tests(b, build) == tested' = b /\ subject' = build

(* The probe's auval fails: nothing has the codes, or what has them does   *)
(* not validate, and may still be what answers when the copy is there.     *)
Unregistered(b, build) ==
  \/ Answering = {} /\ b = "own" /\ build = subject
  \/ \E other \in Answering : \E found \in Builds(other) :
       /\ "invalid" \in found.flaws
       /\ \/ b = "own" /\ build = subject
          \/ other = "another" /\ b = other /\ build = found

(* A copy that fails half-way is not recorded, and so not removed.         *)
Install ==
  /\ step = "install"
  /\ \/ /\ \E b \in Answering : \E build \in Builds(b) :
             ("invalid" \notin build.flaws \/ Has("scanned")) /\ Tests(b, build)
        /\ Add("install", "passed") /\ Go("validate")
        /\ UNCHANGED <<mishaps, copy, mine>>
     \/ /\ ~Has("scanned")
        /\ \E b \in {"own", "another"} : \E build \in Builds(b) :
             Unregistered(b, build) /\ Tests(b, build)
        /\ copy' = [what |-> "whole", flaws |-> subject.flaws] /\ mine' = TRUE
        /\ Add("install", "passed") /\ Go("validate") /\ UNCHANGED mishaps
     \/ /\ ~Has("scanned")
        /\ \E build \in Builds("own") : Unregistered("own", build)
        /\ Mishap("copy")
        /\ copy' = [what |-> "partial", flaws |-> subject.flaws]
        /\ Add("install", "failed") /\ Emit /\ UNCHANGED <<subject, mine, tested>>
     \/ /\ Mishap("no tool")                \* auval is not there: no OSError
        /\ Raise                            \* of this is caught
        /\ UNCHANGED <<subject, results, copy, mine, tested>>
  /\ UNCHANGED <<package, engine, renderVars, loopVars, run>>

Components == IF Has("many") THEN MaxComponents + 1 ELSE 1

(* What the cap leaves out is named in the report. *)
CapSkip == IF Components > MaxComponents THEN {<<"budget", "skipped">>} ELSE {}

(* auval, in the order of the manifest, up to the cap. *)
Auval(n) ==
  <<"auval", IF Flawed("invalid") \/ (n > MaxComponents /\ Flawed("invalid2"))
             THEN "failed" ELSE "passed">>

Validated == {n \in 1..Components : n <= MaxComponents}

Validate ==
  /\ step = "validate"
  /\ AddAll(CapSkip \cup {Auval(n) : n \in Validated} \cup
            (IF Has("noninsertable") THEN {<<"load", "skipped">>} ELSE {}))
  /\ Go(IF Has("noninsertable") THEN "remove" ELSE "load")
  /\ UNCHANGED <<subject, package, engine, mishaps, renderVars, loopVars, auVars>>

(* The load in a session; an exception unwinds through the finally.  With  *)
(* --quick there is no render, and no result says so.                      *)
LoadUnit ==
  /\ step = "load"
  /\ \/ Mishap("died") /\ Go("unwind") /\ UNCHANGED <<results, left, loopVars>>
     \/ /\ \E m \in {"open", "no pid"} : Mishap(m)
        /\ left' = left \cup {"session"} /\ Go("unwind")
        /\ UNCHANGED <<results, loopVars>>
     \/ /\ Flawed("noload") /\ Add("load", "failed") /\ Go("remove")
        /\ UNCHANGED <<mishaps, left, loopVars>>
     \/ /\ ~Flawed("noload") /\ (Has("instrument") \/ Has("quick"))
        /\ AddAll({<<"load", "passed">>} \cup
                  (IF Has("quick") THEN {} ELSE {<<"renders", "skipped">>}))
        /\ Go("remove") /\ UNCHANGED <<mishaps, left, loopVars>>
     \/ /\ ~Flawed("noload") /\ ~Has("instrument") /\ ~Has("quick")
        /\ Add("load", "passed") /\ Go("renders")
        /\ todo' = <<"sine_1k", "determinism">> /\ kept' = NoRenders
        /\ UNCHANGED <<mishaps, left>>
  /\ UNCHANGED <<subject, package, engine, render, auVars>>

UnitVerdicts(quality) ==
  IF Label = "determinism"
  THEN {{<<Label, s>>} : s \in Determinism(kept["sine_1k"], quality)}
  ELSE {{r} : r \in Pathology(quality)}

UnitsRendered ==
  /\ step = "renders" /\ todo = <<>>
  /\ Go("remove")
  /\ UNCHANGED <<subject, package, results, engine, mishaps, renderVars, loopVars>>

MutRestored == copy
(* The finally of what Install did. *)
Restored == IF mine THEN NoCopy ELSE copy

(* rmtree ignores its errors. *)
Remove ==
  /\ step \in {"remove", "unwind"}
  /\ IF step = "remove" THEN Emit ELSE Raise
  /\ \/ copy' = Restored /\ UNCHANGED mishaps
     \/ mine /\ Mishap("rmtree") /\ UNCHANGED copy
  /\ mine' = FALSE
  /\ UNCHANGED <<subject, package, results, engine, renderVars, loopVars, tested, run>>

UnitStep ==
  /\ subject.kind = "au"
  /\ \/ Manifest \/ Install \/ Validate \/ LoadUnit \/ Remove
     \/ (\/ AskRender \/ PassOver \/ TakeRender(UnitVerdicts) \/ UnitsRendered)
        /\ UNCHANGED auVars

-----------------------------------------------------------------------------
(* The command is killed, with the REAPER it started or without it. *)
KillCommand ==
  /\ subject.kind = "au"
  /\ step \in {"validate", "load", "remove"}
  /\ Mishap("killed")
  /\ step' = "killed" /\ mine' = FALSE
  /\ UNCHANGED <<subject, package, results, engine, renderVars, loopVars, copy, tested, run>>

=============================================================================
