--------------------------- MODULE ExtensionBattery ---------------------------
(***************************************************************************)
(* `reaproof test reaper_x.dylib` (runner/exttest.py): is the extension    *)
(* named as REAPER expects, is it loaded, does it register anything; and,  *)
(* with --run-actions, every action it registered is run in REAPER,        *)
(* deferred, between two hygiene snapshots, while a DialogMonitor thread   *)
(* (observe/watchdog.py) watches for modal panels, which block the bridge. *)
(* Three actors:                                                           *)
(*                                                                         *)
(*   the battery, which reaches REAPER only by evals; an eval raises when  *)
(*   the engine does not serve it (FileQueue: BridgeHang, BridgeCrash);    *)
(*   REAPER's main thread, which runs deferred actions before it serves    *)
(*   the next eval, and may be blocked, hung or dead after one;            *)
(*   the monitor, which records every panel it sees.                       *)
(***************************************************************************)
EXTENDS Integers

CONSTANTS
  Last,     \* the actions are 1..Last, in the order they are run
  Kinds,    \* how the actions may be registered
  Effects   \* what running an action may do

ASSUME BatteryAssumption ==
  /\ Last \in Nat \ {0}
  /\ Kinds \subseteq {"named",       \* found by its command name
                      "elsewhere",   \* in another section, or without a name
                      "unresolved"}  \* its name leads to no command
  /\ Effects \subseteq {"clean",   \* nothing that is left behind
                        "leak",    \* REAPER's state is changed for good
                        "panel",   \* a modal panel opens and blocks
                        "late",    \* ... some time after the action is done
                        "lateleak", \* the change comes with a timer of its own
                        "hang",    \* the main thread never comes back
                        "die"}     \* the process dies

Action == 1..Last

VARIABLES
  subject,    \* [named, loads, actions, apis, run]: is the file named reaper_*,
              \* is it loaded, does it register actions and API functions, is
              \* --run-actions given
  kind,       \* kind[a]: how action a is registered
  stages,     \* results of the stages before the actions: <<stage, status>>
  step,       \* what the battery does next
  at,         \* the action it is at
  before,     \* the hygiene snapshot taken before it
  report,     \* report[a]: its result, with the verdict of a failure
  engine,     \* "running", "blocked" (by a panel), "hung" or "dead"
  deferred,   \* action deferred and not run yet (0: none)
  effect,     \* history: effect[a], what running a did ("none": not run)
  panels,     \* modal panels on screen, named by the action that opened them
  leaked,     \* state changes left behind, named the same way
  sightings   \* panels the monitor has recorded

subjectVars == <<subject, kind>>
loopVars == <<at, before, report>>
batteryVars == <<subjectVars, stages, step, loopVars>>
reaperVars == <<engine, deferred, effect, panels, leaked>>
vars == <<batteryVars, reaperVars, sightings>>

Verdict == {"process died", "modal panel", "engine blocked", "state leak", "unresolved"}

TypeOK ==
  /\ subject \in [{"named", "loads", "actions", "apis", "run"} -> BOOLEAN]
  /\ kind \in [Action -> Kinds]
  /\ stages \subseteq {"naming", "load", "register"} \X {"passed", "failed", "skipped"}
  /\ step \in {"naming", "baseline", "load", "lookup", "before", "send", "watch", "ping", "diff", "emitted", "aborted"}
  /\ at \in Action
  /\ before \subseteq Action /\ leaked \subseteq Action
  /\ report \in [Action -> {"none", "passed", "skipped"} \cup Verdict]
  /\ engine \in {"running", "blocked", "hung", "dead"}
  /\ deferred \in {0} \cup Action
  /\ effect \in [Action -> {"none"} \cup Effects]
  /\ panels \subseteq Action /\ sightings \subseteq Action

Init ==
  /\ subject \in [{"named", "loads", "actions", "apis", "run"} -> BOOLEAN]
  /\ kind \in [Action -> Kinds] /\ stages = {}
  /\ step = "naming" /\ at = 1 /\ before = {}
  /\ report = [a \in Action |-> "none"]
  /\ engine = "running" /\ deferred = 0 /\ effect = [a \in Action |-> "none"]
  /\ panels = {} /\ leaked = {} /\ sightings = {}

-----------------------------------------------------------------------------
(* The battery *)

EvalServed == engine = "running" /\ deferred = 0

MutEvalRaises == engine = "dead"
EvalRaises == engine # "running"

To(next) == step' = next /\ UNCHANGED <<subjectVars, stages>>

(* An exception leaves the battery: no result and no report is written.    *)
Abort == To("aborted") /\ UNCHANGED loopVars

(* REAPER silently ignores an extension that is not named reaper_*.        *)
Naming ==
  /\ step = "naming"
  /\ stages' = {<<"naming", IF subject.named THEN "passed" ELSE "failed">>}
  /\ step' = IF subject.named THEN "baseline" ELSE "emitted"
  /\ UNCHANGED <<subjectVars, loopVars, reaperVars, sightings>>

(* Actions and APIs of a REAPER without the extension; a session may fail. *)
Baseline ==
  /\ step = "baseline"
  /\ To("load") \/ To("aborted")
  /\ UNCHANGED <<loopVars, reaperVars, sightings>>

(* REAPER with the extension: was it loaded, and what is new?  An          *)
(* extension of hooks only registers nothing that could be seen.           *)
Registered == IF subject.actions \/ subject.apis THEN "passed"
              ELSE IF subject.loads THEN "skipped" ELSE "failed"

Load ==
  /\ step = "load"
  /\ \/ /\ stages' = stages \cup {<<"load", IF subject.loads THEN "passed" ELSE "failed">>,
                                  <<"register", Registered>>}
        /\ step' = IF subject.run /\ subject.actions THEN "lookup" ELSE "emitted"
        /\ UNCHANGED subjectVars
     \/ To("aborted")
  /\ UNCHANGED <<loopVars, reaperVars, sightings>>

MutIsLast == at > Last
IsLast == at = Last

(* The loop goes on with the next action, or the report is emitted.        *)
Result(verdict, breaks) ==
  /\ report' = [report EXCEPT ![at] = verdict]
  /\ IF IsLast \/ breaks THEN To("emitted") /\ UNCHANGED at
                          ELSE To("lookup") /\ at' = at + 1
  /\ UNCHANGED before

(* An action that cannot be run is named, and no eval is made for it.      *)
Skip ==
  /\ step = "lookup" /\ kind[at] = "elsewhere"
  /\ Result("skipped", FALSE)
  /\ UNCHANGED <<reaperVars, sightings>>

(* An eval outside of any try: NamedCommandLookup, the snapshot before, or *)
(* the deferral of the action.                                             *)
Lookup ==
  /\ step = "lookup" /\ kind[at] # "elsewhere"
  /\ \/ EvalServed /\ kind[at] = "named" /\ To("before") /\ UNCHANGED loopVars
     \/ EvalServed /\ kind[at] = "unresolved" /\ Result("unresolved", FALSE)
     \/ EvalRaises /\ Abort
  /\ UNCHANGED <<reaperVars, sightings>>

MutSnapshot == {}
Snapshot == leaked

MutTakeBefore == UNCHANGED before
TakeBefore == before' = Snapshot

Before ==
  /\ step = "before"
  /\ \/ EvalServed /\ To("send") /\ TakeBefore /\ UNCHANGED <<at, report>>
     \/ EvalRaises /\ Abort
  /\ UNCHANGED <<reaperVars, sightings>>

Send ==
  /\ step = "send"
  /\ \/ /\ EvalServed
        /\ deferred' = at /\ To("watch") /\ UNCHANGED loopVars
     \/ EvalRaises /\ Abort /\ UNCHANGED deferred
  /\ UNCHANGED <<engine, effect, panels, leaked, sightings>>

(* A failed action: dismiss() tries to close the panels, and its result is *)
(* not looked at; a process found dead afterwards ends the loop.           *)
FailAction(verdict) ==
  /\ \/ panels' = {} /\ engine' = IF engine = "blocked" THEN "running" ELSE engine
     \/ panels # {} /\ UNCHANGED <<panels, engine>>
  /\ Result(verdict, engine' = "dead")
  /\ UNCHANGED <<deferred, effect, leaked, sightings>>

PanelSeen == sightings # {}

(* An iteration of the settle loop. *)
Watch ==
  /\ step = "watch"
  /\ \/ engine = "dead" /\ FailAction("process died")
     \/ engine # "dead" /\ PanelSeen /\ FailAction("modal panel")
     \/ /\ To("ping")          \* the settle time is over
        /\ UNCHANGED <<loopVars, reaperVars, sightings>>

(* return 1, with a short timeout. *)
Ping ==
  /\ step = "ping"
  /\ \/ EvalServed /\ To("diff") /\ UNCHANGED <<loopVars, reaperVars, sightings>>
     \/ EvalRaises /\ FailAction("engine blocked")

Diff ==
  /\ step = "diff"
  /\ UNCHANGED <<reaperVars, sightings>>
  /\ \/ EvalServed /\ Result(IF Snapshot # before THEN "state leak" ELSE "passed", FALSE)
     \/ EvalRaises /\ Abort

BatteryStep == Naming \/ Baseline \/ Load \/ Skip \/ Lookup \/ Before \/ Send \/ Watch \/ Ping \/ Diff

-----------------------------------------------------------------------------
(* REAPER and the monitor *)

Open(a) == panels' = panels \cup {a} /\ engine' = "blocked"

RunDeferred ==
  /\ engine = "running" /\ deferred # 0
  /\ \E e \in Effects :
       /\ effect' = [effect EXCEPT ![deferred] = e]
       /\ leaked' = IF e = "leak" THEN leaked \cup {deferred} ELSE leaked
       /\ CASE e = "panel" -> Open(deferred)
            [] e = "hang"  -> engine' = "hung" /\ UNCHANGED panels
            [] e = "die"   -> engine' = "dead" /\ panels' = {}
            [] OTHER       -> UNCHANGED <<engine, panels>>
  /\ deferred' = 0
  /\ UNCHANGED <<batteryVars, sightings>>

(* A panel an action brings up when the action itself is long done. *)
LatePanel ==
  /\ engine = "running"
  /\ \E a \in Action :
       /\ effect[a] = "late" /\ a \notin sightings
       /\ Open(a)
  /\ UNCHANGED <<batteryVars, deferred, effect, leaked, sightings>>

(* A timer of an action, which changes REAPER's state for good when the    *)
(* action itself is long done.                                             *)
LateLeak ==
  /\ engine = "running"
  /\ \E a \in Action :
       /\ effect[a] = "lateleak" /\ a \notin leaked
       /\ leaked' = leaked \cup {a}
  /\ UNCHANGED <<batteryVars, engine, deferred, effect, panels, sightings>>

(* DialogMonitor._run, one poll: every panel on screen is recorded.        *)
Monitor ==
  /\ step \notin {"emitted", "aborted"}
  /\ ~(panels \subseteq sightings)
  /\ sightings' = sightings \cup panels
  /\ UNCHANGED <<batteryVars, reaperVars>>

Next == BatteryStep \/ RunDeferred \/ LatePanel \/ LateLeak \/ Monitor

Spec == Init /\ [][Next]_vars

(* The battery's thread runs, and so does REAPER's while it can. *)
FairSpec == Spec /\ WF_vars(BatteryStep) /\ WF_vars(RunDeferred)

-----------------------------------------------------------------------------
(* Properties *)

Green ==
  /\ step = "emitted"
  /\ \A r \in stages : r[2] # "failed"
  /\ \A a \in Action : report[a] \notin Verdict

(* No hollow pass: an action reported as passed was run, and neither       *)
(* opened a panel, nor left state behind, nor hung or killed REAPER,       *)
(* unless it did so late; and a green report is about an extension that    *)
(* REAPER loads and all of whose actions were run, the skipped ones        *)
(* excepted.                                                               *)
PassedIsClean ==
  /\ \A a \in Action : report[a] = "passed" => effect[a] \in {"clean", "late", "lateleak"}
  /\ Green => /\ subject.named /\ subject.loads
              /\ (subject.run /\ subject.actions) =>
                   \A a \in Action : report[a] = "passed" \/ kind[a] = "elsewhere"

(* A state leak is blamed on the action that left it, also when earlier    *)
(* actions leaked, or were given up on before they had run.  A change that *)
(* a timer makes late may land between the snapshots of any later action,  *)
(* and be blamed on that one: only then may the blame be wrong.            *)
LeakBlame ==
  \A a \in Action : report[a] = "state leak" =>
    effect[a] = "leak" \/ \E b \in leaked : b <= a /\ effect[b] = "lateleak"

(* The battery comes to an end, whatever the actions do to REAPER.         *)
BatteryEnds == <>(step \in {"emitted", "aborted"})

(* A modal panel is blamed on the action that opened it.                   *)
PanelBlame ==
  \A a \in Action : report[a] = "modal panel" => effect[a] \in {"panel", "late"}

=============================================================================
