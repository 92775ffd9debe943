----------------------------- MODULE ScriptBattery -----------------------------
(***************************************************************************)
(* The ReaScript battery (runner/scripttest.py).  A Lua script is loaded   *)
(* into a supervised REAPER; what it does later, deferred, races the       *)
(* window of supervision and the snapshot at its end.  Then a REAPER of    *)
(* its own runs the script as an action.                                   *)
(*                                                                         *)
(* traits  lua, nopython (a .py, and the host has no Python), ui (--ui),   *)
(*         noheader                                                        *)
(* flaws   lint, header, loaderror, hangs, defererror, leaks, nowindow,    *)
(*         noaction                                                        *)
(***************************************************************************)
EXTENDS OfflineRender

VARIABLES
  effects,    \* of the script in the open session: "none", "pending", "done"
  panel       \* a ReaScript error panel: "none", "up", "sighted"

scriptVars == <<effects, panel>>

ScriptTypeOK ==
  /\ effects \in {"none", "pending", "done"}
  /\ panel \in {"none", "up", "sighted"}

Verdict(bad) == IF bad THEN "failed" ELSE "passed"

(* luacheck for a Lua script if it is installed, and the ReaPack header.   *)
Metadata(luacheck) ==
  (IF Has("lua")
   THEN {<<"lint", IF luacheck THEN Verdict(Flawed("lint")) ELSE "skipped">>}
   ELSE {}) \cup
  {<<"header", IF Has("noheader") THEN "skipped" ELSE Verdict(Flawed("header"))>>}

(* Static stages; a linter that takes a minute raises.                     *)
ScriptStatic ==
  /\ step = "static"
  /\ \/ /\ Has("nopython")
        /\ Add("battery", "skipped") /\ Emit /\ UNCHANGED <<engine, mishaps>>
     \/ /\ ~Has("nopython") /\ Has("lua")
        /\ Go("load") /\ OpenSession
        /\ \/ AddAll(Metadata(TRUE)) /\ UNCHANGED mishaps
           \/ AddAll(Metadata(FALSE)) /\ Mishap("no tool")
     \/ /\ ~Has("nopython") /\ ~Has("lua")
        /\ AddAll(Metadata(TRUE) \cup {<<"load", "skipped">>})
        /\ Go("register") /\ OpenSession /\ UNCHANGED mishaps
     \/ /\ ~Has("nopython") /\ Has("lua") /\ Mishap("slow tool")
        /\ Raise /\ UNCHANGED <<results, engine>>
  /\ UNCHANGED <<subject, package, renderVars, loopVars, scriptVars>>

(* The session of the load is left for one of the action's own. *)
ToRegister ==
  /\ Go("register") /\ OpenSession
  /\ effects' = "none" /\ panel' = "none"

(* pcall(dofile): an error is a result.  A script that never returns hangs *)
(* REAPER, and the eval raises outside of any try.                         *)
Load ==
  /\ step = "load"
  /\ \/ Flawed("hangs") /\ Raise /\ CloseSession /\ UNCHANGED <<results, scriptVars>>
     \/ Flawed("loaderror") /\ Add("load", "failed") /\ ToRegister
     \/ /\ ~Flawed("hangs") /\ ~Flawed("loaderror")
        /\ Add("load", "passed") /\ Go("settle")
        /\ effects' = "pending" /\ UNCHANGED <<engine, panel>>
  /\ UNCHANGED <<subject, package, mishaps, renderVars, loopVars>>

(* What the script deferred happens; an error stops the defer engine, the  *)
(* bridge's too.                                                           *)
Deferred ==
  /\ step \in {"settle", "snapshot"} /\ effects = "pending"
  /\ effects' = "done"
  /\ panel' = IF Flawed("defererror") THEN "up" ELSE panel
  /\ engine' = IF Flawed("defererror") THEN "hung" ELSE engine
  /\ UNCHANGED <<subject, package, step, results, mishaps, renderVars, loopVars>>

(* The dialog monitor, a thread of its own. *)
Sight ==
  /\ step \in {"settle", "watch"} /\ panel = "up"
  /\ panel' = "sighted"
  /\ UNCHANGED <<batteryVars, renderVars, loopVars, effects>>

Dead == panel = "sighted" \/ engine = "hung"

(* One round: a sighted error panel, or a bridge that does not answer.     *)
Supervise ==
  /\ step = "settle" /\ Dead
  /\ Add("defer", "failed") /\ ToRegister
  /\ UNCHANGED <<subject, package, mishaps, renderVars, loopVars>>

(* The window is over; work deferred for longer than that goes unseen.     *)
WindowEnds ==
  /\ step = "settle"
  /\ IF effects = "done" /\ ~Flawed("defererror") THEN UNCHANGED mishaps
                                                  ELSE Mishap("late")
  /\ Add("defer", "passed") /\ Go("snapshot")
  /\ UNCHANGED <<subject, package, engine, renderVars, loopVars, scriptVars>>

(* hygiene.diff of the two snapshots. *)
Hygiene ==
  {<<"hygiene", Verdict(Flawed("leaks") /\ effects = "done")>>} \cup
  (IF Has("ui") THEN {<<"ui", Verdict(Flawed("nowindow") \/ effects = "pending")>>}
                ELSE {})

(* The second snapshot is an eval outside of any try. *)
Snapshot ==
  /\ step = "snapshot"
  /\ \/ engine = "hung" /\ Raise /\ CloseSession /\ UNCHANGED <<results, scriptVars>>
     \/ engine = "running" /\ AddAll(Hygiene) /\ ToRegister
  /\ UNCHANGED <<subject, package, mishaps, renderVars, loopVars>>

Register ==
  /\ step = "register"
  /\ IF Flawed("noaction")
     THEN Add("registers", "failed") /\ Emit /\ CloseSession /\ UNCHANGED effects
     ELSE Add("registers", "passed") /\ Go("watch") /\ effects' = "pending"
          /\ UNCHANGED engine
  /\ UNCHANGED <<subject, package, mishaps, renderVars, loopVars, panel>>

(* REAPER runs the action some cycles later: an error is a panel.          *)
RunAction ==
  /\ step \in {"watch", "ping"} /\ effects = "pending" /\ engine = "running"
  /\ effects' = "done"
  /\ panel' = IF Flawed("loaderror") \/ Flawed("defererror") THEN "up" ELSE panel
  /\ engine' = IF Flawed("hangs") \/ Flawed("defererror") THEN "hung" ELSE engine
  /\ UNCHANGED <<subject, package, step, results, mishaps, renderVars, loopVars>>

FinishAction(verdict) ==
  /\ Add("action", verdict)
  /\ Emit /\ CloseSession
  /\ effects' = "none" /\ panel' = "none"

(* The window of the action: a panel ends it; then one ping.               *)
Watch ==
  /\ step = "watch"
  /\ \/ panel = "sighted" /\ FinishAction("failed") /\ UNCHANGED mishaps
     \/ /\ panel # "sighted" /\ Go("ping")
        /\ IF effects = "done" /\ panel = "none" THEN UNCHANGED mishaps
                                                 ELSE Mishap("late")
        /\ UNCHANGED <<results, engine, scriptVars>>
  /\ UNCHANGED <<subject, package, renderVars, loopVars>>

(* The verdict is the panel's or the ping's. *)
Ping == Verdict(engine = "hung")

PingAction ==
  /\ step = "ping"
  /\ FinishAction(Ping)
  /\ UNCHANGED <<subject, package, mishaps, renderVars, loopVars>>

ScriptRaises ==
  /\ \/ EvalRaises({"load", "snapshot", "register"}) /\ UNCHANGED renderVars
     \/ NoSession({"load", "register"})
  /\ UNCHANGED <<loopVars, scriptVars>>

ScriptStep ==
  /\ subject.kind = "script"
  /\ \/ ScriptStatic \/ Load \/ Supervise \/ WindowEnds \/ Snapshot
     \/ Register \/ Watch \/ PingAction \/ ScriptRaises

(* REAPER and the monitor, not the battery. *)
ScriptRuns == subject.kind = "script" /\ (Deferred \/ Sight \/ RunAction)

=============================================================================
