----------------------------- MODULE PluginBattery -----------------------------
(***************************************************************************)
(* The battery of compiled plug-ins, .clap, .vst3, .vst                    *)
(* (runner/autotest.py): an external validator, a REAPER that scans the    *)
(* plug-in and instantiates it, then the renders.  No render's length is   *)
(* looked at.                                                              *)
(*                                                                         *)
(* traits  unknown (no plug-in suffix), silent (nothing to hear without    *)
(*         notes), params; the options instrument and nosweep              *)
(* flaws   nonconform, scanhang, crash, noload, sick, stalls, noisy,       *)
(*         varies, param1, param2                                          *)
(***************************************************************************)
EXTENDS OfflineRender

(* A validator that is not there is skipped, one that breaks has failed.   *)
(* detect_format comes first: of an unknown suffix it raises.              *)
Validator ==
  /\ step = "validator"
  /\ \/ Has("unknown") /\ Raise /\ UNCHANGED <<results, mishaps>>
     \/ /\ ~Has("unknown") /\ Go("discover")
        /\ \/ /\ Add("validator", IF Flawed("nonconform") THEN "failed" ELSE "passed")
              /\ UNCHANGED mishaps
           \/ Mishap("no tool") /\ Add("validator", "skipped")
           \/ Mishap("tool breaks") /\ Add("validator", "failed")
  /\ UNCHANGED <<subject, package, engine, renderVars, loopVars>>

PluginPlan ==
  <<"silence", "sine_1k", "determinism">> \o
  (IF Has("params") /\ ~Has("nosweep") THEN Sweeps ELSE <<>>)

(* In the scan cache, and TrackFX_AddByName finds it. *)
Loaded == ~Flawed("noload")

(* `open` comes before the try whose finally kills REAPER.  A REAPER whose *)
(* process is not found within 15 s counts as dead; a subject that hangs   *)
(* the scan or kills REAPER makes the wait raise.                          *)
Discover ==
  /\ step = "discover"
  /\ \/ /\ Mishap("open") /\ Raise
        /\ left' = left \cup {"discovery"} /\ UNCHANGED <<results, loopVars>>
     \/ Mishap("no pid") /\ Raise /\ UNCHANGED <<results, left, loopVars>>
     \/ /\ Flawed("scanhang") \/ Flawed("crash")
        /\ Raise /\ UNCHANGED <<results, mishaps, left, loopVars>>
     \/ /\ ~Flawed("scanhang") /\ ~Flawed("crash") /\ ~Loaded
        /\ Add("load", "failed") /\ Emit /\ UNCHANGED <<mishaps, left, loopVars>>
     \/ /\ ~Flawed("scanhang") /\ ~Flawed("crash") /\ Loaded
        /\ Add("load", "passed") /\ Go("renders")
        /\ todo' = PluginPlan /\ kept' = NoRenders
        /\ UNCHANGED <<mishaps, left>>
  /\ UNCHANGED <<subject, package, engine, render>>

PluginVerdicts(quality) ==
  CASE Label = "determinism" ->
         {{<<Label, s>>} : s \in Determinism(kept["sine_1k"], quality)}
    [] Label = "silence" /\ ~Has("instrument") ->
         {{r, SilenceOut} : r \in Pathology(quality)}
    [] OTHER -> {{r} : r \in Pathology(quality)}

PluginStep ==
  /\ subject.kind = "plugin"
  /\ \/ Validator \/ Discover
     \/ AskRender \/ PassOver \/ TakeRender(PluginVerdicts) \/ AllRendered

=============================================================================
