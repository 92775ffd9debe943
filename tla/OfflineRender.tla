---------------------------- MODULE OfflineRender ----------------------------
(***************************************************************************)
(* One offline render (observe/audio/render.py): a REAPER builds the       *)
(* project under the bridge and is stopped; a second one, the renderer,    *)
(* writes the output, which the first process polls until it is stable.    *)
(* The renderer is another process: it writes when it likes, straggles     *)
(* after it is done, and stops half-way through a subject that stalls.     *)
(*                                                                         *)
(* A render ends "full", "cut" (a truncated file was taken for complete)   *)
(* or "raised"; the battery that asked for it goes on from there.          *)
(***************************************************************************)
EXTENDS Battery

CONSTANTS
  Threshold,  \* blocks of output that fit into 1024 bytes
  Full,       \* blocks of a complete render
  Params,     \* parameters that can be swept
  MaxParams   \* --max-params

ASSUME RenderAssumption ==
  /\ Threshold \in Nat /\ Full \in Nat /\ Threshold < Full
  /\ Params \in Nat /\ MaxParams \in Nat

VARIABLES
  render,     \* at: place in the code; size: blocks in the output file;
              \* mark: size at the first of two looks; renderer: is it there
  left,       \* REAPERs that run on and that nobody will stop any more
  todo,       \* renders still to be made
  kept        \* renders kept for a comparison, label -> quality

renderVars == <<render, left>>
loopVars == <<todo, kept>>

Idle == [at |-> "idle", size |-> 0, mark |-> 0, renderer |-> FALSE]

RenderTypeOK ==
  /\ render \in [at : {"idle", "host", "write", "build", "open", "poll", "settle",
                       "full", "cut", "raised"},
                 size : 0..Full, mark : 0..Full, renderer : BOOLEAN]
  /\ left \subseteq {"session", "host", "renderer", "discovery"}
  /\ kept \in [{"sine_1k", "midi"} -> {"none", "full", "cut"}]
  /\ Len(todo) <= 6 + MaxParams

NoRenders == [label \in {"sine_1k", "midi"} |-> "none"]

Label == Head(todo)

(* Swept are the first MaxParams: the others only show in the log. *)
Sweeps == [p \in 1..(IF MaxParams < Params THEN MaxParams ELSE Params) |->
             IF p = 1 THEN "param1" ELSE "param2"]

RenderEnded == render.at \in {"full", "cut", "raised"}

RenderGoes(next) == render' = [render EXCEPT !.at = next]

(* `with ReaperSession(...)` of a battery raises on entry, and the REAPER  *)
(* that was started, but not found, comes up all the same.                 *)
NoSession(steps) ==
  /\ step \in steps
  /\ \E m \in {"open", "no pid"} : Mishap(m)
  /\ left' = left \cup {"session"}
  /\ Raise /\ CloseSession
  /\ UNCHANGED <<subject, package, results, render>>

(* A compiled plug-in: profile, copy of the plug-in and input file come    *)
(* before the launch; a JSFX or AU gets a session first.                   *)
StartRender == RenderGoes(IF subject.kind = "plugin" THEN "write" ELSE "host")

(* The launch comes before the try whose finally stops REAPER: `open` may  *)
(* fail or time out, or the process not be found, with a REAPER that comes *)
(* up.  A session that fails to become ready stops its own.                *)
Host ==
  /\ render.at = "host"
  /\ \/ /\ OpenSession
        /\ RenderGoes(IF subject.kind = "plugin" THEN "build" ELSE "write")
        /\ UNCHANGED <<mishaps, left>>
     \/ /\ \E m \in {"open", "no pid"} : Mishap(m)
        /\ left' = left \cup {"host"}
        /\ RenderGoes("raised") /\ UNCHANGED engine
     \/ /\ subject.kind # "plugin" /\ Mishap("died")
        /\ RenderGoes("raised") /\ UNCHANGED <<engine, left>>
  /\ UNCHANGED <<subject, package, step, results, loopVars>>

(* sf.write of the input is outside of the try whose finally stops REAPER: *)
(* the session that is there runs on, and nothing refers to it any more.   *)
WriteInput ==
  /\ render.at = "write"
  /\ \/ /\ RenderGoes(IF subject.kind = "plugin" THEN "host" ELSE "build")
        /\ UNCHANGED <<engine, mishaps, left>>
     \/ /\ Mishap("disk full")
        /\ RenderGoes("raised")
        /\ left' = IF engine = "running" THEN left \cup {"session"} ELSE left
        /\ engine' = "none"
  /\ UNCHANGED <<subject, package, step, results, loopVars>>

MutBuildEnds == UNCHANGED engine
(* finally: s.stop(), prov.terminate(handle) *)
BuildEnds == CloseSession

Build ==
  /\ render.at = "build"
  /\ \/ RenderGoes("open") /\ BuildEnds /\ UNCHANGED <<mishaps, left>>
     \/ /\ Mishap("died") /\ RenderGoes("raised")
        /\ BuildEnds
        /\ left' = IF engine' = "running" THEN left \cup {"session"} ELSE left
  /\ UNCHANGED <<subject, package, step, results, loopVars>>

(* `open` may start a REAPER and still fail or time out: that is before    *)
(* the try whose finally reaps the renderer.                               *)
OpenRenderer ==
  /\ render.at = "open"
  /\ \/ /\ render' = [render EXCEPT !.at = "poll", !.renderer = TRUE]
        /\ UNCHANGED <<mishaps, left>>
     \/ /\ Mishap("open") /\ left' = left \cup {"renderer"}
        /\ RenderGoes("raised")
  /\ UNCHANGED <<subject, package, step, results, engine, loopVars>>

MutReap == render.renderer
(* _reap_render, in the finally of the wait. *)
Reap == FALSE

Leave(result) ==
  /\ render' = [render EXCEPT !.at = result, !.renderer = Reap]
  /\ left' = IF Reap THEN left \cup {"renderer"} ELSE left

(* First look: a file that is large enough is looked at again. *)
Poll ==
  /\ render.at = "poll" /\ render.size > Threshold
  /\ render' = [render EXCEPT !.at = "settle", !.mark = render.size]
  /\ UNCHANGED <<batteryVars, left, loopVars>>

(* Second look: the same size counts as complete.  sf.read of a truncated  *)
(* file returns fewer samples, or raises.                                  *)
Settle ==
  /\ render.at = "settle"
  /\ \/ /\ render.size # render.mark
        /\ RenderGoes("poll") /\ UNCHANGED <<left, mishaps>>
     \/ /\ render.size = render.mark /\ render.size = Full
        /\ Leave("full") /\ UNCHANGED mishaps
     \/ /\ render.size = render.mark /\ render.size < Full
        /\ \E result \in {"cut", "raised"} : Leave(result)
        /\ IF Flawed("stalls") THEN UNCHANGED mishaps ELSE Mishap("pause")
  /\ UNCHANGED <<subject, package, step, results, engine, loopVars>>

MutOutOfTime == render.at = "poll" /\ render.size = 0
(* No output that counts within the timeout. *)
OutOfTime == render.at = "poll"

Deadline ==
  /\ OutOfTime
  /\ Leave("raised")
  /\ IF Flawed("stalls") THEN UNCHANGED mishaps ELSE Mishap("slow")
  /\ UNCHANGED <<subject, package, step, results, engine, loopVars>>

RenderStep ==
  Host \/ WriteInput \/ Build \/ OpenRenderer \/ Poll \/ Settle \/ Deadline

(* The renderer, a process of its own; a subject that stalls stops it      *)
(* before the end, sooner or later.                                        *)
Reach == IF Flawed("stalls") THEN Full - 1 ELSE Full

RendererWrites ==
  /\ render.renderer /\ render.size < Reach
  /\ render' = [render EXCEPT !.size = @ + 1]
  /\ UNCHANGED <<batteryVars, left, loopVars>>

-----------------------------------------------------------------------------
(* The loop over the renders of a plan, and the verdicts on them: shared   *)
(* by autotest.py and the batteries that import it.                        *)

(* A second render wants the first to be there, and to be heard. *)
Needed == CASE Label = "midi again" -> kept["midi"] # "none" /\ ~Flawed("mute")
            [] Label = "determinism" -> kept["sine_1k"] # "none"
            [] OTHER -> TRUE

RenderDue == step = "renders" /\ todo # <<>> /\ render.at = "idle"

AskRender ==
  /\ RenderDue /\ Needed
  /\ StartRender
  /\ UNCHANGED <<batteryVars, left, loopVars>>

PassOver ==
  /\ RenderDue /\ ~Needed
  /\ todo' = Tail(todo)
  /\ UNCHANGED <<batteryVars, renderVars, kept>>

(* Verdicts(q): the sets of results that a render of quality q may be      *)
(* given.  A render that raises is a failure, and the next one is made.    *)
TakeRender(Verdicts(_)) ==
  /\ step = "renders" /\ RenderEnded
  /\ render' = Idle /\ todo' = Tail(todo)
  /\ IF render.at = "raised"
     THEN Add(Label, "failed") /\ UNCHANGED kept
     ELSE /\ \E rs \in Verdicts(render.at) : AddAll(rs)
          /\ kept' = IF Label = "sine_1k" \/ (Label = "midi" /\ render.at = "full")
                     THEN [kept EXCEPT ![Label] = render.at] ELSE kept
  /\ UNCHANGED <<subject, package, step, engine, mishaps, left>>

AllRendered ==
  /\ step = "renders" /\ todo = <<>>
  /\ Emit
  /\ UNCHANGED <<subject, package, results, engine, mishaps, renderVars, loopVars>>

(* _mut_pathology on the samples there are: a truncated render of a sick   *)
(* subject may end before it gets sick.                                    *)
Pathology(quality) ==
  IF Flawed("sick") \/ Flawed(Label)
  THEN {<<Label, "failed">>} \cup
       (IF quality = "cut" THEN {<<Label, "passed">>} ELSE {})
  ELSE {<<Label, "passed">>}

SilenceOut == <<"silence out", IF Flawed("noisy") THEN "failed" ELSE "passed">>

(* _mut_determinism: unequal lengths raise; silence nulls against anything *)
(* and is vacuous.  Two truncated renders may or may not be equally long.  *)
Determinism(first, second) ==
  IF first # second \/ Has("silent") \/ Flawed("varies") THEN {"failed"}
  ELSE IF first = "cut" \/ Flawed("sick") THEN {"passed", "failed"}
  ELSE {"passed"}

=============================================================================
