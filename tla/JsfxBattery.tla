----------------------------- MODULE JsfxBattery -----------------------------
(***************************************************************************)
(* The JSFX battery (runner/jsfxtest.py): static parse, compile proof,     *)
(* parameters, factory reset, @serialize and the previous release's state  *)
(* in one session, then the renders.                                       *)
(*                                                                         *)
(* Factory reset is decided by comparing the FX chunk before a tweak with  *)
(* the chunk of a removed and re-added instance.  @init of an instance     *)
(* runs on the audio thread, some time after the instance is there, and    *)
(* may show in the chunk; so may what a leaking subject reads back.  The   *)
(* chunk has a line of the sliders and the payload of @serialize.          *)
(*                                                                         *)
(* traits  nojs (no js_ReaScriptAPI in the profile), sliders (that can be  *)
(*         tweaked), deaf (the chunk does not show a tweak), initshows     *)
(*         (in the sliders' line), initsaves (in the payload), nochannel   *)
(*         (what leaks has no way into the chunk, as on Linux), serialize, *)
(*         nopayload, oddblock (its block is not found in the chunk),      *)
(*         prevchunk, noaudio, midi, silent (without notes); the options   *)
(*         quick and nosweep                                               *)
(* flaws   missing (reference), compile, params, leaks, volatile, wedges,  *)
(*         halfread, oldstate, sick, stalls, noisy, varies, mute, param1,  *)
(*         param2 (a parameter that cannot take its whole range)           *)
(***************************************************************************)
EXTENDS OfflineRender

VARIABLES
  fx,         \* the live instance: has its @init run, is it tweaked,
              \* does it show a leak
  store,      \* what a leaking subject keeps outside of the instance
  earlier     \* the chunk read first, of the two a stage compares

chunkVars == <<fx, store, earlier>>

NewInstance == [init |-> FALSE, tweak |-> FALSE, leak |-> FALSE]

JsfxTypeOK ==
  /\ fx \in [init : BOOLEAN, tweak : BOOLEAN, leak : BOOLEAN]
  /\ store \in BOOLEAN
  /\ earlier \in [init : BOOLEAN, tweak : BOOLEAN, leak : BOOLEAN,
                  saved : BOOLEAN, count : BOOLEAN]

NoChunk == [init |-> FALSE, tweak |-> FALSE, leak |-> FALSE,
            saved |-> FALSE, count |-> FALSE]

(* What a read of the FX chunk shows of the instance.  Every read runs     *)
(* @serialize: a volatile payload may differ from one read to the next.    *)
ChunkShows(count) ==
  [init  |-> fx.init /\ Has("initshows"),
   tweak |-> fx.tweak /\ ~Has("deaf"),
   leak  |-> fx.leak /\ ~Has("nochannel"),
   saved |-> fx.init /\ Has("initsaves"),
   count |-> count]

Chunks == {ChunkShows(c) : c \in IF Flawed("volatile") THEN BOOLEAN ELSE {FALSE}}

(* The two parts of it; what leaks may come back in either. *)
Line(chunk) == <<chunk.init, chunk.tweak, chunk.leak>>
Payload(chunk) == <<chunk.saved, chunk.count, chunk.leak>>

(* The audio thread runs @init, which reads back what was left outside.    *)
InitRuns ==
  /\ engine = "running" /\ render.at = "idle" /\ ~fx.init
  /\ step \in {"virgin", "tweak", "tweaked", "readd", "poll",
               "serialize", "save again", "restore", "restored"}
  /\ fx' = [fx EXCEPT !.init = TRUE, !.leak = Flawed("leaks") /\ store]
  /\ UNCHANGED <<batteryVars, renderVars, store, earlier, loopVars>>

-----------------------------------------------------------------------------
(* Structural stages *)

(* An unreadable subject or a reference that is not there. *)
StaticParse ==
  /\ step = "static"
  /\ IF Flawed("missing") THEN Add("static", "failed") /\ Emit
                          ELSE Add("static", "passed") /\ Go("compile")
  /\ UNCHANGED <<subject, package, engine, mishaps, renderVars, chunkVars, loopVars>>

(* live_params is None: no session any more, and the battery returns. *)
GiveUp == Emit /\ CloseSession

ToReset == IF Has("sliders") THEN "virgin" ELSE "leave"

(* Compile proof by the FX window, then the declared against the live      *)
(* parameters; without range sliders there is nothing to reset, and        *)
(* neither the reset nor anything of @serialize is looked at.              *)
Compile ==
  /\ step = "compile"
  /\ fx' = NewInstance /\ store' = FALSE
  /\ \/ /\ Flawed("compile") /\ ~Has("nojs")
        /\ Add("compile", "failed") /\ GiveUp /\ UNCHANGED mishaps
     \/ /\ ~Has("nojs") /\ Mishap("window")     \* it could not be read
        /\ Add("compile", "failed") /\ GiveUp
     \/ /\ ~Flawed("compile") \/ Has("nojs")
        /\ UNCHANGED mishaps
        /\ LET compiled == <<"compile", IF Has("nojs") THEN "skipped" ELSE "passed">>
           IN IF Flawed("params")
              THEN AddAll({compiled, <<"params", "failed">>}) /\ GiveUp
              ELSE /\ AddAll({compiled, <<"params", "passed">>} \cup
                             (IF Has("sliders") THEN {} ELSE {<<"reset", "skipped">>}))
                   /\ Go(ToReset) /\ OpenSession
  /\ UNCHANGED <<subject, package, renderVars, earlier, loopVars>>

(* Nothing waits for @init here; an early look is the one mishap that is   *)
(* the battery's own.                                                      *)
ReadVirgin ==
  /\ step = "virgin"
  /\ earlier' \in Chunks /\ Go("tweak")
  /\ IF (Has("initshows") \/ Has("initsaves")) /\ ~fx.init THEN Mishap("early") ELSE UNCHANGED mishaps
  /\ UNCHANGED <<subject, package, results, engine, renderVars, fx, store, loopVars>>

Tweak ==
  /\ step = "tweak"
  /\ fx' = [fx EXCEPT !.tweak = TRUE] /\ store' = TRUE
  /\ Go("tweaked")
  /\ UNCHANGED <<subject, package, results, engine, mishaps, renderVars, earlier, loopVars>>

(* A tweak the chunk does not show makes the comparison vacuous.           *)
CheckTweak ==
  /\ step = "tweaked"
  /\ \/ earlier \in Chunks /\ Add("reset", "failed") /\ Go("leave")
     \/ Chunks # {earlier} /\ Go("readd") /\ UNCHANGED results
  /\ UNCHANGED <<subject, package, engine, mishaps, renderVars, chunkVars, loopVars>>

Readd ==
  /\ step = "readd"
  /\ \/ /\ fx' = NewInstance /\ Go("poll") /\ UNCHANGED <<results, mishaps>>
     \/ /\ Mishap("readd") /\ Add("reset", "failed") /\ Go("leave") /\ UNCHANGED fx
  /\ UNCHANGED <<subject, package, engine, renderVars, store, earlier, loopVars>>

MutSettled == UNCHANGED mishaps
(* The settle window of 8 s is over; that @init has not run by then is an  *)
(* overloaded host.                                                        *)
Settled == IF fx.init THEN UNCHANGED mishaps ELSE Mishap("slow")

AfterReset == IF Has("serialize") THEN "serialize" ELSE "leave"

(* Any divergence from the virgin chunk is a leak, none is the proof. *)
PollChunk ==
  /\ step = "poll"
  /\ \/ Chunks # {earlier} /\ Add("reset", "failed") /\ UNCHANGED mishaps
     \/ earlier \in Chunks /\ Settled /\ Add("reset", "passed")
  /\ Go(AfterReset)
  /\ UNCHANGED <<subject, package, engine, renderVars, chunkVars, loopVars>>

(* Two saves with nothing changed, unless @init has still to run.  Without *)
(* a payload there is nothing to compare, nor to truncate.                 *)
SaveOnce ==
  /\ step = "serialize"
  /\ earlier' \in Chunks
  /\ IF Has("nopayload") THEN Add("saves", "skipped") /\ Go("prevchunk")
                         ELSE Go("save again") /\ UNCHANGED results
  /\ UNCHANGED <<subject, package, engine, mishaps, renderVars, fx, store, loopVars>>

(* A volatile payload that is the same twice is luck. *)
SaveAgain ==
  /\ step = "save again"
  /\ \E chunk \in Chunks :
       IF Payload(chunk) # Payload(earlier)
       THEN Add("saves", "failed") /\ Go("prevchunk") /\ UNCHANGED mishaps
       ELSE /\ IF Flawed("volatile") THEN Mishap("luck") ELSE UNCHANGED mishaps
            /\ AddAll({<<"saves", "passed">>} \cup
                      (IF Has("oddblock") THEN {<<"restore", "skipped">>} ELSE {}))
            /\ Go(IF Has("oddblock") THEN "prevchunk" ELSE "restore")
  /\ UNCHANGED <<subject, package, engine, renderVars, chunkVars, loopVars>>

(* The sliders before a truncated payload is restored. *)
ReadDefaults ==
  /\ step = "restore"
  /\ earlier' \in Chunks /\ Go("restored")
  /\ UNCHANGED <<subject, package, results, engine, mishaps, renderVars, fx, store, loopVars>>

(* The restore may hang REAPER; the sliders ought to be as before.         *)
Restore ==
  /\ step = "restored"
  /\ \E chunk \in Chunks :
       Add("restore", IF \/ Flawed("wedges") \/ Flawed("halfread")
                         \/ Line(chunk) # Line(earlier)
                      THEN "failed" ELSE "passed")
  /\ engine' = IF Flawed("wedges") THEN "hung" ELSE engine
  /\ Go("prevchunk")
  /\ UNCHANGED <<subject, package, mishaps, renderVars, chunkVars, loopVars>>

(* The state of the previous release, in the same session.  Its first eval *)
(* is outside of the try: it raises in a REAPER that the restore has hung. *)
PrevChunk ==
  /\ step = "prevchunk"
  /\ \/ ~Has("prevchunk") /\ Add("prevchunk", "skipped") /\ Go("leave") /\ UNCHANGED engine
     \/ /\ Has("prevchunk") /\ engine = "hung"
        /\ Raise /\ CloseSession /\ UNCHANGED results
     \/ /\ Has("prevchunk") /\ engine = "running"
        /\ Add("prevchunk", IF Flawed("oldstate") THEN "failed" ELSE "passed")
        /\ Go("leave") /\ UNCHANGED engine
  /\ UNCHANGED <<subject, package, mishaps, renderVars, chunkVars, loopVars>>

-----------------------------------------------------------------------------
(* Renders *)

NoteDriven == Has("midi")

(* The signals stand for the set of six, one other rate for both.  --quick *)
(* makes no render at all, --no-sweep no sweep; no result says so.         *)
JsfxPlan ==
  IF Has("quick") THEN <<>>
  ELSE <<"silence", "sine_1k", "other rate">> \o
       (IF NoteDriven THEN <<"midi", "midi again">> ELSE <<>>) \o <<"determinism">> \o
       (IF Has("sliders") /\ ~Has("nosweep") THEN Sweeps ELSE <<>>)

(* The session is left; a repository's packages are not rendered. *)
LeaveSession ==
  /\ step = "leave"
  /\ CloseSession
  /\ kept' = NoRenders
  /\ IF Has("noaudio")
     THEN Add("renders", "skipped") /\ Emit /\ UNCHANGED todo
     ELSE /\ todo' = IF package = 0 THEN JsfxPlan ELSE <<>>
          /\ Go("renders") /\ UNCHANGED results
  /\ UNCHANGED <<subject, package, mishaps, renderVars, chunkVars>>

(* A MIDI subject without notes is silent, and told so. *)
SilentWithoutNotes ==
  RenderDue /\ Needed /\ Label = "determinism" /\ NoteDriven /\ Has("silent")

SkipDeterminism ==
  /\ SilentWithoutNotes
  /\ Add("determinism", "skipped") /\ todo' = Tail(todo)
  /\ UNCHANGED <<subject, package, step, engine, mishaps, renderVars, kept>>

MutTruncated(quality) == FALSE
MutFullIsTruncated(quality) == quality \in {"cut", "full"}
(* r.samples.shape[0] < len(sig) *)
Truncated(quality) == quality = "cut"

(* Silence may be a sampler's that waits for the state it saves. *)
Sounds == IF ~Flawed("mute") THEN "passed"
          ELSE IF Has("serialize") THEN "skipped" ELSE "failed"

(* Results a render may be given.  The stages that render a second time    *)
(* compare; the others look at the length first.                           *)
JsfxVerdicts(quality) ==
  LET also == CASE Label = "silence" -> IF NoteDriven THEN {} ELSE {SilenceOut}
                [] Label = "midi" -> {<<"sounds", Sounds>>}
                [] OTHER -> {}
  IN IF Label = "determinism"
     THEN {{<<Label, s>>} : s \in Determinism(kept["sine_1k"], quality)}
     ELSE IF Label = "midi again"
     THEN {{<<Label, IF quality # "full" \/ Flawed("varies") THEN "failed" ELSE "passed">>}}
     ELSE IF Truncated(quality) THEN {{<<Label, "failed">>}}
     ELSE {{r} \cup also : r \in Pathology(quality)}

JsfxRendering ==
  /\ \/ SkipDeterminism
     \/ (~SilentWithoutNotes /\ AskRender)
     \/ PassOver \/ TakeRender(JsfxVerdicts) \/ AllRendered
  /\ UNCHANGED chunkVars

JsfxRaises ==
  /\ \/ EvalRaises({"compile", "virgin", "tweak", "tweaked", "readd", "poll", "serialize",
                     "save again", "restore", "prevchunk"}) /\ UNCHANGED renderVars
     \/ NoSession({"compile"})
  /\ UNCHANGED <<chunkVars, loopVars>>

JsfxStep ==
  /\ subject.kind = "jsfx"
  /\ \/ StaticParse \/ Compile \/ ReadVirgin \/ Tweak \/ CheckTweak \/ Readd
     \/ PollChunk \/ SaveOnce \/ SaveAgain \/ ReadDefaults \/ Restore \/ PrevChunk
     \/ LeaveSession \/ JsfxRendering \/ JsfxRaises

=============================================================================
