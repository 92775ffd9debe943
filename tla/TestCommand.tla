------------------------------ MODULE TestCommand ------------------------------
(***************************************************************************)
(* `reaproof test <subject>` and `reaproof test-repo <repo>`               *)
(* (runner/cli.py): the subject's suffix picks the battery; the exit code  *)
(* is that of the gate over its results.  Composes the batteries, one of   *)
(* which is at work at a time, with the processes they race.               *)
(*                                                                         *)
(* The extension battery (.dylib) is the module ExtensionBattery.          *)
(***************************************************************************)
EXTENDS JsfxBattery, ScriptBattery, PluginBattery, AudioUnitBattery,
        ThemeBattery, RepoBattery

CONSTANT Repos   \* sequences of packages

(* The defects that show in an offline render. *)
AudioDefects == {"sick", "stalls", "varies", "noisy", "mute", "param1", "param2"}

(* The defects a subject may have, being what it is.  A JSFX without an    *)
(* output makes no sound, one without sliders has no parameter; without    *)
(* @serialize it has no state; only what is played can be mute.            *)
Defects(s) ==
  CASE s.kind = "jsfx" ->
         {"missing", "compile", "params", "leaks"}
         \cup (IF "serialize" \in s.traits
               THEN {"wedges", "halfread", "oldstate"} \cup
                    (IF "nopayload" \in s.traits THEN {} ELSE {"volatile"})
               ELSE {})
         \cup (IF "noaudio" \in s.traits THEN {} ELSE
               AudioDefects \ ((IF "midi" \in s.traits THEN {} ELSE {"mute"}) \cup
                               (IF "sliders" \in s.traits THEN {} ELSE {"param1", "param2"})))
    [] s.kind = "script" ->
         {"loaderror", "hangs", "defererror", "leaks", "noaction"}
         \cup (IF "lua" \in s.traits THEN {"lint"} ELSE {})
         \cup (IF "noheader" \in s.traits THEN {} ELSE {"header"})
         \cup (IF "ui" \in s.traits THEN {"nowindow"} ELSE {})
    [] s.kind = "plugin" ->
         {"nonconform", "scanhang", "crash", "noload", "sick", "stalls", "varies", "noisy"}
         \cup (IF "params" \in s.traits THEN {"param1", "param2"} ELSE {})
    [] s.kind = "au" ->
         {"manifest", "invalid", "noload", "sick", "stalls", "varies"}
         \cup (IF "many" \in s.traits THEN {"invalid2"} ELSE {})
    [] s.kind = "theme" ->
         {"rejected", "inactive", "unpainted"}
         \cup (IF "bare" \in s.traits THEN {} ELSE {"badzip", "badmember"})
    [] s.kind = "repo" -> {"index", "rootfiles"}
    [] s.kind = "absent" -> {}

ASSUME SubjectAssumption ==
  \A s \in Subjects :
    /\ s.kind \in {"jsfx", "script", "plugin", "au", "theme", "repo", "absent"}
    /\ s.flaws \subseteq Defects(s)

(* Packages are the files discover_packages takes: JSFX and scripts, none  *)
(* of them in Python, with a ReaPack header.                               *)
ASSUME RepoAssumption ==
  \A repo \in Repos :
    /\ repo \in Seq({repo[i] : i \in DOMAIN repo})
    /\ \A i \in DOMAIN repo :
         /\ repo[i].kind \in {"jsfx", "script"}
         /\ repo[i].flaws \subseteq Defects(repo[i])
         /\ {"nopython", "noheader"} \cap repo[i].traits = {}

VARIABLE exit  \* "none", "green" (0), "red" (1), "traceback" (1), "usage" (2)

vars == <<batteryVars, renderVars, loopVars, chunkVars, scriptVars, auVars,
          repoVars, exit>>

Init ==
  /\ given \in Subjects /\ subject = given
  /\ packages \in (IF given.kind = "repo" THEN Repos ELSE {<<>>})
  /\ package = 0 /\ step = "dispatch" /\ results = {} /\ exit = "none"
  /\ engine = "none" /\ mishaps = {}
  /\ render = Idle /\ left = {} /\ todo = <<>> /\ kept = NoRenders
  /\ fx = NewInstance /\ store = FALSE /\ earlier = NoChunk
  /\ effects = "none" /\ panel = "none"
  /\ copy = NoCopy /\ mine = FALSE /\ tested = "none" /\ run = 1

(* Where the battery of a suffix begins. *)
FirstStep(kind) ==
  CASE kind \in {"jsfx", "script"} -> "static"
    [] kind = "plugin" -> "validator"
    [] kind = "au" -> "manifest"
    [] kind = "theme" -> "lint"
    [] kind = "repo" -> "index"

Dispatch ==
  /\ step = "dispatch"
  /\ IF given.kind = "absent" THEN Go("exited") /\ exit' = "usage"
                              ELSE Go(FirstStep(given.kind)) /\ UNCHANGED exit
  /\ UNCHANGED <<subject, package, results, engine, mishaps, renderVars, loopVars,
                 chunkVars, scriptVars, auVars, repoVars>>

ExitOf == IF GateGreen(results) THEN "green" ELSE "red"

(* _print_verdict; an exception is left to the interpreter. *)
PrintVerdict ==
  /\ step \in {"emitted", "aborted"}
  /\ exit' = IF step = "emitted" THEN ExitOf ELSE "traceback"
  /\ Go("exited")
  /\ UNCHANGED <<subject, package, results, engine, mishaps, renderVars, loopVars,
                 chunkVars, scriptVars, auVars, repoVars>>

(* The developer runs the command on a new build of the component.         *)
Again ==
  /\ given.kind = "au" /\ step \in {"exited", "killed"} /\ run < MaxRuns
  /\ given' \in {s \in Subjects : s.kind = given.kind /\ s.traits = given.traits}
  /\ subject' = given'
  /\ run' = run + 1 /\ Go("dispatch")
  /\ results' = {} /\ exit' = "none" /\ tested' = "none"
  /\ engine' = "none" /\ todo' = <<>> /\ kept' = NoRenders
  /\ UNCHANGED <<package, mishaps, renderVars, chunkVars, scriptVars, copy, mine, packages>>

Program ==
  \/ Dispatch \/ PrintVerdict
  \/ /\ \/ JsfxStep /\ UNCHANGED <<scriptVars, auVars, repoVars>>
        \/ ScriptStep /\ UNCHANGED <<chunkVars, auVars, repoVars>>
        \/ PluginStep /\ UNCHANGED <<chunkVars, scriptVars, auVars, repoVars>>
        \/ UnitStep /\ UNCHANGED <<chunkVars, scriptVars, repoVars>>
        \/ ThemeStep /\ UNCHANGED <<chunkVars, scriptVars, auVars, repoVars>>
        \/ RepoStep /\ UNCHANGED <<renderVars, loopVars, chunkVars, scriptVars, auVars>>
        \/ RenderStep /\ UNCHANGED <<chunkVars, scriptVars, auVars, repoVars>>
     /\ UNCHANGED exit

AudioThread == InitRuns /\ UNCHANGED <<scriptVars, auVars, repoVars, exit>>

Renderer == RendererWrites /\ UNCHANGED <<chunkVars, scriptVars, auVars, repoVars, exit>>

Reaper == ScriptRuns /\ UNCHANGED <<chunkVars, auVars, repoVars, exit>>

Kill == KillCommand /\ UNCHANGED <<chunkVars, scriptVars, repoVars, exit>>

Next == Program \/ AudioThread \/ Renderer \/ Reaper \/ Kill \/ Again

(* The program goes on; REAPER's audio thread, its defer loop and the      *)
(* monitor run; a renderer goes on unless its subject stalls.              *)
Fairness ==
  /\ WF_vars(Program)
  /\ WF_vars(AudioThread)
  /\ WF_vars(Reaper)
  /\ WF_vars(Renderer /\ ~Flawed("stalls"))

Spec == Init /\ [][Next]_vars /\ Fairness

-----------------------------------------------------------------------------
(* Types *)

(* Every variable keeps to its type. *)
TypeOK ==
  /\ engine \in {"none", "running", "hung"}
  /\ package \in 0..MaxPackages
  /\ \A r \in results : r[1] \in 0..MaxPackages /\ r[3] \in Status
  /\ exit \in {"none", "green", "red", "traceback", "usage"}
  /\ RenderTypeOK /\ JsfxTypeOK /\ ScriptTypeOK /\ AuTypeOK

-----------------------------------------------------------------------------
(* What a result is about *)

Audio == {"silence", "sine_1k", "other rate", "midi", "param1", "param2"}
Again2 == {"determinism", "midi again"}

(* The results that speak of a flaw. *)
SpeaksOf(flaw) ==
  CASE flaw = "missing" -> {"static"}
    [] flaw = "leaks" -> {"reset", "hygiene", "load"}
    [] flaw = "volatile" -> {"saves"}
    [] flaw \in {"wedges", "halfread"} -> {"restore"}
    [] flaw = "oldstate" -> {"prevchunk"}
    [] flaw = "sick" -> Audio \cup Again2 \cup {"renders", "load"}
    [] flaw = "stalls" -> Audio \cup Again2 \cup {"silence out", "renders", "load"}
    [] flaw = "varies" -> Again2 \cup {"renders", "load"}
    [] flaw = "noisy" -> {"silence out"}
    [] flaw = "mute" -> {"sounds"}
    [] flaw \in {"loaderror", "hangs"} -> {"load", "action"}
    [] flaw = "defererror" -> {"defer", "action"}
    [] flaw = "nowindow" -> {"ui"}
    [] flaw = "noaction" -> {"registers"}
    [] flaw = "nonconform" -> {"validator"}
    [] flaw = "noload" -> {"load"}
    [] flaw = "invalid" -> {"auval"}
    [] flaw = "invalid2" -> {"budget"}
    [] flaw = "badzip" -> {"structure"}
    [] flaw \in {"rejected", "inactive"} -> {"load"}
    [] flaw = "unpainted" -> {"paint"}
    [] flaw = "rootfiles" -> {"layout"}
    [] OTHER -> {flaw}

(* The subjects whose results are in the report, by package number. *)
TestedAs(p) == IF p = 0 THEN given ELSE packages[p]
Tested == 0..Len(packages)

-----------------------------------------------------------------------------
(* The verdict *)

(* The report says that it has not looked. *)
NamedSkip(p, flaw) ==
  \E r \in results : r[3] = "skipped" /\
    (\/ (r[1] = p /\ r[2] \in SpeaksOf(flaw))
     \/ (p > Capped /\ r[2] = "budget"))

(* What the report does not say that it cannot see: the renders of a       *)
(* repository's packages; the renders --quick leaves out, and the sweeps   *)
(* --no-sweep does; a plug-in's or Audio Unit's render that was cut off,   *)
(* and what it would have shown; the parameters beyond the cap; noise out  *)
(* of silence of what is played; the saved state of a JSFX that has no     *)
(* slider to tweak, the restored one of a JSFX that saves nothing; what    *)
(* leaks where it has no way into the chunk; the window of a script that   *)
(* is not loaded; an Audio Unit whose codes another build answers to.      *)
BlindSpot(p, s, flaw) ==
  \/ p > 0 /\ s.kind = "jsfx" /\ flaw \in AudioDefects
  \/ s.kind \in {"jsfx", "au"} /\ "quick" \in s.traits /\ flaw \in AudioDefects
  \/ "nosweep" \in s.traits /\ flaw \in {"param1", "param2"}
  \/ s.kind \in {"plugin", "au"} /\ "stalls" \in s.flaws
       /\ flaw \in {"stalls", "sick", "param1", "param2"}
  \/ flaw \in {"param1", "param2"} /\ \A i \in DOMAIN Sweeps : Sweeps[i] # flaw
  \/ flaw = "noisy" /\ {"midi", "instrument"} \cap s.traits # {}
  \/ flaw \in {"volatile", "wedges", "halfread", "oldstate"} /\ "sliders" \notin s.traits
  \/ flaw \in {"wedges", "halfread"} /\ "nopayload" \in s.traits
  \/ s.kind = "jsfx" /\ flaw = "leaks" /\ "nochannel" \in s.traits
  \/ flaw = "nowindow" /\ "lua" \notin s.traits
  \/ tested \in {"another", "stale"} /\ flaw # "manifest"

(* What else can hide a defect: a window of time that was over too early,  *)
(* a pause of the renderer that looks like its end, a window resized       *)
(* between two captures, two saves that are the same by luck.              *)
HiddenBy(s, flaw) ==
  CASE s.kind = "script" /\ flaw \in {"defererror", "leaks"} -> {"late"}
    [] s.kind = "jsfx" /\ flaw = "leaks" -> {"slow"}
    [] s.kind = "jsfx" /\ flaw = "volatile" -> {"luck"}
    [] s.kind \in {"plugin", "au"} /\ flaw \in {"sick", "param1", "param2"} -> {"pause"}
    [] s.kind = "theme" /\ flaw = "unpainted" -> {"resized"}
    [] OTHER -> {}

(* The command exits with 0 only if every defect of the subject, and of    *)
(* the packages of a repository, was looked for in vain for one of the     *)
(* reasons above: through every early return, cap, skip and race of the    *)
(* batteries, what is not covered is named in the report or listed here.   *)
NoFalseGreen ==
  exit = "green" =>
    \A p \in Tested : \A flaw \in TestedAs(p).flaws :
      LET s == TestedAs(p)
      IN NamedSkip(p, flaw) \/ BlindSpot(p, s, flaw) \/ mishaps \cap HiddenBy(s, flaw) # {}

(* Failures that are about nothing the result speaks of: a chunk that does *)
(* not show the tweak; @init, or what it reads back of a leak, that lands  *)
(* between two reads of the chunk, which the stages of @serialize may do   *)
(* where the one of the reset has stopped early; a volatile payload in the *)
(* chunk of the reset; silence, which nulls against anything; a repository *)
(* without packages.                                                       *)
FalseAlarm(s, name) ==
  \/ name = "reset" /\ (s.traits \cap {"deaf", "initshows", "initsaves"} # {}
                        \/ "volatile" \in s.flaws)
  \/ name \in {"saves", "restore"} /\ (s.traits \cap {"initshows", "initsaves"} # {}
                                       \/ {"volatile", "leaks"} \subseteq s.flaws)
  \/ name = "determinism" /\ "silent" \in s.traits
  \/ name = "discovery" /\ packages = <<>>

(* The defects of the build that had the codes of an Audio Unit.           *)
OfAnother == IF tested = "another" THEN subject.flaws ELSE {}

(* With no mishap a failed result is about a defect the subject has, and   *)
(* is the result that speaks of that defect: no stage blames a subject for *)
(* what an earlier stage, another package or the order of REAPER's threads *)
(* did, the false alarms above excepted, and those about a defect of the   *)
(* build that was tested in place of an Audio Unit.                        *)
FailureNamesDefect ==
  \A r \in results : (r[3] = "failed" /\ mishaps = {}) =>
    LET s == TestedAs(r[1])
    IN \/ FalseAlarm(s, r[2])
       \/ \E flaw \in s.flaws \cup OfAnother : r[2] \in SpeaksOf(flaw) \cup {"package"}
       \/ r[2] = "package" /\ \E q \in results : q[1] = r[1] /\ q[3] = "failed"
                                                /\ FalseAlarm(s, q[2])

(* A factory reset that has passed is a proof as far as the chunk goes:    *)
(* the re-added instance had run its @init and showed nothing of the tweak,*)
(* so a leak is out of the question where it has a way into the chunk, and *)
(* the tweak was seen in the chunk, a volatile payload apart.              *)
ResetPassIsProof ==
  \A r \in results : (r[2] = "reset" /\ r[3] = "passed" /\ mishaps = {}) =>
     LET s == TestedAs(r[1])
     IN /\ "leaks" \in s.flaws => "nochannel" \in s.traits
        /\ "deaf" \in s.traits => "volatile" \in s.flaws

-----------------------------------------------------------------------------
(* What a run leaves behind *)

(* However the renders and stages end, no REAPER is left running, except   *)
(* one that `open` has started although it failed, timed out or the process*)
(* was not found, and the session's when the input could not be written.   *)
NothingLeftRunning ==
  /\ left \subseteq
       (IF "open" \in mishaps THEN {"discovery", "renderer"} ELSE {}) \cup
       (IF mishaps \cap {"open", "no pid"} # {} THEN {"host", "session"} ELSE {}) \cup
       (IF "disk full" \in mishaps THEN {"session"} ELSE {})
  /\ step = "exited" => engine = "none" /\ ~render.renderer

(* The REAPER that builds a project is gone before the one that renders it *)
(* is there, and every session before the next; that a render starts while *)
(* an earlier REAPER runs on, which nobody stops any more, takes a mishap. *)
OneReaper ==
  /\ render.renderer => engine = "none"
  /\ render.at = "host" => engine = "none" /\ ~render.renderer
  /\ (engine # "none" \/ render.renderer) /\ left # {} =>
       mishaps \cap {"open", "no pid", "disk full"} # {}

(* A component put into the user's components directory is gone when the   *)
(* command ends, unless the copy failed half-way, the removal failed, or   *)
(* a run was killed.                                                       *)
ComponentRestored ==
  (step = "exited" /\ copy # NoCopy) => mishaps \cap {"copy", "rmtree", "killed"} # {}

(* The verdict is about the build the command was given: another one is    *)
(* tested only if the user has registered it, or if a copy of an earlier   *)
(* run was left behind whole.                                              *)
TestsOwnBuild ==
  /\ tested = "stale" => mishaps \cap {"rmtree", "killed"} # {}
  /\ tested = "another" => Has("registered")

(* Every command comes to an end: hung scripts, stalled renderers, silent  *)
(* windows and dead sessions all run into a deadline or an exception.      *)
CommandEnds == <>Over

-----------------------------------------------------------------------------
(* What the code says and does not do *)

(* jsfxtest.py, of a chunk that differs: "state survived remove + re-add". *)
ResetBlame ==
  \A r \in results :
    (r[2] = "reset" /\ r[3] = "failed" /\ mishaps = {} /\ ~Has("deaf")) => fx.leak

=============================================================================
