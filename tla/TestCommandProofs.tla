--------------------------- MODULE TestCommandProofs ---------------------------
(***************************************************************************)
(* Theorems about what a test command does to the host, for any subjects   *)
(* and repositories: one REAPER at a time, nothing left running, nothing   *)
(* left installed, and the verdict is about the build that was given.      *)
(***************************************************************************)
EXTENDS TestCommand, TLAPS

USE DEF vars, batteryVars, renderVars, loopVars, chunkVars, scriptVars, auVars, repoVars

-----------------------------------------------------------------------------
(* The inductive invariant *)

Labels ==
  {"silence", "sine_1k", "other rate", "midi", "midi again", "determinism", "param1", "param2"}

Rendering == render.at # "idle"

(* A render is made for the label at the head of the plan. *)
TypeInv ==
  /\ TypeOK
  /\ todo \in Seq(Labels)
  /\ Rendering => step = "renders" /\ todo # <<>>

(* Another build of an Audio Unit has its codes, and is tested.            *)
ElseTested ==
  /\ tested \in {"another", "stale"} /\ given.kind = "au"
  /\ subject \in Subjects /\ subject.kind = "au" /\ subject.traits = given.traits

(* Whose battery is at work: that of the subject the command was given, or *)
(* of a package of a repository.                                           *)
SubjectInv ==
  /\ given \in Subjects
  /\ packages \in (IF given.kind = "repo" THEN Repos ELSE {<<>>})
  /\ package \in 0..Capped
  /\ package > 0 => given.kind = "repo"
  /\ subject = TestedAs(package) \/ ElseTested

(* The steps that are taken inside of a session. *)
InSession ==
  \/ subject.kind = "jsfx" /\ step \in {"virgin", "tweak", "tweaked", "readd", "poll",
                                        "serialize", "save again", "restore", "restored",
                                        "prevchunk", "leave"}
  \/ subject.kind = "script" /\ step \in {"load", "settle", "snapshot", "register",
                                          "watch", "ping"}
  \/ subject.kind = "theme" /\ step \in {"open", "paint"}

(* There is a REAPER in the steps of a session and in those of a render    *)
(* that build its project; a renderer only while its output is awaited.    *)
EngineInv ==
  /\ engine # "none" => InSession \/ render.at \in {"write", "build"}
  /\ render.at = "write" /\ subject.kind = "plugin" => engine = "none"
  /\ render.renderer => render.at \in {"poll", "settle"}

LeftInv ==
  left \subseteq
    (IF "open" \in mishaps THEN {"discovery", "renderer"} ELSE {}) \cup
    (IF mishaps \cap {"open", "no pid"} # {} THEN {"host", "session"} ELSE {}) \cup
    (IF "disk full" \in mishaps THEN {"session"} ELSE {})

(* A component that was installed is removed by the run that installed it, *)
(* or something has happened.  A whole one is of this run, or of one that  *)
(* could not remove it.                                                    *)
CopyInv ==
  /\ copy.what = "none" => copy = NoCopy
  /\ copy.what = "partial" => mishaps \cap {"copy", "rmtree", "killed"} # {}
  /\ copy.what = "whole" => mine \/ mishaps \cap {"rmtree", "killed"} # {}
  /\ mine => step \in {"validate", "load", "renders", "remove", "unwind"}
  /\ mine \/ tested # "none" => given.kind = "au"
  /\ step \in {"dispatch", "manifest", "install"} => tested = "none"

IInv == TypeInv /\ SubjectInv /\ EngineInv /\ LeftInv /\ CopyInv /\ TestsOwnBuild

-----------------------------------------------------------------------------
(* Plans of renders *)

LEMMA SweepsAreLabels ==
  /\ Sweeps \in Seq(Labels)
  /\ Len(Sweeps) = IF MaxParams < Params THEN MaxParams ELSE Params
  /\ Len(Sweeps) <= MaxParams
BY RenderAssumption DEF Sweeps, Labels

LEMMA Concatenation ==
  ASSUME NEW S, NEW s \in Seq(S), NEW t \in Seq(S)
  PROVE  s \o t \in Seq(S) /\ Len(s \o t) = Len(s) + Len(t)
OBVIOUS

LEMMA JsfxPlanIsPlan ==
  /\ JsfxPlan \in Seq(Labels) /\ Len(JsfxPlan) <= 6 + MaxParams
  /\ <<>> \in Seq(Labels) /\ Len(<<>>) <= 6 + MaxParams
<1> DEFINE a == <<"silence", "sine_1k", "other rate">>
           b == IF NoteDriven THEN <<"midi", "midi again">> ELSE <<>>
           c == <<"determinism">>
           d == IF Has("sliders") /\ ~Has("nosweep") THEN Sweeps ELSE <<>>
<1>1. a \in Seq(Labels) /\ Len(a) = 3
  BY DEF Labels
<1>2. b \in Seq(Labels) /\ Len(b) <= 2 /\ Len(b) \in Nat
  <2>1. /\ <<"midi", "midi again">> \in Seq(Labels) /\ Len(<<"midi", "midi again">>) <= 2
        /\ Len(<<"midi", "midi again">>) \in Nat
    BY DEF Labels
  <2>2. <<>> \in Seq(Labels) /\ Len(<<>>) <= 2 /\ Len(<<>>) \in Nat
    OBVIOUS
  <2>3. b = <<"midi", "midi again">> \/ b = <<>>
    OBVIOUS
  <2> HIDE DEF b
  <2>4. CASE b = <<>>
    BY <2>2, <2>4
  <2>5. CASE b = <<"midi", "midi again">>
    BY <2>1, <2>5, Zenon
  <2>6. QED
    BY <2>3, <2>4, <2>5
<1>3. c \in Seq(Labels) /\ Len(c) = 1
  BY DEF Labels
<1>4. d \in Seq(Labels) /\ Len(d) <= MaxParams /\ Len(d) \in Nat
  BY SweepsAreLabels, RenderAssumption
<1> HIDE DEF a, b, c, d
<1> DEFINE ab == a \o b
           abc == ab \o c
<1>5. ab \in Seq(Labels) /\ Len(ab) = 3 + Len(b)
  BY <1>1, <1>2, Concatenation
<1> HIDE DEF ab
<1>6. abc \in Seq(Labels) /\ Len(abc) = 4 + Len(b)
  <2>1. abc \in Seq(Labels) /\ Len(abc) = Len(ab) + Len(c)
    BY <1>3, <1>5, Concatenation
  <2> HIDE DEF abc
  <2>2. QED
    BY <1>2, <1>3, <1>5, <2>1
<1> HIDE DEF abc
<1>7. abc \o d \in Seq(Labels) /\ Len(abc \o d) = 4 + Len(b) + Len(d)
  BY <1>2, <1>4, <1>6, Concatenation
<1>8. JsfxPlan = IF Has("quick") THEN <<>> ELSE abc \o d
  BY DEF JsfxPlan, a, b, c, d, ab, abc
<1>9. <<>> \in Seq(Labels) /\ Len(<<>>) <= 6 + MaxParams
  BY RenderAssumption
<1>10. QED
  BY <1>2, <1>4, <1>7, <1>8, <1>9, RenderAssumption

LEMMA PluginPlanIsPlan == PluginPlan \in Seq(Labels) /\ Len(PluginPlan) <= 6 + MaxParams
<1> DEFINE a == <<"silence", "sine_1k", "determinism">>
           d == IF Has("params") /\ ~Has("nosweep") THEN Sweeps ELSE <<>>
<1>1. a \in Seq(Labels) /\ Len(a) = 3
  BY DEF Labels
<1>2. d \in Seq(Labels) /\ Len(d) <= MaxParams /\ Len(d) \in Nat
  BY SweepsAreLabels, RenderAssumption
<1> HIDE DEF a, d
<1>3. a \o d \in Seq(Labels) /\ Len(a \o d) = 3 + Len(d)
  BY <1>1, <1>2, Concatenation
<1>4. PluginPlan = a \o d
  BY DEF PluginPlan, a, d
<1>5. QED
  BY <1>2, <1>3, <1>4, RenderAssumption

LEMMA UnitPlanIsPlan ==
  /\ <<"sine_1k", "determinism">> \in Seq(Labels)
  /\ Len(<<"sine_1k", "determinism">>) <= 6 + MaxParams
BY RenderAssumption DEF Labels

(* The plan without its first label. *)
LEMMA RestOfPlan ==
  ASSUME TypeInv, todo # <<>>
  PROVE  /\ Tail(todo) \in Seq(Labels) /\ Len(Tail(todo)) <= 6 + MaxParams
         /\ Label \in Labels
BY RenderAssumption DEF TypeInv, TypeOK, RenderTypeOK, Label

-----------------------------------------------------------------------------
(* Initially *)

Copies ==
  [what : {"none", "partial", "whole"}, flaws : {{}} \cup {s.flaws : s \in Subjects}]

LEMMA Initially == Init => IInv
<1> SUFFICES ASSUME Init PROVE IInv
  OBVIOUS
<1>1. TypeInv
  <2>1. RenderTypeOK /\ JsfxTypeOK /\ ScriptTypeOK /\ AuTypeOK
    <3>1. RenderTypeOK
      <4>1. todo = <<>> /\ Len(todo) <= 6 + MaxParams
        BY RenderAssumption DEF Init
      <4>2. render \in [at : {"idle", "host", "write", "build", "open", "poll", "settle",
                              "full", "cut", "raised"},
                        size : 0..Full, mark : 0..Full, renderer : BOOLEAN]
        BY RenderAssumption DEF Init, Idle
      <4>3. kept \in [{"sine_1k", "midi"} -> {"none", "full", "cut"}]
        BY DEF Init, NoRenders
      <4>4. left = {}
        BY DEF Init
      <4>5. QED
        BY <4>1, <4>2, <4>3, <4>4 DEF RenderTypeOK
    <3>2. JsfxTypeOK /\ ScriptTypeOK
      BY DEF Init, JsfxTypeOK, ScriptTypeOK, NewInstance, NoChunk
    <3>3. AuTypeOK
      <4>1. copy = NoCopy /\ mine = FALSE /\ tested = "none" /\ run = 1
        BY DEF Init
      <4>2. NoCopy \in Copies /\ 1 \in 1..MaxRuns
        BY ComponentAssumption DEF NoCopy, Copies
      <4>3. QED
        BY <4>1, <4>2 DEF AuTypeOK, Copies
    <3>4. QED
      BY <3>1, <3>2, <3>3
  <2>2. QED
    BY <2>1, PackageAssumption DEF Init, TypeInv, TypeOK, Rendering, Idle
<1>2. SubjectInv
  <2>1. Capped \in Nat
    BY RepoAssumption, PackageAssumption DEF Init, Capped
  <2>2. QED
    BY <2>1 DEF Init, SubjectInv, TestedAs
<1>3. EngineInv /\ LeftInv /\ CopyInv /\ TestsOwnBuild
  BY DEF Init, EngineInv, LeftInv, CopyInv, TestsOwnBuild, Idle, NoCopy
<1>4. QED
  BY <1>1, <1>2, <1>3 DEF IInv

-----------------------------------------------------------------------------
(* What a subject can be *)

LEMMA CappedBounds ==
  ASSUME SubjectInv
  PROVE  /\ Capped \in Nat /\ Capped <= MaxPackages /\ Capped <= Len(packages)
         /\ package \in Nat /\ package <= MaxPackages
         /\ DOMAIN packages = 1..Len(packages)
<1>1. packages \in Seq({packages[i] : i \in DOMAIN packages})
  <2>1. CASE packages \in Repos
    BY <2>1, RepoAssumption
  <2>2. CASE packages = <<>>
    BY <2>2
  <2>3. QED
    BY <2>1, <2>2 DEF SubjectInv
<1>2. QED
  BY <1>1, PackageAssumption DEF Capped, SubjectInv

LEMMA SubjectKinds ==
  ASSUME SubjectInv
  PROVE  /\ subject.kind \in {"jsfx", "script", "plugin", "au", "theme", "repo", "absent"}
         /\ subject.flaws \subseteq Defects(subject)
         /\ package > 0 => subject.kind \in {"jsfx", "script"}
         /\ package > 0 => {"nopython", "noheader"} \cap subject.traits = {}
<1>1. CASE package = 0
  BY <1>1, SubjectAssumption DEF SubjectInv, TestedAs, ElseTested
<1>2. CASE package > 0
  <2>1. package \in DOMAIN packages /\ packages \in Repos /\ subject = packages[package]
    BY <1>2, CappedBounds DEF SubjectInv, TestedAs, ElseTested
  <2>2. QED
    BY <1>2, <2>1, RepoAssumption
<1>3. QED
  BY <1>1, <1>2, CappedBounds

-----------------------------------------------------------------------------
(* Types: what each part of the command does to its own variables *)

LEMMA ChunkStep == ASSUME JsfxTypeOK, [Next]_vars PROVE JsfxTypeOK'
<1> DEFINE Instance == [init : BOOLEAN, tweak : BOOLEAN, leak : BOOLEAN]
           Seen == [init : BOOLEAN, tweak : BOOLEAN, leak : BOOLEAN,
                    saved : BOOLEAN, count : BOOLEAN]
<1>a. NewInstance \in Instance
  BY DEF NewInstance
<1>b. \A b \in BOOLEAN : /\ [fx EXCEPT !.tweak = TRUE] \in Instance
                         /\ [fx EXCEPT !.init = TRUE, !.leak = b] \in Instance
  BY DEF JsfxTypeOK
<1>c. (Flawed("leaks") /\ store) \in BOOLEAN
  BY DEF Flawed
<1>d. Chunks \subseteq Seen
  <2>1. /\ (fx.init /\ Has("initshows")) \in BOOLEAN /\ (fx.tweak /\ ~Has("deaf")) \in BOOLEAN
        /\ (fx.leak /\ ~Has("nochannel")) \in BOOLEAN
        /\ (fx.init /\ Has("initsaves")) \in BOOLEAN
    BY DEF Has
  <2>2. \A c \in BOOLEAN : ChunkShows(c) \in Seen
    BY <2>1 DEF ChunkShows
  <2>3. \A chunk \in Chunks : \E c \in BOOLEAN : chunk = ChunkShows(c)
    BY DEF Chunks
  <2>4. QED
    BY <2>2, <2>3
<1>1. CASE \/ Compile \/ ReadVirgin \/ Tweak \/ Readd \/ InitRuns
           \/ SaveOnce \/ ReadDefaults
  <2>1. fx' \in Instance
    BY <1>1, <1>a, <1>b, <1>c
       DEF JsfxTypeOK, Compile, ReadVirgin, Tweak, Readd, InitRuns, SaveOnce, ReadDefaults
  <2>2. earlier' \in Seen /\ store' \in BOOLEAN
    BY <1>1, <1>d
       DEF JsfxTypeOK, Compile, ReadVirgin, Tweak, Readd, InitRuns, SaveOnce, ReadDefaults
  <2>3. QED
    BY <2>1, <2>2 DEF JsfxTypeOK
<1>2. CASE UNCHANGED chunkVars
  BY <1>2 DEF JsfxTypeOK
<1>3. JsfxStep => \/ Compile \/ ReadVirgin \/ Tweak \/ Readd \/ SaveOnce \/ ReadDefaults
                  \/ UNCHANGED chunkVars
  BY DEF JsfxStep, StaticParse, CheckTweak, PollChunk, SaveAgain, Restore, PrevChunk,
         LeaveSession, JsfxRendering, JsfxRaises
<1>4. Next => JsfxStep \/ InitRuns \/ UNCHANGED chunkVars
  BY DEF Next, Program, Dispatch, PrintVerdict, Again, AudioThread, Renderer, Reaper, Kill
<1>5. QED
  BY <1>1, <1>2, <1>3, <1>4

LEMMA ScriptTypeStep == ASSUME ScriptTypeOK, [Next]_vars PROVE ScriptTypeOK'
<1>1. CASE ScriptStep \/ ScriptRuns
  BY <1>1 DEF ScriptTypeOK, ScriptStep, ScriptStatic, Load, Supervise, WindowEnds, Snapshot,
              Register, Watch, PingAction, ScriptRaises, ToRegister, FinishAction,
              ScriptRuns, Deferred, Sight, RunAction
<1>2. CASE UNCHANGED scriptVars
  BY <1>2 DEF ScriptTypeOK
<1>3. Next => ScriptStep \/ ScriptRuns \/ UNCHANGED scriptVars
  BY DEF Next, Program, Dispatch, PrintVerdict, Again, AudioThread, Renderer, Reaper, Kill
<1>4. QED
  BY <1>1, <1>2, <1>3

LEMMA UnitTypeStep == ASSUME AuTypeOK, SubjectInv, [Next]_vars PROVE AuTypeOK'
<1>0. copy \in Copies
  BY DEF AuTypeOK, Copies
<1>1. CASE UnitStep
  <2>1. CASE Install
    <3>1. subject \in Subjects
      <4>1. subject.kind = "au" => package = 0
        BY <1>1, SubjectKinds, CappedBounds DEF SubjectInv
      <4>2. QED
        BY <1>1, <4>1 DEF UnitStep, SubjectInv, ElseTested, TestedAs
    <3>2. \A w \in {"partial", "whole"} : [what |-> w, flaws |-> subject.flaws] \in Copies
      BY <3>1 DEF Copies
    <3>3. copy' \in Copies /\ mine' \in BOOLEAN /\ run' = run
      BY <1>0, <2>1, <3>2 DEF AuTypeOK, Install
    <3>4. tested' \in {"none", "own", "another", "stale"}
      BY <2>1 DEF AuTypeOK, Install, Answering, Tests
    <3>5. QED
      BY <3>3, <3>4 DEF AuTypeOK, Copies
  <2>2. CASE Remove
    <3>1. NoCopy \in Copies
      BY DEF NoCopy, Copies
    <3>2. QED
      BY <2>2, <3>1 DEF AuTypeOK, Remove, Restored, Copies
  <2>3. CASE UNCHANGED auVars
    BY <2>3 DEF AuTypeOK
  <2>4. QED
    BY <1>1, <2>1, <2>2, <2>3 DEF UnitStep, Manifest, Validate, LoadUnit
<1>2. CASE Again
  BY <1>2, ComponentAssumption DEF AuTypeOK, Again
<1>3. CASE KillCommand
  BY <1>3 DEF AuTypeOK, KillCommand
<1>4. CASE UNCHANGED auVars
  BY <1>4 DEF AuTypeOK
<1>5. Next => UnitStep \/ Again \/ KillCommand \/ UNCHANGED auVars
  BY DEF Next, Program, Dispatch, PrintVerdict, AudioThread, Renderer, Reaper, Kill
<1>6. QED
  BY <1>1, <1>2, <1>3, <1>4, <1>5

(* What is done with a render, and with the plan. *)
Renders ==
  \/ RenderStep \/ RendererWrites
  \/ AskRender /\ UNCHANGED <<step, todo, kept>>

TakesRender ==
  /\ step = "renders" /\ RenderEnded
  /\ render' = Idle /\ todo' = Tail(todo)
  /\ \/ UNCHANGED kept
     \/ /\ Label \in {"sine_1k", "midi"} /\ render.at # "raised"
        /\ kept' = [kept EXCEPT ![Label] = render.at]
  /\ UNCHANGED <<step, left>>

DropsLabel == RenderDue /\ todo' = Tail(todo) /\ UNCHANGED <<render, left, kept>>

StartsPlan ==
  /\ step # "renders"
  /\ todo' = todo \/ (todo' \in Seq(Labels) /\ Len(todo') <= 6 + MaxParams)
  /\ kept' = NoRenders
  /\ render' = render /\ left' \subseteq left \cup {"discovery", "session"}

KeepsPlan ==
  /\ UNCHANGED <<render, todo, kept>>
  /\ step = "renders" => UNCHANGED step \/ todo = <<>>
  /\ left' \subseteq left \cup {"discovery", "session"}

LEMMA PlanSteps ==
  ASSUME [Next]_vars
  PROVE  Renders \/ TakesRender \/ DropsLabel \/ StartsPlan \/ KeepsPlan
<1>1. ASSUME JsfxStep
      PROVE  Renders \/ TakesRender \/ DropsLabel \/ StartsPlan \/ KeepsPlan
  <2>1. CASE StaticParse \/ Compile \/ ReadVirgin \/ Tweak \/ CheckTweak \/ Readd \/ PollChunk
             \/ SaveOnce \/ SaveAgain \/ ReadDefaults \/ Restore \/ PrevChunk \/ JsfxRaises
    BY <2>1
       DEF StaticParse, Compile, ReadVirgin, Tweak, CheckTweak, Readd, PollChunk, SaveOnce,
           SaveAgain, ReadDefaults, Restore, PrevChunk, JsfxRaises, EvalRaises, NoSession,
           KeepsPlan
  <2>2. CASE LeaveSession
    BY <2>2, JsfxPlanIsPlan DEF LeaveSession, StartsPlan, KeepsPlan
  <2>3. CASE JsfxRendering
    BY <2>3 DEF JsfxRendering, SkipDeterminism, SilentWithoutNotes, AskRender, PassOver,
                TakeRender, AllRendered, Renders, TakesRender, DropsLabel, KeepsPlan
  <2>4. QED
    BY <1>1, <2>1, <2>2, <2>3 DEF JsfxStep
<1>2. ASSUME ScriptStep \/ ScriptRuns
      PROVE  KeepsPlan
  BY <1>2
     DEF ScriptStep, ScriptStatic, Load, Supervise, WindowEnds, Snapshot, Register, Watch,
         PingAction, ScriptRaises, EvalRaises, NoSession, ScriptRuns, Deferred, Sight,
         RunAction, KeepsPlan
<1>3. ASSUME PluginStep
      PROVE  Renders \/ TakesRender \/ DropsLabel \/ StartsPlan \/ KeepsPlan
  <2>1. CASE Validator
    BY <2>1 DEF Validator, KeepsPlan
  <2>2. CASE Discover
    BY <2>2, PluginPlanIsPlan DEF Discover, StartsPlan, KeepsPlan
  <2>3. CASE AskRender \/ PassOver \/ TakeRender(PluginVerdicts) \/ AllRendered
    BY <2>3
       DEF AskRender, PassOver, TakeRender, AllRendered, Renders, TakesRender, DropsLabel,
           KeepsPlan
  <2>4. QED
    BY <1>3, <2>1, <2>2, <2>3 DEF PluginStep
<1>4. ASSUME UnitStep
      PROVE  Renders \/ TakesRender \/ DropsLabel \/ StartsPlan \/ KeepsPlan
  <2>1. CASE Manifest \/ Install \/ Validate \/ Remove
    BY <2>1 DEF Manifest, Install, Validate, Remove, KeepsPlan
  <2>2. CASE LoadUnit
    BY <2>2, UnitPlanIsPlan DEF LoadUnit, StartsPlan, KeepsPlan
  <2>3. CASE AskRender \/ PassOver \/ TakeRender(UnitVerdicts) \/ UnitsRendered
    BY <2>3 DEF AskRender, PassOver, TakeRender, UnitsRendered, Renders, TakesRender,
                DropsLabel, KeepsPlan
  <2>4. QED
    BY <1>4, <2>1, <2>2, <2>3 DEF UnitStep
<1>5. ASSUME ThemeStep
      PROVE  KeepsPlan
  BY <1>5
     DEF ThemeStep, Lint, Capture, OpenTheme, Paint, ThemeRaises, EvalRaises, NoSession,
         KeepsPlan
<1>6. ASSUME RepoStep, UNCHANGED <<renderVars, loopVars>>
      PROVE  KeepsPlan
  BY <1>6 DEF RepoStep, CheckIndex, DiscoverPackages, NextPackage, PackageTested, RepoTested,
              KeepsPlan
<1>7. ASSUME Dispatch \/ PrintVerdict \/ InitRuns \/ KillCommand \/ UNCHANGED vars
      PROVE  KeepsPlan
  BY <1>7 DEF Dispatch, PrintVerdict, InitRuns, KillCommand, KeepsPlan
<1>8. ASSUME Again
      PROVE  StartsPlan
  BY <1>8, JsfxPlanIsPlan DEF Again, StartsPlan
<1>9. QED
  BY <1>1, <1>2, <1>3, <1>4, <1>5, <1>6, <1>7, <1>8
     DEF Next, Program, AudioThread, Renderer, Reaper, Kill, Renders

LEMMA RenderStepKeeps ==
  ASSUME TypeInv, EngineInv, RenderStep \/ RendererWrites
  PROVE  /\ RenderTypeOK' /\ Rendering /\ Rendering'
         /\ UNCHANGED <<subject, package, step, results, todo, kept>>
<1> DEFINE At == {"idle", "host", "write", "build", "open", "poll", "settle",
                  "full", "cut", "raised"}
           Record == [at : At, size : 0..Full, mark : 0..Full, renderer : BOOLEAN]
<1>1. /\ render \in Record /\ left \subseteq {"session", "host", "renderer", "discovery"}
      /\ render.size \in 0..Full /\ render.at \in At
  BY DEF TypeInv, TypeOK, RenderTypeOK
<1>2. \A a \in At :
        /\ [render EXCEPT !.at = a] \in Record /\ [render EXCEPT !.at = a].at = a
        /\ [render EXCEPT !.at = a, !.mark = render.size] \in Record
        /\ [render EXCEPT !.at = a, !.mark = render.size].at = a
  BY <1>1
<1>2a. \A a \in At, b \in BOOLEAN :
        /\ [render EXCEPT !.at = a, !.renderer = b] \in Record
        /\ [render EXCEPT !.at = a, !.renderer = b].at = a
  BY <1>1
<1> HIDE DEF Record
<1>3. /\ render' \in Record /\ left' \subseteq {"session", "host", "renderer", "discovery"}
      /\ Rendering /\ Rendering'
      /\ UNCHANGED <<subject, package, step, results, todo, kept>>
  <2>1. CASE Host
    BY <1>1, <1>2, <2>1 DEF Host, RenderGoes, Rendering
  <2>2. CASE WriteInput
    BY <1>1, <1>2, <2>2 DEF WriteInput, RenderGoes, Rendering
  <2>3. CASE Build
    <3>1. \E a \in {"open", "raised"} : render' = [render EXCEPT !.at = a]
      BY <2>3 DEF Build, RenderGoes
    <3>2. left' = left \/ left' = left \cup {"session"}
      BY <2>3 DEF Build
    <3>3. Rendering /\ UNCHANGED <<subject, package, step, results, todo, kept>>
      BY <2>3 DEF Build, Rendering
    <3>4. render' \in Record /\ render'.at # "idle"
      BY <1>2, <3>1
    <3>5. QED
      BY <1>1, <3>2, <3>3, <3>4 DEF Rendering
  <2>4. CASE OpenRenderer
    <3>1. \/ render' = [render EXCEPT !.at = "poll", !.renderer = TRUE]
          \/ render' = [render EXCEPT !.at = "raised"]
      BY <2>4 DEF OpenRenderer, RenderGoes
    <3>2. render' \in Record /\ render'.at # "idle"
      BY <1>2, <1>2a, <3>1
    <3>3. render.at # "idle" /\ left' \subseteq left \cup {"renderer"}
          /\ UNCHANGED <<subject, package, step, results, todo, kept>>
      BY <2>4 DEF OpenRenderer
    <3>4. QED
      BY <1>1, <3>2, <3>3 DEF Rendering
  <2>5. CASE Poll
    <3>1. render' = [render EXCEPT !.at = "settle", !.mark = render.size]
      BY <2>5 DEF Poll
    <3>2. QED
      BY <1>1, <1>2, <2>5, <3>1 DEF Poll, Rendering
  <2>6. CASE Settle
    <3>1. /\ \/ render' = [render EXCEPT !.at = "poll"]
             \/ \E a \in {"full", "cut", "raised"} :
                  render' = [render EXCEPT !.at = a, !.renderer = FALSE]
          /\ left' = left
      BY <2>6 DEF Settle, RenderGoes, Leave, Reap
    <3>2. Rendering /\ UNCHANGED <<subject, package, step, results, todo, kept>>
      BY <2>6 DEF Settle, Rendering
    <3>3. render' \in Record /\ render'.at # "idle"
      <4>1. CASE render' = [render EXCEPT !.at = "poll"]
        BY <1>2, <4>1
      <4>2. ASSUME NEW a \in {"full", "cut", "raised"},
                   render' = [render EXCEPT !.at = a, !.renderer = FALSE]
            PROVE  render' \in Record /\ render'.at # "idle"
        BY <1>2a, <4>2
      <4>3. QED
        BY <3>1, <4>1, <4>2
    <3>4. QED
      BY <1>1, <3>1, <3>2, <3>3 DEF Rendering
  <2>7. CASE Deadline
    <3>1. render' = [render EXCEPT !.at = "raised", !.renderer = FALSE] /\ left' = left
      BY <2>7 DEF Deadline, Leave, Reap
    <3>2. QED
      BY <1>1, <1>2a, <2>7, <3>1 DEF Deadline, OutOfTime, Rendering
  <2>8. CASE RendererWrites
    <3>1. render.size + 1 \in 0..Full
      BY <1>1, <2>8, RenderAssumption DEF RendererWrites, Reach
    <3>2. render.at # "idle" /\ render' = [render EXCEPT !.size = render.size + 1]
      BY <2>8 DEF RendererWrites, EngineInv
    <3>3. render' \in Record /\ render'.at = render.at
      BY <1>1, <3>1, <3>2 DEF Record
    <3>4. QED
      BY <1>1, <2>8, <3>2, <3>3 DEF RendererWrites, Rendering
  <2>9. QED
    BY <2>1, <2>2, <2>3, <2>4, <2>5, <2>6, <2>7, <2>8 DEF RenderStep
<1>4. QED
  BY <1>3 DEF TypeInv, TypeOK, RenderTypeOK, Record

LEMMA PlanTypeStep ==
  ASSUME TypeInv, EngineInv, [Next]_vars
  PROVE  /\ RenderTypeOK' /\ todo' \in Seq(Labels)
         /\ Rendering' => step' = "renders" /\ todo' # <<>>
<1>1. CASE RenderStep \/ RendererWrites
  BY <1>1, RenderStepKeeps DEF TypeInv
<1>2. CASE AskRender /\ UNCHANGED <<step, todo, kept>>
  <2>1. \E a \in {"write", "host"} : render' = [render EXCEPT !.at = a]
    BY <1>2 DEF AskRender, StartRender, RenderGoes
  <2>2. step = "renders" /\ todo # <<>> /\ UNCHANGED <<step, todo, kept, left>>
    BY <1>2 DEF AskRender, RenderDue
  <2>3. QED
    BY <2>1, <2>2 DEF TypeInv, TypeOK, RenderTypeOK
<1>3. CASE TakesRender
  <2>1. todo # <<>>
    BY <1>3 DEF TakesRender, TypeInv, Rendering, RenderEnded
  <2>2. kept' \in [{"sine_1k", "midi"} -> {"none", "full", "cut"}]
    BY <1>3 DEF TakesRender, TypeInv, TypeOK, RenderTypeOK, RenderEnded
  <2>3. render' = Idle /\ todo' = Tail(todo) /\ left' = left
    BY <1>3 DEF TakesRender
  <2>4. Idle \in [at : {"idle"}, size : 0..Full, mark : 0..Full, renderer : BOOLEAN]
    BY RenderAssumption DEF Idle
  <2>5. QED
    BY <2>1, <2>2, <2>3, <2>4, RestOfPlan DEF TypeInv, TypeOK, RenderTypeOK, Rendering, Idle
<1>4. CASE DropsLabel
  <2>1. todo # <<>> /\ ~Rendering
    BY <1>4 DEF DropsLabel, RenderDue, Rendering
  <2>2. QED
    BY <1>4, <2>1, RestOfPlan DEF DropsLabel, TypeInv, TypeOK, RenderTypeOK, Rendering
<1>5. CASE StartsPlan
  <2>1. NoRenders \in [{"sine_1k", "midi"} -> {"none", "full", "cut"}]
    BY DEF NoRenders
  <2>2. QED
    BY <1>5, <2>1 DEF StartsPlan, TypeInv, TypeOK, RenderTypeOK, Rendering
<1>6. CASE KeepsPlan
  BY <1>6 DEF KeepsPlan, TypeInv, TypeOK, RenderTypeOK, Rendering
<1>7. QED
  BY <1>1, <1>2, <1>3, <1>4, <1>5, <1>6, PlanSteps DEF Renders

-----------------------------------------------------------------------------
(* Whose battery is at work *)

(* Whose step it is, and what it leaves alone.                             *)
Context == <<subject, package, given, packages>>

LEMMA Actors ==
  ASSUME Next
  PROVE  \/ JsfxStep /\ UNCHANGED <<Context, scriptVars, auVars, exit>>
         \/ (ScriptStep \/ ScriptRuns) /\ UNCHANGED <<Context, chunkVars, auVars, exit>>
         \/ PluginStep /\ UNCHANGED <<Context, chunkVars, scriptVars, auVars, exit>>
         \/ UnitStep /\ ~Install /\ UNCHANGED <<Context, tested, chunkVars, scriptVars, exit>>
         \/ UnitStep /\ Install
            /\ UNCHANGED <<package, given, packages, renderVars, loopVars, chunkVars,
                           scriptVars, exit>>
         \/ ThemeStep /\ UNCHANGED <<Context, chunkVars, scriptVars, auVars, exit>>
         \/ /\ RepoStep
            /\ UNCHANGED <<given, packages, renderVars, loopVars, chunkVars, scriptVars, auVars,
                           exit>>
            /\ (UNCHANGED Context \/ NextPackage \/ RepoTested)
         \/ (RenderStep \/ RendererWrites)
            /\ UNCHANGED <<Context, step, results, loopVars, chunkVars, scriptVars, auVars, exit>>
         \/ InitRuns /\ UNCHANGED <<Context, scriptVars, auVars, exit>>
         \/ (Dispatch \/ PrintVerdict)
            /\ UNCHANGED <<Context, mishaps, renderVars, chunkVars, scriptVars, auVars>>
         \/ Again
            /\ UNCHANGED <<package, packages, mishaps, renderVars, chunkVars, scriptVars>>
         \/ KillCommand /\ UNCHANGED <<Context, tested, chunkVars, scriptVars, exit>>
<1>1. ASSUME JsfxStep PROVE UNCHANGED <<subject, package>>
  BY <1>1
     DEF JsfxStep, StaticParse, Compile, ReadVirgin, Tweak, CheckTweak, Readd, PollChunk,
         SaveOnce, SaveAgain, ReadDefaults, Restore, PrevChunk, LeaveSession, JsfxRendering,
         JsfxRaises, EvalRaises, NoSession, SkipDeterminism, AskRender, PassOver,
         TakeRender, AllRendered
<1>2. ASSUME ScriptStep \/ ScriptRuns PROVE UNCHANGED <<subject, package>>
  BY <1>2
     DEF ScriptStep, ScriptStatic, Load, Supervise, WindowEnds, Snapshot, Register, Watch,
         PingAction, ScriptRaises, EvalRaises, NoSession, ScriptRuns, Deferred, Sight,
         RunAction
<1>3. ASSUME PluginStep PROVE UNCHANGED <<subject, package>>
  BY <1>3 DEF PluginStep, Validator, Discover, AskRender, PassOver, TakeRender, AllRendered
<1>4. ASSUME UnitStep
      PROVE  /\ UNCHANGED package
             /\ UNCHANGED <<subject, tested>> \/ Install
             /\ Install => UNCHANGED <<renderVars, loopVars>>
  <2>1. UnitStep => Install \/ UNCHANGED <<subject, package, tested>>
    BY DEF UnitStep, Manifest, Validate, LoadUnit, Remove, AskRender, PassOver, TakeRender,
           UnitsRendered
  <2>2. Install => UNCHANGED <<package, renderVars, loopVars>>
    BY DEF Install
  <2>3. QED
    BY <1>4, <2>1, <2>2
<1>5. ASSUME ThemeStep PROVE UNCHANGED <<subject, package>>
  BY <1>5 DEF ThemeStep, Lint, Capture, OpenTheme, Paint, ThemeRaises, EvalRaises, NoSession
<1>6. ASSUME RepoStep
      PROVE  /\ UNCHANGED <<given, packages>>
             /\ UNCHANGED <<subject, package>> \/ NextPackage \/ RepoTested
  BY <1>6 DEF RepoStep, CheckIndex, DiscoverPackages, NextPackage, PackageTested, RepoTested
<1>7. ASSUME RenderStep \/ RendererWrites
      PROVE  UNCHANGED <<subject, package, step, results, loopVars>>
  BY <1>7 DEF RenderStep, Host, WriteInput, Build, OpenRenderer, Poll, Settle, Deadline,
              RendererWrites
<1>8. ASSUME Dispatch \/ PrintVerdict \/ InitRuns \/ KillCommand
      PROVE  UNCHANGED <<subject, package>> /\ (InitRuns \/ UNCHANGED tested)
  BY <1>8 DEF Dispatch, PrintVerdict, InitRuns, KillCommand
<1>9. ASSUME Program
      PROVE  \/ JsfxStep /\ UNCHANGED <<scriptVars, auVars, repoVars, exit>>
             \/ ScriptStep /\ UNCHANGED <<chunkVars, auVars, repoVars, exit>>
             \/ PluginStep /\ UNCHANGED <<chunkVars, scriptVars, auVars, repoVars, exit>>
             \/ UnitStep /\ UNCHANGED <<chunkVars, scriptVars, repoVars, exit>>
             \/ ThemeStep /\ UNCHANGED <<chunkVars, scriptVars, auVars, repoVars, exit>>
             \/ RepoStep /\ UNCHANGED <<renderVars, loopVars, chunkVars, scriptVars, auVars, exit>>
             \/ RenderStep /\ UNCHANGED <<chunkVars, scriptVars, auVars, repoVars, exit>>
             \/ (Dispatch \/ PrintVerdict)
                /\ UNCHANGED <<Context, mishaps, renderVars, chunkVars, scriptVars, auVars>>
  BY <1>9, <1>8 DEF Program, Dispatch, PrintVerdict, Context
<1>10. ASSUME Next, ~Program
       PROVE  \/ InitRuns /\ UNCHANGED <<scriptVars, auVars, repoVars, exit>>
              \/ RendererWrites /\ UNCHANGED <<chunkVars, scriptVars, auVars, repoVars, exit>>
              \/ ScriptRuns /\ UNCHANGED <<chunkVars, auVars, repoVars, exit>>
              \/ KillCommand /\ UNCHANGED <<chunkVars, scriptVars, repoVars, exit>>
              \/ Again /\ UNCHANGED <<package, packages, mishaps, renderVars, chunkVars, scriptVars>>
  BY <1>10 DEF Next, AudioThread, Renderer, Reaper, Kill, Again
<1>11. CASE Program
  <2>1. CASE UnitStep /\ UNCHANGED <<chunkVars, scriptVars, repoVars, exit>>
    BY <1>4, <2>1 DEF Context
  <2>2. CASE RepoStep /\ UNCHANGED <<renderVars, loopVars, chunkVars, scriptVars, auVars, exit>>
    BY <1>6, <2>2 DEF Context
  <2>3. CASE JsfxStep /\ UNCHANGED <<scriptVars, auVars, repoVars, exit>>
    BY <1>1, <2>3 DEF Context
  <2>4. CASE ScriptStep /\ UNCHANGED <<chunkVars, auVars, repoVars, exit>>
    BY <1>2, <2>4 DEF Context
  <2>5. CASE PluginStep /\ UNCHANGED <<chunkVars, scriptVars, auVars, repoVars, exit>>
    BY <1>3, <2>5 DEF Context
  <2>6. CASE ThemeStep /\ UNCHANGED <<chunkVars, scriptVars, auVars, repoVars, exit>>
    BY <1>5, <2>6 DEF Context
  <2>7. CASE RenderStep /\ UNCHANGED <<chunkVars, scriptVars, auVars, repoVars, exit>>
    BY <1>7, <2>7 DEF Context
  <2>8. QED
    BY <1>9, <1>11, <2>1, <2>2, <2>3, <2>4, <2>5, <2>6, <2>7
<1>12. CASE ~Program
  <2>1. CASE InitRuns /\ UNCHANGED <<scriptVars, auVars, repoVars, exit>>
    BY <1>8, <2>1 DEF Context
  <2>2. CASE RendererWrites /\ UNCHANGED <<chunkVars, scriptVars, auVars, repoVars, exit>>
    BY <1>7, <2>2 DEF Context
  <2>3. CASE ScriptRuns /\ UNCHANGED <<chunkVars, auVars, repoVars, exit>>
    BY <1>2, <2>3 DEF Context
  <2>4. CASE KillCommand /\ UNCHANGED <<chunkVars, scriptVars, repoVars, exit>>
    <3>1. UNCHANGED <<subject, package, tested>>
      BY <2>4 DEF KillCommand
    <3>2. QED
      BY <2>4, <3>1 DEF Context
  <2>5. QED
    BY <1>10, <1>12, <2>1, <2>2, <2>3, <2>4
<1>13. QED
  BY <1>11, <1>12

(* A step goes on with the subject; the repository's battery takes the     *)
(* next package, or is done; an Audio Unit's finds out what is tested; the *)
(* command is run again.                                                   *)
LEMMA SubjectSteps ==
  ASSUME [Next]_vars
  PROVE  /\ packages' = packages
         /\ \/ UNCHANGED <<subject, package, given, tested>>
            \/ /\ given.kind = "repo" /\ (NextPackage \/ RepoTested)
               /\ UNCHANGED <<given, tested>>
            \/ UnitStep /\ Install /\ UNCHANGED <<package, given>>
            \/ Again /\ UNCHANGED package
BY Actors DEF Context, RepoStep

LEMMA PackageStep ==
  ASSUME SubjectInv, [Next]_vars
  PROVE  package' \in 0..Capped /\ Capped' = Capped
<1>1. Capped' = Capped
  BY SubjectSteps DEF Capped
<1>2. CASE UNCHANGED package
  BY <1>1, <1>2 DEF SubjectInv
<1>3. CASE NextPackage \/ RepoTested
  <2>1. (package < Capped /\ package' = package + 1) \/ package' = 0
    BY <1>3 DEF NextPackage, RepoTested
  <2>2. package \in Nat /\ Capped \in Nat
    BY CappedBounds
  <2>3. QED
    BY <1>1, <2>1, <2>2
<1>4. QED
  BY <1>1, <1>2, <1>3, SubjectSteps

(* What Install may make of the subject. *)
LEMMA InstallTests ==
  ASSUME Install
  PROVE  \/ UNCHANGED <<subject, tested>>
         \/ tested' = "own" /\ UNCHANGED subject
         \/ /\ tested' \in {"another", "stale"}
            /\ subject' \in Subjects /\ subject'.kind = "au"
            /\ subject'.traits = subject.traits
            /\ tested' = "another" => Has("registered")
            /\ tested' = "stale" => copy.what = "whole"
<1>1. \A b \in {"own", "another", "stale"} : \A build \in Builds(b) :
        /\ build \in Subjects /\ build.kind = "au" /\ build.traits = subject.traits
        /\ b = "own" => build = subject
  BY DEF Builds
<1>2. \A b \in Answering :
        /\ b \in {"own", "another", "stale"}
        /\ b = "another" => Has("registered")
        /\ b = "stale" => copy.what = "whole"
  BY DEF Answering
<1>3. ASSUME NEW b \in Answering, NEW build \in Builds(b), Tests(b, build)
      PROVE  \/ tested' = "own" /\ UNCHANGED subject
             \/ /\ tested' \in {"another", "stale"}
                /\ subject' \in Subjects /\ subject'.kind = "au"
                /\ subject'.traits = subject.traits
                /\ tested' = "another" => Has("registered")
                /\ tested' = "stale" => copy.what = "whole"
  BY <1>1, <1>2, <1>3 DEF Tests
<1>4. ASSUME NEW b \in {"own", "another"}, NEW build \in Builds(b), Unregistered(b, build),
             Tests(b, build)
      PROVE  \/ tested' = "own" /\ UNCHANGED subject
             \/ /\ tested' = "another" /\ Has("registered")
                /\ subject' \in Subjects /\ subject'.kind = "au"
                /\ subject'.traits = subject.traits
  <2>1. b = "another" => "another" \in Answering
    BY <1>4 DEF Unregistered
  <2>2. QED
    BY <1>1, <1>2, <1>4, <2>1 DEF Tests
<1>5. QED
  BY <1>3, <1>4 DEF Install

LEMMA SubjectStep == ASSUME SubjectInv, CopyInv, [Next]_vars PROVE SubjectInv'
<1>0. package' \in 0..Capped' /\ packages' = packages
  BY PackageStep, SubjectSteps
<1>1. CASE UNCHANGED <<subject, package, given, tested>>
  BY <1>0, <1>1 DEF SubjectInv, TestedAs, ElseTested
<1>2. CASE given.kind = "repo" /\ NextPackage /\ UNCHANGED <<given, tested>>
  <2>1. package' = package + 1 /\ subject' = packages[package']
    BY <1>2 DEF NextPackage
  <2>1a. package' > 0
    BY <2>1, CappedBounds
  <2>2. QED
    BY <1>0, <1>2, <2>1, <2>1a DEF SubjectInv, TestedAs
<1>3. CASE given.kind = "repo" /\ RepoTested /\ UNCHANGED <<given, tested>>
  <2>1. package' = 0 /\ subject' = given
    BY <1>3 DEF RepoTested
  <2>2. QED
    BY <1>0, <1>3, <2>1 DEF SubjectInv, TestedAs
<1>4. CASE UnitStep /\ Install /\ UNCHANGED <<package, given>>
  <2>1. package = 0 /\ subject.kind = "au"
    BY <1>4, SubjectKinds, CappedBounds DEF UnitStep
  <2>2. tested = "none" /\ subject = given
    BY <1>4, <2>1 DEF Install, CopyInv, SubjectInv, ElseTested, TestedAs
  <2>3. SubjectInv' \/ (subject' = given /\ package' = 0)
    BY <1>0, <1>4, <2>1, <2>2, InstallTests DEF SubjectInv, ElseTested
  <2>4. QED
    BY <1>0, <1>4, <2>1, <2>3 DEF SubjectInv, TestedAs
<1>5. CASE Again /\ UNCHANGED package
  <2>1. /\ given' \in Subjects /\ given'.kind = "au" /\ given.kind = "au"
        /\ subject' = given'
    BY <1>5 DEF Again
  <2>2. package = 0 /\ packages = <<>>
    BY <2>1, CappedBounds DEF SubjectInv
  <2>3. QED
    BY <1>0, <1>5, <2>1, <2>2 DEF SubjectInv, TestedAs
<1>6. QED
  BY <1>1, <1>2, <1>3, <1>4, <1>5, SubjectSteps

-----------------------------------------------------------------------------
(* Results *)

(* A step adds results about the subject that is tested, if any. *)
Adds ==
  /\ results \subseteq results'
  /\ \A r \in results' : r \in results \/ (r[1] = package /\ r[3] \in Status)

LEMMA AddSet ==
  ASSUME NEW rs, \A r \in rs : r[2] \in Status, AddAll(rs)
  PROVE  Adds
BY DEF AddAll, Adds

LEMMA AddOne == ASSUME NEW name, NEW s \in Status, Add(name, s) PROVE Adds
BY AddSet DEF Add

LEMMA AddNone == ASSUME UNCHANGED results PROVE Adds
BY DEF Adds

LEMMA VerdictTypes ==
  ASSUME NEW quality
  PROVE  /\ \A r \in Pathology(quality) : r[2] \in Status
         /\ SilenceOut[2] \in Status
         /\ \A first : Determinism(first, quality) \subseteq Status
         /\ Sounds \in Status
BY DEF Pathology, SilenceOut, Determinism, Sounds, Status

LEMMA RenderVerdictTypes ==
  ASSUME NEW quality
  PROVE  /\ \A rs \in JsfxVerdicts(quality) : \A r \in rs : r[2] \in Status
         /\ \A rs \in PluginVerdicts(quality) : \A r \in rs : r[2] \in Status
         /\ \A rs \in UnitVerdicts(quality) : \A r \in rs : r[2] \in Status
<1>1. {"passed", "failed", "skipped"} \subseteq Status
  BY DEF Status
<1>2. \A rs \in JsfxVerdicts(quality) : \A r \in rs : r[2] \in Status
  <2> SUFFICES ASSUME NEW rs \in JsfxVerdicts(quality), NEW r \in rs
               PROVE  r[2] \in Status
    OBVIOUS
  <2> DEFINE also == CASE Label = "silence" -> IF NoteDriven THEN {} ELSE {SilenceOut}
                       [] Label = "midi" -> {<<"sounds", Sounds>>}
                       [] OTHER -> {}
  <2>1. \A q \in also : q[2] \in Status
    BY VerdictTypes
  <2> HIDE DEF also
  <2>2. \/ \E s \in Determinism(kept["sine_1k"], quality) : rs = {<<Label, s>>}
        \/ \E s \in {"passed", "failed"} : rs = {<<Label, s>>}
        \/ \E q \in Pathology(quality) : rs = {q} \cup also
    BY DEF JsfxVerdicts, also
  <2>3. QED
    BY <1>1, <2>1, <2>2, VerdictTypes
<1>3. \A rs \in PluginVerdicts(quality) : \A r \in rs : r[2] \in Status
  BY <1>1, VerdictTypes DEF PluginVerdicts
<1>4. \A rs \in UnitVerdicts(quality) : \A r \in rs : r[2] \in Status
  BY <1>1, VerdictTypes DEF UnitVerdicts
<1>5. QED
  BY <1>2, <1>3, <1>4

LEMMA ResultSteps == ASSUME [Next]_vars PROVE Adds \/ (Again /\ results' = {})
<1>0. {"passed", "failed", "skipped"} \subseteq Status
  BY DEF Status
<1>1. ASSUME JsfxStep PROVE Adds
  <2>1. CASE StaticParse \/ CheckTweak \/ Readd \/ PollChunk \/ PrevChunk \/ LeaveSession
    BY <1>0, <2>1, AddOne, AddNone
       DEF StaticParse, CheckTweak, Readd, PollChunk, PrevChunk, LeaveSession
  <2>2. CASE Compile
    BY <1>0, <2>2, AddSet DEF Compile, Add
  <2>3. CASE SaveOnce \/ ReadDefaults \/ Restore
    BY <1>0, <2>3, AddOne, AddNone DEF SaveOnce, ReadDefaults, Restore
  <2>3a. CASE SaveAgain
    <3> DEFINE rs == {<<"saves", "passed">>} \cup
                     (IF Has("oddblock") THEN {<<"restore", "skipped">>} ELSE {})
    <3>1. \A r \in rs : r[2] \in Status
      BY <1>0
    <3>2. Add("saves", "failed") \/ AddAll(rs)
      BY <2>3a DEF SaveAgain
    <3>3. QED
      BY <1>0, <3>1, <3>2, AddOne, AddSet
  <2>4. CASE ReadVirgin \/ Tweak \/ JsfxRaises
    BY <2>4, AddNone DEF ReadVirgin, Tweak, JsfxRaises, EvalRaises, NoSession
  <2>5. CASE JsfxRendering
    BY <1>0, <2>5, AddOne, AddNone, AddSet, RenderVerdictTypes
       DEF JsfxRendering, SkipDeterminism, AskRender, PassOver, TakeRender, AllRendered
  <2>6. QED
    BY <1>1, <2>1, <2>2, <2>3, <2>3a, <2>4, <2>5 DEF JsfxStep
<1>2. ASSUME ScriptStep \/ ScriptRuns PROVE Adds
  <2>1. CASE ScriptStatic
    <3>1. \A b : \A r \in Metadata(b) : r[2] \in Status
      BY <1>0 DEF Metadata, Verdict
    <3>2. \A r \in Metadata(TRUE) \cup {<<"load", "skipped">>} : r[2] \in Status
      <4>1. <<"load", "skipped">>[2] \in Status
        BY <1>0
      <4>2. QED
        BY <3>1, <4>1
    <3>3. QED
      BY <1>0, <2>1, <3>1, <3>2, AddOne, AddNone, AddSet DEF ScriptStatic
  <2>2. CASE Load \/ Supervise \/ WindowEnds \/ Register \/ Watch \/ PingAction \/ ScriptRaises
    BY <1>0, <2>2, AddOne, AddNone
       DEF Load, Supervise, WindowEnds, Register, Watch, PingAction, ScriptRaises,
           EvalRaises, NoSession, FinishAction, Ping, Verdict
  <2>3. CASE Snapshot
    BY <1>0, <2>3, AddNone, AddSet DEF Snapshot, Hygiene, Verdict
  <2>4. CASE ScriptRuns
    BY <2>4, AddNone DEF ScriptRuns, Deferred, Sight, RunAction
  <2>5. QED
    BY <1>2, <2>1, <2>2, <2>3, <2>4 DEF ScriptStep
<1>3. ASSUME PluginStep PROVE Adds
  BY <1>0, <1>3, AddOne, AddNone, AddSet, RenderVerdictTypes
     DEF PluginStep, Validator, Discover, AskRender, PassOver, TakeRender, AllRendered
<1>4. ASSUME UnitStep PROVE Adds
  <2>1. CASE Manifest \/ Install \/ Remove
    BY <1>0, <2>1, AddOne, AddNone DEF Manifest, Install, Remove
  <2>2. CASE Validate
    BY <1>0, <2>2, AddSet DEF Validate, CapSkip, Auval
  <2>3. CASE LoadUnit
    <3> DEFINE rs == {<<"load", "passed">>} \cup
                     (IF Has("quick") THEN {} ELSE {<<"renders", "skipped">>})
    <3>1. \A r \in rs : r[2] \in Status
      BY <1>0
    <3>2. UNCHANGED results \/ Add("load", "failed") \/ Add("load", "passed") \/ AddAll(rs)
      BY <2>3 DEF LoadUnit
    <3>3. QED
      BY <1>0, <3>1, <3>2, AddOne, AddNone, AddSet
  <2>4. CASE AskRender \/ PassOver \/ TakeRender(UnitVerdicts) \/ UnitsRendered
    BY <1>0, <2>4, AddOne, AddNone, AddSet, RenderVerdictTypes
       DEF AskRender, PassOver, TakeRender, UnitsRendered
  <2>5. QED
    BY <1>4, <2>1, <2>2, <2>3, <2>4 DEF UnitStep
<1>5. ASSUME ThemeStep PROVE Adds
  <2>1. CASE Lint \/ Capture \/ OpenTheme \/ ThemeRaises
    BY <1>0, <2>1, AddOne, AddNone
       DEF Lint, Capture, OpenTheme, ThemeRaises, EvalRaises, NoSession
  <2>2. CASE Paint
    BY <1>0, <2>2, AddSet DEF Paint
  <2>3. QED
    BY <1>5, <2>1, <2>2 DEF ThemeStep
<1>6. ASSUME RepoStep PROVE Adds
  <2>1. CASE CheckIndex \/ NextPackage \/ PackageTested \/ RepoTested
    BY <1>0, <2>1, AddOne, AddNone
       DEF CheckIndex, NextPackage, PackageTested, RepoTested, Worst
  <2>2. CASE DiscoverPackages
    <3> DEFINE layout == IF Flawed("rootfiles") THEN {<<"layout", "failed">>} ELSE {}
    <3>1. \A r \in layout \cup {<<"discovery", "failed">>} : r[2] \in Status
      BY <1>0
    <3>2. \A r \in layout \cup {<<"discovery", "passed">>} \cup PackageCap : r[2] \in Status
      BY <1>0 DEF PackageCap
    <3>3. QED
      BY <2>2, <3>1, <3>2, AddSet DEF DiscoverPackages
  <2>3. QED
    BY <1>6, <2>1, <2>2 DEF RepoStep
<1>7. ASSUME RenderStep \/ RendererWrites PROVE Adds
  BY <1>7, AddNone
     DEF RenderStep, Host, WriteInput, Build, OpenRenderer, Poll, Settle, Deadline,
         RendererWrites
<1>8. ASSUME Dispatch \/ PrintVerdict \/ InitRuns \/ KillCommand \/ UNCHANGED vars PROVE Adds
  BY <1>8, AddNone DEF Dispatch, PrintVerdict, InitRuns, KillCommand
<1>9. QED
  BY <1>1, <1>2, <1>3, <1>4, <1>5, <1>6, <1>7, <1>8
     DEF Next, Program, AudioThread, Renderer, Reaper, Kill, Again

(* What a step may make of the REAPER of the session and of the exit code. *)
LEMMA EngineAndExit ==
  ASSUME [Next]_vars
  PROVE  /\ engine' = engine \/ engine' \in {"none", "running", "hung"}
         /\ exit' = exit \/ exit' \in {"none", "green", "red", "traceback", "usage"}
<1> DEFINE Stays == engine' = engine \/ engine' \in {"none", "running", "hung"}
<1>1. ASSUME JsfxStep PROVE Stays
  BY <1>1
     DEF JsfxStep, StaticParse, Compile, ReadVirgin, Tweak, CheckTweak, Readd, PollChunk,
         SaveOnce, SaveAgain, ReadDefaults, Restore, PrevChunk, LeaveSession, JsfxRendering,
         JsfxRaises, EvalRaises, NoSession, SkipDeterminism, AskRender, PassOver,
         TakeRender, AllRendered, GiveUp, OpenSession, CloseSession
<1>2. ASSUME ScriptStep \/ ScriptRuns PROVE Stays
  BY <1>2
     DEF ScriptStep, ScriptStatic, Load, Supervise, WindowEnds, Snapshot, Register, Watch,
         PingAction, ScriptRaises, EvalRaises, NoSession, ScriptRuns, Deferred, Sight,
         RunAction, ToRegister, FinishAction, OpenSession, CloseSession
<1>3. ASSUME PluginStep PROVE Stays
  BY <1>3 DEF PluginStep, Validator, Discover, AskRender, PassOver, TakeRender, AllRendered
<1>4. ASSUME UnitStep PROVE Stays
  BY <1>4 DEF UnitStep, Manifest, Install, Validate, LoadUnit, Remove, AskRender, PassOver,
              TakeRender, UnitsRendered
<1>5. ASSUME ThemeStep PROVE Stays
  BY <1>5 DEF ThemeStep, Lint, Capture, OpenTheme, Paint, ThemeRaises, EvalRaises, NoSession,
              OpenSession, CloseSession
<1>6. ASSUME RepoStep PROVE Stays
  BY <1>6 DEF RepoStep, CheckIndex, DiscoverPackages, NextPackage, PackageTested, RepoTested
<1>7. ASSUME RenderStep \/ RendererWrites PROVE Stays
  BY <1>7 DEF RenderStep, Host, WriteInput, Build, OpenRenderer, Poll, Settle, Deadline,
              RendererWrites, BuildEnds, OpenSession, CloseSession
<1>8. ASSUME Dispatch \/ PrintVerdict \/ Again \/ InitRuns \/ KillCommand
      PROVE  Stays
  BY <1>8 DEF Dispatch, PrintVerdict, Again, InitRuns, KillCommand
<1>9. Stays
  BY <1>1, <1>2, <1>3, <1>4, <1>5, <1>6, <1>7, <1>8
     DEF Next, Program, AudioThread, Renderer, Reaper, Kill
<1>10. exit' = exit \/ exit' \in {"none", "green", "red", "traceback", "usage"}
  BY DEF Next, Program, AudioThread, Renderer, Reaper, Kill, Dispatch, PrintVerdict, Again,
         ExitOf
<1>11. QED
  BY <1>9, <1>10

LEMMA TypeStep ==
  ASSUME TypeInv, SubjectInv, EngineInv, [Next]_vars
  PROVE  TypeInv'
<1>1. engine' \in {"none", "running", "hung"}
      /\ exit' \in {"none", "green", "red", "traceback", "usage"}
  BY EngineAndExit DEF TypeInv, TypeOK
<1>2. package' \in 0..MaxPackages
  BY PackageStep, CappedBounds, PackageAssumption
<1>3. \A r \in results' : r[1] \in 0..MaxPackages /\ r[3] \in Status
  BY ResultSteps DEF TypeInv, TypeOK, Adds
<1>4. RenderTypeOK' /\ JsfxTypeOK' /\ ScriptTypeOK' /\ AuTypeOK'
  BY PlanTypeStep, ChunkStep, ScriptTypeStep, UnitTypeStep DEF TypeInv, TypeOK
<1>5. TypeOK'
  BY <1>1, <1>2, <1>3, <1>4 DEF TypeOK, Status
<1>6. QED
  BY <1>5, PlanTypeStep DEF TypeInv

-----------------------------------------------------------------------------
(* REAPERs *)

(* Outside of a render a REAPER is that of a session. *)
LEMMA OutsideRenders ==
  ASSUME TypeInv, EngineInv, ~Rendering
  PROVE  ~render.renderer /\ (engine # "none" => InSession)
BY DEF TypeInv, EngineInv, Rendering

(* A step that is not one of a render is taken outside of it, and leaves   *)
(* REAPER in a session or closes it.                                       *)
SessionStep ==
  /\ engine' # "none" => InSession'
  /\ render' = render \/ (engine' = "none" /\ ~render'.renderer)
  /\ render' = render => ~render.renderer

LEMMA SessionSteps ==
  ASSUME TypeInv, SubjectInv, EngineInv, Next, ~RenderStep, ~RendererWrites
  PROVE  SessionStep
<1>1. step # "renders" => ~render.renderer /\ (engine # "none" => InSession)
  BY OutsideRenders DEF TypeInv
<1>2. step = "renders" /\ (todo = <<>> \/ render.at = "idle" \/ RenderEnded)
      => engine = "none" /\ ~render.renderer
  BY OutsideRenders DEF TypeInv, EngineInv, Rendering, RenderEnded, InSession
<1>3. ASSUME AskRender PROVE SessionStep
  <2>1. \E a \in {"write", "host"} : render' = [render EXCEPT !.at = a]
    BY <1>3 DEF AskRender, StartRender, RenderGoes
  <2>2. render'.renderer = render.renderer
    BY <2>1 DEF TypeInv, TypeOK, RenderTypeOK
  <2>3. QED
    BY <1>2, <1>3, <2>2 DEF AskRender, RenderDue, SessionStep
<1>4. ASSUME step = "renders", render' = Idle, RenderEnded, engine' = engine PROVE SessionStep
  BY <1>2, <1>4 DEF SessionStep, Idle
<1>5. ASSUME JsfxStep PROVE SessionStep
  <2>1. CASE StaticParse \/ Compile \/ JsfxRaises \/ LeaveSession
    BY <1>1, <1>5, <2>1
       DEF JsfxStep, StaticParse, Compile, JsfxRaises, EvalRaises, NoSession, LeaveSession,
           SessionStep, InSession, Emit, Go, GiveUp, Raise, OpenSession, CloseSession,
           ToReset
  <2>2. CASE \/ ReadVirgin \/ Tweak \/ CheckTweak \/ Readd \/ PollChunk
             \/ SaveOnce \/ SaveAgain \/ ReadDefaults \/ Restore \/ PrevChunk
    BY <1>1, <1>5, <2>2
       DEF JsfxStep, ReadVirgin, Tweak, CheckTweak, Readd, PollChunk, SaveOnce, SaveAgain,
           ReadDefaults, Restore, PrevChunk, SessionStep, InSession, Go, Raise,
           CloseSession, AfterReset
  <2>3. CASE SkipDeterminism \/ PassOver \/ AllRendered
    BY <1>2, <2>3 DEF SkipDeterminism, SilentWithoutNotes, PassOver, RenderDue, AllRendered,
                      SessionStep
  <2>4. CASE AskRender \/ TakeRender(JsfxVerdicts)
    BY <1>3, <1>4, <2>4 DEF TakeRender
  <2>5. QED
    BY <1>5, <2>1, <2>2, <2>3, <2>4 DEF JsfxStep, JsfxRendering
<1>6. ASSUME ScriptStep \/ ScriptRuns PROVE SessionStep
  <2>1. CASE ScriptStep
    BY <1>1, <2>1
       DEF ScriptStep, ScriptStatic, Load, Supervise, WindowEnds, Snapshot, Register, Watch,
           PingAction, ScriptRaises, EvalRaises, NoSession, ToRegister, FinishAction,
           SessionStep, InSession, Emit, Go, Raise, OpenSession, CloseSession
  <2>2. CASE ScriptRuns
    BY <1>1, <2>2 DEF ScriptRuns, Deferred, Sight, RunAction, SessionStep, InSession
  <2>3. QED
    BY <1>6, <2>1, <2>2
<1>7. ASSUME PluginStep PROVE SessionStep
  <2>1. CASE Validator \/ Discover
    BY <1>1, <1>7, <2>1 DEF PluginStep, Validator, Discover, SessionStep, InSession
  <2>2. CASE PassOver \/ AllRendered
    BY <1>2, <2>2 DEF PassOver, RenderDue, AllRendered, SessionStep
  <2>3. QED
    BY <1>3, <1>4, <1>7, <2>1, <2>2 DEF PluginStep, TakeRender
<1>8. ASSUME UnitStep PROVE SessionStep
  <2>1. CASE Manifest \/ Install \/ Validate \/ LoadUnit \/ Remove
    BY <1>1, <1>8, <2>1
       DEF UnitStep, Manifest, Install, Validate, LoadUnit, Remove, SessionStep, InSession
  <2>2. CASE PassOver \/ UnitsRendered
    BY <1>2, <2>2 DEF PassOver, RenderDue, UnitsRendered, SessionStep
  <2>3. QED
    BY <1>3, <1>4, <1>8, <2>1, <2>2 DEF UnitStep, TakeRender
<1>9. ASSUME ThemeStep PROVE SessionStep
  BY <1>1, <1>9
     DEF ThemeStep, Lint, Capture, OpenTheme, Paint, ThemeRaises, EvalRaises, NoSession,
         SessionStep, InSession, Emit, Go, Raise, OpenSession, CloseSession
<1>10. ASSUME RepoStep, UNCHANGED renderVars PROVE SessionStep
  BY <1>1, <1>10 DEF RepoStep, CheckIndex, DiscoverPackages, NextPackage, PackageTested,
        RepoTested, SessionStep, InSession
<1>11. ASSUME Dispatch \/ PrintVerdict \/ Again PROVE SessionStep
  BY <1>1, <1>11 DEF Dispatch, PrintVerdict, Again, SessionStep, InSession
<1>12. ASSUME InitRuns \/ KillCommand PROVE SessionStep
  BY <1>1, <1>12 DEF InitRuns, KillCommand, SessionStep, InSession
<1>13. QED
  BY <1>5, <1>6, <1>7, <1>8, <1>9, <1>10, <1>11, <1>12
     DEF Next, Program, AudioThread, Renderer, Reaper, Kill

LEMMA EngineStep ==
  ASSUME TypeInv, SubjectInv, EngineInv, [Next]_vars
  PROVE  EngineInv'
<1>1. CASE RenderStep
  <2>1. step = "renders" /\ ~InSession
    BY <1>1, RenderStepKeeps DEF TypeInv, InSession
  <2>2. engine # "none" => render.at \in {"write", "build"}
    BY <2>1 DEF EngineInv
  <2>3. UNCHANGED <<subject, step>>
    BY <1>1, RenderStepKeeps
  <2>4. render \in [at : {"idle", "host", "write", "build", "open", "poll", "settle",
                         "full", "cut", "raised"},
                   size : 0..Full, mark : 0..Full, renderer : BOOLEAN]
    BY DEF TypeInv, TypeOK, RenderTypeOK
  <2> HIDE DEF vars
  <2>5. CASE Host \/ WriteInput
    BY <2>2, <2>3, <2>4, <2>5
       DEF Host, WriteInput, RenderGoes, EngineInv, OpenSession, CloseSession
  <2>6. CASE Build \/ OpenRenderer
    BY <2>2, <2>3, <2>4, <2>6
       DEF Build, OpenRenderer, RenderGoes, EngineInv, BuildEnds, CloseSession
  <2>7. CASE Poll \/ Settle \/ Deadline
    BY <2>2, <2>3, <2>4, <2>7
       DEF Poll, Settle, Deadline, OutOfTime, RenderGoes, Leave, Reap, EngineInv
  <2>8. QED
    BY <1>1, <2>5, <2>6, <2>7 DEF RenderStep
<1>2. CASE RendererWrites
  <2>1. render'.at = render.at /\ render'.renderer = render.renderer
    BY <1>2 DEF RendererWrites, TypeInv, TypeOK, RenderTypeOK
  <2>2. QED
    BY <1>2, <2>1 DEF RendererWrites, EngineInv, InSession
<1>3. CASE Next /\ ~RenderStep /\ ~RendererWrites
  BY <1>3, SessionSteps DEF SessionStep, EngineInv, InSession
<1>4. CASE UNCHANGED vars
  BY <1>4 DEF EngineInv, InSession
<1>5. QED
  BY <1>1, <1>2, <1>3, <1>4

(* What has happened stays so. *)
LEMMA MishapsStay == ASSUME [Next]_vars PROVE mishaps \subseteq mishaps'
<1>1. \A m : Mishap(m) => mishaps \subseteq mishaps'
  BY DEF Mishap
<1> DEFINE Stay == mishaps \subseteq mishaps'
<1>2. ASSUME JsfxStep PROVE Stay
  BY <1>1, <1>2
     DEF JsfxStep, StaticParse, Compile, ReadVirgin, Tweak, CheckTweak, Readd, PollChunk,
         SaveOnce, SaveAgain, ReadDefaults, Restore, PrevChunk, LeaveSession, JsfxRendering,
         JsfxRaises, EvalRaises, NoSession, Settled, SkipDeterminism, AskRender, PassOver,
         TakeRender, AllRendered
<1>3. ASSUME ScriptStep \/ ScriptRuns PROVE Stay
  BY <1>1, <1>3
     DEF ScriptStep, ScriptStatic, Load, Supervise, WindowEnds, Snapshot, Register, Watch,
         PingAction, ScriptRaises, EvalRaises, NoSession, ScriptRuns, Deferred, Sight,
         RunAction
<1>4. ASSUME PluginStep PROVE Stay
  BY <1>1, <1>4
     DEF PluginStep, Validator, Discover, AskRender, PassOver, TakeRender, AllRendered
<1>5. ASSUME UnitStep PROVE Stay
  BY <1>1, <1>5
     DEF UnitStep, Manifest, Install, Validate, LoadUnit, Remove, AskRender, PassOver,
         TakeRender, UnitsRendered
<1>6. ASSUME ThemeStep PROVE Stay
  BY <1>1, <1>6
     DEF ThemeStep, Lint, Capture, OpenTheme, Paint, ThemeRaises, EvalRaises, NoSession
<1>7. ASSUME RepoStep PROVE Stay
  BY <1>1, <1>7
     DEF RepoStep, CheckIndex, DiscoverPackages, NextPackage, PackageTested, RepoTested
<1>8. ASSUME RenderStep \/ RendererWrites PROVE Stay
  BY <1>1, <1>8 DEF RenderStep, Host, WriteInput, Build, OpenRenderer, Poll, Settle, Deadline,
                    RendererWrites
<1>9. ASSUME Dispatch \/ PrintVerdict \/ Again \/ InitRuns \/ KillCommand PROVE Stay
  BY <1>1, <1>9 DEF Dispatch, PrintVerdict, Again, InitRuns, KillCommand
<1>10. QED
  BY <1>2, <1>3, <1>4, <1>5, <1>6, <1>7, <1>8, <1>9
     DEF Next, Program, AudioThread, Renderer, Reaper, Kill

(* What leaves a REAPER behind. *)
LeftBehind ==
  \/ left' = left
  \/ left' \subseteq left \cup {"discovery", "renderer"} /\ "open" \in mishaps'
  \/ left' \subseteq left \cup {"host", "session"} /\ mishaps' \cap {"open", "no pid"} # {}
  \/ left' \subseteq left \cup {"session"} /\ "disk full" \in mishaps'

LEMMA LeftSteps == ASSUME TypeInv, EngineInv, [Next]_vars PROVE LeftBehind
<1> USE DEF LeftBehind
<1>0. ASSUME NEW steps, NoSession(steps) PROVE LeftBehind
  BY <1>0 DEF NoSession, Mishap
<1>1. CASE RenderStep
  BY <1>1
     DEF RenderStep, Host, WriteInput, Build, OpenRenderer, Poll, Settle, Deadline, Leave,
         Reap, BuildEnds, CloseSession, Mishap
<1>2. CASE Discover
  BY <1>2 DEF Discover, Mishap
<1>3. CASE ~RenderStep /\ ~Discover
  <2>1. ASSUME JsfxStep PROVE LeftBehind
    BY <1>0, <2>1
       DEF JsfxStep, StaticParse, Compile, ReadVirgin, Tweak, CheckTweak, Readd, PollChunk,
           SaveOnce, SaveAgain, ReadDefaults, Restore, PrevChunk, LeaveSession,
           JsfxRendering, JsfxRaises, SkipDeterminism, AskRender, PassOver, TakeRender,
           AllRendered
  <2>2. ASSUME ScriptStep \/ ScriptRuns PROVE LeftBehind
    BY <1>0, <2>2
       DEF ScriptStep, ScriptStatic, Load, Supervise, WindowEnds, Snapshot, Register, Watch,
           PingAction, ScriptRaises, ScriptRuns, Deferred, Sight, RunAction
  <2>3. ASSUME PluginStep PROVE LeftBehind
    BY <1>3, <2>3 DEF PluginStep, Validator, AskRender, PassOver, TakeRender, AllRendered
  <2>4. ASSUME UnitStep PROVE LeftBehind
    BY <2>4 DEF UnitStep, Manifest, Install, Validate, LoadUnit, Remove, AskRender, PassOver,
         TakeRender, UnitsRendered, Mishap
  <2>5. ASSUME ThemeStep PROVE LeftBehind
    BY <1>0, <2>5 DEF ThemeStep, Lint, Capture, OpenTheme, Paint, ThemeRaises
  <2>6. QED
    BY <1>3, <2>1, <2>2, <2>3, <2>4, <2>5
       DEF Next, Program, AudioThread, Renderer, Reaper, Kill, InitRuns, RendererWrites,
           KillCommand, Dispatch, PrintVerdict, Again
<1>4. QED
  BY <1>1, <1>2, <1>3

LEMMA LeftStep ==
  ASSUME TypeInv, EngineInv, LeftInv, [Next]_vars
  PROVE  LeftInv'
BY LeftSteps, MishapsStay DEF LeftInv, LeftBehind

-----------------------------------------------------------------------------
(* The component *)

(* Outside of the Audio Unit battery nothing is done with the component.   *)
LEMMA UnitSteps ==
  ASSUME SubjectInv, [Next]_vars
  PROVE  \/ UnitStep /\ UNCHANGED given
         \/ Again
         \/ KillCommand /\ UNCHANGED <<subject, given>>
         \/ UNCHANGED auVars /\ UNCHANGED given
            /\ (given.kind = "au" => \/ UNCHANGED <<subject, step>>
                                     \/ step = "dispatch" /\ UNCHANGED subject
                                     \/ /\ step \in {"emitted", "aborted"} /\ step' = "exited"
                                        /\ UNCHANGED subject)
<1>1. subject.kind = "au" <=> given.kind = "au"
  BY SubjectKinds, CappedBounds DEF SubjectInv, TestedAs, ElseTested
<1>2. RenderStep \/ RendererWrites => UNCHANGED <<subject, step>>
  BY DEF RenderStep, Host, WriteInput, Build, OpenRenderer, Poll, Settle, Deadline,
         RendererWrites
<1>3. given.kind = "au" => ~JsfxStep /\ ~ScriptStep /\ ~ScriptRuns /\ ~PluginStep
                            /\ ~ThemeStep /\ ~RepoStep
  BY <1>1 DEF JsfxStep, ScriptStep, ScriptRuns, PluginStep, ThemeStep, RepoStep
<1>4. InitRuns => UNCHANGED <<subject, step>>
  BY DEF InitRuns
<1>5. Dispatch => step = "dispatch"
  BY DEF Dispatch
<1>6. PrintVerdict => step \in {"emitted", "aborted"} /\ step' = "exited"
  BY DEF PrintVerdict, Go
<1>7. CASE Next
  BY <1>2, <1>3, <1>4, <1>5, <1>6, <1>7, Actors DEF Context
<1>8. CASE UNCHANGED vars
  BY <1>8
<1>9. QED
  BY <1>7, <1>8

LEMMA CopyStep ==
  ASSUME TypeInv, SubjectInv, CopyInv, TestsOwnBuild, [Next]_vars
  PROVE  CopyInv' /\ TestsOwnBuild'
<1>1. mishaps \subseteq mishaps'
  BY MishapsStay
<1>2. CASE UnitStep /\ UNCHANGED given
  <2>0. subject.kind = "au" /\ given.kind = "au"
    BY <1>2, SubjectKinds, CappedBounds DEF UnitStep, SubjectInv, TestedAs, ElseTested
  <2>1. CASE Install
    <3>1. step = "install" /\ ~mine /\ tested = "none"
      BY <2>1 DEF Install, CopyInv
    <3>2. TestsOwnBuild'
      <4>1. copy.what = "whole" => mishaps' \cap {"rmtree", "killed"} # {}
        BY <1>1, <3>1 DEF CopyInv
      <4>2. UNCHANGED subject \/ subject'.traits = subject.traits
        BY <2>1, InstallTests
      <4>3. Has("registered")' <=> Has("registered")
        BY <4>2 DEF Has
      <4>4. QED
        BY <2>1, <3>1, <4>1, <4>3, InstallTests DEF TestsOwnBuild
    <3>3. CopyInv'
      <4>1. CASE Go("validate") /\ UNCHANGED <<mishaps, copy, mine>>
        BY <1>1, <1>2, <2>0, <3>1, <4>1 DEF CopyInv, Go
      <4>2. CASE copy' = [what |-> "whole", flaws |-> subject.flaws] /\ mine' = TRUE
                 /\ Go("validate")
        BY <1>1, <1>2, <2>0, <4>2 DEF CopyInv, Go
      <4>3. CASE Mishap("copy") /\ copy' = [what |-> "partial", flaws |-> subject.flaws]
                 /\ UNCHANGED <<mine, tested>>
        BY <1>1, <1>2, <2>0, <3>1, <4>3 DEF CopyInv, Mishap
      <4>4. CASE UNCHANGED <<copy, mine, tested>>
        BY <1>1, <1>2, <2>0, <3>1, <4>4 DEF CopyInv
      <4>5. \/ Go("validate") /\ UNCHANGED <<mishaps, copy, mine>>
            \/ copy' = [what |-> "whole", flaws |-> subject.flaws] /\ mine' = TRUE
               /\ Go("validate")
            \/ Mishap("copy") /\ copy' = [what |-> "partial", flaws |-> subject.flaws]
               /\ UNCHANGED <<mine, tested>>
            \/ UNCHANGED <<copy, mine, tested>>
        BY <2>1, Zenon DEF Install
      <4>6. QED
        BY <4>1, <4>2, <4>3, <4>4, <4>5
    <3>4. QED
      BY <3>2, <3>3
  <2>2. CASE Remove
    BY <1>1, <1>2, <2>0, <2>2
       DEF Remove, Restored, CopyInv, TestsOwnBuild, NoCopy, Has, Mishap, Emit, Raise
  <2>3. CASE Manifest \/ Validate \/ LoadUnit
    <3>1. UNCHANGED <<subject, copy, mine, tested>>
      BY <2>3 DEF Manifest, Validate, LoadUnit
    <3>2. \/ step = "manifest"
          \/ step \in {"validate", "load"} /\ step' \in {"load", "renders", "remove", "unwind"}
      BY <2>3 DEF Manifest, Validate, LoadUnit, Go
    <3>3. QED
      BY <1>1, <1>2, <2>0, <3>1, <3>2 DEF CopyInv, TestsOwnBuild, Has
  <2>4. CASE (AskRender \/ PassOver \/ TakeRender(UnitVerdicts) \/ UnitsRendered)
             /\ UNCHANGED auVars
    BY <1>1, <1>2, <2>0, <2>4
       DEF AskRender, PassOver, TakeRender, UnitsRendered, CopyInv, TestsOwnBuild, Has, Go
  <2>5. QED
    BY <1>2, <2>1, <2>2, <2>3, <2>4 DEF UnitStep
<1>3. CASE Again
  BY <1>1, <1>3 DEF Again, CopyInv, TestsOwnBuild, Has, Go
<1>4. CASE KillCommand /\ UNCHANGED <<subject, given>>
  BY <1>1, <1>4 DEF KillCommand, CopyInv, TestsOwnBuild, Has, Mishap
<1>5. CASE UNCHANGED auVars /\ UNCHANGED given /\ UNCHANGED <<subject, step>>
  BY <1>1, <1>5 DEF CopyInv, TestsOwnBuild, Has
<1>6. CASE UNCHANGED auVars /\ UNCHANGED given /\ given.kind # "au"
  BY <1>1, <1>6 DEF CopyInv, TestsOwnBuild
<1>7. CASE /\ UNCHANGED <<copy, mine, tested, run, given, subject>>
           /\ \/ step = "dispatch"
              \/ step \in {"emitted", "aborted"} /\ step' = "exited"
  BY <1>1, <1>7 DEF CopyInv, TestsOwnBuild, Has
<1>8. QED
  BY <1>2, <1>3, <1>4, <1>5, <1>6, <1>7, UnitSteps

-----------------------------------------------------------------------------
(* Theorems *)

LEMMA Inductive == IInv /\ [Next]_vars => IInv'
BY TypeStep, SubjectStep, EngineStep, LeftStep, CopyStep DEF IInv

LEMMA Invariance == Spec => []IInv
BY Initially, Inductive, PTL DEF Spec

LEMMA Consequences ==
  IInv => TypeOK /\ NothingLeftRunning /\ OneReaper /\ ComponentRestored /\ TestsOwnBuild
<1> SUFFICES ASSUME IInv
             PROVE  /\ TypeOK /\ NothingLeftRunning /\ OneReaper
                    /\ ComponentRestored /\ TestsOwnBuild
  OBVIOUS
<1>1. TypeOK /\ TestsOwnBuild
  BY DEF IInv, TypeInv
<1>2. NothingLeftRunning
  BY OutsideRenders DEF IInv, LeftInv, NothingLeftRunning, TypeInv, InSession
<1>3. OneReaper
  <2>1. render.renderer \/ render.at = "host" => ~InSession
    BY DEF IInv, TypeInv, EngineInv, Rendering, InSession
  <2>2. left # {} => mishaps \cap {"open", "no pid", "disk full"} # {}
    BY DEF IInv, LeftInv
  <2>3. QED
    BY <2>1, <2>2 DEF IInv, EngineInv, OneReaper
<1>4. ComponentRestored
  BY DEF IInv, TypeInv, TypeOK, AuTypeOK, CopyInv, ComponentRestored
<1>5. QED
  BY <1>1, <1>2, <1>3, <1>4

(* Every variable keeps to its type, for any subjects and repositories.    *)
THEOREM TypeCorrect == Spec => []TypeOK
BY Invariance, Consequences, PTL

(* However the stages and renders of the batteries end, in a verdict, an   *)
(* early return or an exception: when the command is over, the REAPERs it  *)
(* had launched and that still run are those whose `open` failed or whose  *)
(* process was not found, of a render, a renderer, a discovery or a        *)
(* session (render.py:156, 289, macos.py), and that of the session whose   *)
(* input file could not be written (render.py:161).                        *)
THEOREM HostIsLeftClean == Spec => []NothingLeftRunning
BY Invariance, Consequences, PTL

(* render_plugin_offline and its likes: the REAPER that builds a project   *)
(* is gone before the one that renders it is there, and every session      *)
(* before the next is launched; one that nobody will stop runs beside them *)
(* only after one of the mishaps that leave it behind.                     *)
THEOREM OneReaperAtATime == Spec => []OneReaper
BY Invariance, Consequences, PTL

(* aubattery.py: what was copied into the user's components directory is   *)
(* gone when the command ends, over any number of runs, unless the copy or *)
(* the removal had failed or a run was killed.                             *)
THEOREM ComponentIsRestored == Spec => []ComponentRestored
BY Invariance, Consequences, PTL

(* aubattery.py: the verdict is about the build of this run; about another *)
(* one only if the user has registered it, about one that an earlier run   *)
(* left behind only if that was killed or could not remove it.             *)
THEOREM OwnBuildIsTested == Spec => []TestsOwnBuild
BY Invariance, Consequences, PTL

=============================================================================
