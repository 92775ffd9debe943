------------------------ MODULE TestCommandVerdictProofs ------------------------
(***************************************************************************)
(* Theorems about the verdict of a test command, for any subjects and      *)
(* repositories: a failed result names a defect, a factory reset that has  *)
(* passed is a proof, and an exit code of 0 leaves no defect unnamed that  *)
(* the batteries look for.                                                 *)
(***************************************************************************)
EXTENDS TestCommandProofs

USE DEF vars, batteryVars, renderVars, loopVars, chunkVars, scriptVars, auVars, repoVars

-----------------------------------------------------------------------------
(* What is known of the subject at a step *)

(* The factory reset.  Nothing is tweaked, kept or leaked before the tweak;*)
(* the earlier chunk shows neither, and what else it shows has a reason; a *)
(* tweak the chunk did not show is not polled for, unless the chunk shows a*)
(* leak, or is volatile.                                                   *)
ResetInv ==
  subject.kind = "jsfx" =>
    /\ step \in {"virgin", "tweak"} => ~fx.tweak /\ ~fx.leak /\ ~store
    /\ step \in {"tweak", "tweaked", "readd", "poll"} =>
         /\ ~earlier.tweak /\ ~earlier.leak
         /\ earlier.init => Has("initshows")
         /\ earlier.saved => Has("initsaves")
         /\ earlier.count => Flawed("volatile")
         /\ mishaps = {} /\ Has("initshows") => earlier.init
         /\ mishaps = {} /\ Has("initsaves") => earlier.saved
    /\ step \in {"tweak", "tweaked"} /\ mishaps = {} =>
         (Has("initshows") \/ Has("initsaves") => fx.init)
    /\ step \in {"tweaked", "readd", "poll"} =>
         store /\ (fx.leak => fx.init /\ Flawed("leaks"))
    /\ step = "tweaked" => fx.tweak
    /\ step \in {"readd", "poll"} /\ mishaps = {} /\ Has("deaf") =>
         Flawed("volatile") \/ (Flawed("leaks") /\ ~Has("nochannel"))
    /\ step = "poll" => ~fx.tweak /\ (fx.init /\ Flawed("leaks") => fx.leak)

(* Nothing can come between the two chunks of a stage of @serialize.       *)
Steady ==
  /\ mishaps = {} /\ ~Has("initshows") /\ ~Has("initsaves")
  /\ ~Flawed("leaks") \/ ~Flawed("volatile")

(* The stages of @serialize.  A leak has shown by then, if it can.         *)
SaveInv ==
  subject.kind = "jsfx" =>
    /\ step \in {"serialize", "save again", "restore", "restored"} =>
         /\ ~fx.tweak /\ (fx.leak => Flawed("leaks"))
         /\ Steady /\ Flawed("leaks") => fx.init
    /\ step \in {"save again", "restored"} /\ Steady =>
         /\ ~earlier.init /\ ~earlier.tweak /\ ~earlier.saved
         /\ earlier.leak <=> (fx.leak /\ ~Has("nochannel"))
         /\ earlier.count => Flawed("volatile")

(* What a script has done is over before it is registered, and what shows  *)
(* of it, a panel or a REAPER that hangs, is the script's fault.           *)
ScriptInv ==
  /\ effects # "none" \/ panel # "none" =>
       subject.kind = "script" /\ step \in {"settle", "snapshot", "watch", "ping",
                                            "aborted", "exited"}
  /\ subject.kind = "script" =>
       /\ step \in {"load", "register"} => engine = "running"
       /\ step \in {"settle", "snapshot"} /\ (panel # "none" \/ engine = "hung") =>
            Flawed("defererror")
       /\ step = "snapshot" => effects = "done" \/ "late" \in mishaps
       /\ step \in {"settle", "snapshot"} => effects # "none"
       /\ step \in {"watch", "ping"} /\ panel # "none" =>
            Flawed("loaderror") \/ Flawed("defererror")
       /\ step \in {"watch", "ping"} /\ engine = "hung" =>
            Flawed("hangs") \/ Flawed("defererror")
       /\ step = "watch" /\ effects = "done" /\ Flawed("defererror") => panel # "none"
       /\ step = "watch" => effects # "none"

PaintInv == subject.kind = "theme" /\ step = "paint" => ~Flawed("inactive")

Red == \E r \in results : r[3] = "failed"

(* How a render ends tells of the subject, or something has happened.      *)
RenderKnown ==
  /\ ~Rendering => render.size = 0
  /\ Flawed("stalls") => render.size < Full
  /\ render.at = "full" => ~Flawed("stalls")
  /\ render.at = "cut" => Flawed("stalls") \/ "pause" \in mishaps
  /\ render.at = "raised" => Flawed("stalls") \/ mishaps # {}

(* The render another one is compared with has been made, or its failure   *)
(* was reported.                                                           *)
KeptKnown ==
  /\ step = "renders" =>
       \A l \in {"sine_1k", "midi"} : kept[l] = "cut" => Flawed("stalls") \/ "pause" \in mishaps
  /\ Rendering /\ Label = "determinism" => kept["sine_1k"] # "none"
  /\ step = "renders" =>
       \A i \in DOMAIN todo : todo[i] = "determinism" =>
         kept["sine_1k"] # "none" \/ Red \/ \E j \in 1..i : todo[j] = "sine_1k"

-----------------------------------------------------------------------------
(* Which defects are still looked for *)

(* A defect that has had its result, or has none for a reason. *)
Answered(p, flaw) ==
  \/ Red \/ NamedSkip(p, flaw) \/ BlindSpot(p, TestedAs(p), flaw)
  \/ mishaps \cap HiddenBy(TestedAs(p), flaw) # {}

StateDefects == {"volatile", "wedges", "halfread", "oldstate"}

ResetSteps == {"virgin", "tweak", "tweaked", "readd", "poll"}
SaveSteps == {"serialize", "save again", "restore", "restored"}

(* The render that shows a defect. *)
Shows(flaw) ==
  CASE flaw \in {"sick", "stalls"} -> "sine_1k"
    [] flaw = "varies" -> "determinism"
    [] flaw = "noisy" -> "silence"
    [] flaw = "mute" -> "midi"
    [] OTHER -> flaw

DueInRenders(flaw) ==
  step = "renders" /\ flaw \in AudioDefects /\ \E i \in DOMAIN todo : todo[i] = Shows(flaw)

DueInJsfx(flaw) ==
  \/ step = "static"
  \/ step = "compile" /\ flaw # "missing"
  \/ step \in ResetSteps /\ flaw = "leaks"
  \/ step \in ResetSteps \cup {"serialize", "save again"} /\ flaw \in StateDefects
  \/ step \in {"restore", "restored"} /\ flaw \in StateDefects \ {"volatile"}
  \/ step = "prevchunk" /\ flaw = "oldstate"
  \/ step \in ResetSteps \cup SaveSteps \cup {"prevchunk", "leave"} /\ flaw \in AudioDefects

DueInScript(flaw) ==
  \/ step = "static"
  \/ step = "load" /\ flaw \notin {"lint", "header"}
  \/ step = "settle" /\ flaw \in {"defererror", "leaks", "nowindow", "noaction"}
  \/ step = "snapshot" /\ flaw \in {"leaks", "nowindow", "noaction"}
  \/ step = "register" /\ flaw \in {"noaction", "defererror"}
  \/ step = "watch" /\ flaw = "defererror"

DueInPlugin(flaw) == step = "validator" \/ (step = "discover" /\ flaw # "nonconform")

DueInUnit(flaw) ==
  \/ step = "manifest"
  \/ step \in {"install", "validate"} /\ flaw # "manifest"
  \/ step = "load" /\ flaw \notin {"manifest", "invalid", "invalid2"}

DueInTheme(flaw) ==
  \/ step = "lint"
  \/ step \in {"capture", "open"} /\ flaw \in {"rejected", "inactive", "unpainted"}
  \/ step = "paint" /\ flaw = "unpainted"

DueInRepo(flaw) == step = "index" \/ (step = "packages" /\ flaw = "rootfiles")

(* The battery at work has still to look for this defect of its subject.   *)
Due(flaw) ==
  \/ step = "dispatch"
  \/ DueInRenders(flaw)
  \/ subject.kind = "jsfx" /\ DueInJsfx(flaw)
  \/ subject.kind = "script" /\ DueInScript(flaw)
  \/ subject.kind = "plugin" /\ DueInPlugin(flaw)
  \/ subject.kind = "au" /\ DueInUnit(flaw)
  \/ subject.kind = "theme" /\ DueInTheme(flaw)
  \/ subject.kind = "repo" /\ DueInRepo(flaw)

(* The package is still to be tested, up to the cap. *)
Waits(p) ==
  /\ given.kind = "repo" /\ step # "emitted"
  /\ \/ step \in {"dispatch", "index", "packages"} /\ p > 0
     \/ package < p /\ p <= Capped

(* A script the host cannot run: it is skipped, and nothing has passed.    *)
NotRun == given.kind = "script" /\ "nopython" \in given.traits

Stopped == step \in {"aborted", "exited", "killed", "unwind"}

(* Outside of its packages a repository is tested as such. *)
PlaceInv == step \in {"dispatch", "index", "packages", "emitted"} => package = 0

(* Every defect of every subject is still due, or answered. *)
CoverInv ==
  ~Stopped =>
    \A p \in Tested : \A flaw \in TestedAs(p).flaws :
      (p = package /\ Due(flaw)) \/ Waits(p) \/ NotRun \/ Answered(p, flaw)

NotRunInv ==
  NotRun => /\ \A r \in results : r[3] # "passed"
            /\ step \in {"dispatch", "static", "emitted", "exited"}

GreenInv == exit = "green" => step = "exited" /\ NoFalseGreen

(* A failed result of an undisturbed run is about a defect. *)
Blames(p, name) ==
  \/ FalseAlarm(TestedAs(p), name)
  \/ \E flaw \in TestedAs(p).flaws \cup OfAnother : name \in SpeaksOf(flaw) \cup {"package"}
  \/ name = "package" /\ \E q \in results : q[1] = p /\ q[3] = "failed"
                                           /\ FalseAlarm(TestedAs(p), q[2])

KnownInv == ResetInv /\ SaveInv /\ ScriptInv /\ PaintInv /\ RenderKnown /\ KeptKnown

VInv ==
  /\ IInv /\ KnownInv /\ PlaceInv /\ CoverInv /\ NotRunInv /\ GreenInv
  /\ FailureNamesDefect /\ ResetPassIsProof

-----------------------------------------------------------------------------
(* Steps of one battery only *)

(* The steps a battery takes are its own. *)
LEMMA OtherSteps ==
  ASSUME TypeInv, SubjectInv, EngineInv, [Next]_vars
  PROVE  /\ JsfxStep \/ InitRuns \/ UNCHANGED <<step, subject, chunkVars>>
            \/ step' \notin ResetSteps \cup SaveSteps
         /\ ThemeStep \/ UNCHANGED <<step, subject>> \/ step' # "paint"
<1>1. RenderStep \/ RendererWrites => UNCHANGED <<step, subject>>
  BY RenderStepKeeps
<1>2. ASSUME JsfxStep PROVE UNCHANGED <<step, subject>> \/ step' # "paint"
  BY <1>2
     DEF JsfxStep, StaticParse, Compile, ReadVirgin, Tweak, CheckTweak, Readd, PollChunk,
         SaveOnce, SaveAgain, ReadDefaults, Restore, PrevChunk, LeaveSession, JsfxRendering,
         JsfxRaises, EvalRaises, NoSession, Emit, Go, GiveUp, Raise, ToReset, AfterReset,
         SkipDeterminism, AskRender, PassOver, TakeRender, AllRendered
<1>3. ASSUME ScriptStep \/ ScriptRuns
      PROVE  UNCHANGED <<step, subject>> \/ step' \notin ResetSteps \cup SaveSteps \cup {"paint"}
  BY <1>3
     DEF ScriptStep, ScriptStatic, Load, Supervise, WindowEnds, Snapshot, Register, Watch,
         PingAction, ScriptRaises, EvalRaises, NoSession, ScriptRuns, Deferred, Sight,
         RunAction, Emit, Go, Raise, ToRegister, FinishAction, ResetSteps, SaveSteps
<1>4. ASSUME PluginStep
      PROVE  UNCHANGED <<step, subject>> \/ step' \notin ResetSteps \cup SaveSteps \cup {"paint"}
  BY <1>4 DEF PluginStep, Validator, Discover, AskRender, PassOver, TakeRender, AllRendered,
         Emit, Go, Raise, ResetSteps, SaveSteps
<1>5. ASSUME UnitStep
      PROVE  UNCHANGED <<step, subject>> \/ step' \notin ResetSteps \cup SaveSteps \cup {"paint"}
  BY <1>5 DEF UnitStep, Manifest, Install, Validate, LoadUnit, Remove, AskRender, PassOver,
         TakeRender, UnitsRendered, Emit, Go, Raise, ResetSteps, SaveSteps
<1>6. ASSUME ThemeStep PROVE step' \notin ResetSteps \cup SaveSteps
  BY <1>6
     DEF ThemeStep, Lint, Capture, OpenTheme, Paint, ThemeRaises, EvalRaises, NoSession,
         Emit, Go, Raise, ResetSteps, SaveSteps
<1>7. ASSUME RepoStep PROVE step' \notin ResetSteps \cup SaveSteps \cup {"paint"}
  BY <1>7 DEF RepoStep, CheckIndex, DiscoverPackages, NextPackage, PackageTested, RepoTested,
         Emit, Go, Raise, ResetSteps, SaveSteps
<1>8. ASSUME Dispatch PROVE step' \notin ResetSteps \cup SaveSteps \cup {"paint"}
  BY <1>8, SubjectAssumption DEF Dispatch, FirstStep, Go, ResetSteps, SaveSteps, SubjectInv
<1>9. ASSUME PrintVerdict \/ Again \/ KillCommand
      PROVE  step' \notin ResetSteps \cup SaveSteps \cup {"paint"}
  BY <1>9 DEF PrintVerdict, Again, KillCommand, Go, ResetSteps, SaveSteps
<1>10. InitRuns => UNCHANGED <<step, subject>>
  BY DEF InitRuns
<1>11. QED
  BY <1>1, <1>2, <1>3, <1>4, <1>5, <1>6, <1>7, <1>8, <1>9, <1>10
     DEF Next, Program, AudioThread, Renderer, Reaper, Kill, RendererWrites

-----------------------------------------------------------------------------
(* Factory reset *)

ChunkType == [init : BOOLEAN, tweak : BOOLEAN, leak : BOOLEAN, saved : BOOLEAN, count : BOOLEAN]

(* What a chunk shows, part by part. *)
LEMMA ChunkParts ==
  ASSUME JsfxTypeOK, NEW c \in Chunks
  PROVE  /\ c \in ChunkType
         /\ c.init <=> fx.init /\ Has("initshows")
         /\ c.tweak <=> fx.tweak /\ ~Has("deaf")
         /\ c.leak <=> fx.leak /\ ~Has("nochannel")
         /\ c.saved <=> fx.init /\ Has("initsaves")
         /\ c.count => Flawed("volatile")
<1>1. PICK n \in IF Flawed("volatile") THEN BOOLEAN ELSE {FALSE} : c = ChunkShows(n)
  BY DEF Chunks
<1>2. /\ fx.init \in BOOLEAN /\ fx.tweak \in BOOLEAN /\ fx.leak \in BOOLEAN
      /\ n \in BOOLEAN /\ (n => Flawed("volatile"))
  BY <1>1 DEF JsfxTypeOK
<1>3. \A t : Has(t) \in BOOLEAN
  BY DEF Has
<1>4. QED
  BY <1>1, <1>2, <1>3 DEF ChunkShows, ChunkType

(* Without a volatile payload there is one chunk to read. *)
LEMMA OneChunk ==
  ASSUME JsfxTypeOK, NEW c \in ChunkType,
         c.init <=> fx.init /\ Has("initshows"),
         c.tweak <=> fx.tweak /\ ~Has("deaf"),
         c.leak <=> fx.leak /\ ~Has("nochannel"),
         c.saved <=> fx.init /\ Has("initsaves"), ~c.count, ~Flawed("volatile")
  PROVE  Chunks = {c}
<1>1. /\ fx.init \in BOOLEAN /\ fx.tweak \in BOOLEAN /\ fx.leak \in BOOLEAN
  BY DEF JsfxTypeOK
<1>2. \A t : Has(t) \in BOOLEAN
  BY DEF Has
<1>3. ChunkShows(FALSE) = c
  <2>1. c = [init |-> c.init, tweak |-> c.tweak, leak |-> c.leak, saved |-> c.saved,
             count |-> c.count]
    BY DEF ChunkType
  <2>2. /\ c.init = (fx.init /\ Has("initshows")) /\ c.tweak = (fx.tweak /\ ~Has("deaf"))
        /\ c.leak = (fx.leak /\ ~Has("nochannel")) /\ c.saved = (fx.init /\ Has("initsaves"))
        /\ c.count = FALSE
    BY <1>1, <1>2 DEF ChunkType
  <2>3. QED
    BY <2>1, <2>2 DEF ChunkShows
<1>4. QED
  BY <1>3 DEF Chunks

LEMMA ResetStep ==
  ASSUME TypeInv, SubjectInv, EngineInv, ResetInv, [Next]_vars
  PROVE  ResetInv'
<1> SUFFICES ASSUME subject'.kind = "jsfx", step' \in ResetSteps PROVE ResetInv'
  BY DEF ResetInv, ResetSteps
<1>1. mishaps \subseteq mishaps'
  BY MishapsStay
<1>2. CASE UNCHANGED <<step, subject, chunkVars>>
  BY <1>1, <1>2 DEF ResetInv, Has, Flawed
<1>3. fx \in [init : BOOLEAN, tweak : BOOLEAN, leak : BOOLEAN] /\ store \in BOOLEAN
      /\ earlier \in ChunkType /\ JsfxTypeOK
  BY DEF TypeInv, TypeOK, JsfxTypeOK, ChunkType
<1>4. CASE InitRuns
  <2>1. /\ fx'.init = TRUE /\ fx'.tweak = fx.tweak /\ fx'.leak = (Flawed("leaks") /\ store)
        /\ UNCHANGED <<step, subject, mishaps, store, earlier>>
    BY <1>3, <1>4 DEF InitRuns
  <2>2. QED
    BY <2>1 DEF ResetInv, Has, Flawed
<1>5. CASE JsfxStep
  <2>1. CASE Compile
    BY <2>1 DEF Compile, NewInstance, ResetInv, ResetSteps, GiveUp, Emit, Go, ToReset
  <2>2. CASE ReadVirgin
    <3>1. /\ subject.kind = "jsfx" /\ step = "virgin" /\ step' = "tweak" /\ earlier' \in Chunks
          /\ UNCHANGED <<subject, fx, store>>
          /\ mishaps' = {} => (Has("initshows") \/ Has("initsaves") => fx.init)
      BY <1>1, <1>5, <2>2 DEF JsfxStep, ReadVirgin, Go, Mishap
    <3>2. ~fx.tweak /\ ~fx.leak /\ ~store
      BY <3>1 DEF ResetInv
    <3>3. /\ earlier'.init <=> fx.init /\ Has("initshows")
          /\ ~earlier'.tweak /\ ~earlier'.leak
          /\ earlier'.saved <=> fx.init /\ Has("initsaves")
          /\ earlier'.count => Flawed("volatile")
      BY <1>3, <3>1, <3>2, ChunkParts
    <3>4. QED
      BY <3>1, <3>2, <3>3 DEF ResetInv, Has, Flawed
  <2>3. CASE Tweak
    <3>1. fx'.init = fx.init /\ fx'.tweak = TRUE /\ fx'.leak = fx.leak
      BY <1>3, <2>3 DEF Tweak
    <3>2. QED
      BY <1>5, <2>3, <3>1 DEF JsfxStep, Tweak, ResetInv, Go, Has, Flawed
  <2>4. CASE CheckTweak
    <3>1. step = "tweaked" /\ step' = "readd" /\ Chunks # {earlier} /\ subject.kind = "jsfx"
          /\ UNCHANGED <<subject, mishaps, chunkVars>>
      BY <1>5, <2>4 DEF JsfxStep, CheckTweak, Go, ResetSteps
    <3>2. ASSUME mishaps = {}, Has("deaf"), ~Flawed("volatile"), ~(fx.leak /\ ~Has("nochannel"))
          PROVE  Chunks = {earlier}
      <4>1. /\ ~earlier.tweak /\ ~earlier.leak /\ ~earlier.count
            /\ earlier.init <=> Has("initshows") /\ fx.init
            /\ earlier.saved <=> Has("initsaves") /\ fx.init
        <5>1. Has("initshows") \/ Has("initsaves") => fx.init
          BY <3>1, <3>2 DEF ResetInv
        <5>2. earlier.init \in BOOLEAN /\ earlier.saved \in BOOLEAN
          BY <1>3 DEF ChunkType
        <5>3. /\ ~earlier.tweak /\ ~earlier.leak
              /\ earlier.count => Flawed("volatile")
              /\ earlier.init => Has("initshows")
              /\ earlier.saved => Has("initsaves")
              /\ Has("initshows") => earlier.init
              /\ Has("initsaves") => earlier.saved
          BY <3>1, <3>2 DEF ResetInv
        <5>4. QED
          BY <3>2, <5>1, <5>2, <5>3, Zenon
      <4>2. QED
        BY <1>3, <3>2, <4>1, OneChunk
    <3>3. fx.leak => Flawed("leaks")
      BY <3>1 DEF ResetInv
    <3>4. QED
      BY <3>1, <3>2, <3>3 DEF ResetInv, Has, Flawed
  <2>5. CASE Readd
    BY <1>1, <1>5, <2>5
       DEF JsfxStep, Readd, NewInstance, ResetInv, ResetSteps, Go, Has, Flawed
  <2>6. CASE \/ StaticParse \/ PollChunk \/ SaveOnce \/ SaveAgain \/ ReadDefaults \/ Restore
             \/ PrevChunk \/ LeaveSession \/ JsfxRendering \/ JsfxRaises
    BY <1>1, <1>2, <2>6
       DEF StaticParse, PollChunk, SaveOnce, SaveAgain, ReadDefaults, Restore, PrevChunk,
           LeaveSession, JsfxRendering, JsfxRaises, EvalRaises, NoSession, Emit, Go, Raise,
           AfterReset, SkipDeterminism, AskRender, PassOver, TakeRender, AllRendered,
           ResetSteps
  <2>7. QED
    BY <1>5, <2>1, <2>2, <2>3, <2>4, <2>5, <2>6 DEF JsfxStep
<1>6. QED
  BY <1>2, <1>4, <1>5, OtherSteps

(* What PollChunk leaves to the stages of @serialize. *)
LEMMA PollLeaves ==
  ASSUME JsfxTypeOK, ResetInv, PollChunk, subject.kind = "jsfx"
  PROVE  /\ ~fx.tweak /\ (fx.leak => Flawed("leaks"))
         /\ mishaps' = {} /\ mishaps = {} /\ Steady /\ Flawed("leaks") => fx.init
<1>1. step = "poll"
  BY DEF PollChunk
<1>2. fx \in [init : BOOLEAN, tweak : BOOLEAN, leak : BOOLEAN] /\ earlier \in ChunkType
  BY DEF JsfxTypeOK, ChunkType
<1>3. ASSUME mishaps' = {}, mishaps = {}, Steady, Flawed("leaks"), ~fx.init PROVE FALSE
  <2>1. ~Flawed("volatile") /\ ~Has("initshows") /\ ~Has("initsaves")
    BY <1>3 DEF Steady
  <2>2. /\ ~earlier.tweak /\ ~earlier.leak /\ ~earlier.count /\ ~earlier.init
        /\ ~earlier.saved /\ ~fx.tweak
    BY <1>1, <2>1 DEF ResetInv
  <2>3. Chunks # {earlier}
    BY <1>3 DEF PollChunk, Settled, Mishap
  <2>4. ~fx.leak
    BY <1>1, <1>3 DEF ResetInv, PollChunk
  <2>5. QED
    BY <1>2, <1>3, <2>1, <2>2, <2>3, <2>4, OneChunk
<1>4. QED
  BY <1>1, <1>3 DEF ResetInv

LEMMA SaveStep ==
  ASSUME TypeInv, SubjectInv, EngineInv, ResetInv, SaveInv, [Next]_vars
  PROVE  SaveInv'
<1> SUFFICES ASSUME subject'.kind = "jsfx", step' \in SaveSteps PROVE SaveInv'
  BY DEF SaveInv, SaveSteps
<1>1. mishaps \subseteq mishaps'
  BY MishapsStay
<1>2. JsfxTypeOK /\ fx \in [init : BOOLEAN, tweak : BOOLEAN, leak : BOOLEAN]
  BY DEF TypeInv, TypeOK, JsfxTypeOK
<1>3. ASSUME UNCHANGED subject PROVE Steady' => Steady
  BY <1>1, <1>3 DEF Steady, Has, Flawed
<1>4. CASE UNCHANGED <<step, subject, chunkVars>>
  BY <1>3, <1>4 DEF SaveInv, Has, Flawed
<1>5. CASE InitRuns
  <2>1. /\ fx'.init = TRUE /\ fx'.tweak = fx.tweak /\ fx'.leak = (Flawed("leaks") /\ store)
        /\ UNCHANGED <<step, subject, mishaps, store, earlier>> /\ ~fx.init
    BY <1>2, <1>5 DEF InitRuns
  <2>2. subject.kind = "jsfx" /\ step \in SaveSteps /\ (Steady' <=> Steady)
    BY <2>1 DEF Steady, Has, Flawed
  <2>3. Steady => ~Flawed("leaks") /\ ~fx.leak
    BY <2>1, <2>2 DEF SaveInv, SaveSteps
  <2>4. QED
    BY <2>1, <2>2, <2>3 DEF SaveInv, SaveSteps, Has, Flawed
<1>6. CASE JsfxStep
  <2>1. subject.kind = "jsfx"
    BY <1>6 DEF JsfxStep
  <2>2. CASE PollChunk
    <3>1. step' = "serialize" /\ UNCHANGED <<subject, fx>>
      BY <2>2 DEF PollChunk, Go, AfterReset, SaveSteps
    <3>2. mishaps' = {} => mishaps = {}
      BY <1>1
    <3>3. QED
      BY <1>2, <1>3, <2>1, <2>2, <3>1, <3>2, PollLeaves DEF SaveInv, Steady, Has, Flawed
  <2>3. CASE SaveOnce \/ ReadDefaults
    <3>1. /\ step \in {"serialize", "restore"} /\ step' \in {"save again", "restored"}
          /\ earlier' \in Chunks /\ UNCHANGED <<subject, mishaps, fx>>
      BY <2>3 DEF SaveOnce, ReadDefaults, Go, SaveSteps
    <3>2. /\ ~fx.tweak /\ (fx.leak => Flawed("leaks"))
          /\ Steady /\ Flawed("leaks") => fx.init
      BY <2>1, <3>1 DEF SaveInv
    <3>3. /\ earlier'.init <=> fx.init /\ Has("initshows")
          /\ ~earlier'.tweak
          /\ earlier'.leak <=> fx.leak /\ ~Has("nochannel")
          /\ earlier'.saved <=> fx.init /\ Has("initsaves")
          /\ earlier'.count => Flawed("volatile")
      BY <1>2, <3>1, <3>2, ChunkParts
    <3>4. Steady' <=> Steady
      BY <3>1 DEF Steady, Has, Flawed
    <3>5. Steady => ~Has("initshows") /\ ~Has("initsaves")
      BY DEF Steady
    <3>6. QED
      BY <3>1, <3>2, <3>3, <3>4, <3>5 DEF SaveInv, Has, Flawed
  <2>4. CASE SaveAgain
    <3>1. /\ step = "save again" /\ step' = "restore" /\ UNCHANGED <<subject, fx>>
      BY <2>4 DEF SaveAgain, Go, SaveSteps
    <3>2. QED
      BY <1>3, <2>1, <3>1 DEF SaveInv, Has, Flawed
  <2>5. CASE \/ StaticParse \/ Compile \/ ReadVirgin \/ Tweak \/ CheckTweak \/ Readd \/ Restore
             \/ PrevChunk \/ LeaveSession \/ JsfxRendering \/ JsfxRaises
    BY <1>4, <2>5
       DEF StaticParse, Compile, ReadVirgin, Tweak, CheckTweak, Readd, Restore, PrevChunk,
           LeaveSession, JsfxRendering, JsfxRaises, EvalRaises, NoSession, Emit, Go, GiveUp,
           Raise, ToReset, SkipDeterminism, AskRender, PassOver, TakeRender, AllRendered,
           SaveSteps
  <2>6. QED
    BY <1>6, <2>2, <2>3, <2>4, <2>5 DEF JsfxStep
<1>7. QED
  BY <1>4, <1>5, <1>6, OtherSteps

LEMMA PaintStep ==
  ASSUME TypeInv, SubjectInv, EngineInv, PaintInv, [Next]_vars
  PROVE  PaintInv'
<1>1. CASE ThemeStep
  BY <1>1
     DEF ThemeStep, Lint, Capture, OpenTheme, Paint, ThemeRaises, EvalRaises, NoSession,
         Emit, Go, Raise, PaintInv, Readback, Flawed
<1>2. CASE UNCHANGED <<step, subject>>
  BY <1>2 DEF PaintInv, Flawed
<1>3. QED
  BY <1>1, <1>2, OtherSteps DEF PaintInv

-----------------------------------------------------------------------------
(* Scripts *)

ScriptSteps == {"load", "register", "settle", "snapshot", "watch", "ping"}

LEMMA ScriptInvStep ==
  ASSUME TypeInv, SubjectInv, EngineInv, ScriptInv, [Next]_vars
  PROVE  ScriptInv'
<1>1. mishaps \subseteq mishaps'
  BY MishapsStay
<1>2. effects \in {"none", "pending", "done"} /\ panel \in {"none", "up", "sighted"}
  BY DEF TypeInv, TypeOK, ScriptTypeOK
<1>3. CASE UNCHANGED <<subject, step, engine, scriptVars>>
  BY <1>1, <1>3 DEF ScriptInv, Flawed
<1>4. CASE ScriptStep /\ UNCHANGED Context
  <2> USE DEF ScriptInv, Context, Flawed, Emit, Go, Raise, OpenSession, CloseSession
  <2>1. subject.kind = "script" /\ UNCHANGED subject
    BY <1>4 DEF ScriptStep
  <2>2. CASE ScriptStatic
    BY <2>1, <2>2 DEF ScriptStatic
  <2>3. CASE Load
    BY <2>1, <2>3 DEF Load, ToRegister
  <2>4. CASE Supervise
    BY <2>1, <2>4 DEF Supervise, ToRegister
  <2>5. CASE WindowEnds
    BY <1>1, <2>1, <2>5 DEF WindowEnds, Mishap
  <2>6. CASE Snapshot
    BY <2>1, <2>6 DEF Snapshot, ToRegister
  <2>7. CASE Register
    BY <2>1, <2>7 DEF Register
  <2>8. CASE Watch
    BY <2>1, <2>8 DEF Watch, FinishAction
  <2>9. CASE PingAction
    BY <2>1, <2>9 DEF PingAction, FinishAction
  <2>10. CASE ScriptRaises
    BY <2>1, <2>10 DEF ScriptRaises, EvalRaises, NoSession
  <2>11. QED
    BY <1>4, <2>2, <2>3, <2>4, <2>5, <2>6, <2>7, <2>8, <2>9, <2>10 DEF ScriptStep
<1>5. CASE ScriptRuns
  BY <1>1, <1>2, <1>5 DEF ScriptRuns, Deferred, Sight, RunAction, ScriptInv, Flawed
<1>6. ASSUME UNCHANGED scriptVars, subject.kind # "script", subject'.kind # "script"
      PROVE  ScriptInv'
  BY <1>6 DEF ScriptInv
<1>7. CASE \/ (JsfxStep \/ PluginStep \/ UnitStep \/ ThemeStep) /\ UNCHANGED <<Context, scriptVars>>
           \/ KillCommand /\ UNCHANGED <<Context, scriptVars>>
  BY <1>6, <1>7 DEF JsfxStep, PluginStep, UnitStep, ThemeStep, KillCommand, Context
<1>8. CASE RepoStep /\ UNCHANGED scriptVars
  BY <1>8 DEF RepoStep, CheckIndex, DiscoverPackages, NextPackage, PackageTested, RepoTested,
              ScriptInv, Go, Emit, Raise
<1>9. CASE (RenderStep \/ RendererWrites) /\ UNCHANGED <<Context, step, scriptVars>>
  <2>1. step = "renders"
    BY <1>9, RenderStepKeeps DEF TypeInv
  <2>2. QED
    BY <1>9, <2>1 DEF ScriptInv, Context
<1>10. CASE (Dispatch \/ PrintVerdict) /\ UNCHANGED <<Context, scriptVars>>
  <2>1. Dispatch => step' \notin ScriptSteps \cup {"aborted"} \/ step' = "exited"
    BY SubjectAssumption DEF Dispatch, FirstStep, Go, ScriptSteps, SubjectInv
  <2>2. QED
    BY <1>10, <2>1 DEF Dispatch, PrintVerdict, ScriptInv, Context, Go, ScriptSteps
<1>11. CASE InitRuns /\ UNCHANGED <<Context, scriptVars>>
  BY <1>3, <1>11 DEF InitRuns
<1>12. CASE Again /\ UNCHANGED scriptVars
  <2>1. subject.kind # "script" /\ subject'.kind # "script"
    BY <1>12, CappedBounds DEF Again, SubjectInv, TestedAs, ElseTested
  <2>2. QED
    BY <1>6, <1>12, <2>1
<1>13. CASE UnitStep /\ Install /\ UNCHANGED scriptVars
  <2>1. subject.kind # "script" /\ subject'.kind # "script"
    BY <1>13, InstallTests DEF UnitStep
  <2>2. QED
    BY <1>6, <1>13, <2>1
<1>14. CASE Next
  BY <1>4, <1>5, <1>7, <1>8, <1>9, <1>10, <1>11, <1>12, <1>13, <1>14, Actors
<1>15. QED
  BY <1>3, <1>14

-----------------------------------------------------------------------------
(* Renders *)

LEMMA ResultsStay ==
  ASSUME [Next]_vars
  PROVE  (results \subseteq results' /\ (Red => Red')) \/ Again
BY ResultSteps DEF Adds, Red

(* The render of the label at the head is taken, with its verdict. *)
Taken ==
  /\ RenderEnded /\ render' = Idle /\ todo' = Tail(todo)
  /\ IF render.at = "raised" THEN Red' /\ kept' = kept
     ELSE kept' = IF Label = "sine_1k" \/ (Label = "midi" /\ render.at = "full")
                  THEN [kept EXCEPT ![Label] = render.at] ELSE kept

SkipsLabel ==
  /\ PassOver \/ SkipDeterminism
  /\ RenderDue /\ Label # "sine_1k"
  /\ todo' = Tail(todo) /\ UNCHANGED <<render, kept>>

LEMMA AddRed == ASSUME NEW name, Add(name, "failed") PROVE Red'
<1>1. <<package, name, "failed">> \in results'
  BY DEF Add, AddAll
<1>2. QED
  BY <1>1 DEF Red

LEMMA StepsInRenders ==
  ASSUME TypeInv, SubjectInv, EngineInv, Next, step = "renders"
  PROVE  /\ UNCHANGED Context /\ tested' = tested
         /\ \/ RenderStep \/ RendererWrites
            \/ AskRender
            \/ (SkipsLabel \/ Taken) /\ UNCHANGED <<step, mishaps>>
            \/ step' # "renders" /\ todo = <<>> /\ UNCHANGED <<render, mishaps>>
<1>1. SkipDeterminism \/ PassOver => SkipsLabel /\ UNCHANGED <<step, mishaps>>
  BY DEF SkipDeterminism, SilentWithoutNotes, PassOver, RenderDue, Needed, SkipsLabel
<1>2. AllRendered \/ UnitsRendered => step' # "renders" /\ todo = <<>> /\ UNCHANGED <<render, mishaps>>
  BY DEF AllRendered, UnitsRendered, Emit, Go
<1>3. CASE JsfxStep /\ UNCHANGED Context /\ tested' = tested
  <2>1. TakeRender(JsfxVerdicts) => Taken /\ UNCHANGED <<step, mishaps>>
    BY AddRed DEF TakeRender, Taken
  <2>2. SkipDeterminism \/ AskRender \/ PassOver \/ TakeRender(JsfxVerdicts) \/ AllRendered
    BY <1>3
       DEF JsfxStep, StaticParse, Compile, ReadVirgin, Tweak, CheckTweak, Readd, PollChunk,
           SaveOnce, SaveAgain, ReadDefaults, Restore, PrevChunk, LeaveSession, JsfxRaises,
           EvalRaises, NoSession, JsfxRendering
  <2>3. QED
    BY <1>1, <1>2, <1>3, <2>1, <2>2
<1>4. CASE PluginStep /\ UNCHANGED Context /\ tested' = tested
  <2>1. TakeRender(PluginVerdicts) => Taken /\ UNCHANGED <<step, mishaps>>
    BY AddRed DEF TakeRender, Taken
  <2>2. AskRender \/ PassOver \/ TakeRender(PluginVerdicts) \/ AllRendered
    BY <1>4 DEF PluginStep, Validator, Discover
  <2>3. QED
    BY <1>1, <1>2, <1>4, <2>1, <2>2
<1>5. CASE UnitStep /\ UNCHANGED Context /\ tested' = tested
  <2>1. TakeRender(UnitVerdicts) => Taken /\ UNCHANGED <<step, mishaps>>
    BY AddRed DEF TakeRender, Taken
  <2>2. AskRender \/ PassOver \/ TakeRender(UnitVerdicts) \/ UnitsRendered
    BY <1>5 DEF UnitStep, Manifest, Install, Validate, LoadUnit, Remove
  <2>3. QED
    BY <1>1, <1>2, <1>5, <2>1, <2>2
<1>6. CASE (RenderStep \/ RendererWrites) /\ UNCHANGED Context /\ tested' = tested
  BY <1>6
<1>7. ~ScriptStep /\ ~ScriptRuns /\ ~ThemeStep /\ ~RepoStep /\ ~InitRuns /\ ~KillCommand
      /\ ~Dispatch /\ ~PrintVerdict /\ ~Again /\ ~Install
  BY
     DEF ScriptStep, ScriptStatic, Load, Supervise, WindowEnds, Snapshot, Register, Watch,
         PingAction, ScriptRaises, EvalRaises, NoSession, ScriptRuns, Deferred, Sight,
         RunAction, ThemeStep, Lint, Capture, OpenTheme, Paint, ThemeRaises, RepoStep,
         CheckIndex, DiscoverPackages, NextPackage, PackageTested, RepoTested, InitRuns,
         KillCommand, Dispatch, PrintVerdict, Again, Install
<1>8. QED
  BY <1>3, <1>4, <1>5, <1>6, <1>7, Actors

InPlan(plan, label) == \E i \in DOMAIN plan : plan[i] = label

(* The determinism of a plan comes after its first sine. *)
SineFirst(plan) ==
  \A i \in DOMAIN plan : plan[i] = "determinism" => \E j \in 1..i : plan[j] = "sine_1k"

LEMMA PlanJoined ==
  ASSUME NEW S, NEW s \in Seq(S), NEW t \in Seq(S), NEW label
  PROVE  /\ InPlan(s, label) \/ InPlan(t, label) => InPlan(s \o t, label)
         /\ SineFirst(s) /\ InPlan(s, "sine_1k") => SineFirst(s \o t)
<1>1. /\ Len(s) \in Nat /\ Len(t) \in Nat /\ DOMAIN s = 1..Len(s) /\ DOMAIN t = 1..Len(t)
      /\ DOMAIN (s \o t) = 1..(Len(s) + Len(t))
      /\ \A i \in 1..Len(s) : (s \o t)[i] = s[i]
      /\ \A i \in 1..Len(t) : (s \o t)[Len(s) + i] = t[i]
  OBVIOUS
<1> DEFINE u == s \o t
<1> HIDE DEF u
<1>2. /\ DOMAIN u = 1..(Len(s) + Len(t))
      /\ \A i \in 1..Len(s) : u[i] = s[i]
      /\ \A i \in 1..Len(t) : u[Len(s) + i] = t[i]
  BY <1>1 DEF u
<1>3. InPlan(s, label) => InPlan(u, label)
  BY <1>1, <1>2 DEF InPlan
<1>4. ASSUME InPlan(t, label) PROVE InPlan(u, label)
  <2>1. PICK i \in 1..Len(t) : t[i] = label
    BY <1>1, <1>4 DEF InPlan
  <2>2. Len(s) + i \in DOMAIN u /\ u[Len(s) + i] = label
    BY <1>1, <1>2, <2>1
  <2>3. QED
    BY <2>2 DEF InPlan
<1>5. ASSUME SineFirst(s), InPlan(s, "sine_1k"), NEW i \in DOMAIN u, u[i] = "determinism"
      PROVE  \E j \in 1..i : u[j] = "sine_1k"
  <2>1. CASE i <= Len(s)
    <3>1. PICK j \in 1..i : s[j] = "sine_1k"
      BY <1>1, <1>2, <1>5, <2>1 DEF SineFirst
    <3>2. QED
      BY <1>1, <1>2, <2>1, <3>1
  <2>2. CASE i > Len(s)
    <3>1. PICK j \in 1..Len(s) : s[j] = "sine_1k"
      BY <1>1, <1>5 DEF InPlan
    <3>2. j \in 1..i /\ u[j] = "sine_1k"
      BY <1>1, <1>2, <2>2, <3>1
    <3>3. QED
      BY <3>2
  <2>3. QED
    BY <1>1, <1>2, <2>1, <2>2
<1>6. QED
  BY <1>3, <1>4, <1>5 DEF u, SineFirst

LEMMA ThreeLabels ==
  ASSUME NEW x, NEW y, NEW z
  PROVE  /\ InPlan(<<x, y, z>>, x) /\ InPlan(<<x, y, z>>, y) /\ InPlan(<<x, y, z>>, z)
         /\ x # "determinism" /\ y # "determinism" /\ z # "determinism" =>
              SineFirst(<<x, y, z>>)
<1> DEFINE p == <<x, y, z>>
<1>1. p[1] = x /\ p[2] = y /\ p[3] = z /\ DOMAIN p = 1..3
  OBVIOUS
<1> HIDE DEF p
<1>2. 1 \in DOMAIN p /\ 2 \in DOMAIN p /\ 3 \in DOMAIN p
  BY <1>1
<1>3. InPlan(p, p[1]) /\ InPlan(p, p[2]) /\ InPlan(p, p[3])
  BY <1>2 DEF InPlan
<1>4. \A i \in DOMAIN p : p[i] \in {x, y, z}
  BY <1>1
<1>5. QED
  BY <1>1, <1>3, <1>4 DEF SineFirst, p

(* What the plans hold, and that they begin with what is compared with.    *)
LEMMA PlansHold ==
  /\ SineFirst(JsfxPlan) /\ SineFirst(PluginPlan) /\ SineFirst(<<"sine_1k", "determinism">>)
  /\ SineFirst(<<>>)
  /\ \A l \in {"silence", "sine_1k", "determinism"} :
       (Has("quick") \/ InPlan(JsfxPlan, l)) /\ InPlan(PluginPlan, l)
  /\ NoteDriven => Has("quick") \/ InPlan(JsfxPlan, "midi")
  /\ \A l \in {"sine_1k", "determinism"} : InPlan(<<"sine_1k", "determinism">>, l)
  /\ \A l : InPlan(Sweeps, l) /\ ~Has("nosweep") =>
              /\ Has("sliders") => Has("quick") \/ InPlan(JsfxPlan, l)
              /\ Has("params") => InPlan(PluginPlan, l)
<1> DEFINE a == <<"silence", "sine_1k", "other rate">>
           b == IF NoteDriven THEN <<"midi", "midi again">> ELSE <<>>
           c == <<"determinism">>
           d == IF Has("sliders") /\ ~Has("nosweep") THEN Sweeps ELSE <<>>
           e == <<"silence", "sine_1k", "determinism">>
           f == IF Has("params") /\ ~Has("nosweep") THEN Sweeps ELSE <<>>
           g == <<"sine_1k", "determinism">>
<1>1. a \in Seq(Labels) /\ c \in Seq(Labels) /\ e \in Seq(Labels)
  BY DEF Labels
<1>2. b \in Seq(Labels)
  <2>1. <<"midi", "midi again">> \in Seq(Labels) /\ <<>> \in Seq(Labels)
    BY DEF Labels
  <2>2. QED
    BY <2>1
<1>3. d \in Seq(Labels) /\ f \in Seq(Labels)
  BY SweepsAreLabels
<1>4. SineFirst(a) /\ InPlan(a, "silence") /\ InPlan(a, "sine_1k")
  BY ThreeLabels
<1>5. InPlan(c, "determinism") /\ SineFirst(<<>>)
  BY DEF SineFirst, InPlan
<1>6. SineFirst(e) /\ \A l \in {"silence", "sine_1k", "determinism"} : InPlan(e, l)
  <2>1. e[1] = "silence" /\ e[2] = "sine_1k" /\ e[3] = "determinism" /\ DOMAIN e = 1..3
    OBVIOUS
  <2> HIDE DEF e
  <2>2. QED
    BY <2>1 DEF SineFirst, InPlan
<1>7. SineFirst(g) /\ \A l \in {"sine_1k", "determinism"} : InPlan(g, l)
  <2>1. g[1] = "sine_1k" /\ g[2] = "determinism" /\ DOMAIN g = 1..2
    OBVIOUS
  <2> HIDE DEF g
  <2>2. QED
    BY <2>1 DEF SineFirst, InPlan
<1>8. NoteDriven => InPlan(b, "midi")
  <2>1. InPlan(<<"midi", "midi again">>, "midi")
    <3>1. 1 \in DOMAIN <<"midi", "midi again">> /\ <<"midi", "midi again">>[1] = "midi"
      OBVIOUS
    <3>2. QED
      BY <3>1 DEF InPlan
  <2>2. QED
    BY <2>1
<1>9. \A l : InPlan(Sweeps, l) /\ ~Has("nosweep") =>
        (Has("sliders") => InPlan(d, l)) /\ (Has("params") => InPlan(f, l))
  OBVIOUS
<1> DEFINE plan == ((a \o b) \o c) \o d
<1>10. JsfxPlan = (IF Has("quick") THEN <<>> ELSE plan) /\ PluginPlan = e \o f
  BY DEF JsfxPlan, PluginPlan
<1> HIDE DEF a, b, c, d, e, f, g
<1>11. a \o b \in Seq(Labels) /\ (a \o b) \o c \in Seq(Labels)
  BY <1>1, <1>2, Concatenation
<1>12. /\ SineFirst(a \o b) /\ InPlan(a \o b, "silence") /\ InPlan(a \o b, "sine_1k")
       /\ NoteDriven => InPlan(a \o b, "midi")
  BY <1>1, <1>2, <1>4, <1>8, PlanJoined
<1>13. /\ SineFirst((a \o b) \o c)
       /\ \A l \in {"silence", "sine_1k", "determinism"} : InPlan((a \o b) \o c, l)
       /\ NoteDriven => InPlan((a \o b) \o c, "midi")
  BY <1>1, <1>5, <1>11, <1>12, PlanJoined
<1>14. /\ SineFirst(plan)
       /\ \A l \in {"silence", "sine_1k", "determinism"} : InPlan(plan, l)
       /\ NoteDriven => InPlan(plan, "midi")
       /\ \A l : InPlan(Sweeps, l) /\ ~Has("nosweep") => (Has("sliders") => InPlan(plan, l))
  BY <1>3, <1>9, <1>11, <1>13, PlanJoined
<1>15. /\ SineFirst(PluginPlan)
       /\ \A l \in {"silence", "sine_1k", "determinism"} : InPlan(PluginPlan, l)
       /\ \A l : InPlan(Sweeps, l) /\ ~Has("nosweep") => (Has("params") => InPlan(PluginPlan, l))
  BY <1>1, <1>3, <1>6, <1>9, <1>10, PlanJoined
<1> HIDE DEF plan
<1>16. JsfxPlan = <<>> \/ JsfxPlan = plan
  BY <1>10
<1>17. SineFirst(JsfxPlan)
  BY <1>5, <1>14, <1>16
<1>18. ~Has("quick") => JsfxPlan = plan
  BY <1>10
<1>19. QED
  BY <1>5, <1>7, <1>14, <1>15, <1>17, <1>18 DEF g

(* How a battery comes to its renders. *)
LEMMA RendersBegin ==
  ASSUME SubjectInv, Next, step # "renders", step' = "renders"
  PROVE  /\ \/ subject.kind = "jsfx" /\ LeaveSession
            \/ subject.kind = "plugin" /\ Discover /\ todo' = PluginPlan
            \/ subject.kind = "au" /\ LoadUnit /\ todo' = <<"sine_1k", "determinism">>
         /\ UNCHANGED <<Context, render, mishaps>> /\ tested' = tested
         /\ kept' = NoRenders
         /\ SineFirst(todo')
<1>1. CASE JsfxStep /\ UNCHANGED Context /\ tested' = tested
  <2>1. LeaveSession
    BY <1>1
       DEF JsfxStep, StaticParse, Compile, ReadVirgin, Tweak, CheckTweak, Readd, PollChunk,
           SaveOnce, SaveAgain, ReadDefaults, Restore, PrevChunk, JsfxRendering, JsfxRaises,
           EvalRaises, NoSession, Emit, Go, GiveUp, Raise, ToReset, AfterReset,
           SkipDeterminism, SilentWithoutNotes, RenderDue, AskRender, PassOver, TakeRender,
           AllRendered
  <2>2. QED
    BY <1>1, <2>1, PlansHold DEF LeaveSession, Emit, Go, JsfxStep
<1>2. CASE PluginStep /\ UNCHANGED Context /\ tested' = tested
  BY <1>2, PlansHold
     DEF PluginStep, Validator, Discover, AskRender, PassOver, RenderDue, TakeRender,
         AllRendered, Emit, Go, Raise
<1>3. CASE UnitStep /\ UNCHANGED Context /\ tested' = tested
  BY <1>3, PlansHold
     DEF UnitStep, Manifest, Install, Validate, LoadUnit, Remove, AskRender, PassOver,
         RenderDue, TakeRender, UnitsRendered, Emit, Go, Raise
<1>4. ~ScriptStep
  BY
     DEF ScriptStep, ScriptStatic, Load, Supervise, WindowEnds, Snapshot, Register, Watch,
         PingAction, ScriptRaises, EvalRaises, NoSession, Emit, Go, Raise, ToRegister,
         FinishAction
<1>5. ~ScriptRuns /\ ~InitRuns /\ ~KillCommand /\ ~RenderStep /\ ~RendererWrites
  BY DEF ScriptRuns, Deferred, Sight, RunAction, InitRuns, KillCommand, RenderStep, Host,
         WriteInput, Build, OpenRenderer, Poll, Settle, Deadline, RendererWrites
<1>6. ~ThemeStep /\ ~RepoStep
  BY
     DEF ThemeStep, Lint, Capture, OpenTheme, Paint, ThemeRaises, EvalRaises, NoSession,
         RepoStep, CheckIndex, DiscoverPackages, NextPackage, PackageTested, RepoTested,
         Emit, Go, Raise
<1>7. ~PrintVerdict /\ ~Again
  BY DEF PrintVerdict, Again, Go
<1>8. ~Dispatch /\ ~Install
  BY SubjectAssumption DEF Dispatch, FirstStep, Install, Emit, Raise, Go, SubjectInv
<1>9. QED
  BY <1>1, <1>2, <1>3, <1>4, <1>5, <1>6, <1>7, <1>8, Actors

LEMMA RenderKnownStep ==
  ASSUME TypeInv, EngineInv, RenderKnown, RenderStep \/ RendererWrites, [Next]_vars
  PROVE  RenderKnown'
<1>1. UNCHANGED <<subject, step, todo, kept>> /\ mishaps \subseteq mishaps' /\ Rendering /\ Rendering'
  BY RenderStepKeeps, MishapsStay
<1>2. render \in [at : {"idle", "host", "write", "build", "open", "poll", "settle",
                         "full", "cut", "raised"},
                   size : 0..Full, mark : 0..Full, renderer : BOOLEAN]
  BY DEF TypeInv, TypeOK, RenderTypeOK
<1> USE DEF RenderKnown, Flawed
<1>3. CASE render' = [render EXCEPT !.at = "raised"] /\ mishaps' # {}
  BY <1>1, <1>2, <1>3
<1>4. CASE \E a \in {"full", "cut", "raised"} :
             /\ render' = [render EXCEPT !.at = a, !.renderer = FALSE]
             /\ a = "full" => render.size = Full
             /\ a = "cut" => Flawed("stalls") \/ "pause" \in mishaps'
             /\ a = "raised" => Flawed("stalls") \/ mishaps' # {}
  BY <1>1, <1>2, <1>4
<1>5. CASE RendererWrites
  <2>1. render'.at = render.at /\ render'.size = render.size + 1
    BY <1>2, <1>5 DEF RendererWrites
  <2>2. QED
    BY <1>1, <1>2, <1>5, <2>1, RenderAssumption DEF RendererWrites, Reach
<1>6. CASE Host \/ WriteInput \/ Build
  <2>1. \/ \E a \in {"host", "write", "build", "open"} : render' = [render EXCEPT !.at = a]
        \/ render' = [render EXCEPT !.at = "raised"] /\ mishaps' # {}
    BY <1>6 DEF Host, WriteInput, Build, RenderGoes, Mishap
  <2>2. QED
    BY <1>1, <1>2, <1>3, <2>1
<1>7. CASE OpenRenderer \/ Poll
  <2>1. \/ render' = [render EXCEPT !.at = "poll", !.renderer = TRUE]
        \/ render' = [render EXCEPT !.at = "settle", !.mark = render.size]
        \/ render' = [render EXCEPT !.at = "raised"] /\ mishaps' # {}
    BY <1>7 DEF OpenRenderer, Poll, RenderGoes, Mishap
  <2>2. QED
    BY <1>1, <1>2, <1>3, <2>1
<1>8. CASE Settle
  <2>1. \/ render' = [render EXCEPT !.at = "poll"]
        \/ render' = [render EXCEPT !.at = "full", !.renderer = FALSE] /\ render.size = Full
        \/ \E a \in {"cut", "raised"} :
             /\ render' = [render EXCEPT !.at = a, !.renderer = FALSE]
             /\ Flawed("stalls") \/ "pause" \in mishaps'
    BY <1>8 DEF Settle, RenderGoes, Leave, Reap, Mishap
  <2>2. CASE render' = [render EXCEPT !.at = "poll"]
    BY <1>1, <1>2, <2>2
  <2>3. QED
    BY <1>1, <1>2, <1>4, <2>1, <2>2
<1>9. CASE Deadline
  <2>1. /\ render' = [render EXCEPT !.at = "raised", !.renderer = FALSE]
        /\ Flawed("stalls") \/ mishaps' # {}
    BY <1>9 DEF Deadline, Leave, Reap, Mishap
  <2>2. QED
    BY <1>4, <2>1
<1>10. QED
  BY <1>5, <1>6, <1>7, <1>8, <1>9 DEF RenderStep

LEMMA QualityStep ==
  ASSUME TypeInv, SubjectInv, EngineInv, RenderKnown, KeptKnown, [Next]_vars
  PROVE  RenderKnown' /\ KeptKnown'
<1>1. mishaps \subseteq mishaps'
  BY MishapsStay
<1>2. kept \in [{"sine_1k", "midi"} -> {"none", "full", "cut"}] /\ todo \in Seq(Labels)
  BY DEF TypeInv, TypeOK, RenderTypeOK
<1>3. Idle.size = 0 /\ Idle.at = "idle" /\ 0 < Full
  BY RenderAssumption DEF Idle
<1>4. CASE step # "renders" /\ step' # "renders"
  <2>1. ~Rendering /\ ~Rendering' /\ render.size = 0
    BY <1>4, TypeStep DEF TypeInv, RenderKnown
  <2>2. render' = render
    BY <1>4, <2>1, PlanSteps, RenderStepKeeps
       DEF Renders, TakesRender, DropsLabel, StartsPlan, KeepsPlan, AskRender, RenderDue
  <2>3. QED
    BY <1>3, <1>4, <2>1, <2>2 DEF RenderKnown, KeptKnown, Rendering
<1>5. CASE step # "renders" /\ step' = "renders"
  <2>1. Next
    BY <1>5
  <2>2. UNCHANGED <<Context, render, mishaps>> /\ kept' = NoRenders /\ SineFirst(todo') /\ ~Rendering
    BY <1>5, <2>1, RendersBegin DEF TypeInv
  <2>3. QED
    BY <1>3, <2>2 DEF RenderKnown, KeptKnown, Rendering, SineFirst, NoRenders, Context, Flawed
<1>6. CASE step = "renders" /\ Next
  <2>0. Red => Red'
    <3>1. ~Again
      BY <1>6 DEF Again
    <3>2. QED
      BY <3>1, ResultsStay
  <2>1. CASE RenderStep \/ RendererWrites
    <3>1. UNCHANGED <<subject, step, todo, kept>> /\ Rendering
      BY <2>1, RenderStepKeeps
    <3>2. QED
      BY <1>1, <2>0, <2>1, <3>1, RenderKnownStep DEF KeptKnown, Label, Flawed
  <2>2. CASE AskRender /\ UNCHANGED Context
    <3>1. \E a \in {"write", "host"} : render' = [render EXCEPT !.at = a]
      BY <2>2 DEF AskRender, StartRender, RenderGoes
    <3>2. render'.size = 0 /\ render'.at \in {"write", "host"}
      BY <2>2, <3>1
         DEF AskRender, RenderDue, RenderKnown, Rendering, TypeInv, TypeOK, RenderTypeOK
    <3>3. Label = "determinism" => kept["sine_1k"] # "none"
      BY <2>2 DEF AskRender, Needed
    <3>4. RenderKnown'
      BY <1>3, <3>2 DEF RenderKnown, Rendering
    <3>5. QED
      BY <2>0, <2>2, <3>3, <3>4 DEF AskRender, KeptKnown, Label, Context, Flawed
  <2>3. CASE (SkipsLabel \/ Taken) /\ UNCHANGED <<Context, step, mishaps>>
    <3>1. todo # <<>> /\ todo' = Tail(todo)
      BY <2>3 DEF SkipsLabel, Taken, RenderDue, TypeInv, Rendering, RenderEnded
    <3>2. ~Rendering' /\ render'.size = 0
      BY <1>3, <2>3 DEF SkipsLabel, Taken, RenderDue, RenderKnown, Rendering
    <3>3. RenderKnown'
      BY <1>3, <3>2 DEF RenderKnown, Rendering
    <3>4. \A l \in {"sine_1k", "midi"} : kept'[l] = "cut" => kept[l] = "cut" \/ render.at = "cut"
      BY <1>2, <2>3 DEF SkipsLabel, Taken
    <3>5. kept["sine_1k"] # "none" => kept'["sine_1k"] # "none"
      BY <1>2, <2>3 DEF SkipsLabel, Taken, RenderEnded
    <3>6. Label = "sine_1k" => kept'["sine_1k"] # "none" \/ Red'
      BY <1>2, <2>3 DEF SkipsLabel, Taken, RenderEnded
    <3>7. ASSUME NEW i \in DOMAIN todo', todo'[i] = "determinism"
          PROVE  kept'["sine_1k"] # "none" \/ Red' \/ \E j \in 1..i : todo'[j] = "sine_1k"
      <4>1. i \in Nat \ {0} /\ i + 1 \in DOMAIN todo /\ todo[i + 1] = "determinism"
        BY <1>2, <3>1, <3>7
      <4>2. kept["sine_1k"] # "none" \/ Red \/ \E j \in 1..(i + 1) : todo[j] = "sine_1k"
        BY <1>6, <4>1 DEF KeptKnown
      <4>3. ASSUME NEW j \in 1..(i + 1), todo[j] = "sine_1k", j # 1
            PROVE  \E k \in 1..i : todo'[k] = "sine_1k"
        <5>1. j - 1 \in 1..i /\ todo'[j - 1] = todo[j]
          BY <1>2, <3>1, <4>1, <4>3
        <5>2. QED
          BY <4>3, <5>1
      <4>4. CASE todo[1] = "sine_1k"
        BY <3>6, <4>4 DEF Label
      <4>5. QED
        BY <2>0, <3>5, <4>2, <4>3, <4>4
    <3>8. QED
      BY <1>6, <2>3, <3>2, <3>3, <3>4, <3>7 DEF KeptKnown, RenderKnown, Context, Flawed
  <2>4. CASE step' # "renders" /\ todo = <<>> /\ UNCHANGED <<Context, render, mishaps>>
    BY <2>4 DEF RenderKnown, KeptKnown, Rendering, Context, Flawed, TypeInv
  <2>5. QED
    BY <1>6, <2>1, <2>2, <2>3, <2>4, StepsInRenders
<1>7. CASE UNCHANGED vars
  BY <1>7 DEF RenderKnown, KeptKnown, Rendering, Label, Flawed, Red
<1>8. QED
  BY <1>4, <1>5, <1>6, <1>7

-----------------------------------------------------------------------------
(* Failures *)

LEMMA Speaks ==
  /\ "static" \in SpeaksOf("missing") /\ "compile" \in SpeaksOf("compile")
  /\ "params" \in SpeaksOf("params") /\ {"reset", "hygiene", "load"} \subseteq SpeaksOf("leaks")
  /\ "saves" \in SpeaksOf("volatile") /\ "restore" \in SpeaksOf("wedges")
  /\ "restore" \in SpeaksOf("halfread") /\ "prevchunk" \in SpeaksOf("oldstate")
  /\ Labels \cup {"renders", "load"} \subseteq SpeaksOf("sick")
  /\ Labels \cup {"renders", "load"} \subseteq SpeaksOf("stalls")
  /\ {"determinism", "midi again", "renders", "load"} \subseteq SpeaksOf("varies")
  /\ "silence out" \in SpeaksOf("noisy") /\ "sounds" \in SpeaksOf("mute")
  /\ {"load", "action"} \subseteq SpeaksOf("loaderror")
  /\ {"load", "action"} \subseteq SpeaksOf("hangs")
  /\ {"defer", "action"} \subseteq SpeaksOf("defererror")
  /\ "ui" \in SpeaksOf("nowindow") /\ "registers" \in SpeaksOf("noaction")
  /\ "lint" \in SpeaksOf("lint") /\ "header" \in SpeaksOf("header")
  /\ "validator" \in SpeaksOf("nonconform") /\ "load" \in SpeaksOf("noload")
  /\ "manifest" \in SpeaksOf("manifest") /\ "auval" \in SpeaksOf("invalid")
  /\ "budget" \in SpeaksOf("invalid2") /\ "structure" \in SpeaksOf("badzip")
  /\ "load" \in SpeaksOf("rejected") /\ "load" \in SpeaksOf("inactive")
  /\ "paint" \in SpeaksOf("unpainted") /\ "layout" \in SpeaksOf("rootfiles")
  /\ "index" \in SpeaksOf("index")
  /\ \A label \in Labels : label \in SpeaksOf(label)
BY DEF SpeaksOf, Labels, Audio, Again2

(* Outside of what macOS may pick for an Audio Unit, the subject is what   *)
(* the command was given, or the repository's package.                     *)
LEMMA SubjectIsGiven ==
  ASSUME SubjectInv
  PROVE  /\ subject.traits = TestedAs(package).traits
         /\ subject.kind # "au" \/ tested \notin {"another", "stale"} =>
              subject = TestedAs(package)
BY CappedBounds DEF SubjectInv, ElseTested, TestedAs

(* What a subject may be blamed for: what speaks of a flaw of it, and what *)
(* is known to be a false alarm.                                           *)
LEMMA Blamed ==
  ASSUME SubjectInv, TestsOwnBuild, mishaps = {}
  PROVE  /\ \A flaw, name : Flawed(flaw) /\ name \in SpeaksOf(flaw) => Blames(package, name)
         /\ (\/ Has("deaf") \/ Has("initshows") \/ Has("initsaves")
             \/ subject.kind = "jsfx" /\ Flawed("volatile"))
            => Blames(package, "reset")
         /\ \A name \in {"saves", "restore"} :
              (\/ Has("initshows") \/ Has("initsaves")
               \/ subject.kind = "jsfx" /\ Flawed("volatile") /\ Flawed("leaks"))
              => Blames(package, name)
         /\ Has("silent") => Blames(package, "determinism")
         /\ packages = <<>> => Blames(package, "discovery")
<1>1. subject.traits = TestedAs(package).traits
  BY SubjectIsGiven
<1>2. subject.kind = "jsfx" => subject.flaws = TestedAs(package).flaws
  BY SubjectIsGiven
<1>3. subject.flaws \subseteq TestedAs(package).flaws \cup OfAnother
  <2>1. tested # "stale"
    BY DEF TestsOwnBuild
  <2>2. CASE tested = "another"
    BY <2>2 DEF OfAnother
  <2>3. QED
    BY <2>1, <2>2, SubjectIsGiven
<1>4. ASSUME NEW flaw, NEW name, Flawed(flaw), name \in SpeaksOf(flaw)
      PROVE  Blames(package, name)
  BY <1>3, <1>4 DEF Flawed, Blames
<1>5. QED
  BY <1>1, <1>2, <1>4 DEF Flawed, Has, Blames, FalseAlarm

(* A result that is justified: a failure by a defect, a reset that passed  *)
(* by what was seen.                                                       *)
Fair(name, status) ==
  mishaps = {} /\ mishaps' = {} =>
    /\ status = "failed" => Blames(package, name)
    /\ name = "reset" /\ status = "passed" =>
         /\ "leaks" \in TestedAs(package).flaws => "nochannel" \in TestedAs(package).traits
         /\ "deaf" \in TestedAs(package).traits => "volatile" \in TestedAs(package).flaws

FairStep ==
  \A r \in results' : r \in results \/ (r[1] = package /\ Fair(r[2], r[3]))

LEMMA FairSet ==
  ASSUME NEW rs, AddAll(rs), \A r \in rs : Fair(r[1], r[2])
  PROVE  FairStep
BY DEF AddAll, FairStep

LEMMA FairOne == ASSUME NEW name, NEW s, Add(name, s), Fair(name, s) PROVE FairStep
BY FairSet DEF Add

LEMMA FairNone == ASSUME UNCHANGED results PROVE FairStep
BY DEF FairStep

LEMMA FairWords ==
  /\ \A name : Fair(name, "skipped")
  /\ \A name : name # "reset" => Fair(name, "passed")
  /\ \A name, s : name # "reset" /\ (s = "failed" => Blames(package, name)) => Fair(name, s)
  /\ \A m, name, s : Mishap(m) => Fair(name, s)
BY DEF Fair, Mishap

LEMMA FairMore ==
  ASSUME NEW a, NEW b, NEW s, NEW t, NEW rest, Fair(a, s), Fair(b, t),
         \A r \in rest : Fair(r[1], r[2]), AddAll({<<a, s>>, <<b, t>>} \cup rest)
  PROVE  FairStep
<1>1. \A r \in {<<a, s>>, <<b, t>>} : (r[1] = a /\ r[2] = s) \/ (r[1] = b /\ r[2] = t)
  OBVIOUS
<1>2. \A r \in {<<a, s>>, <<b, t>>} \cup rest : Fair(r[1], r[2])
  BY <1>1
<1>3. QED
  BY <1>2, FairSet

LEMMA FairTwo ==
  ASSUME NEW a, NEW b, NEW s, NEW t, Fair(a, s), Fair(b, t), AddAll({<<a, s>>, <<b, t>>})
  PROVE  FairStep
<1>1. {<<a, s>>, <<b, t>>} = {<<a, s>>, <<b, t>>} \cup {}
  OBVIOUS
<1>2. AddAll({<<a, s>>, <<b, t>>} \cup {})
  BY <1>1
<1>3. QED
  BY <1>2, FairMore

LEMMA FairFlaws ==
  ASSUME SubjectInv, TestsOwnBuild
  PROVE
  /\ Flawed("missing") => Fair("static", "failed")
  /\ Flawed("compile") => Fair("compile", "failed")
  /\ Flawed("params") => Fair("params", "failed")
  /\ Flawed("leaks") => Fair("reset", "failed")
  /\ Flawed("leaks") => Fair("hygiene", "failed")
  /\ Flawed("volatile") => Fair("saves", "failed")
  /\ Flawed("wedges") => Fair("restore", "failed")
  /\ Flawed("halfread") => Fair("restore", "failed")
  /\ Flawed("oldstate") => Fair("prevchunk", "failed")
  /\ Flawed("noisy") => Fair("silence out", "failed")
  /\ Flawed("mute") => Fair("sounds", "failed")
  /\ Flawed("loaderror") => Fair("load", "failed")
  /\ Flawed("loaderror") => Fair("action", "failed")
  /\ Flawed("hangs") => Fair("action", "failed")
  /\ Flawed("defererror") => Fair("action", "failed")
  /\ Flawed("defererror") => Fair("defer", "failed")
  /\ Flawed("nowindow") => Fair("ui", "failed")
  /\ Flawed("noaction") => Fair("registers", "failed")
  /\ Flawed("lint") => Fair("lint", "failed")
  /\ Flawed("header") => Fair("header", "failed")
  /\ Flawed("nonconform") => Fair("validator", "failed")
  /\ Flawed("noload") => Fair("load", "failed")
  /\ Flawed("manifest") => Fair("manifest", "failed")
  /\ Flawed("invalid") => Fair("auval", "failed")
  /\ Flawed("badzip") => Fair("structure", "failed")
  /\ Flawed("rejected") => Fair("load", "failed")
  /\ Flawed("inactive") => Fair("load", "failed")
  /\ Flawed("unpainted") => Fair("paint", "failed")
  /\ Flawed("rootfiles") => Fair("layout", "failed")
  /\ Flawed("index") => Fair("index", "failed")
  /\ \A label \in Labels : Flawed("sick") \/ Flawed("stalls") \/ Flawed(label)
                          => Fair(label, "failed")
  /\ \A label \in {"determinism", "midi again"} : Flawed("varies") => Fair(label, "failed")
  /\ Has("silent") => Fair("determinism", "failed")
  /\ packages = <<>> => Fair("discovery", "failed")
  /\ (\/ Has("deaf") \/ Has("initshows") \/ Has("initsaves")
      \/ subject.kind = "jsfx" /\ Flawed("volatile"))
     => Fair("reset", "failed")
  /\ \A name \in {"saves", "restore"} :
       (\/ Has("initshows") \/ Has("initsaves")
        \/ subject.kind = "jsfx" /\ Flawed("volatile") /\ Flawed("leaks"))
       => Fair(name, "failed")
<1>1. CASE mishaps # {}
  BY <1>1 DEF Fair
<1>2. CASE mishaps = {}
  <2>1. \A flaw, name : Flawed(flaw) /\ name \in SpeaksOf(flaw) => Fair(name, "failed")
    BY <1>2, Blamed DEF Fair
  <2>2. \A name : Blames(package, name) => Fair(name, "failed")
    BY DEF Fair
  <2>3. QED
    BY <1>2, <2>1, <2>2, Speaks, Blamed
<1>3. QED
  BY <1>1, <1>2

LEMMA JsfxFair ==
  ASSUME TypeInv, SubjectInv, TestsOwnBuild, EngineInv, KnownInv, JsfxStep,
         ~JsfxRendering, [Next]_vars
  PROVE  FairStep
<1>1. \A name : Fair(name, "skipped") /\ (name # "reset" => Fair(name, "passed"))
  BY FairWords
<1>2. subject.kind = "jsfx" /\ mishaps \subseteq mishaps'
  BY MishapsStay DEF JsfxStep
<1>3. CASE StaticParse
  BY <1>1, <1>3, FairFlaws, FairWords, FairOne DEF StaticParse
<1>4. CASE Compile
  <2>1. ASSUME Add("compile", "failed"), Flawed("compile") \/ Mishap("window") PROVE FairStep
    <3>1. Flawed("compile") => Fair("compile", "failed")
      BY FairFlaws
    <3>2. Mishap("window") => Fair("compile", "failed")
      BY FairWords
    <3>3. QED
      BY <2>1, <3>1, <3>2, FairOne
  <2>2. ASSUME NEW s \in {"passed", "skipped"}, Flawed("params"),
               AddAll({<<"compile", s>>, <<"params", "failed">>})
        PROVE  FairStep
    <3>1. Fair("params", "failed") /\ Fair("compile", s)
      BY <1>1, <2>2, FairFlaws
    <3>2. QED
      BY <2>2, <3>1, FairTwo
  <2>3. ASSUME NEW s \in {"passed", "skipped"}, NEW rest \in {{}, {<<"reset", "skipped">>}},
               AddAll({<<"compile", s>>, <<"params", "passed">>} \cup rest)
        PROVE  FairStep
    <3>1. Fair("params", "passed") /\ Fair("compile", s)
      BY <1>1
    <3>2. \A r \in {<<"reset", "skipped">>} : Fair(r[1], r[2])
      BY <1>1
    <3>3. \A r \in rest : Fair(r[1], r[2])
      BY <3>2
    <3>4. QED
      BY <2>3, <3>1, <3>3, FairMore
  <2>4. QED
    BY <1>4, <2>1, <2>2, <2>3 DEF Compile
<1>5. CASE ReadVirgin \/ Tweak \/ JsfxRaises
  BY <1>5, FairNone DEF ReadVirgin, Tweak, JsfxRaises, EvalRaises, NoSession
<1>6. JsfxTypeOK /\ fx \in [init : BOOLEAN, tweak : BOOLEAN, leak : BOOLEAN]
      /\ earlier \in ChunkType
  BY DEF TypeInv, TypeOK, JsfxTypeOK, ChunkType
<1>7. mishaps' = {} => mishaps = {}
  BY <1>2
<1>8. CASE CheckTweak
  <2>1. CASE earlier \in Chunks /\ Add("reset", "failed")
    <3>1. fx.tweak /\ ~earlier.tweak
      BY <1>2, <1>8 DEF CheckTweak, KnownInv, ResetInv
    <3>2. Has("deaf")
      BY <1>6, <2>1, <3>1, ChunkParts
    <3>3. QED
      BY <2>1, <3>2, FairFlaws, FairOne
  <2>2. QED
    BY <1>8, <2>1, FairNone DEF CheckTweak
<1>9. CASE Readd
  BY <1>9, FairWords, FairOne, FairNone DEF Readd
<1>10. CASE PollChunk
  <2>1. /\ step = "poll" /\ ~fx.tweak /\ ~earlier.tweak /\ ~earlier.leak
        /\ earlier.init => Has("initshows")
        /\ earlier.saved => Has("initsaves")
        /\ earlier.count => Flawed("volatile")
        /\ fx.leak => Flawed("leaks")
        /\ fx.init /\ Flawed("leaks") => fx.leak
    BY <1>2, <1>10 DEF PollChunk, KnownInv, ResetInv
  <2>2. CASE Chunks # {earlier} /\ Add("reset", "failed")
    <3>1. ASSUME ~Has("initshows"), ~Has("initsaves"), ~Flawed("volatile"), ~Flawed("leaks")
          PROVE  FALSE
      <4>1. ~fx.leak
        BY <2>1, <3>1
      <4>2. ~earlier.init /\ ~earlier.saved /\ ~earlier.count
        BY <2>1, <3>1
      <4>3. Chunks = {earlier}
        BY <1>6, <2>1, <3>1, <4>1, <4>2, OneChunk
      <4>4. QED
        BY <2>2, <4>3
    <3>2. Fair("reset", "failed")
      BY <1>2, <3>1, FairFlaws
    <3>3. QED
      BY <2>2, <3>2, FairOne
  <2>3. CASE earlier \in Chunks /\ Settled /\ Add("reset", "passed")
    <3>1. earlier.leak <=> fx.leak /\ ~Has("nochannel")
      BY <1>6, <2>3, ChunkParts
    <3>2. ASSUME mishaps = {}, mishaps' = {}
          PROVE  /\ Flawed("leaks") => Has("nochannel")
                 /\ Has("deaf") => Flawed("volatile")
      <4>1. fx.init
        BY <2>3, <3>2 DEF Settled, Mishap
      <4>2. Flawed("leaks") => Has("nochannel")
        BY <2>1, <3>1, <4>1
      <4>3. Has("deaf") => Flawed("volatile") \/ (Flawed("leaks") /\ ~Has("nochannel"))
        BY <1>2, <2>1, <3>2 DEF KnownInv, ResetInv
      <4>4. QED
        BY <4>2, <4>3
    <3>3. subject = TestedAs(package)
      BY <1>2, SubjectIsGiven
    <3>4. Fair("reset", "passed")
      BY <3>2, <3>3 DEF Fair, Flawed, Has
    <3>5. QED
      BY <2>3, <3>4, FairOne
  <2>4. QED
    BY <1>10, <2>2, <2>3 DEF PollChunk
<1>11. CASE SaveOnce \/ ReadDefaults
  BY <1>1, <1>11, FairOne, FairNone DEF SaveOnce, ReadDefaults
<1>12. CASE SaveAgain
  <2>1. PICK chunk \in Chunks :
          \/ Payload(chunk) # Payload(earlier) /\ Add("saves", "failed")
          \/ AddAll({<<"saves", "passed">>} \cup
                     (IF Has("oddblock") THEN {<<"restore", "skipped">>} ELSE {}))
    BY <1>12 DEF SaveAgain
  <2>2. CASE Payload(chunk) # Payload(earlier) /\ Add("saves", "failed")
    <3>1. ASSUME mishaps = {}, ~Flawed("volatile"), ~Has("initshows"), ~Has("initsaves")
          PROVE  FALSE
      <4>1. Steady /\ step = "save again"
        BY <1>12, <3>1 DEF Steady, SaveAgain
      <4>2. ~earlier.saved /\ ~earlier.count /\ (earlier.leak <=> fx.leak /\ ~Has("nochannel"))
        BY <1>2, <3>1, <4>1 DEF KnownInv, SaveInv
      <4>3. ~chunk.saved /\ ~chunk.count /\ (chunk.leak <=> fx.leak /\ ~Has("nochannel"))
        BY <1>6, <3>1, ChunkParts
      <4>4. chunk \in ChunkType
        BY <1>6, ChunkParts
      <4>5. chunk.saved = earlier.saved /\ chunk.count = earlier.count /\ chunk.leak = earlier.leak
        BY <1>6, <4>2, <4>3, <4>4 DEF ChunkType
      <4>6. QED
        BY <2>2, <4>5 DEF Payload
    <3>2. Fair("saves", "failed")
      <4>1. CASE mishaps # {}
        BY <4>1 DEF Fair
      <4>2. CASE mishaps = {}
        BY <3>1, <4>2, FairFlaws
      <4>3. QED
        BY <4>1, <4>2
    <3>3. QED
      BY <2>2, <3>2, FairOne
  <2>3. ASSUME NEW rest \in {{}, {<<"restore", "skipped">>}},
               AddAll({<<"saves", "passed">>} \cup rest)
        PROVE  FairStep
    <3>1. Fair("saves", "passed") /\ Fair("restore", "skipped")
      BY <1>1
    <3>2. \A r \in {<<"saves", "passed">>} \cup rest : Fair(r[1], r[2])
      <4>1. \A r \in {<<"restore", "skipped">>} : Fair(r[1], r[2])
        BY <3>1
      <4>2. \A r \in {<<"saves", "passed">>} : Fair(r[1], r[2])
        BY <3>1
      <4>3. QED
        BY <4>1, <4>2
    <3>3. QED
      BY <2>3, <3>2, FairSet
  <2>4. QED
    BY <2>1, <2>2, <2>3
<1>13. CASE Restore
  <2>1. PICK chunk \in Chunks :
          Add("restore", IF \/ Flawed("wedges") \/ Flawed("halfread")
                            \/ Line(chunk) # Line(earlier)
                         THEN "failed" ELSE "passed")
    BY <1>13 DEF Restore
  <2>2. CASE Line(chunk) # Line(earlier)
    <3>1. ASSUME Steady PROVE FALSE
      <4>1. step = "restored" /\ ~Has("initshows")
        BY <1>13, <3>1 DEF Steady, Restore
      <4>2. /\ ~earlier.init /\ ~earlier.tweak /\ ~fx.tweak
            /\ earlier.leak <=> fx.leak /\ ~Has("nochannel")
        BY <1>2, <3>1, <4>1 DEF KnownInv, SaveInv
      <4>3. chunk \in ChunkType /\ ~chunk.init /\ ~chunk.tweak
            /\ (chunk.leak <=> fx.leak /\ ~Has("nochannel"))
        BY <1>6, <4>1, <4>2, ChunkParts
      <4>4. chunk.init = earlier.init /\ chunk.tweak = earlier.tweak /\ chunk.leak = earlier.leak
        BY <1>6, <4>2, <4>3 DEF ChunkType
      <4>5. QED
        BY <2>2, <4>4 DEF Line
    <3>2. Fair("restore", "failed")
      <4>1. CASE mishaps # {}
        BY <4>1 DEF Fair
      <4>2. CASE mishaps = {}
        BY <1>2, <3>1, <4>2, FairFlaws DEF Steady
      <4>3. QED
        BY <4>1, <4>2
    <3>3. Add("restore", "failed")
      BY <2>1, <2>2
    <3>4. QED
      BY <3>2, <3>3, FairOne
  <2>3. CASE Flawed("wedges") \/ Flawed("halfread")
    <3>1. Add("restore", "failed")
      BY <2>1, <2>3
    <3>2. Fair("restore", "failed")
      BY <2>3, FairFlaws
    <3>3. QED
      BY <3>1, <3>2, FairOne
  <2>4. CASE Add("restore", "passed")
    BY <1>1, <2>4, FairOne
  <2>5. QED
    BY <2>1, <2>2, <2>3, <2>4
<1>14. CASE PrevChunk
  <2>1. CASE Flawed("oldstate") /\ Add("prevchunk", "failed")
    <3>1. Fair("prevchunk", "failed")
      BY <2>1, FairFlaws
    <3>2. QED
      BY <2>1, <3>1, FairOne
  <2>2. CASE Add("prevchunk", "passed") \/ Add("prevchunk", "skipped")
    BY <1>1, <2>2, FairOne
  <2>3. CASE UNCHANGED results
    BY <2>3, FairNone
  <2>4. QED
    BY <1>14, <2>1, <2>2, <2>3 DEF PrevChunk
<1>15. CASE LeaveSession
  BY <1>15, FairWords, FairOne, FairNone DEF LeaveSession
<1>16. QED
  BY <1>3, <1>4, <1>5, <1>8, <1>9, <1>10, <1>11, <1>12, <1>13, <1>14, <1>15 DEF JsfxStep

LEMMA KnownStep ==
  ASSUME TypeInv, SubjectInv, EngineInv, KnownInv, [Next]_vars
  PROVE  KnownInv'
BY ResetStep, SaveStep, ScriptInvStep, PaintStep, QualityStep DEF KnownInv

LEMMA KnownAtFirst == Init => KnownInv
<1> SUFFICES ASSUME Init PROVE KnownInv
  OBVIOUS
<1>1. render.at = "idle" /\ render.size = 0 /\ 0 < Full /\ step = "dispatch"
  BY RenderAssumption DEF Init, Idle
<1>2. ResetInv /\ SaveInv /\ PaintInv
  BY <1>1 DEF ResetInv, SaveInv, PaintInv
<1>3. ScriptInv
  BY <1>1 DEF Init, ScriptInv
<1>4. RenderKnown /\ KeptKnown
  BY <1>1 DEF RenderKnown, KeptKnown, Rendering
<1>5. QED
  BY <1>2, <1>3, <1>4 DEF KnownInv

-----------------------------------------------------------------------------
(* Verdicts on renders *)

(* A truncated render, and one that raised, are the subject's fault, or    *)
(* something has happened.                                                 *)
LEMMA CutShortFair ==
  ASSUME SubjectInv, TestsOwnBuild, RenderKnown, NEW label \in Labels, mishaps \subseteq mishaps',
         render.at \in {"cut", "raised"}
  PROVE  Fair(label, "failed")
<1>1. CASE Flawed("stalls")
  BY <1>1, FairFlaws
<1>2. CASE mishaps # {}
  BY <1>2 DEF Fair
<1>3. QED
  BY <1>1, <1>2 DEF RenderKnown

LEMMA PathologyFair ==
  ASSUME SubjectInv, TestsOwnBuild, Label \in Labels, NEW quality, NEW r \in Pathology(quality)
  PROVE  Fair(r[1], r[2])
<1>1. CASE r = <<Label, "passed">>
  <2>1. Label # "reset"
    BY DEF Labels
  <2>2. QED
    BY <1>1, <2>1, FairWords
<1>2. CASE r = <<Label, "failed">> /\ (Flawed("sick") \/ Flawed(Label))
  BY <1>2, FairFlaws
<1>3. QED
  BY <1>1, <1>2 DEF Pathology

LEMMA DeterminismFair ==
  ASSUME TypeInv, SubjectInv, TestsOwnBuild, RenderKnown, KeptKnown, mishaps \subseteq mishaps',
         step = "renders", render.at \in {"full", "cut"}, Label = "determinism",
         NEW s \in Determinism(kept["sine_1k"], render.at)
  PROVE  Fair("determinism", s)
<1>1. "determinism" \in Labels
  BY DEF Labels
<1>2. kept["sine_1k"] \in {"full", "cut"}
  BY DEF TypeInv, TypeOK, RenderTypeOK, KeptKnown, Rendering
<1>3. CASE Flawed("varies") \/ Flawed("sick") \/ Has("silent")
  <2>1. Fair("determinism", "failed") /\ Fair("determinism", "passed")
    BY <1>1, <1>3, FairFlaws, FairWords
  <2>2. s \in {"passed", "failed"}
    BY DEF Determinism
  <2>3. QED
    BY <2>1, <2>2
<1>4. CASE kept["sine_1k"] = "cut"
  <2>1. Flawed("stalls") \/ mishaps' # {}
    BY <1>4 DEF KeptKnown
  <2>2. Fair("determinism", "failed") /\ Fair("determinism", "passed")
    <3>1. CASE Flawed("stalls")
      BY <1>1, <3>1, FairFlaws, FairWords
    <3>2. QED
      BY <2>1, <3>1 DEF Fair
  <2>3. s \in {"passed", "failed"}
    BY DEF Determinism
  <2>4. QED
    BY <2>2, <2>3
<1>5. CASE render.at = "cut"
  <2>1. Fair("determinism", "failed") /\ Fair("determinism", "passed")
    BY <1>1, <1>5, CutShortFair, FairWords
  <2>2. s \in {"passed", "failed"}
    BY DEF Determinism
  <2>3. QED
    BY <2>1, <2>2
<1>6. CASE kept["sine_1k"] = "full" /\ render.at = "full"
           /\ ~Flawed("varies") /\ ~Flawed("sick") /\ ~Has("silent")
  <2>1. s = "passed"
    BY <1>6 DEF Determinism
  <2>2. QED
    BY <2>1, FairWords
<1>7. QED
  BY <1>2, <1>3, <1>4, <1>5, <1>6

(* What the batteries make of a render that has ended. *)
LEMMA VerdictsFair ==
  ASSUME TypeInv, SubjectInv, TestsOwnBuild, RenderKnown, KeptKnown, mishaps \subseteq mishaps',
         step = "renders", render.at \in {"full", "cut"}
  PROVE  /\ \A rs \in JsfxVerdicts(render.at) : \A r \in rs : Fair(r[1], r[2])
         /\ \A rs \in PluginVerdicts(render.at) : \A r \in rs : Fair(r[1], r[2])
         /\ \A rs \in UnitVerdicts(render.at) : \A r \in rs : Fair(r[1], r[2])
<1>1. Label \in Labels
  BY RestOfPlan DEF TypeInv, Rendering
<1>2. Fair(SilenceOut[1], SilenceOut[2])
  <2>1. Flawed("noisy") => Fair("silence out", "failed")
    BY FairFlaws
  <2>2. Fair("silence out", "passed")
    BY FairWords
  <2>3. QED
    BY <2>1, <2>2 DEF SilenceOut
<1>3. Fair("sounds", Sounds)
  <2>1. Flawed("mute") => Fair("sounds", "failed")
    BY FairFlaws
  <2>2. Fair("sounds", "passed") /\ Fair("sounds", "skipped")
    BY FairWords
  <2>3. QED
    BY <2>1, <2>2 DEF Sounds
<1>4. \A r \in Pathology(render.at) : Fair(r[1], r[2])
  BY <1>1, PathologyFair
<1>5. Label = "determinism" =>
        \A s \in Determinism(kept["sine_1k"], render.at) : Fair(Label, s)
  BY DeterminismFair
<1>6. \A rs \in JsfxVerdicts(render.at) : \A r \in rs : Fair(r[1], r[2])
  <2> SUFFICES ASSUME NEW rs \in JsfxVerdicts(render.at), NEW r \in rs
               PROVE  Fair(r[1], r[2])
    OBVIOUS
  <2> DEFINE also == CASE Label = "silence" -> IF NoteDriven THEN {} ELSE {SilenceOut}
                       [] Label = "midi" -> {<<"sounds", Sounds>>}
                       [] OTHER -> {}
  <2>1. \A q \in also : Fair(q[1], q[2])
    BY <1>2, <1>3
  <2>2. Label = "midi again" =>
          Fair(Label, IF render.at # "full" \/ Flawed("varies") THEN "failed" ELSE "passed")
    <3>1. render.at = "cut" => Fair(Label, "failed")
      BY <1>1, CutShortFair
    <3>2. Label = "midi again" /\ Flawed("varies") => Fair(Label, "failed")
      BY FairFlaws
    <3>3. Label = "midi again" => Fair(Label, "passed")
      BY FairWords
    <3>4. QED
      BY <3>1, <3>2, <3>3
  <2>3. render.at = "cut" => Fair(Label, "failed")
    BY <1>1, CutShortFair
  <2> HIDE DEF also
  <2>4. \/ Label = "determinism" /\ \E s \in Determinism(kept["sine_1k"], render.at) : rs = {<<Label, s>>}
        \/ Label = "midi again"
           /\ rs = {<<Label, IF render.at # "full" \/ Flawed("varies") THEN "failed" ELSE "passed">>}
        \/ render.at = "cut" /\ rs = {<<Label, "failed">>}
        \/ \E q \in Pathology(render.at) : rs = {q} \cup also
    BY DEF JsfxVerdicts, also, Truncated
  <2>5. CASE Label = "determinism"
             /\ \E t \in Determinism(kept["sine_1k"], render.at) : rs = {<<Label, t>>}
    BY <1>5, <2>5
  <2>6. ASSUME NEW t, rs = {<<Label, t>>}, Fair(Label, t) PROVE Fair(r[1], r[2])
    BY <2>6
  <2>7. ASSUME NEW q \in Pathology(render.at), rs = {q} \cup also PROVE Fair(r[1], r[2])
    BY <1>4, <2>1, <2>7
  <2>8. QED
    BY <2>2, <2>3, <2>4, <2>5, <2>6, <2>7
<1>7. \A rs \in PluginVerdicts(render.at) : \A r \in rs : Fair(r[1], r[2])
  BY <1>2, <1>4, <1>5 DEF PluginVerdicts
<1>8. \A rs \in UnitVerdicts(render.at) : \A r \in rs : Fair(r[1], r[2])
  BY <1>4, <1>5 DEF UnitVerdicts
<1>9. QED
  BY <1>6, <1>7, <1>8

LEMMA RendersFair ==
  ASSUME TypeInv, SubjectInv, TestsOwnBuild, EngineInv, KnownInv, [Next]_vars,
         \/ JsfxRendering \/ AskRender \/ PassOver \/ AllRendered \/ UnitsRendered
         \/ TakeRender(PluginVerdicts) \/ TakeRender(UnitVerdicts)
  PROVE  FairStep
<1>1. mishaps \subseteq mishaps' /\ RenderKnown /\ KeptKnown
  BY MishapsStay DEF KnownInv
<1>2. CASE SkipDeterminism
  BY <1>2, FairWords, FairOne DEF SkipDeterminism
<1>3. CASE AskRender \/ PassOver \/ AllRendered \/ UnitsRendered
  BY <1>3, FairNone DEF AskRender, PassOver, AllRendered, UnitsRendered
<1>4. CASE TakeRender(JsfxVerdicts) \/ TakeRender(PluginVerdicts) \/ TakeRender(UnitVerdicts)
  <2>1. step = "renders" /\ render.at \in {"full", "cut", "raised"}
    BY <1>4 DEF TakeRender, RenderEnded
  <2>2. CASE render.at = "raised" /\ Add(Label, "failed")
    <3>1. Label \in Labels
      BY <2>2, RestOfPlan DEF TypeInv, Rendering
    <3>2. QED
      BY <1>1, <2>2, <3>1, CutShortFair, FairOne
  <2>3. CASE \E rs \in JsfxVerdicts(render.at) \cup PluginVerdicts(render.at)
                       \cup UnitVerdicts(render.at) :
               AddAll(rs) /\ render.at # "raised"
    BY <1>1, <2>1, <2>3, VerdictsFair, FairSet
  <2>4. QED
    BY <1>4, <2>1, <2>2, <2>3 DEF TakeRender
<1>5. QED
  BY <1>2, <1>3, <1>4 DEF JsfxRendering

-----------------------------------------------------------------------------
(* Failures of the other batteries *)

LEMMA ScriptFair ==
  ASSUME TypeInv, SubjectInv, TestsOwnBuild, EngineInv, KnownInv, ScriptStep, [Next]_vars
  PROVE  FairStep
<1>1. \A name : Fair(name, "skipped") /\ (name # "reset" => Fair(name, "passed"))
  BY FairWords
<1>2. subject.kind = "script" /\ ScriptInv /\ mishaps \subseteq mishaps'
  BY MishapsStay DEF ScriptStep, KnownInv
<1>3. CASE ScriptStatic
  <2>1. \A b \in BOOLEAN : \A r \in Metadata(b) : Fair(r[1], r[2])
    <3>1. Fair("lint", Verdict(Flawed("lint"))) /\ Fair("header", Verdict(Flawed("header")))
      BY <1>1, FairFlaws DEF Verdict
    <3>2. QED
      BY <1>1, <3>1 DEF Metadata
  <2>2. CASE \E b \in BOOLEAN : AddAll(Metadata(b))
    BY <2>1, <2>2, FairSet
  <2>3. CASE AddAll(Metadata(TRUE) \cup {<<"load", "skipped">>})
    <3>1. \A r \in Metadata(TRUE) : Fair(r[1], r[2])
      BY <2>1
    <3>2. \A r \in {<<"load", "skipped">>} : Fair(r[1], r[2])
      BY <1>1
    <3>3. \A r \in Metadata(TRUE) \cup {<<"load", "skipped">>} : Fair(r[1], r[2])
      BY <3>1, <3>2
    <3>4. QED
      BY <2>3, <3>3, FairSet
  <2>4. CASE Add("battery", "skipped") \/ UNCHANGED results
    BY <1>1, <2>4, FairOne, FairNone
  <2>5. QED
    BY <1>3, <2>2, <2>3, <2>4 DEF ScriptStatic
<1>4. CASE Load
  <2>1. CASE Flawed("loaderror") /\ Add("load", "failed")
    BY <2>1, FairFlaws, FairOne
  <2>2. CASE Add("load", "passed") \/ UNCHANGED results
    BY <1>1, <2>2, FairOne, FairNone
  <2>3. QED
    BY <1>4, <2>1, <2>2 DEF Load
<1>5. CASE Supervise
  <2>1. Flawed("defererror") /\ Add("defer", "failed")
    BY <1>2, <1>5 DEF Supervise, Dead, ScriptInv
  <2>2. QED
    BY <2>1, FairFlaws, FairOne
<1>6. CASE WindowEnds
  BY <1>1, <1>6, FairOne DEF WindowEnds
<1>7. CASE Snapshot
  <2>1. CASE AddAll(Hygiene)
    <3>1. Fair("hygiene", Verdict(Flawed("leaks") /\ effects = "done"))
      BY <1>1, FairFlaws DEF Verdict
    <3>2. Fair("ui", Verdict(Flawed("nowindow") \/ effects = "pending"))
      <4>1. Fair("ui", "passed") /\ (Flawed("nowindow") => Fair("ui", "failed"))
        BY <1>1, FairFlaws
      <4>2. effects = "pending" => Fair("ui", "failed")
        BY <1>2, <1>7 DEF Snapshot, ScriptInv, Fair
      <4>3. QED
        BY <4>1, <4>2 DEF Verdict
    <3>3. \A r \in Hygiene : Fair(r[1], r[2])
      BY <3>1, <3>2 DEF Hygiene
    <3>4. QED
      BY <2>1, <3>3, FairSet
  <2>2. QED
    BY <1>7, <2>1, FairNone DEF Snapshot
<1>8. CASE Register
  <2>1. CASE Flawed("noaction") /\ Add("registers", "failed")
    BY <2>1, FairFlaws, FairOne
  <2>2. QED
    BY <1>1, <1>8, <2>1, FairOne DEF Register
<1>9. CASE Watch
  <2>1. CASE panel = "sighted" /\ Add("action", "failed")
    <3>1. Flawed("loaderror") \/ Flawed("defererror")
      BY <1>2, <1>9, <2>1 DEF Watch, ScriptInv
    <3>2. QED
      BY <2>1, <3>1, FairFlaws, FairOne
  <2>2. QED
    BY <1>9, <2>1, FairNone DEF Watch, FinishAction
<1>10. CASE PingAction
  <2>1. Add("action", Ping) /\ (engine = "hung" => Flawed("hangs") \/ Flawed("defererror"))
    BY <1>2, <1>10 DEF PingAction, FinishAction, ScriptInv
  <2>2. Fair("action", Ping)
    BY <1>1, <2>1, FairFlaws DEF Ping, Verdict
  <2>3. QED
    BY <2>1, <2>2, FairOne
<1>11. CASE ScriptRaises
  BY <1>11, FairNone DEF ScriptRaises, EvalRaises, NoSession
<1>12. QED
  BY <1>3, <1>4, <1>5, <1>6, <1>7, <1>8, <1>9, <1>10, <1>11 DEF ScriptStep

LEMMA PluginFair ==
  ASSUME TypeInv, SubjectInv, TestsOwnBuild, EngineInv, KnownInv, PluginStep, [Next]_vars
  PROVE  FairStep
<1>1. CASE Validator
  <2>1. CASE Mishap("tool breaks") /\ Add("validator", "failed")
    <3>1. Fair("validator", "failed")
      BY <2>1, FairWords
    <3>2. QED
      BY <2>1, <3>1, FairOne
  <2>2. CASE Add("validator", IF Flawed("nonconform") THEN "failed" ELSE "passed")
    <3>1. Fair("validator", IF Flawed("nonconform") THEN "failed" ELSE "passed")
      BY FairFlaws, FairWords
    <3>2. QED
      BY <2>2, <3>1, FairOne
  <2>3. CASE Add("validator", "skipped") \/ UNCHANGED results
    BY <2>3, FairWords, FairOne, FairNone
  <2>4. QED
    BY <1>1, <2>1, <2>2, <2>3 DEF Validator
<1>2. CASE Discover
  <2>1. CASE Flawed("noload") /\ Add("load", "failed")
    BY <2>1, FairFlaws, FairOne
  <2>2. CASE Add("load", "passed") \/ UNCHANGED results
    BY <2>2, FairWords, FairOne, FairNone
  <2>3. QED
    BY <1>2, <2>1, <2>2 DEF Discover, Loaded
<1>3. QED
  BY <1>1, <1>2, RendersFair DEF PluginStep

LEMMA UnitFair ==
  ASSUME TypeInv, SubjectInv, TestsOwnBuild, EngineInv, KnownInv, UnitStep, [Next]_vars
  PROVE  FairStep
<1>1. \A name : Fair(name, "skipped") /\ (name # "reset" => Fair(name, "passed"))
  BY FairWords
<1>2. CASE Manifest
  <2>1. CASE Flawed("manifest") /\ Add("manifest", "failed")
    BY <2>1, FairFlaws, FairOne
  <2>2. QED
    BY <1>1, <1>2, <2>1, FairOne DEF Manifest
<1>3. CASE Install
  <2>1. CASE Mishap("copy") /\ Add("install", "failed")
    <3>1. Fair("install", "failed")
      BY <2>1, FairWords
    <3>2. QED
      BY <2>1, <3>1, FairOne
  <2>2. CASE Add("install", "passed") \/ UNCHANGED results
    BY <1>1, <2>2, FairOne, FairNone
  <2>3. QED
    BY <1>3, <2>1, <2>2 DEF Install
<1>4. CASE Validate
  <2> DEFINE skip == IF Has("noninsertable") THEN {<<"load", "skipped">>} ELSE {}
             runs == {Auval(n) : n \in Validated}
  <2>1. \A r \in CapSkip \cup skip : Fair(r[1], r[2])
    BY <1>1 DEF CapSkip
  <2>2. ASSUME NEW n \in Validated PROVE Fair(Auval(n)[1], Auval(n)[2])
    <3>1. ~(n > MaxComponents)
      BY ComponentAssumption DEF Validated
    <3>2. Auval(n)[1] = "auval" /\ (Auval(n)[2] = "passed" \/ (Auval(n)[2] = "failed" /\ Flawed("invalid")))
      BY <3>1 DEF Auval
    <3>3. Flawed("invalid") => Fair("auval", "failed")
      BY FairFlaws
    <3>4. QED
      BY <1>1, <3>2, <3>3
  <2>3. AddAll(CapSkip \cup runs \cup skip)
    BY <1>4 DEF Validate
  <2>4. \A r \in runs : Fair(r[1], r[2])
    BY <2>2
  <2> HIDE DEF skip, runs
  <2>5. \A r \in CapSkip \cup runs \cup skip : Fair(r[1], r[2])
    BY <2>1, <2>4
  <2>6. QED
    BY <2>3, <2>5, FairSet
<1>5. CASE LoadUnit
  <2>1. CASE Flawed("noload") /\ Add("load", "failed")
    BY <2>1, FairFlaws, FairOne
  <2>2. ASSUME NEW rest \in {{}, {<<"renders", "skipped">>}},
               AddAll({<<"load", "passed">>} \cup rest)
        PROVE  FairStep
    <3>1. Fair("load", "passed") /\ Fair("renders", "skipped")
      BY <1>1
    <3>2. \A r \in {<<"load", "passed">>} : Fair(r[1], r[2])
      BY <3>1
    <3>3. \A r \in {<<"renders", "skipped">>} : Fair(r[1], r[2])
      BY <3>1
    <3>4. \A r \in {<<"load", "passed">>} \cup rest : Fair(r[1], r[2])
      BY <3>2, <3>3
    <3>5. QED
      BY <2>2, <3>4, FairSet
  <2>3. CASE Add("load", "passed") \/ UNCHANGED results
    BY <1>1, <2>3, FairOne, FairNone
  <2>4. \/ Flawed("noload") /\ Add("load", "failed")
        \/ \E rest \in {{}, {<<"renders", "skipped">>}} :
             AddAll({<<"load", "passed">>} \cup rest)
        \/ Add("load", "passed") \/ UNCHANGED results
    BY <1>5 DEF LoadUnit
  <2>5. QED
    BY <2>1, <2>2, <2>3, <2>4
<1>6. CASE Remove
  BY <1>6, FairNone DEF Remove
<1>7. QED
  BY <1>2, <1>3, <1>4, <1>5, <1>6, RendersFair DEF UnitStep

LEMMA ThemeFair ==
  ASSUME TypeInv, SubjectInv, TestsOwnBuild, EngineInv, KnownInv, ThemeStep, [Next]_vars
  PROVE  FairStep
<1>1. \A name : Fair(name, "skipped") /\ (name # "reset" => Fair(name, "passed"))
  BY FairWords
<1>2. CASE Lint
  <2>1. CASE Flawed("badzip") /\ Add("structure", "failed")
    BY <2>1, FairFlaws, FairOne
  <2>2. QED
    BY <1>1, <1>2, <2>1, FairOne, FairNone DEF Lint
<1>3. CASE OpenTheme
  <2>1. CASE (Flawed("rejected") \/ Flawed("inactive")) /\ Add("load", "failed")
    BY <2>1, FairFlaws, FairOne
  <2>2. QED
    BY <1>1, <1>3, <2>1, FairOne DEF OpenTheme, Readback
<1>4. CASE Paint
  <2>1. ~Flawed("inactive")
    BY <1>4 DEF Paint, KnownInv, PaintInv, ThemeStep
  <2>2. Fair("paint", IF Visible THEN "passed" ELSE "failed") /\ Fair("layouts", "passed")
    BY <1>1, <2>1, FairFlaws DEF Visible
  <2>3. QED
    BY <1>4, <2>2, FairTwo DEF Paint
<1>5. CASE Capture \/ ThemeRaises
  BY <1>5, FairNone DEF Capture, ThemeRaises, EvalRaises, NoSession
<1>6. QED
  BY <1>2, <1>3, <1>4, <1>5 DEF ThemeStep

(* A package has failed because a result of it had. *)
LEMMA RepoFair ==
  ASSUME TypeInv, SubjectInv, TestsOwnBuild, FailureNamesDefect, RepoStep, [Next]_vars
  PROVE  FairStep
<1>1. \A name : Fair(name, "skipped") /\ (name # "reset" => Fair(name, "passed"))
  BY FairWords
<1>2. CASE CheckIndex
  <2>1. CASE Flawed("index") /\ Add("index", "failed")
    BY <2>1, FairFlaws, FairOne
  <2>2. QED
    BY <1>1, <1>2, <2>1, FairOne, FairNone DEF CheckIndex
<1>3. CASE DiscoverPackages
  <2> DEFINE layout == IF Flawed("rootfiles") THEN {<<"layout", "failed">>} ELSE {}
  <2>1. \A r \in layout : Fair(r[1], r[2])
    <3>1. Flawed("rootfiles") => Fair("layout", "failed")
      BY FairFlaws
    <3>2. QED
      BY <3>1
  <2>2. \A r \in PackageCap \cup {<<"discovery", "passed">>} : Fair(r[1], r[2])
    BY <1>1 DEF PackageCap
  <2>3. packages = <<>> => Fair("discovery", "failed")
    BY FairFlaws
  <2>4. IF packages = <<>> THEN AddAll(layout \cup {<<"discovery", "failed">>})
        ELSE AddAll(layout \cup {<<"discovery", "passed">>} \cup PackageCap)
    BY <1>3 DEF DiscoverPackages
  <2> HIDE DEF layout
  <2>5. CASE packages = <<>>
    <3>1. \A r \in layout \cup {<<"discovery", "failed">>} : Fair(r[1], r[2])
      BY <2>1, <2>3, <2>5
    <3>2. QED
      BY <2>4, <2>5, <3>1, FairSet
  <2>6. CASE packages # <<>>
    <3>1. \A r \in layout \cup {<<"discovery", "passed">>} \cup PackageCap : Fair(r[1], r[2])
      BY <2>1, <2>2
    <3>2. QED
      BY <2>4, <2>6, <3>1, FairSet
  <2>7. QED
    BY <2>5, <2>6
<1>4. CASE PackageTested
  <2>1. ASSUME Worst = "failed", mishaps = {} PROVE Blames(package, "package")
    <3>1. PICK r \in results : r[1] = package /\ r[3] = "failed"
      BY <2>1 DEF Worst
    <3>2. \/ FalseAlarm(TestedAs(package), r[2])
          \/ TestedAs(package).flaws \cup OfAnother # {}
          \/ r[2] = "package" /\ \E q \in results : q[1] = package /\ q[3] = "failed"
                                   /\ FalseAlarm(TestedAs(package), q[2])
      BY <2>1, <3>1 DEF FailureNamesDefect
    <3>3. QED
      BY <3>1, <3>2 DEF Blames
  <2>2. Fair("package", Worst)
    BY <1>1, <1>4, <2>1 DEF PackageTested, Fair, Worst
  <2>3. QED
    BY <1>4, <2>2, FairOne DEF PackageTested
<1>5. CASE NextPackage \/ RepoTested
  BY <1>5, FairNone DEF NextPackage, RepoTested
<1>6. QED
  BY <1>2, <1>3, <1>4, <1>5 DEF RepoStep

LEMMA EveryStepIsFair ==
  ASSUME TypeInv, SubjectInv, TestsOwnBuild, EngineInv, KnownInv, FailureNamesDefect, [Next]_vars
  PROVE  FairStep \/ (Again /\ results' = {})
<1>1. CASE JsfxStep
  BY <1>1, JsfxFair, RendersFair
<1>2. CASE ScriptStep
  BY <1>2, ScriptFair
<1>3. CASE ScriptRuns \/ InitRuns \/ KillCommand \/ RenderStep \/ RendererWrites
           \/ Dispatch \/ PrintVerdict
  <2>1. UNCHANGED results
    BY <1>3, RenderStepKeeps
       DEF ScriptRuns, Deferred, Sight, RunAction, InitRuns, KillCommand, Dispatch,
           PrintVerdict, RenderStep, Host, WriteInput, Build, OpenRenderer, Poll, Settle,
           Deadline, RendererWrites
  <2>2. QED
    BY <2>1, FairNone
<1>4. CASE Again
  BY <1>4 DEF Again
<1>5. CASE UNCHANGED vars
  BY <1>5, FairNone
<1>6. QED
  BY <1>1, <1>2, <1>3, <1>4, <1>5, PluginFair, UnitFair, ThemeFair, RepoFair, Actors

(* What is tested in the place of an Audio Unit remains so for the run.    *)
LEMMA TestedStays ==
  ASSUME SubjectInv, CopyInv, [Next]_vars, ~Again
  PROVE  /\ UNCHANGED <<given, packages>>
         /\ tested \in {"another", "stale"} => UNCHANGED <<tested, subject>>
<1>1. given.kind = "repo" => tested = "none"
  BY DEF CopyInv
<1>2. Install => tested = "none"
  BY DEF Install, CopyInv
<1>3. QED
  BY <1>1, <1>2, SubjectSteps

LEMMA VerdictStep ==
  ASSUME TypeInv, SubjectInv, CopyInv, TestsOwnBuild, EngineInv, KnownInv,
         FailureNamesDefect, ResetPassIsProof, [Next]_vars
  PROVE  FailureNamesDefect' /\ ResetPassIsProof'
<1>1. CASE Again
  BY <1>1 DEF Again, FailureNamesDefect, ResetPassIsProof
<1>2. CASE ~Again
  <2>1. /\ mishaps \subseteq mishaps' /\ UNCHANGED <<given, packages>>
        /\ OfAnother \subseteq OfAnother'
    BY <1>2, MishapsStay, TestedStays DEF OfAnother
  <2>2. FairStep /\ results \subseteq results'
    BY <1>2, EveryStepIsFair, ResultSteps DEF Adds
  <2>3. \A p : TestedAs(p)' = TestedAs(p)
    BY <2>1 DEF TestedAs
  <2>4. ASSUME NEW r \in results', r[3] = "failed", mishaps' = {}
        PROVE  Blames(r[1], r[2])
    <3>1. CASE r \in results
      BY <2>1, <2>4, <3>1 DEF FailureNamesDefect, Blames
    <3>2. CASE r[1] = package /\ Fair(r[2], r[3])
      BY <2>1, <2>4, <3>2 DEF Fair
    <3>3. QED
      BY <2>2, <2>4, <3>1, <3>2 DEF FairStep
  <2>5. FailureNamesDefect'
    BY <2>1, <2>2, <2>3, <2>4 DEF FailureNamesDefect, FalseAlarm, Blames
  <2>6. ASSUME NEW r \in results', r[2] = "reset", r[3] = "passed", mishaps' = {}
        PROVE  /\ "leaks" \in TestedAs(r[1]).flaws => "nochannel" \in TestedAs(r[1]).traits
               /\ "deaf" \in TestedAs(r[1]).traits => "volatile" \in TestedAs(r[1]).flaws
    <3>1. CASE r \in results
      BY <2>1, <2>6, <3>1 DEF ResetPassIsProof
    <3>2. CASE r[1] = package /\ Fair(r[2], r[3])
      BY <2>1, <2>6, <3>2 DEF Fair
    <3>3. QED
      BY <2>2, <2>6, <3>1, <3>2 DEF FairStep
  <2>7. ResetPassIsProof'
    BY <2>3, <2>6 DEF ResetPassIsProof
  <2>8. QED
    BY <2>5, <2>7
<1>3. QED
  BY <1>1, <1>2

-----------------------------------------------------------------------------
(* Defects are looked for *)

(* After the step the defect is still looked for, or answered. *)
Looked(flaw) == Due(flaw)' \/ Answered(package, flaw)' \/ Stopped' \/ NotRun

(* What is tested is what the command was given, or its package.           *)
Own == subject = TestedAs(package) /\ UNCHANGED <<Context, tested>>

LEMMA LookedAt ==
  ASSUME Own, NEW flaw
  PROVE  /\ Red' => Looked(flaw)
         /\ BlindSpot(package, subject, flaw) => Looked(flaw)
         /\ mishaps' \cap HiddenBy(subject, flaw) # {} => Looked(flaw)
         /\ Stopped' => Looked(flaw)
         /\ Due(flaw)' => Looked(flaw)
<1>1. TestedAs(package) = subject /\ TestedAs(package)' = subject
  BY DEF Own, TestedAs, Context
<1>2. BlindSpot(package, subject, flaw) => BlindSpot(package, TestedAs(package), flaw)'
  BY <1>1 DEF BlindSpot, Own, Context, Sweeps
<1>3. mishaps' \cap HiddenBy(subject, flaw) # {} =>
        (mishaps \cap HiddenBy(TestedAs(package), flaw) # {})'
  BY <1>1 DEF HiddenBy
<1>4. Answered(package, flaw)' <=>
        \/ Red' \/ NamedSkip(package, flaw)' \/ BlindSpot(package, TestedAs(package), flaw)'
        \/ (mishaps \cap HiddenBy(TestedAs(package), flaw) # {})'
  BY DEF Answered
<1>5. QED
  BY <1>2, <1>3, <1>4 DEF Looked

LEMMA LookedSkip ==
  ASSUME Own, NEW flaw, NEW name \in SpeaksOf(flaw),
         <<package, name, "skipped">> \in results'
  PROVE  Looked(flaw)
<1>1. NamedSkip(package, flaw)'
  BY DEF NamedSkip, Own, Context
<1>2. QED
  BY <1>1 DEF Looked, Answered

LEMMA Added ==
  ASSUME NEW rs, AddAll(rs), NEW name, NEW s, <<name, s>> \in rs
  PROVE  <<package, name, s>> \in results'
<1> DEFINE p == <<name, s>>
<1>1. p[1] = name /\ p[2] = s /\ p \in rs
  OBVIOUS
<1> HIDE DEF p
<1>2. <<package, p[1], p[2]>> \in results'
  BY <1>1 DEF AddAll
<1>3. QED
  BY <1>1, <1>2

LEMMA AddedRed ==
  ASSUME NEW rs, AddAll(rs), NEW name, <<name, "failed">> \in rs
  PROVE  Red'
<1>1. <<package, name, "failed">> \in results'
  BY Added
<1>2. QED
  BY <1>1 DEF Red

LEMMA AddedOne == ASSUME NEW name, NEW s, Add(name, s) PROVE <<package, name, s>> \in results'
<1>1. <<package, name, s>> \in results'
  BY DEF Add, AddAll
<1>2. QED
  BY <1>1

LEMMA AddedSecond ==
  ASSUME NEW x, NEW name, AddAll({x, <<name, "failed">>})
  PROVE  Red'
<1> DEFINE rs == {x, <<name, "failed">>}
<1>1. <<name, "failed">> \in rs /\ AddAll(rs)
  OBVIOUS
<1> HIDE DEF rs
<1>2. QED
  BY <1>1, AddedRed

LEMMA JsfxDefects ==
  ASSUME SubjectInv, subject.kind = "jsfx", NEW flaw \in subject.flaws
  PROVE  /\ flaw \in {"missing", "compile", "params", "leaks"} \cup StateDefects \cup AudioDefects
         /\ flaw \in StateDefects => Has("serialize")
         /\ flaw = "volatile" => ~Has("nopayload")
         /\ flaw \in AudioDefects => ~Has("noaudio")
         /\ flaw = "mute" => Has("midi")
         /\ flaw \in {"param1", "param2"} => Has("sliders")
<1>1. flaw \in Defects(subject)
  BY SubjectKinds
<1>2. QED
  BY <1>1 DEF Defects, Has, StateDefects, AudioDefects

(* A plan that has the renders which show a defect. *)
LEMMA PlanShows ==
  ASSUME NEW flaw \in AudioDefects, NEW label, label = Shows(flaw), step' = "renders",
         InPlan(todo', label)
  PROVE  Due(flaw)'
BY DEF Due, DueInRenders, InPlan

LEMMA JsfxLooks ==
  ASSUME TypeInv, SubjectInv, KnownInv, JsfxStep, ~JsfxRendering, Own,
         mishaps \subseteq mishaps', NEW flaw \in subject.flaws, Due(flaw)
  PROVE  Looked(flaw)
<1>1. subject.kind = "jsfx" /\ subject'.kind = "jsfx" /\ Flawed(flaw)
  BY DEF JsfxStep, Own, Context, Flawed
<1>2. DueInJsfx(flaw) /\ step # "renders"
  BY <1>1
     DEF Due, DueInRenders, JsfxStep, StaticParse, Compile, ReadVirgin, Tweak, CheckTweak,
         Readd, PollChunk, SaveOnce, SaveAgain, ReadDefaults, Restore, PrevChunk,
         LeaveSession, JsfxRaises, EvalRaises, NoSession
<1>3. DueInJsfx(flaw)' => Looked(flaw)
  BY <1>1, LookedAt DEF Due
<1>4a. JsfxTypeOK /\ fx \in [init : BOOLEAN, tweak : BOOLEAN, leak : BOOLEAN]
       /\ earlier \in ChunkType
  BY DEF TypeInv, TypeOK, JsfxTypeOK, ChunkType
<1>4. CASE StaticParse
  <2>1. CASE Add("static", "failed")
    BY <2>1, AddRed, LookedAt
  <2>2. CASE flaw # "missing" /\ step' = "compile"
    BY <1>3, <2>2 DEF DueInJsfx
  <2>3. QED
    BY <1>1, <1>4, <2>1, <2>2 DEF StaticParse, Go
<1>5. CASE Compile
  <2> DEFINE compiled == <<"compile", IF Has("nojs") THEN "skipped" ELSE "passed">>
             noreset == IF Has("sliders") THEN {} ELSE {<<"reset", "skipped">>}
  <2>1. CASE Add("compile", "failed")
    BY <2>1, AddRed, LookedAt
  <2>2. CASE AddAll({compiled, <<"params", "failed">>})
    <3> HIDE DEF compiled
    <3>1. Red'
      BY <2>2, AddedSecond
    <3>2. QED
      BY <3>1, LookedAt
  <2>3. CASE /\ ~Flawed("compile") \/ Has("nojs")
             /\ ~Flawed("params") /\ Go(ToReset)
             /\ AddAll({compiled, <<"params", "passed">>} \cup noreset)
    <3>1. flaw # "missing" /\ flaw # "params" /\ step = "compile"
      BY <1>1, <1>2, <1>5, <2>3 DEF DueInJsfx, Compile, ResetSteps, SaveSteps
    <3>2. CASE flaw = "compile"
      <4>1. Has("nojs")
        BY <1>1, <2>3, <3>2
      <4>2. <<package, "compile", "skipped">> \in results'
        <5>1. <<"compile", "skipped">> \in {compiled, <<"params", "passed">>} \cup noreset
          BY <4>1
        <5> HIDE DEF compiled, noreset
        <5>2. QED
          BY <2>3, <5>1, Added
      <4>3. QED
        BY <3>2, <4>2, LookedSkip, Speaks
    <3>3. CASE ~Has("sliders") /\ flaw = "leaks"
      <4>1. <<package, "reset", "skipped">> \in results'
        <5>1. <<"reset", "skipped">> \in {compiled, <<"params", "passed">>} \cup noreset
          BY <3>3
        <5> HIDE DEF compiled, noreset
        <5>2. QED
          BY <2>3, <5>1, Added
      <4>2. QED
        BY <3>3, <4>1, LookedSkip, Speaks
    <3>4. CASE ~Has("sliders") /\ flaw \in StateDefects
      <4>1. BlindSpot(package, subject, flaw)
        BY <3>4 DEF BlindSpot, StateDefects, Has
      <4>2. QED
        BY <4>1, LookedAt
    <3>5. CASE Has("sliders") /\ flaw \in {"leaks"} \cup StateDefects
      BY <1>3, <2>3, <3>5 DEF ToReset, Go, DueInJsfx, ResetSteps
    <3>6. CASE flaw \in AudioDefects
      BY <1>3, <2>3, <3>6 DEF ToReset, Go, DueInJsfx, ResetSteps
    <3>7. QED
      BY <1>1, <3>1, <3>2, <3>3, <3>4, <3>5, <3>6, JsfxDefects
  <2>4. QED
    BY <1>5, <2>1, <2>2, <2>3 DEF Compile
<1>6. CASE ReadVirgin \/ Tweak
  BY <1>2, <1>3, <1>6 DEF ReadVirgin, Tweak, Go, DueInJsfx, ResetSteps, SaveSteps
<1>7. CASE CheckTweak
  <2>1. CASE Add("reset", "failed")
    BY <2>1, AddRed, LookedAt
  <2>2. QED
    BY <1>2, <1>3, <1>7, <2>1 DEF CheckTweak, Go, DueInJsfx, ResetSteps, SaveSteps
<1>8. CASE Readd
  <2>1. CASE Add("reset", "failed")
    BY <2>1, AddRed, LookedAt
  <2>2. QED
    BY <1>2, <1>3, <1>8, <2>1 DEF Readd, Go, DueInJsfx, ResetSteps, SaveSteps
<1>9. CASE PollChunk
  <2>1. CASE Add("reset", "failed")
    BY <2>1, AddRed, LookedAt
  <2>2. CASE earlier \in Chunks /\ Settled
    <3>1. step = "poll" /\ step' = AfterReset
      BY <1>9 DEF PollChunk, Go
    <3>2. CASE flaw = "leaks"
      <4>1. ~earlier.leak /\ (fx.init => fx.leak)
        BY <1>1, <3>1, <3>2 DEF KnownInv, ResetInv
      <4>2. earlier.leak <=> fx.leak /\ ~Has("nochannel")
        BY <1>4a, <2>2, ChunkParts
      <4>3. CASE Has("nochannel")
        <5>1. BlindSpot(package, subject, flaw)
          BY <1>1, <3>2, <4>3 DEF BlindSpot, Has
        <5>2. QED
          BY <5>1, LookedAt
      <4>4. CASE ~fx.init
        <5>1. "slow" \in mishaps'
          BY <2>2, <4>4 DEF Settled, Mishap
        <5>2. "slow" \in HiddenBy(subject, flaw)
          BY <1>1, <3>2 DEF HiddenBy
        <5>3. QED
          BY <5>1, <5>2, LookedAt
      <4>5. QED
        BY <4>1, <4>2, <4>3, <4>4
    <3>3. CASE flaw \in StateDefects
      BY <1>1, <1>3, <3>1, <3>3, JsfxDefects DEF AfterReset, DueInJsfx
    <3>4. CASE flaw \in AudioDefects
      BY <1>3, <3>1, <3>4 DEF AfterReset, DueInJsfx, SaveSteps
    <3>5. QED
      BY <1>2, <3>1, <3>2, <3>3, <3>4 DEF DueInJsfx, ResetSteps, SaveSteps
  <2>3. QED
    BY <1>9, <2>1, <2>2 DEF PollChunk
<1>10. CASE SaveOnce
  <2>1. step = "serialize" /\ flaw \in StateDefects \cup AudioDefects
    BY <1>2, <1>10 DEF SaveOnce, DueInJsfx, ResetSteps, SaveSteps
  <2>2. CASE step' = "save again"
    BY <1>3, <2>1, <2>2 DEF DueInJsfx, SaveSteps
  <2>3. CASE Has("nopayload") /\ step' = "prevchunk"
    <3>1. CASE flaw \in {"wedges", "halfread"}
      <4>1. BlindSpot(package, subject, flaw)
        BY <2>3, <3>1 DEF BlindSpot, Has
      <4>2. QED
        BY <4>1, LookedAt
    <3>2. CASE flaw \in {"oldstate"} \cup AudioDefects
      BY <1>3, <2>3, <3>2 DEF DueInJsfx
    <3>3. QED
      BY <1>1, <2>1, <2>3, <3>1, <3>2, JsfxDefects DEF StateDefects
  <2>4. QED
    BY <1>10, <2>2, <2>3 DEF SaveOnce, Go
<1>10a. CASE SaveAgain
  <2>1. step = "save again" /\ flaw \in StateDefects \cup AudioDefects
    BY <1>2, <1>10a DEF SaveAgain, DueInJsfx, ResetSteps, SaveSteps
  <2> DEFINE odd == IF Has("oddblock") THEN {<<"restore", "skipped">>} ELSE {}
  <2>2. \/ Add("saves", "failed")
        \/ /\ Flawed("volatile") => "luck" \in mishaps'
           /\ AddAll({<<"saves", "passed">>} \cup odd)
           /\ step' = IF Has("oddblock") THEN "prevchunk" ELSE "restore"
    BY <1>10a DEF SaveAgain, Mishap, Go
  <2>3. CASE Add("saves", "failed")
    BY <2>3, AddRed, LookedAt
  <2>4. CASE flaw = "volatile" /\ "luck" \in mishaps'
    <3>1. "luck" \in HiddenBy(subject, flaw)
      BY <1>1, <2>4 DEF HiddenBy
    <3>2. QED
      BY <2>4, <3>1, LookedAt
  <2>5. CASE step' = "restore" /\ flaw # "volatile"
    BY <1>3, <2>1, <2>5 DEF DueInJsfx, SaveSteps
  <2>6. CASE /\ Has("oddblock") /\ AddAll({<<"saves", "passed">>} \cup odd)
             /\ step' = "prevchunk" /\ flaw # "volatile"
    <3>1. CASE flaw \in {"wedges", "halfread"}
      <4>1. <<"restore", "skipped">> \in {<<"saves", "passed">>} \cup odd
        BY <2>6
      <4> HIDE DEF odd
      <4>2. <<package, "restore", "skipped">> \in results'
        BY <2>6, <4>1, Added
      <4>3. QED
        BY <3>1, <4>2, LookedSkip, Speaks
    <3>2. CASE flaw \in {"oldstate"} \cup AudioDefects
      BY <1>3, <2>6, <3>2 DEF DueInJsfx
    <3>3. QED
      BY <2>1, <2>6, <3>1, <3>2 DEF StateDefects
  <2>7. QED
    BY <1>1, <2>2, <2>3, <2>4, <2>5, <2>6
<1>10b. CASE ReadDefaults
  BY <1>2, <1>3, <1>10b DEF ReadDefaults, Go, DueInJsfx, ResetSteps, SaveSteps
<1>10c. CASE Restore
  <2>1. step = "restored" /\ step' = "prevchunk"
        /\ flaw \in (StateDefects \ {"volatile"}) \cup AudioDefects
    BY <1>2, <1>10c DEF Restore, Go, DueInJsfx, ResetSteps, SaveSteps
  <2>2. CASE flaw \in {"wedges", "halfread"}
    <3>1. Add("restore", "failed")
      BY <1>1, <1>10c, <2>2 DEF Restore
    <3>2. QED
      BY <3>1, AddRed, LookedAt
  <2>3. CASE flaw \in {"oldstate"} \cup AudioDefects
    BY <1>3, <2>1, <2>3 DEF DueInJsfx
  <2>4. QED
    BY <2>1, <2>2, <2>3 DEF StateDefects
<1>11. CASE PrevChunk
  <2>1. CASE Stopped'
    BY <2>1, LookedAt
  <2>2. CASE flaw \in AudioDefects
    BY <1>3, <1>11, <2>1, <2>2 DEF PrevChunk, Go, Raise, Stopped, DueInJsfx
  <2>3. CASE flaw = "oldstate" /\ Add("prevchunk", "skipped")
    BY <2>3, AddedOne, LookedSkip, Speaks
  <2>4. CASE Add("prevchunk", "failed")
    BY <2>4, AddRed, LookedAt
  <2>5. QED
    BY <1>1, <1>2, <1>11, <2>1, <2>2, <2>3, <2>4
     DEF PrevChunk, Raise, Stopped, DueInJsfx, ResetSteps, SaveSteps, StateDefects
<1>12. CASE LeaveSession
  <2>1. flaw \in AudioDefects /\ ~Has("noaudio")
    BY <1>1, <1>2, <1>12, JsfxDefects DEF LeaveSession, DueInJsfx, ResetSteps, SaveSteps
  <2>2. CASE \/ package > 0 \/ Has("quick")
             \/ flaw \in {"param1", "param2"} /\ (Has("nosweep") \/ ~InPlan(Sweeps, flaw))
    <3>1. BlindSpot(package, subject, flaw)
      BY <1>1, <2>1, <2>2 DEF BlindSpot, InPlan, Has
    <3>2. QED
      BY <3>1, LookedAt
  <2>3. CASE /\ package = 0 /\ ~Has("quick")
             /\ flaw \in {"param1", "param2"} => ~Has("nosweep") /\ InPlan(Sweeps, flaw)
    <3>1. step' = "renders" /\ todo' = JsfxPlan
      BY <1>12, <2>1, <2>3 DEF LeaveSession, Go
    <3>2. InPlan(JsfxPlan, "silence") /\ InPlan(JsfxPlan, "sine_1k")
          /\ InPlan(JsfxPlan, "determinism") /\ (Has("midi") => InPlan(JsfxPlan, "midi"))
      BY <2>3, PlansHold DEF NoteDriven
    <3>3. Has("sliders") /\ ~Has("nosweep") /\ InPlan(Sweeps, flaw) => InPlan(JsfxPlan, flaw)
      BY <2>3, PlansHold
    <3>4. InPlan(JsfxPlan, Shows(flaw))
      BY <1>1, <2>1, <2>3, <3>2, <3>3, JsfxDefects DEF AudioDefects, Shows
    <3>5. QED
      BY <2>1, <3>1, <3>4, PlanShows, LookedAt
  <2>4. QED
    BY <2>2, <2>3, CappedBounds
<1>13. CASE JsfxRaises
  BY <1>13, LookedAt DEF JsfxRaises, EvalRaises, NoSession, Raise, Stopped
<1>14. QED
  BY <1>4, <1>5, <1>6, <1>7, <1>8, <1>9, <1>10, <1>10a, <1>10b, <1>10c, <1>11, <1>12, <1>13
     DEF JsfxStep

-----------------------------------------------------------------------------
(* Defects are looked for in the renders *)

(* A label that is not at the head of the plan is still in it afterwards.  *)
LEMMA RestIsDue ==
  ASSUME TypeInv, NEW flaw, DueInRenders(flaw), todo' = Tail(todo), UNCHANGED step
  PROVE  Label = Shows(flaw) \/ Due(flaw)'
<1>1. PICK i \in DOMAIN todo : todo[i] = Shows(flaw)
  BY DEF DueInRenders
<1>2. todo \in Seq(Labels)
  BY DEF TypeInv
<1>3. CASE i = 1
  BY <1>1, <1>3 DEF Label
<1>4. CASE i # 1
  <2>1. i - 1 \in DOMAIN Tail(todo) /\ Tail(todo)[i - 1] = Shows(flaw)
    BY <1>1, <1>2, <1>4
  <2>2. QED
    BY <2>1 DEF Due, DueInRenders
<1>5. QED
  BY <1>3, <1>4

(* What a truncated render hides of a plug-in or an Audio Unit. *)
LEMMA CutShortHides ==
  ASSUME SubjectInv, RenderKnown, Own, UNCHANGED mishaps, render.at = "cut",
         subject.kind \in {"plugin", "au"}, NEW flaw \in {"sick", "param1", "param2"}
  PROVE  Looked(flaw)
<1>1. CASE Flawed("stalls")
  <2>1. BlindSpot(package, subject, flaw)
    BY <1>1 DEF BlindSpot, Flawed
  <2>2. QED
    BY <2>1, LookedAt
<1>2. CASE "pause" \in mishaps
  <2>1. "pause" \in HiddenBy(subject, flaw) /\ "pause" \in mishaps'
    BY <1>2 DEF HiddenBy
  <2>2. QED
    BY <2>1, LookedAt
<1>3. QED
  BY <1>1, <1>2 DEF RenderKnown

LEMMA PathologyShows ==
  ASSUME NEW quality, Flawed("sick") \/ Flawed(Label), NEW r \in Pathology(quality),
         quality # "cut"
  PROVE  r = <<Label, "failed">>
BY DEF Pathology

LEMMA VariesShows ==
  ASSUME Flawed("varies"), NEW first, NEW second, NEW s \in Determinism(first, second)
  PROVE  s = "failed"
BY DEF Determinism

LEMMA JsfxTakesLooks ==
  ASSUME TypeInv, SubjectInv, RenderKnown, Own, UNCHANGED <<step, mishaps>>,
         subject.kind = "jsfx", NEW flaw \in subject.flaws, flaw \in AudioDefects,
         Label = Shows(flaw), render.at \in {"full", "cut"},
         NEW rs \in JsfxVerdicts(render.at), AddAll(rs)
  PROVE  Looked(flaw)
<1> DEFINE also == CASE Label = "silence" -> IF NoteDriven THEN {} ELSE {SilenceOut}
                     [] Label = "midi" -> {<<"sounds", Sounds>>}
                     [] OTHER -> {}
<1>1. Flawed(flaw)
  BY DEF Flawed
<1>2. CASE flaw = "varies"
  <2>1. Label = "determinism"
    BY <1>2 DEF Shows
  <2>2. PICK s \in Determinism(kept["sine_1k"], render.at) : rs = {<<Label, s>>}
    BY <2>1 DEF JsfxVerdicts
  <2>3. s = "failed"
    BY <1>1, <1>2, VariesShows
  <2>4. Red'
    BY <2>2, <2>3, AddRed DEF Add
  <2>5. QED
    BY <2>4, LookedAt
<1>3. CASE flaw # "varies"
  <2>1. Label \notin {"determinism", "midi again"}
    BY <1>3 DEF Shows, AudioDefects
  <2>2. CASE render.at = "cut"
    <3>1. rs = {<<Label, "failed">>}
      BY <2>1, <2>2 DEF JsfxVerdicts, Truncated
    <3>2. QED
      BY <3>1, AddRed, LookedAt DEF Add
  <2>3. CASE render.at = "full"
    <3>1. PICK r \in Pathology("full") : rs = {r} \cup also
      BY <2>1, <2>3 DEF JsfxVerdicts, Truncated
    <3>2. CASE flaw \in {"sick", "param1", "param2"}
      <4>1. flaw = "sick" \/ Label = flaw
        BY <3>2 DEF Shows
      <4>2. r = <<Label, "failed">>
        BY <1>1, <4>1, PathologyShows
      <4>3. <<Label, "failed">> \in rs
        BY <3>1, <4>2
      <4>4. QED
        BY <4>3, AddedRed, LookedAt
    <3>3. flaw # "stalls"
      BY <1>1, <2>3 DEF RenderKnown
    <3>4. CASE flaw = "noisy"
      <4>1. Label = "silence"
        BY <3>4 DEF Shows
      <4>2. CASE Has("midi")
        <5>1. BlindSpot(package, subject, flaw)
          BY <3>4, <4>2 DEF BlindSpot, Has
        <5>2. QED
          BY <5>1, LookedAt
      <4>3. CASE ~Has("midi")
        <5>1. <<"silence out", "failed">> \in rs
          BY <1>1, <3>1, <3>4, <4>1, <4>3 DEF NoteDriven, SilenceOut
        <5>2. QED
          BY <5>1, AddedRed, LookedAt
      <4>4. QED
        BY <4>2, <4>3
    <3>5. CASE flaw = "mute"
      <4>1. Label = "midi"
        BY <3>5 DEF Shows
      <4>2. <<"sounds", Sounds>> \in rs /\ Sounds \in {"skipped", "failed"}
        BY <1>1, <3>1, <3>5, <4>1 DEF Sounds
      <4>3. CASE Sounds = "failed"
        <5>1. <<"sounds", "failed">> \in rs
          BY <4>2, <4>3
        <5>2. QED
          BY <5>1, AddedRed, LookedAt
      <4>4. CASE Sounds = "skipped"
        <5>1. <<package, "sounds", "skipped">> \in results'
          BY <4>2, <4>4, Added
        <5>2. QED
          BY <3>5, <5>1, LookedSkip, Speaks
      <4>5. QED
        BY <4>2, <4>3, <4>4
    <3>6. QED
      BY <1>3, <3>2, <3>3, <3>4, <3>5 DEF AudioDefects
  <2>4. QED
    BY <2>2, <2>3
<1>4. QED
  BY <1>2, <1>3

LEMMA OthersDefects ==
  ASSUME SubjectInv, NEW flaw \in subject.flaws
  PROVE  /\ subject.kind = "plugin" =>
              /\ flaw \in {"nonconform", "scanhang", "crash", "noload", "sick", "stalls",
                           "varies", "noisy", "param1", "param2"}
              /\ flaw \in {"param1", "param2"} => Has("params")
         /\ subject.kind = "au" =>
              /\ flaw \in {"manifest", "invalid", "invalid2", "noload", "sick", "stalls", "varies"}
              /\ flaw = "invalid2" => Has("many")
<1>1. flaw \in Defects(subject)
  BY SubjectKinds
<1>2. QED
  BY <1>1 DEF Defects, Has

LEMMA OthersTakeLooks ==
  ASSUME TypeInv, SubjectInv, RenderKnown, Own, UNCHANGED <<step, mishaps>>,
         NEW flaw \in subject.flaws, flaw \in AudioDefects,
         Label = Shows(flaw), render.at \in {"full", "cut"}, NEW rs, AddAll(rs),
         \/ subject.kind = "plugin" /\ rs \in PluginVerdicts(render.at)
         \/ subject.kind = "au" /\ rs \in UnitVerdicts(render.at)
  PROVE  Looked(flaw)
<1>1. Flawed(flaw) /\ subject.kind \in {"plugin", "au"}
  BY DEF Flawed
<1>2. CASE flaw = "varies"
  <2>1. Label = "determinism"
    BY <1>2 DEF Shows
  <2>2. PICK s \in Determinism(kept["sine_1k"], render.at) : rs = {<<Label, s>>}
    BY <2>1 DEF PluginVerdicts, UnitVerdicts
  <2>3. s = "failed"
    BY <1>1, <1>2, VariesShows
  <2>4. Red'
    BY <2>2, <2>3, AddRed DEF Add
  <2>5. QED
    BY <2>4, LookedAt
<1>3. CASE flaw = "stalls"
  <2>1. BlindSpot(package, subject, flaw)
    BY <1>1, <1>3 DEF BlindSpot, Flawed
  <2>2. QED
    BY <2>1, LookedAt
<1>4. CASE flaw \in {"sick", "param1", "param2"}
  <2>1. Label \notin {"determinism", "silence"} /\ (flaw = "sick" \/ Label = flaw)
    BY <1>4 DEF Shows
  <2>2. PICK r \in Pathology(render.at) : rs = {r}
    BY <2>1 DEF PluginVerdicts, UnitVerdicts
  <2>3. CASE render.at = "cut"
    BY <1>1, <1>4, <2>3, CutShortHides
  <2>4. CASE render.at = "full"
    <3>1. r = <<Label, "failed">>
      BY <1>1, <2>1, <2>4, PathologyShows
    <3>2. QED
      BY <2>2, <3>1, AddRed, LookedAt DEF Add
  <2>5. QED
    BY <2>3, <2>4
<1>5. CASE flaw = "noisy"
  <2>1. Label = "silence" /\ subject.kind = "plugin"
    BY <1>1, <1>5, OthersDefects DEF Shows
  <2>2. CASE Has("instrument")
    <3>1. BlindSpot(package, subject, flaw)
      BY <1>5, <2>2 DEF BlindSpot, Has
    <3>2. QED
      BY <3>1, LookedAt
  <2>3. CASE ~Has("instrument")
    <3>1. PICK r \in Pathology(render.at) : rs = {r, SilenceOut}
      BY <2>1, <2>3 DEF PluginVerdicts
    <3>2. <<"silence out", "failed">> \in rs
      BY <1>1, <1>5, <3>1 DEF SilenceOut
    <3>3. QED
      BY <3>2, AddedRed, LookedAt
  <2>4. QED
    BY <2>2, <2>3
<1>6. QED
  BY <1>1, <1>2, <1>3, <1>4, <1>5, OthersDefects DEF AudioDefects

LEMMA RendersLook ==
  ASSUME TypeInv, SubjectInv, EngineInv, KnownInv, Next, step = "renders",
         subject = TestedAs(package),
         NEW flaw \in subject.flaws, Due(flaw)
  PROVE  Own /\ Looked(flaw)
<1>1. Own /\ RenderKnown /\ KeptKnown
  BY StepsInRenders DEF KnownInv, Own
<1>2. DueInRenders(flaw) /\ flaw \in AudioDefects
  BY
     DEF Due, DueInJsfx, DueInScript, DueInPlugin, DueInUnit, DueInTheme, DueInRepo,
         DueInRenders, ResetSteps, SaveSteps
<1>3. CASE UNCHANGED <<step, todo>>
  <2>1. Due(flaw)'
    BY <1>2, <1>3 DEF Due, DueInRenders
  <2>2. QED
    BY <1>1, <2>1, LookedAt
<1>4. todo # <<>>
  BY <1>2 DEF DueInRenders
<1>5. CASE (SkipsLabel \/ Taken) /\ UNCHANGED <<step, mishaps>>
  <2>1. todo' = Tail(todo) /\ (Label = Shows(flaw) \/ Due(flaw)')
    BY <1>2, <1>5, RestIsDue DEF SkipsLabel, Taken
  <2>2. CASE Label = Shows(flaw) /\ SkipsLabel /\ PassOver
    <3>1. flaw = "varies" /\ Label = "determinism" /\ kept["sine_1k"] = "none"
      BY <1>2, <2>2 DEF Shows, AudioDefects, PassOver, Needed
    <3>2. 1 \in DOMAIN todo /\ todo[1] = "determinism"
      BY <1>4, <3>1 DEF Label, TypeInv
    <3>3. Red
      BY <1>1, <3>1, <3>2 DEF KeptKnown
    <3>4. Red'
      BY <2>2, <3>3 DEF PassOver, Red
    <3>5. QED
      BY <1>1, <3>4, LookedAt
  <2>3. CASE Label = Shows(flaw) /\ SkipDeterminism
    <3>1. flaw = "varies"
      BY <1>2, <2>3 DEF Shows, AudioDefects, SkipDeterminism, SilentWithoutNotes
    <3>2. <<package, "determinism", "skipped">> \in results'
      BY <2>3, AddedOne DEF SkipDeterminism
    <3>3. QED
      BY <1>1, <3>1, <3>2, LookedSkip, Speaks
  <2>4. CASE Label = Shows(flaw) /\ Taken
    <3>1. CASE Red'
      BY <1>1, <3>1, LookedAt
    <3>2. CASE render.at # "raised"
      <4>1. render.at \in {"full", "cut"}
        BY <2>4, <3>2 DEF Taken, RenderEnded
      <4>2. ASSUME JsfxStep PROVE Looked(flaw)
        <5>1. TakeRender(JsfxVerdicts)
          BY <1>4, <2>4, <4>1, <4>2
             DEF JsfxStep, StaticParse, Compile, ReadVirgin, Tweak, CheckTweak, Readd,
                 PollChunk, SaveOnce, SaveAgain, ReadDefaults, Restore, PrevChunk,
                 LeaveSession, JsfxRaises, EvalRaises, NoSession, JsfxRendering,
                 SkipDeterminism, SilentWithoutNotes, RenderDue, AskRender, PassOver,
                 AllRendered
        <5>2. PICK rs \in JsfxVerdicts(render.at) : AddAll(rs)
          BY <3>2, <5>1 DEF TakeRender
        <5>3. QED
          BY <1>1, <1>2, <1>5, <2>4, <4>1, <4>2, <5>2, JsfxTakesLooks DEF JsfxStep
      <4>3. ASSUME PluginStep PROVE Looked(flaw)
        <5>1. TakeRender(PluginVerdicts)
          BY <1>4, <2>4, <4>1, <4>3
             DEF PluginStep, Validator, Discover, RenderDue, AskRender, PassOver, AllRendered
        <5>2. PICK rs \in PluginVerdicts(render.at) : AddAll(rs)
          BY <3>2, <5>1 DEF TakeRender
        <5>3. QED
          BY <1>1, <1>2, <1>5, <2>4, <4>1, <4>3, <5>2, OthersTakeLooks DEF PluginStep
      <4>4. ASSUME UnitStep PROVE Looked(flaw)
        <5>1. TakeRender(UnitVerdicts)
          BY <1>4, <2>4, <4>1, <4>4
             DEF UnitStep, Manifest, Install, Validate, LoadUnit, Remove, RenderDue,
                 AskRender, PassOver, UnitsRendered
        <5>2. PICK rs \in UnitVerdicts(render.at) : AddAll(rs)
          BY <3>2, <5>1 DEF TakeRender
        <5>3. QED
          BY <1>1, <1>2, <1>5, <2>4, <4>1, <4>4, <5>2, OthersTakeLooks DEF UnitStep
      <4>5. JsfxStep \/ PluginStep \/ UnitStep \/ UNCHANGED <<todo>>
        BY Actors
           DEF ScriptStep, ScriptStatic, Load, Supervise, WindowEnds, Snapshot, Register,
               Watch, PingAction, ScriptRaises, EvalRaises, NoSession, ScriptRuns, Deferred,
               Sight, RunAction, ThemeStep, Lint, Capture, OpenTheme, Paint, ThemeRaises,
               InitRuns, Dispatch, PrintVerdict, Again, KillCommand
      <4>6. QED
        BY <1>1, <1>3, <1>5, <4>2, <4>3, <4>4, <4>5
    <3>3. QED
      BY <2>4, <3>1, <3>2 DEF Taken
  <2>5. QED
    BY <1>1, <1>5, <2>1, <2>2, <2>3, <2>4, LookedAt DEF SkipsLabel
<1>6. CASE RenderStep \/ RendererWrites
  BY <1>3, <1>6, RenderStepKeeps
<1>7. CASE AskRender
  BY <1>3, <1>7 DEF AskRender
<1>8. QED
  BY <1>3, <1>4, <1>5, <1>6, <1>7, StepsInRenders

-----------------------------------------------------------------------------
(* Defects are looked for by the other batteries *)

LEMMA ScriptDefects ==
  ASSUME SubjectInv, subject.kind = "script", NEW flaw \in subject.flaws
  PROVE  /\ flaw \in {"loaderror", "hangs", "defererror", "leaks", "noaction", "lint", "header",
                      "nowindow"}
         /\ flaw = "lint" => Has("lua")
         /\ flaw = "header" => ~Has("noheader")
         /\ flaw = "nowindow" => Has("ui")
<1>1. flaw \in Defects(subject)
  BY SubjectKinds
<1>2. QED
  BY <1>1 DEF Defects, Has

LEMMA MetadataShows ==
  ASSUME SubjectInv, subject.kind = "script", NEW flaw \in subject.flaws, NEW b \in BOOLEAN
  PROVE  /\ flaw = "header" => <<"header", "failed">> \in Metadata(b)
         /\ flaw = "lint" /\ b => <<"lint", "failed">> \in Metadata(b)
         /\ flaw = "lint" /\ ~b => <<"lint", "skipped">> \in Metadata(b)
<1>1. Flawed(flaw)
  BY DEF Flawed
<1>2. CASE flaw = "header"
  <2>1. Flawed("header") /\ ~Has("noheader")
    BY <1>1, <1>2, ScriptDefects
  <2>2. QED
    BY <1>2, <2>1 DEF Metadata, Verdict
<1>3. CASE flaw = "lint"
  <2>1. Flawed("lint") /\ Has("lua")
    BY <1>1, <1>3, ScriptDefects
  <2>2. QED
    BY <1>3, <2>1 DEF Metadata, Verdict
<1>4. QED
  BY <1>2, <1>3

LEMMA ScriptLooks ==
  ASSUME TypeInv, SubjectInv, KnownInv, ScriptStep, Own,
         mishaps \subseteq mishaps', NEW flaw \in subject.flaws, Due(flaw)
  PROVE  Looked(flaw)
<1>1. subject.kind = "script" /\ subject'.kind = "script" /\ Flawed(flaw) /\ ScriptInv
  BY DEF ScriptStep, Own, Context, Flawed, KnownInv
<1>2. DueInScript(flaw) /\ flaw \in {"loaderror", "hangs", "defererror", "leaks", "noaction",
                                      "lint", "header", "nowindow"}
  BY <1>1, ScriptDefects
     DEF Due, DueInRenders, ScriptStep, ScriptStatic, Load, Supervise, WindowEnds, Snapshot,
         Register, Watch, PingAction, ScriptRaises, EvalRaises, NoSession
<1>3. DueInScript(flaw)' => Looked(flaw)
  BY <1>1, LookedAt DEF Due
<1>4. Stopped' => Looked(flaw)
  BY LookedAt
<1>5. CASE ScriptStatic
  <2>1. CASE Has("nopython")
    <3>1. package = 0
      BY <2>1, SubjectKinds, CappedBounds DEF Has
    <3>2. NotRun
      BY <1>1, <2>1, <3>1 DEF NotRun, Own, TestedAs, Has
    <3>3. QED
      BY <3>2 DEF Looked
  <2>2. CASE Has("lua") /\ Go("load") /\ \E b \in BOOLEAN : AddAll(Metadata(b))
    <3>1. PICK b \in BOOLEAN : AddAll(Metadata(b))
      BY <2>2
    <3>2. CASE flaw = "header" \/ (flaw = "lint" /\ b)
      <4>1. <<"header", "failed">> \in Metadata(b) \/ <<"lint", "failed">> \in Metadata(b)
        BY <1>1, <3>2, MetadataShows
      <4>2. QED
        BY <3>1, <4>1, AddedRed, LookedAt
    <3>3. CASE flaw = "lint" /\ ~b
      <4>1. <<"lint", "skipped">> \in Metadata(b)
        BY <1>1, <3>3, MetadataShows
      <4>2. <<package, "lint", "skipped">> \in results'
        BY <3>1, <4>1, Added
      <4>3. QED
        BY <3>3, <4>2, LookedSkip, Speaks
    <3>4. CASE flaw \notin {"lint", "header"}
      BY <1>3, <2>2, <3>4 DEF DueInScript, Go
    <3>5. QED
      BY <3>2, <3>3, <3>4
  <2>3. CASE ~Has("lua") /\ Go("register") /\ AddAll(Metadata(TRUE) \cup {<<"load", "skipped">>})
    <3> DEFINE rs == Metadata(TRUE) \cup {<<"load", "skipped">>}
    <3>1. <<"load", "skipped">> \in rs /\ AddAll(rs)
      BY <2>3
    <3>2. flaw = "header" => <<"header", "failed">> \in rs
      BY <1>1, MetadataShows
    <3> HIDE DEF rs
    <3>3. CASE flaw = "header"
      BY <3>1, <3>2, <3>3, AddedRed, LookedAt
    <3>4. CASE flaw \in {"loaderror", "hangs", "leaks"}
      <4>1. <<package, "load", "skipped">> \in results'
        BY <3>1, Added
      <4>2. "load" \in SpeaksOf(flaw)
        BY <3>4, Speaks
      <4>3. QED
        BY <4>1, <4>2, LookedSkip
    <3>5. CASE flaw = "nowindow"
      <4>1. BlindSpot(package, subject, flaw)
        BY <2>3, <3>5 DEF BlindSpot, Has
      <4>2. QED
        BY <4>1, LookedAt
    <3>6. CASE flaw \in {"noaction", "defererror"}
      BY <1>3, <2>3, <3>6 DEF DueInScript, Go
    <3>7. QED
      BY <1>1, <1>2, <2>3, <3>3, <3>4, <3>5, <3>6, ScriptDefects
  <2>4. CASE Raise
    BY <1>4, <2>4 DEF Raise, Stopped
  <2>5. QED
    BY <1>5, <2>1, <2>2, <2>3, <2>4 DEF ScriptStatic
<1>6. CASE Load
  <2>1. CASE Raise
    BY <1>4, <2>1 DEF Raise, Stopped
  <2>2. CASE Add("load", "failed")
    BY <2>2, AddRed, LookedAt
  <2>3. CASE ~Flawed("hangs") /\ ~Flawed("loaderror") /\ Go("settle")
    BY <1>1, <1>2, <1>3, <1>6, <2>3 DEF DueInScript, Go, Load
  <2>4. QED
    BY <1>6, <2>1, <2>2, <2>3 DEF Load
<1>7. CASE Supervise
  BY <1>7, AddRed, LookedAt DEF Supervise
<1>8. CASE WindowEnds
  <2>1. CASE flaw = "defererror"
    <3>1. "late" \in mishaps' /\ "late" \in HiddenBy(subject, flaw)
      BY <1>1, <1>8, <2>1 DEF WindowEnds, Mishap, HiddenBy
    <3>2. QED
      BY <3>1, LookedAt
  <2>2. QED
    BY <1>2, <1>3, <1>8, <2>1 DEF WindowEnds, Go, DueInScript
<1>9. CASE Snapshot
  <2>1. CASE Raise
    BY <1>4, <2>1 DEF Raise, Stopped
  <2>2. CASE AddAll(Hygiene) /\ ToRegister
    <3>1. CASE flaw = "leaks" /\ effects = "done"
      <4>1. <<"hygiene", "failed">> \in Hygiene
        BY <1>1, <3>1 DEF Hygiene, Verdict
      <4>2. QED
        BY <2>2, <4>1, AddedRed, LookedAt
    <3>2. CASE flaw = "leaks" /\ effects # "done"
      <4>1. "late" \in mishaps' /\ "late" \in HiddenBy(subject, flaw)
        BY <1>1, <1>9, <3>2 DEF Snapshot, ScriptInv, HiddenBy
      <4>2. QED
        BY <4>1, LookedAt
    <3>3. CASE flaw = "nowindow"
      <4>1. Flawed("nowindow") /\ Has("ui")
        BY <1>1, <3>3, ScriptDefects
      <4>2. <<"ui", "failed">> \in Hygiene
        BY <4>1 DEF Hygiene, Verdict
      <4>3. QED
        BY <2>2, <4>2, AddedRed, LookedAt
    <3>4. CASE flaw = "noaction"
      BY <1>3, <2>2, <3>4 DEF ToRegister, Go, DueInScript
    <3>5. QED
      BY <1>2, <1>9, <3>1, <3>2, <3>3, <3>4 DEF Snapshot, DueInScript
  <2>3. QED
    BY <1>9, <2>1, <2>2 DEF Snapshot
<1>10. CASE Register
  <2>1. CASE Add("registers", "failed")
    BY <2>1, AddRed, LookedAt
  <2>2. CASE ~Flawed("noaction") /\ Go("watch")
    BY <1>1, <1>2, <1>3, <1>10, <2>2 DEF DueInScript, Go, Register
  <2>3. QED
    BY <1>10, <2>1, <2>2 DEF Register
<1>11. CASE Watch
  <2>1. flaw = "defererror"
    BY <1>2, <1>11 DEF Watch, DueInScript
  <2>2. CASE Add("action", "failed")
    BY <2>2, AddRed, LookedAt
  <2>3. CASE ~(effects = "done" /\ panel = "none") /\ Mishap("late")
    <3>1. "late" \in mishaps' /\ "late" \in HiddenBy(subject, flaw)
      BY <1>1, <2>1, <2>3 DEF Mishap, HiddenBy
    <3>2. QED
      BY <3>1, LookedAt
  <2>4. QED
    BY <1>1, <1>11, <2>1, <2>2, <2>3 DEF Watch, FinishAction, ScriptInv
<1>12. CASE PingAction
  BY <1>2, <1>12 DEF PingAction, DueInScript
<1>13. CASE ScriptRaises
  BY <1>4, <1>13 DEF ScriptRaises, EvalRaises, NoSession, Raise, Stopped
<1>14. QED
  BY <1>5, <1>6, <1>7, <1>8, <1>9, <1>10, <1>11, <1>12, <1>13 DEF ScriptStep

LEMMA PluginLooks ==
  ASSUME TypeInv, SubjectInv, PluginStep, Own, step # "renders",
         NEW flaw \in subject.flaws, Due(flaw)
  PROVE  Looked(flaw)
<1>1. subject.kind = "plugin" /\ subject'.kind = "plugin" /\ Flawed(flaw)
  BY DEF PluginStep, Own, Context, Flawed
<1>2. Validator \/ Discover
  BY DEF PluginStep, AskRender, RenderDue, PassOver, TakeRender, AllRendered
<1>3. DueInPlugin(flaw)
  BY <1>1, <1>2 DEF Due, DueInRenders, Validator, Discover
<1>4. Stopped' => Looked(flaw)
  BY LookedAt
<1>5. CASE Validator
  <2>1. CASE Raise
    BY <1>4, <2>1 DEF Raise, Stopped
  <2>2. CASE flaw # "nonconform" /\ Go("discover")
    <3>1. DueInPlugin(flaw)'
      BY <2>2 DEF DueInPlugin, Go
    <3>2. QED
      BY <1>1, <3>1, LookedAt DEF Due
  <2>3. CASE flaw = "nonconform" /\ Add("validator", "skipped")
    BY <2>3, AddedOne, LookedSkip, Speaks
  <2>4. CASE Add("validator", "failed")
    BY <2>4, AddRed, LookedAt
  <2>5. QED
    BY <1>1, <1>5, <2>1, <2>2, <2>3, <2>4 DEF Validator
<1>6. CASE Discover
  <2>1. CASE Raise
    BY <1>4, <2>1 DEF Raise, Stopped
  <2>2. CASE Add("load", "failed")
    BY <2>2, AddRed, LookedAt
  <2>3. CASE /\ ~Flawed("scanhang") /\ ~Flawed("crash") /\ Loaded
             /\ Go("renders") /\ todo' = PluginPlan
    <3>1. flaw \notin {"nonconform", "scanhang", "crash", "noload"}
      BY <1>1, <1>3, <1>6, <2>3 DEF DueInPlugin, Discover, Loaded
    <3>2. CASE flaw \in {"param1", "param2"} /\ (Has("nosweep") \/ ~InPlan(Sweeps, flaw))
      <4>1. BlindSpot(package, subject, flaw)
        BY <3>2 DEF BlindSpot, InPlan, Has
      <4>2. QED
        BY <4>1, LookedAt
    <3>3. InPlan(PluginPlan, "silence") /\ InPlan(PluginPlan, "sine_1k")
          /\ InPlan(PluginPlan, "determinism")
      BY PlansHold
    <3>4. Has("params") /\ ~Has("nosweep") /\ InPlan(Sweeps, flaw) => InPlan(PluginPlan, flaw)
      BY PlansHold
    <3>5. CASE flaw \in {"param1", "param2"} => ~Has("nosweep") /\ InPlan(Sweeps, flaw)
      <4>1. flaw \in {"sick", "stalls", "varies", "noisy", "param1", "param2"}
            /\ (flaw \in {"param1", "param2"} => Has("params"))
        BY <1>1, <3>1, OthersDefects
      <4>2. InPlan(PluginPlan, Shows(flaw))
        BY <3>3, <3>4, <3>5, <4>1 DEF Shows
      <4>3. QED
        BY <2>3, <4>1, <4>2, PlanShows, LookedAt DEF AudioDefects, Go
    <3>6. QED
      BY <3>2, <3>5
  <2>4. QED
    BY <1>6, <2>1, <2>2, <2>3 DEF Discover
<1>7. QED
  BY <1>2, <1>5, <1>6

LEMMA UnitLooks ==
  ASSUME TypeInv, SubjectInv, UnitStep, ~Install, Own, step # "renders",
         NEW flaw \in subject.flaws, Due(flaw)
  PROVE  Looked(flaw)
<1>1. subject.kind = "au" /\ subject'.kind = "au" /\ Flawed(flaw)
      /\ flaw \in {"manifest", "invalid", "invalid2", "noload", "sick", "stalls", "varies"}
      /\ (flaw = "invalid2" => Has("many"))
  BY OthersDefects DEF UnitStep, Own, Context, Flawed
<1>2. Manifest \/ Validate \/ LoadUnit \/ Remove
  BY DEF UnitStep, AskRender, RenderDue, PassOver, TakeRender, UnitsRendered
<1>3. DueInUnit(flaw)
  BY <1>1, <1>2 DEF Due, DueInRenders, Manifest, Validate, LoadUnit, Remove
<1>4. Stopped' => Looked(flaw)
  BY LookedAt
<1>5. DueInUnit(flaw)' => Looked(flaw)
  BY <1>1, LookedAt DEF Due
<1>6. "load" \in SpeaksOf("noload") /\ {"load", "renders"} \subseteq SpeaksOf("sick")
      /\ {"load", "renders"} \subseteq SpeaksOf("stalls")
      /\ {"load", "renders"} \subseteq SpeaksOf("varies")
  BY Speaks
<1>7. CASE Manifest
  <2>1. CASE Add("manifest", "failed")
    BY <2>1, AddRed, LookedAt
  <2>2. QED
    BY <1>1, <1>5, <1>7, <2>1 DEF Manifest, Go, DueInUnit
<1>9. CASE Validate
  <2> DEFINE skip == IF Has("noninsertable") THEN {<<"load", "skipped">>} ELSE {}
             rs == CapSkip \cup {Auval(n) : n \in Validated} \cup skip
  <2>1. AddAll(rs) /\ flaw # "manifest"
    BY <1>3, <1>9 DEF Validate, DueInUnit
  <2>2. CASE flaw = "invalid"
    <3>1. 1 \in Validated
      BY ComponentAssumption DEF Validated, Components
    <3>2. Auval(1) = <<"auval", "failed">>
      BY <1>1, <2>2 DEF Auval
    <3>3. <<"auval", "failed">> \in rs
      BY <3>1, <3>2
    <3> HIDE DEF rs
    <3>4. QED
      BY <2>1, <3>3, AddedRed, LookedAt
  <2>3. CASE flaw = "invalid2"
    <3>1. Components > MaxComponents
      BY <1>1, <2>3, ComponentAssumption DEF Components
    <3>2. <<"budget", "skipped">> \in rs
      BY <3>1 DEF CapSkip
    <3> HIDE DEF rs
    <3>3. <<package, "budget", "skipped">> \in results'
      BY <2>1, <3>2, Added
    <3>4. QED
      BY <2>3, <3>3, LookedSkip, Speaks
  <2>4. CASE Has("noninsertable") /\ flaw \notin {"invalid", "invalid2"}
    <3>1. <<"load", "skipped">> \in rs
      BY <2>4
    <3> HIDE DEF rs
    <3>2. <<package, "load", "skipped">> \in results'
      BY <2>1, <3>1, Added
    <3>3. "load" \in SpeaksOf(flaw)
      BY <1>1, <1>6, <2>1, <2>4
    <3>4. QED
      BY <3>2, <3>3, LookedSkip
  <2>5. CASE ~Has("noninsertable") /\ flaw \notin {"invalid", "invalid2"}
    BY <1>5, <1>9, <2>1, <2>5 DEF Validate, Go, DueInUnit
  <2>6. QED
    BY <2>2, <2>3, <2>4, <2>5
<1>10. CASE LoadUnit
  <2>1. CASE Go("unwind")
    BY <1>4, <2>1 DEF Go, Stopped
  <2>2. CASE Add("load", "failed")
    BY <2>2, AddRed, LookedAt
  <2>3. CASE ~Flawed("noload") /\ ~Go("unwind")
    <3>1. flaw \in {"sick", "stalls", "varies"}
      BY <1>1, <1>3, <1>10, <2>3 DEF LoadUnit, DueInUnit
    <3>1a. CASE Has("quick")
      <4>1. BlindSpot(package, subject, flaw)
        BY <1>1, <3>1, <3>1a DEF BlindSpot, AudioDefects, Has
      <4>2. QED
        BY <4>1, LookedAt
    <3>2. CASE AddAll({<<"load", "passed">>} \cup {<<"renders", "skipped">>})
      <4> DEFINE rs == {<<"load", "passed">>} \cup {<<"renders", "skipped">>}
      <4>1. AddAll(rs) /\ <<"renders", "skipped">> \in rs
        BY <3>2
      <4> HIDE DEF rs
      <4>2. <<package, "renders", "skipped">> \in results'
        BY <4>1, Added
      <4>3. "renders" \in SpeaksOf(flaw)
        BY <1>6, <3>1
      <4>4. QED
        BY <4>2, <4>3, LookedSkip
    <3>3. CASE Go("renders") /\ todo' = <<"sine_1k", "determinism">>
      <4>1. InPlan(<<"sine_1k", "determinism">>, "sine_1k")
            /\ InPlan(<<"sine_1k", "determinism">>, "determinism")
        BY PlansHold
      <4>2. InPlan(todo', Shows(flaw))
        BY <3>1, <3>3, <4>1 DEF Shows
      <4>3. QED
        BY <3>1, <3>3, <4>2, PlanShows, LookedAt DEF AudioDefects, Go
    <3>4. QED
      BY <1>10, <2>3, <3>1a, <3>2, <3>3 DEF LoadUnit
  <2>4. QED
    BY <1>10, <2>1, <2>2, <2>3 DEF LoadUnit
<1>11. CASE Remove
  BY <1>3, <1>11 DEF Remove, DueInUnit
<1>12. QED
  BY <1>2, <1>7, <1>9, <1>10, <1>11

(* Whatever build macOS makes of it, an Audio Unit is validated next.      *)
LEMMA InstallLooks ==
  ASSUME UnitStep, Install, CopyInv, UNCHANGED package, NEW flaw, Due(flaw)
  PROVE  Looked(flaw)
<1>1. subject.kind = "au" /\ subject'.kind = "au" /\ step = "install"
  BY InstallTests DEF UnitStep, Install
<1>2. flaw # "manifest"
  BY <1>1 DEF Due, DueInRenders, DueInUnit
<1>3. CASE Add("install", "failed")
  <2>1. Red'
    BY <1>3, AddRed
  <2>2. QED
    BY <2>1 DEF Looked, Answered
<1>4. CASE Go("validate")
  <2>1. Due(flaw)'
    BY <1>1, <1>2, <1>4 DEF Due, DueInUnit, Go
  <2>2. QED
    BY <2>1 DEF Looked
<1>5. CASE Raise
  BY <1>5 DEF Raise, Stopped, Looked
<1>6. QED
  BY <1>3, <1>4, <1>5 DEF Install

LEMMA ThemeLooks ==
  ASSUME TypeInv, SubjectInv, ThemeStep, Own, NEW flaw \in subject.flaws, Due(flaw)
  PROVE  Looked(flaw)
<1>1. subject.kind = "theme" /\ subject'.kind = "theme" /\ Flawed(flaw)
  BY DEF ThemeStep, Own, Context, Flawed
<1>2. /\ flaw \in {"rejected", "inactive", "unpainted", "badzip", "badmember"}
      /\ flaw \in {"badzip", "badmember"} => ~Has("bare")
  <2>1. flaw \in Defects(subject)
    BY SubjectKinds
  <2>2. QED
    BY <1>1, <2>1 DEF Defects, Has
<1>3. DueInTheme(flaw)
  BY <1>1
     DEF Due, DueInRenders, ThemeStep, Lint, Capture, OpenTheme, Paint, ThemeRaises,
         EvalRaises, NoSession
<1>4. Stopped' => Looked(flaw)
  BY LookedAt
<1>5. DueInTheme(flaw)' => Looked(flaw)
  BY <1>1, LookedAt DEF Due
<1>6. CASE Lint
  <2>1. CASE Add("structure", "failed")
    BY <2>1, AddRed, LookedAt
  <2>2. QED
    BY <1>1, <1>2, <1>4, <1>5, <1>6, <2>1 DEF Lint, Go, Raise, Stopped, DueInTheme
<1>7. CASE Capture
  BY <1>3, <1>4, <1>5, <1>7 DEF Capture, Go, Raise, Stopped, DueInTheme
<1>8. CASE OpenTheme
  <2>1. CASE Add("load", "failed")
    BY <2>1, AddRed, LookedAt
  <2>2. QED
    BY <1>1, <1>3, <1>5, <1>8, <2>1 DEF OpenTheme, Readback, Go, DueInTheme
<1>9. CASE Paint
  <2>1. flaw = "unpainted"
    BY <1>3, <1>9 DEF Paint, DueInTheme
  <2>2. CASE "resized" \in mishaps'
    <3>1. "resized" \in HiddenBy(subject, flaw)
      BY <1>1, <2>1 DEF HiddenBy
    <3>2. QED
      BY <2>2, <3>1, LookedAt
  <2>3. CASE "resized" \notin mishaps'
    <3>1. ~Visible
      BY <1>1, <2>1, <2>3 DEF Visible
    <3> DEFINE rs == {<<"paint", "failed">>, <<"layouts", "passed">>}
    <3>2. AddAll(rs) /\ <<"paint", "failed">> \in rs
      BY <1>9, <3>1 DEF Paint
    <3> HIDE DEF rs
    <3>3. QED
      BY <3>2, AddedRed, LookedAt
  <2>4. QED
    BY <2>2, <2>3
<1>10. CASE ThemeRaises
  BY <1>4, <1>10 DEF ThemeRaises, EvalRaises, NoSession, Raise, Stopped
<1>11. QED
  BY <1>6, <1>7, <1>8, <1>9, <1>10 DEF ThemeStep

LEMMA RepoLooks ==
  ASSUME TypeInv, SubjectInv, RepoStep, Own, NEW flaw \in subject.flaws, Due(flaw)
  PROVE  Looked(flaw)
<1>1. step # "renders" /\ step # "dispatch" /\ step # "next package"
  BY LookedAt, CappedBounds
     DEF Due, DueInRenders, DueInJsfx, DueInScript, DueInPlugin, DueInUnit, DueInTheme,
         DueInRepo, RepoStep, CheckIndex, DiscoverPackages, NextPackage, PackageTested,
         RepoTested, ResetSteps, SaveSteps
<1>2. CASE subject.kind # "repo"
  BY <1>1, <1>2
     DEF Due, DueInRenders, DueInJsfx, DueInScript, DueInPlugin, DueInUnit, DueInTheme,
         RepoStep, CheckIndex, DiscoverPackages, NextPackage, PackageTested, RepoTested,
         ResetSteps, SaveSteps
<1>3. CASE subject.kind = "repo"
  <2>1. DueInRepo(flaw) /\ Flawed(flaw) /\ subject'.kind = "repo"
    BY <1>1, <1>3 DEF Due, DueInRenders, Flawed, Own, Context
  <2>2. flaw \in {"index", "rootfiles"}
    <3>1. flaw \in Defects(subject)
      BY SubjectKinds
    <3>2. QED
      BY <1>3, <3>1 DEF Defects
  <2>3. CASE CheckIndex
    <3>1. CASE Raise
      BY <3>1, LookedAt DEF Raise, Stopped
    <3>2. CASE flaw = "rootfiles" /\ Go("packages")
      <4>1. DueInRepo(flaw)'
        BY <3>2 DEF DueInRepo, Go
      <4>2. QED
        BY <2>1, <4>1, LookedAt DEF Due
    <3>3. CASE flaw = "index" /\ Add("index", "skipped")
      BY <3>3, AddedOne, LookedSkip, Speaks
    <3>4. CASE Add("index", "failed")
      BY <3>4, AddRed, LookedAt
    <3>5. QED
      BY <2>1, <2>2, <2>3, <3>1, <3>2, <3>3, <3>4 DEF CheckIndex
  <2>4. CASE DiscoverPackages
    <3> DEFINE one == {<<"layout", "failed">>} \cup {<<"discovery", "failed">>}
               two == {<<"layout", "failed">>} \cup {<<"discovery", "passed">>} \cup PackageCap
    <3>1. flaw = "rootfiles"
      BY <2>1, <2>4 DEF DiscoverPackages, DueInRepo
    <3>2. AddAll(one) \/ AddAll(two)
      BY <2>1, <2>4, <3>1 DEF DiscoverPackages
    <3>3. <<"layout", "failed">> \in one /\ <<"layout", "failed">> \in two
      OBVIOUS
    <3> HIDE DEF one, two
    <3>4. QED
      BY <3>2, <3>3, AddedRed, LookedAt
  <2>5. QED
    BY <1>1, <2>1, <2>3, <2>4
       DEF DueInRepo, RepoStep, NextPackage, PackageTested, RepoTested
<1>4. QED
  BY <1>2, <1>3

-----------------------------------------------------------------------------
(* No defect is forgotten *)

LEMMA PlaceStep ==
  ASSUME TypeInv, SubjectInv, EngineInv, PlaceInv, [Next]_vars
  PROVE  PlaceInv'
<1> DEFINE Places == {"dispatch", "index", "packages", "emitted"}
<1>1. ASSUME UNCHANGED package, step' \notin Places \/ package = 0 \/ step' = step
      PROVE  PlaceInv'
  BY <1>1 DEF PlaceInv
<1>2. CASE JsfxStep /\ UNCHANGED Context
  <2>1. step' \notin Places \/ package = 0 \/ step' = step
    BY <1>2
       DEF JsfxStep, StaticParse, Compile, ReadVirgin, Tweak, CheckTweak, Readd, PollChunk,
           SaveOnce, SaveAgain, ReadDefaults, Restore, PrevChunk, LeaveSession,
           JsfxRendering, JsfxRaises, EvalRaises, NoSession, Emit, Go, GiveUp, Raise,
           ToReset, AfterReset, SkipDeterminism, AskRender, PassOver, TakeRender,
           AllRendered
  <2>2. QED
    BY <1>1, <1>2, <2>1 DEF Context
<1>3. CASE (ScriptStep \/ ScriptRuns) /\ UNCHANGED Context
  <2>1. step' \notin Places \/ package = 0 \/ step' = step
    BY <1>3
       DEF ScriptStep, ScriptStatic, Load, Supervise, WindowEnds, Snapshot, Register, Watch,
           PingAction, ScriptRaises, EvalRaises, NoSession, ScriptRuns, Deferred, Sight,
           RunAction, Emit, Go, Raise, ToRegister, FinishAction
  <2>2. QED
    BY <1>1, <1>3, <2>1 DEF Context
<1>4. CASE /\ PluginStep \/ UnitStep \/ ThemeStep \/ KillCommand \/ Again
           /\ UNCHANGED package
  <2>1. package = 0
    <3>1. subject.kind \in {"plugin", "au", "theme"} \/ given.kind = "au"
      BY <1>4 DEF PluginStep, UnitStep, ThemeStep, KillCommand, Again
    <3>2. QED
      BY <3>1, SubjectKinds, CappedBounds DEF SubjectInv
  <2>2. QED
    BY <1>1, <1>4, <2>1
<1>5. CASE RepoStep
  <2>1. CASE CheckIndex \/ DiscoverPackages
    <3>1. package = 0
      BY <2>1 DEF CheckIndex, DiscoverPackages, PlaceInv
    <3>2. QED
      BY <1>1, <2>1, <3>1 DEF CheckIndex, DiscoverPackages
  <2>2. QED
    BY <1>5, <2>1 DEF RepoStep, NextPackage, PackageTested, RepoTested, Go, PlaceInv
<1>6. CASE (RenderStep \/ RendererWrites) /\ UNCHANGED <<Context, step>>
  BY <1>1, <1>6 DEF Context
<1>7. CASE InitRuns
  BY <1>1, <1>7 DEF InitRuns
<1>8. CASE Dispatch \/ PrintVerdict
  BY <1>8 DEF Dispatch, PrintVerdict, Go, PlaceInv
<1>9. CASE UNCHANGED vars
  BY <1>1, <1>9
<1>10. QED
  BY <1>2, <1>3, <1>4, <1>5, <1>6, <1>7, <1>8, <1>9, Actors DEF Context

LEMMA DueStays ==
  ASSUME UNCHANGED <<step, todo, subject>>, NEW flaw, Due(flaw)
  PROVE  Due(flaw)'
<1>1. DueInJsfx(flaw)' <=> DueInJsfx(flaw)
  BY DEF DueInJsfx
<1>2. DueInRenders(flaw)' <=> DueInRenders(flaw)
  BY DEF DueInRenders
<1>3. QED
  BY <1>1, <1>2
     DEF Due, DueInScript, DueInPlugin, DueInUnit, DueInTheme, DueInRepo

LEMMA LooksStep ==
  ASSUME TypeInv, SubjectInv, EngineInv, KnownInv, PlaceInv, Next, Own, ~Again,
         ~(UnitStep /\ Install),
         NEW flaw \in subject.flaws, Due(flaw)
  PROVE  Looked(flaw)
<1>1. mishaps \subseteq mishaps'
  BY MishapsStay
<1>2. CASE step = "renders"
  BY <1>2, RendersLook DEF Own
<1>3. CASE UNCHANGED <<step, todo>>
  <2>1. Due(flaw)'
    BY <1>3, DueStays DEF Own, Context
  <2>2. QED
    BY <2>1, LookedAt
<1>4. CASE JsfxStep /\ step # "renders"
  <2>1. ~JsfxRendering
    BY <1>4 DEF JsfxRendering, SkipDeterminism, SilentWithoutNotes, RenderDue, AskRender,
         PassOver, TakeRender, AllRendered
  <2>2. QED
    BY <1>1, <1>4, <2>1, JsfxLooks
<1>5. CASE ScriptStep
  BY <1>1, <1>5, ScriptLooks
<1>6. CASE (PluginStep \/ UnitStep) /\ step # "renders"
  BY <1>6, PluginLooks, UnitLooks
<1>7. CASE ThemeStep
  BY <1>7, ThemeLooks
<1>8. CASE RepoStep
  BY <1>8, RepoLooks
<1>9. CASE ScriptRuns \/ RenderStep \/ RendererWrites \/ InitRuns
  BY <1>3, <1>9, RenderStepKeeps DEF ScriptRuns, Deferred, Sight, RunAction, InitRuns
<1>10. CASE Dispatch
  <2>1. subject = given
    BY <1>10 DEF Dispatch, PlaceInv, Own, TestedAs
  <2>2. CASE step' = "exited"
    BY <2>2, LookedAt DEF Stopped
  <2>3. CASE step' = FirstStep(given.kind) /\ given.kind # "absent"
    <3>1. Due(flaw)'
      BY <2>1, <2>3, SubjectKinds
         DEF FirstStep, Due, DueInJsfx, DueInScript, DueInPlugin, DueInUnit, DueInTheme,
             DueInRepo, Own, Context
    <3>2. QED
      BY <3>1, LookedAt
  <2>4. QED
    BY <1>10, <2>2, <2>3 DEF Dispatch, Go
<1>11. CASE PrintVerdict \/ KillCommand
  BY <1>11, LookedAt DEF PrintVerdict, KillCommand, Go, Stopped
<1>12. QED
  BY <1>2, <1>4, <1>5, <1>6, <1>7, <1>8, <1>9, <1>10, <1>11, Actors

(* A package waits until it is its turn, or the report says that it is not *)
(* tested.                                                                 *)
LEMMA WaitsStep ==
  ASSUME TypeInv, SubjectInv, EngineInv, PlaceInv, Next, UNCHANGED Context,
         NEW p \in Tested, NEW flaw, Waits(p)
  PROVE  Waits(p)' \/ NamedSkip(p, flaw)' \/ Stopped'
<1>1. given.kind = "repo" /\ given'.kind = "repo" /\ Capped' = Capped /\ step # "emitted"
  BY DEF Waits, Context, Capped
<1>2. p \in Nat /\ package \in Nat /\ Capped \in Nat /\ p <= Len(packages) /\ Len(packages) \in Nat
  BY CappedBounds DEF Tested, Context
<1>3. CASE step \in {"dispatch", "index", "packages"} /\ p > 0
  <2>1. package = 0 /\ subject.kind = "repo"
    BY <1>1, <1>3 DEF PlaceInv, SubjectInv, ElseTested, TestedAs
  <2>2. \/ Dispatch /\ step' = "index"
        \/ RepoStep /\ CheckIndex
        \/ RepoStep /\ DiscoverPackages
    <3>1. ~Rendering
      BY <1>3 DEF TypeInv
    <3>2. ~RenderStep /\ ~RendererWrites
      BY <3>1, RenderStepKeeps
    <3>3. Dispatch => step' = "index"
      BY <1>1 DEF Dispatch, FirstStep, Go
    <3>4. RepoStep => CheckIndex \/ DiscoverPackages
      BY <1>3 DEF RepoStep, NextPackage, PackageTested, RepoTested
    <3>5. QED
      BY <1>1, <1>3, <2>1, <3>2, <3>3, <3>4, Actors
         DEF JsfxStep, ScriptStep, ScriptRuns, PluginStep, UnitStep, ThemeStep, InitRuns,
             PrintVerdict, Again, KillCommand
  <2>3. CASE step' \in {"index", "packages", "aborted"}
    BY <1>1, <1>3, <2>3 DEF Waits, Stopped
  <2>4. CASE DiscoverPackages
    <3> DEFINE layout == IF Flawed("rootfiles") THEN {<<"layout", "failed">>} ELSE {}
               rs == layout \cup {<<"discovery", "passed">>} \cup PackageCap
    <3>1. packages # <<>>
      BY <1>2, <1>3
    <3>2. AddAll(rs) /\ step' = "next package"
      BY <2>4, <3>1 DEF DiscoverPackages, Go
    <3>3. CASE p <= Capped
      BY <1>1, <1>2, <1>3, <2>1, <3>2, <3>3 DEF Waits, Context
    <3>4. CASE p > Capped
      <4>1. Len(packages) > MaxPackages
        BY <1>2, <3>4, PackageAssumption DEF Capped
      <4>2. <<"budget", "skipped">> \in rs
        BY <4>1 DEF PackageCap
      <4> HIDE DEF rs
      <4>3. <<package, "budget", "skipped">> \in results'
        BY <3>2, <4>2, Added
      <4>4. QED
        BY <1>1, <3>4, <4>3 DEF NamedSkip
    <3>5. QED
      BY <1>2, <3>3, <3>4
  <2>5. QED
    BY <2>2, <2>3, <2>4 DEF CheckIndex, Go, Raise
<1>4. CASE package < p /\ p <= Capped /\ ~(step \in {"dispatch", "index", "packages"})
  <2>1. step' # "emitted"
    <3>1. ASSUME step' = "emitted" PROVE package = 0
      BY <3>1, PlaceStep DEF PlaceInv, Context
    <3>2. ASSUME step' = "emitted" PROVE subject.kind = "repo"
      BY <1>1, <3>1, <3>2 DEF SubjectInv, ElseTested, TestedAs
    <3>3. ASSUME step' = "emitted" PROVE step' = step \/ RepoStep
      BY <1>1, <1>4, <3>2, <3>3, Actors, RenderStepKeeps
         DEF JsfxStep, ScriptStep, ScriptRuns, PluginStep, UnitStep, ThemeStep, InitRuns,
             PrintVerdict, Again, KillCommand, Dispatch, Go
    <3>4. ASSUME RepoStep PROVE step' # "emitted"
      <4>1. ~CheckIndex /\ ~DiscoverPackages
        BY <1>4 DEF CheckIndex, DiscoverPackages
      <4>2. ~RepoTested
        <5>1. package # Capped
          BY <1>2, <1>4
        <5>2. QED
          BY <5>1 DEF RepoTested
      <4>3. QED
        BY <3>4, <4>1, <4>2 DEF RepoStep, NextPackage, PackageTested, Go
    <3>5. QED
      BY <1>1, <3>3, <3>4
  <2>2. QED
    BY <1>1, <1>4, <2>1 DEF Waits, Context
<1>5. QED
  BY <1>2, <1>3, <1>4 DEF Waits

LEMMA AnswersStay ==
  ASSUME SubjectInv, CopyInv, [Next]_vars, ~Again, NEW p, NEW flaw
  PROVE  /\ Answered(p, flaw) => Answered(p, flaw)'
         /\ NamedSkip(p, flaw)' => Answered(p, flaw)'
<1>1. /\ results \subseteq results' /\ mishaps \subseteq mishaps'
      /\ UNCHANGED <<given, packages>>
      /\ tested \in {"another", "stale"} => UNCHANGED tested
  BY ResultSteps, MishapsStay, TestedStays DEF Adds
<1>2. Red => Red'
  BY <1>1 DEF Red
<1>3. NamedSkip(p, flaw) => NamedSkip(p, flaw)'
  BY <1>1 DEF NamedSkip, Capped
<1>4. TestedAs(p)' = TestedAs(p)
  BY <1>1 DEF TestedAs
<1>5. BlindSpot(p, TestedAs(p), flaw) => BlindSpot(p, TestedAs(p), flaw)'
  BY <1>1, <1>4 DEF BlindSpot, Sweeps
<1>6. mishaps \cap HiddenBy(TestedAs(p), flaw) # {} =>
        (mishaps \cap HiddenBy(TestedAs(p), flaw) # {})'
  BY <1>1, <1>4 DEF HiddenBy
<1>7. QED
  BY <1>2, <1>3, <1>5, <1>6 DEF Answered

(* A command that has stopped takes up no test again. *)
LEMMA StoppedSteps ==
  ASSUME TypeInv, SubjectInv, EngineInv, Stopped, Next
  PROVE  Again \/ (step # "exited" /\ Stopped')
<1>1. ~Rendering
  BY DEF TypeInv, Stopped
<1>2. ~RenderStep /\ ~RendererWrites
  BY <1>1, RenderStepKeeps
<1>3. ~JsfxStep /\ ~ScriptStep /\ ~PluginStep /\ ~ThemeStep /\ ~RepoStep /\ ~ScriptRuns
      /\ ~InitRuns /\ ~Dispatch
  BY
     DEF Stopped, JsfxStep, StaticParse, Compile, ReadVirgin, Tweak, CheckTweak, Readd,
         PollChunk, SaveOnce, SaveAgain, ReadDefaults, Restore, PrevChunk, LeaveSession,
         JsfxRendering, JsfxRaises, EvalRaises, NoSession, SkipDeterminism,
         SilentWithoutNotes, RenderDue, AskRender, PassOver, TakeRender, AllRendered,
         ScriptStep, ScriptStatic, Load, Supervise, WindowEnds, Snapshot, Register, Watch,
         PingAction, ScriptRaises, ScriptRuns, Deferred, Sight, RunAction, PluginStep,
         Validator, Discover, ThemeStep, Lint, Capture, OpenTheme, Paint, ThemeRaises,
         RepoStep, CheckIndex, DiscoverPackages, NextPackage, PackageTested, RepoTested,
         InitRuns, Dispatch
<1>4. UnitStep => step = "unwind" /\ step' = "aborted"
  BY
     DEF Stopped, UnitStep, Manifest, Install, Validate, LoadUnit, Remove, RenderDue,
         AskRender, PassOver, TakeRender, UnitsRendered, Raise
<1>5. PrintVerdict \/ KillCommand => step # "exited" /\ Stopped'
  BY DEF Stopped, PrintVerdict, KillCommand, Go
<1>6. QED
  BY <1>2, <1>3, <1>4, <1>5, Actors DEF Stopped

LEMMA StoppedStays ==
  ASSUME TypeInv, SubjectInv, EngineInv, Stopped, [Next]_vars, ~Again
  PROVE  Stopped'
BY StoppedSteps DEF Stopped

(* Where another build is tested, all that is due is in the blind spot.    *)
LEMMA ElseIsBlind ==
  ASSUME CopyInv, ElseTested, NEW flaw, Due(flaw)
  PROVE  BlindSpot(package, TestedAs(package), flaw)
<1>1. step \notin {"dispatch", "manifest"} /\ subject.kind = "au"
  BY DEF CopyInv, ElseTested
<1>2. flaw # "manifest"
  BY <1>1 DEF Due, DueInRenders, DueInUnit, AudioDefects
<1>3. QED
  BY <1>2 DEF BlindSpot, ElseTested

LEMMA CoverStep ==
  ASSUME TypeInv, SubjectInv, CopyInv, EngineInv, KnownInv, PlaceInv, CoverInv, [Next]_vars
  PROVE  CoverInv'
<1> SUFFICES ASSUME ~Stopped', NEW p \in Tested', NEW flaw \in TestedAs(p)'.flaws
             PROVE  (p = package /\ Due(flaw))' \/ Waits(p)' \/ NotRun' \/ Answered(p, flaw)'
  BY DEF CoverInv
<1>2. CASE Again
  <2>1. package = 0 /\ packages = <<>> /\ package' = package /\ packages' = packages
    BY <1>2, CappedBounds DEF Again, SubjectInv
  <2>2. p = 0
    BY <2>1 DEF Tested
  <2>3. Due(flaw)'
    BY <1>2 DEF Again, Go, Due
  <2>4. QED
    BY <2>1, <2>2, <2>3
<1>3. CASE ~Again
  <2>0. UNCHANGED <<given, packages>> /\ p \in Tested /\ flaw \in TestedAs(p).flaws
    BY <1>3, TestedStays DEF Tested, TestedAs
  <2>1. ~Stopped
    BY <1>3, StoppedStays
  <2>2. CASE Answered(p, flaw)
    BY <1>3, <2>2, AnswersStay
  <2>3. CASE NotRun
    BY <2>0, <2>3 DEF NotRun
  <2>4. CASE Next /\ UNCHANGED package /\ p = package /\ Due(flaw)
             /\ (UNCHANGED <<subject, tested>> \/ (UnitStep /\ Install))
    <3>1. CASE ElseTested
      <4>1. Answered(p, flaw)
        BY <2>4, <3>1, ElseIsBlind DEF Answered
      <4>2. QED
        BY <1>3, <4>1, AnswersStay
    <3>2. CASE UnitStep /\ Install
      <4>1. Looked(flaw)
        BY <2>4, <3>2, InstallLooks
      <4>2. QED
        BY <2>0, <2>4, <4>1 DEF Looked, NotRun
    <3>3. CASE UNCHANGED <<subject, tested>> /\ subject = TestedAs(package) /\ ~(UnitStep /\ Install)
      <4>1. flaw \in subject.flaws /\ Own
        BY <2>0, <2>4, <3>3 DEF Own, Context
      <4>2. Looked(flaw)
        BY <1>3, <2>4, <3>3, <4>1, LooksStep
      <4>3. QED
        BY <2>0, <2>4, <4>2 DEF Looked, NotRun
    <3>4. QED
      BY <2>4, <3>1, <3>2, <3>3 DEF SubjectInv
  <2>5. CASE Next /\ UNCHANGED Context /\ Waits(p)
    BY <2>0, <1>3, <2>5, WaitsStep, AnswersStay
  <2>5a. ~(UnitStep /\ Install /\ Waits(p))
    <3>1. ASSUME UnitStep PROVE given.kind # "repo"
      <4>1. package = 0
        BY <3>1, SubjectKinds, CappedBounds DEF UnitStep
      <4>2. QED
        BY <3>1, <4>1 DEF UnitStep, SubjectInv, ElseTested, TestedAs
    <3>2. QED
      BY <3>1 DEF Waits
  <2>6. CASE given.kind = "repo" /\ (NextPackage \/ RepoTested)
             /\ (Waits(p) \/ (p = package /\ Due(flaw)))
    <3>1. step = "next package" /\ (NextPackage => package < Capped /\ package' = package + 1
                                                   /\ subject' = packages[package'] /\ step' = "static")
      BY <2>6 DEF NextPackage, RepoTested, Go
    <3>2. ~Due(flaw)
      BY <3>1
         DEF Due, DueInRenders, DueInJsfx, DueInScript, DueInPlugin, DueInUnit, DueInTheme,
             DueInRepo, ResetSteps, SaveSteps
    <3>3. package < p /\ p <= Capped
      BY <2>6, <3>1, <3>2 DEF Waits
    <3>4. package \in Nat /\ p \in Nat /\ Capped \in Nat /\ Capped <= Len(packages)
          /\ DOMAIN packages = 1..Len(packages)
      BY <2>0, CappedBounds DEF Tested
    <3>5. NextPackage
      <4>1. package # Capped
        BY <3>3, <3>4
      <4>2. QED
        BY <2>6, <4>1 DEF RepoTested
    <3>6. CASE p = package + 1
      <4>1. packages[p].kind \in {"jsfx", "script"}
        <5>1. packages \in Repos /\ p \in DOMAIN packages
          BY <2>6, <3>3, <3>4 DEF SubjectInv
        <5>2. QED
          BY <5>1, RepoAssumption
      <4>2. subject'.kind \in {"jsfx", "script"} /\ step' = "static" /\ p = package'
        BY <3>1, <3>5, <3>6, <4>1
      <4>3. Due(flaw)'
        BY <4>2 DEF Due, DueInJsfx, DueInScript
      <4>4. QED
        BY <4>2, <4>3
    <3>7. CASE p # package + 1
      <4>1. package' < p
        <5>1. package' = package + 1
          BY <3>1, <3>5
        <5>2. package + 1 < p
          BY <3>3, <3>4, <3>7
        <5>3. QED
          BY <5>1, <5>2
      <4>2. QED
        BY <2>0, <2>6, <3>1, <3>3, <3>5, <4>1 DEF Waits, Capped
    <3>8. QED
      BY <3>6, <3>7
  <2>7. CASE UNCHANGED vars /\ (Waits(p) \/ (p = package /\ Due(flaw)))
    BY <2>7, DueStays DEF Waits, Capped
  <2>8. Answered(p, flaw) \/ NotRun \/ Waits(p) \/ (p = package /\ Due(flaw))
    BY <2>0, <2>1 DEF CoverInv
  <2>9. QED
    BY <1>3, <2>0, <2>2, <2>3, <2>4, <2>5, <2>5a, <2>6, <2>7, <2>8, SubjectSteps DEF Context
<1>4. QED
  BY <1>2, <1>3

(* Nothing passes of a script that the host cannot run. *)
LEMMA NotRunStep ==
  ASSUME TypeInv, SubjectInv, EngineInv, NotRunInv, [Next]_vars
  PROVE  NotRunInv'
<1> SUFFICES ASSUME NotRun' PROVE NotRunInv'
  BY DEF NotRunInv
<1>1. NotRun /\ given.kind = "script" /\ package = 0 /\ subject = given /\ Has("nopython")
      /\ \A r \in results : r[3] # "passed"
  <2>1. UNCHANGED given
    BY SubjectSteps DEF NotRun, Again
  <2>2. QED
    BY <2>1, CappedBounds DEF NotRun, SubjectInv, ElseTested, TestedAs, NotRunInv, Has
<1>2. step \in {"dispatch", "static", "emitted", "exited"}
  BY <1>1 DEF NotRunInv
<1>3. CASE UNCHANGED <<step, results>>
  BY <1>1, <1>2, <1>3 DEF NotRunInv
<1>4. CASE ScriptStep
  <2>1. Add("battery", "skipped") /\ Emit
    BY <1>1, <1>2, <1>4 DEF ScriptStep, ScriptStatic, Load, Supervise, WindowEnds, Snapshot,
         Register, Watch, PingAction, ScriptRaises, EvalRaises, NoSession
  <2>2. results' = results \cup {<<package, "battery", "skipped">>}
    BY <2>1 DEF Add, AddAll
  <2>3. <<package, "battery", "skipped">>[3] # "passed"
    OBVIOUS
  <2>4. step' = "emitted"
    BY <1>1, <2>1 DEF Emit
  <2>5. \A r \in results' : r[3] # "passed"
    BY <1>1, <2>2, <2>3
  <2>6. QED
    BY <2>4, <2>5 DEF NotRunInv
<1>5. CASE Dispatch
  <2>1. step' = "static" /\ UNCHANGED results
    BY <1>1, <1>5 DEF Dispatch, FirstStep, Go
  <2>2. QED
    BY <1>1, <2>1 DEF NotRunInv
<1>6. CASE PrintVerdict
  <2>1. step' = "exited" /\ UNCHANGED results
    BY <1>6 DEF PrintVerdict, Go
  <2>2. QED
    BY <1>1, <2>1 DEF NotRunInv
<1>7. Next => \/ ScriptStep \/ Dispatch \/ PrintVerdict
              \/ UNCHANGED <<step, results>>
  <2>1. ~JsfxStep /\ ~PluginStep /\ ~UnitStep /\ ~ThemeStep /\ ~RepoStep /\ ~Again /\ ~KillCommand
    BY <1>1 DEF JsfxStep, PluginStep, UnitStep, ThemeStep, RepoStep, Again, KillCommand
  <2>2. ScriptRuns \/ InitRuns => UNCHANGED <<step, results>>
    BY DEF ScriptRuns, Deferred, Sight, RunAction, InitRuns
  <2>3. QED
    BY <2>1, <2>2, Actors
<1>8. QED
  BY <1>3, <1>4, <1>5, <1>6, <1>7

LEMMA GreenStep ==
  ASSUME TypeInv, SubjectInv, EngineInv, PlaceInv, CoverInv, NotRunInv, GreenInv, [Next]_vars
  PROVE  GreenInv'
<1> SUFFICES ASSUME exit' = "green" PROVE step' = "exited" /\ NoFalseGreen'
  BY DEF GreenInv
<1> DEFINE Named(p, flaw) ==
             \/ NamedSkip(p, flaw) \/ BlindSpot(p, TestedAs(p), flaw)
             \/ mishaps \cap HiddenBy(TestedAs(p), flaw) # {}
<1>0. ASSUME UNCHANGED <<results, mishaps, given, packages, tested>>,
             \A p \in Tested : \A flaw \in TestedAs(p).flaws : Named(p, flaw)
      PROVE  NoFalseGreen'
  <2>1. \A p : TestedAs(p)' = TestedAs(p)
    BY <1>0 DEF TestedAs
  <2>2. Tested' = Tested /\ Capped' = Capped
    BY <1>0 DEF Tested, Capped
  <2>3. QED
    BY <1>0, <2>1, <2>2 DEF NoFalseGreen, NamedSkip, BlindSpot, Sweeps, HiddenBy
<1>1. CASE PrintVerdict
  <2>1. step = "emitted" /\ step' = "exited" /\ GateGreen(results)
        /\ UNCHANGED <<results, mishaps, given, packages, tested>>
    BY <1>1 DEF PrintVerdict, ExitOf, Go
  <2>2. ~Red /\ ~NotRun
    BY <2>1 DEF GateGreen, Red, NotRunInv
  <2>3. ASSUME NEW p \in Tested, NEW flaw \in TestedAs(p).flaws
        PROVE  Named(p, flaw)
    <3>1. ~Due(flaw) /\ ~Waits(p) /\ ~Stopped
      BY <2>1
         DEF Due, DueInRenders, DueInJsfx, DueInScript, DueInPlugin, DueInUnit, DueInTheme,
             DueInRepo, ResetSteps, SaveSteps, Waits, Stopped
    <3>2. Answered(p, flaw)
      BY <2>2, <3>1 DEF CoverInv
    <3>3. QED
      BY <2>2, <3>2 DEF Answered
  <2>4. QED
    BY <1>0, <2>1, <2>3
<1>2. CASE exit = "green" /\ Next
  <2>1. step = "exited" /\ Stopped
    BY <1>2 DEF GreenInv, Stopped
  <2>2. ~Again
    BY DEF Again
  <2>3. QED
    BY <1>2, <2>1, <2>2, StoppedSteps
<1>3. CASE UNCHANGED vars
  <2>1. step = "exited" /\ step' = "exited" /\ NoFalseGreen /\ exit = "green"
        /\ UNCHANGED <<results, mishaps, given, packages, tested>>
    BY <1>3 DEF GreenInv
  <2>2. \A p \in Tested : \A flaw \in TestedAs(p).flaws : Named(p, flaw)
    BY <2>1 DEF NoFalseGreen
  <2>3. QED
    BY <1>0, <2>1, <2>2
<1>4. exit' = exit \/ PrintVerdict
  BY DEF Next, Program, AudioThread, Renderer, Reaper, Kill, Dispatch, Again
<1>5. CASE Next
  <2>1. PrintVerdict \/ exit = "green"
    BY <1>4
  <2>2. QED
    BY <1>1, <1>2, <1>5, <2>1
<1>6. QED
  BY <1>3, <1>5

-----------------------------------------------------------------------------
(* Theorems *)

LEMMA VerdictAtFirst == Init => VInv
<1> SUFFICES ASSUME Init PROVE VInv
  OBVIOUS
<1>1. IInv /\ KnownInv
  BY Initially, KnownAtFirst
<1>2. step = "dispatch" /\ package = 0 /\ results = {} /\ exit = "none"
  BY DEF Init
<1>3. CoverInv
  <2>1. ASSUME NEW p \in Tested PROVE p = 0 \/ Waits(p)
    <3>1. CASE given.kind = "repo"
      <4>1. p \in Nat
        BY <1>1, CappedBounds DEF IInv, Tested
      <4>2. QED
        BY <1>2, <3>1, <4>1 DEF Waits
    <3>2. CASE given.kind # "repo"
      BY <3>2 DEF Init, Tested
    <3>3. QED
      BY <3>1, <3>2
  <2>2. QED
    BY <1>2, <2>1 DEF CoverInv, Due
<1>4. PlaceInv /\ NotRunInv /\ GreenInv /\ FailureNamesDefect /\ ResetPassIsProof
  BY <1>2 DEF PlaceInv, NotRunInv, GreenInv, FailureNamesDefect, ResetPassIsProof
<1>5. QED
  BY <1>1, <1>3, <1>4 DEF VInv

LEMMA VerdictInductive == VInv /\ [Next]_vars => VInv'
<1> SUFFICES ASSUME VInv, [Next]_vars PROVE VInv'
  OBVIOUS
<1>1. TypeInv /\ SubjectInv /\ CopyInv /\ TestsOwnBuild /\ EngineInv /\ IInv' /\ KnownInv
      /\ PlaceInv /\ CoverInv /\ NotRunInv /\ GreenInv /\ FailureNamesDefect /\ ResetPassIsProof
  BY Inductive DEF VInv, IInv
<1>2. KnownInv' /\ PlaceInv' /\ CoverInv' /\ NotRunInv' /\ GreenInv'
  BY <1>1, KnownStep, PlaceStep, CoverStep, NotRunStep, GreenStep
<1>3. FailureNamesDefect' /\ ResetPassIsProof'
  BY <1>1, VerdictStep
<1>4. QED
  BY <1>1, <1>2, <1>3 DEF VInv

LEMMA VerdictInvariance == Spec => []VInv
BY VerdictAtFirst, VerdictInductive, PTL DEF Spec

LEMMA GreenIsCovered == GreenInv => NoFalseGreen
BY DEF GreenInv, NoFalseGreen

(* Whatever subject or repository a command was given, with any number of  *)
(* defects at once and any of its options: it exits with 0 only if every   *)
(* defect the batteries look for was named as not looked for in the report,*)
(* or is in a blind spot of theirs (what --quick and --no-sweep leave out  *)
(* and an Audio Unit another build stands in for are in it), or was hidden *)
(* by what has happened (runner/*.py, report/results.py).                  *)
THEOREM GreenMeansLookedFor == Spec => []NoFalseGreen
BY VerdictInvariance, GreenIsCovered, PTL DEF VInv

(* A failed result of an undisturbed run is about a defect its subject, or *)
(* the build tested in its place, has, whatever the order of REAPER's      *)
(* threads, the earlier stages and the other packages, but for the false   *)
(* alarms named in the model, @init that lands between two reads of the    *)
(* chunk among them.                                                       *)
THEOREM FailuresAreFounded == Spec => []FailureNamesDefect
BY VerdictInvariance, PTL DEF VInv

(* jsfxtest.py: after a factory reset that has passed, in an undisturbed   *)
(* run, nothing has leaked that has a way into the chunk, and a tweak shows*)
(* in the chunk unless its payload is volatile.                            *)
THEOREM PassedResetIsProof == Spec => []ResetPassIsProof
BY VerdictInvariance, PTL DEF VInv

=============================================================================
