# ReaProof: a verification development

ReaProof tests REAPER plugins, scripts and extensions by driving a real REAPER.
This directory holds TLA+ models of the parts of ReaProof that decide whether
its verdicts can be believed, the TLC configurations that check them on small
instances, and proofs, checked by TLAPS, that the central properties hold for
every value of the bounds. `PROJECT.json` lists the components, the runs, the
theorems, the hazards and, for every definition, the source lines it models.

## 1. The system

A runner (a CLI command or a pytest session) opens a **session**; the session
assembles an isolated profile, launches REAPER on it and talks to a Lua
**bridge** inside REAPER through files; **observers** look at REAPER from
outside (dialogs, crash reports, hygiene, audio, pixels); **batteries** drive a
subject through all of it and produce a **report**.

```
 batteries, pytest plugin, CLI          report: results, provenance
        |        \___________________________/
        v
 session -------- provisioner (macOS / Linux / Windows), plugin cache
   |   \________  observers: dialog monitor, crash-report watcher,
   v              hygiene, audio render, visual capture
 bridge client  == run directory ==>  Lua bridge (inside REAPER)
```

| component | state it keeps | operations | what is hard | what makes it correct |
|---|---|---|---|---|
| bridge client (`control/bridge_client.py`) | `_seq`, `env`, per call: start, `last_tick`, `last_advance` | `wait_ready`, `eval`, `wait_until`, wrapping of Lua expressions, decoding of responses | polls files of a process that may hang, die or answer late; clock and heartbeat are read at different times | no false answer; no answer lost to a crash verdict; verdicts name the right fault; every call ends |
| Lua bridge (`bridge/reaproof_bridge.lua`) | `tick`, the listing, `n` serviced | announce, heartbeat, list, run a chunk, publish the response | chunk and response are two steps; writes may fail; 16 requests per tick | executes in order, at most once while writes succeed, answers what it ran |
| run directory | `cmd/in`, `cmd/out`, `heartbeat.json`, `ready.json` | purged by every launch | files survive a relaunch; an unlink may fail | nothing of an earlier launch is ever taken for an answer |
| session (`runner/session.py`) | profile, `handle`, `bridge`, `crash_watcher` | `start`, `stop`, `restart`, `_quit_cleanly`, `__exit__`, `session()`, snapshots, artifacts | exceptions in every phase, two context-manager spellings, relaunches | no orphan, one REAPER per profile, evidence for failures, clean restarts lose nothing |
| provisioners (`provision/*.py`) | profile on disk, pid | assemble, launch, `is_alive`, terminate, reset of the run directory | processes that outlive their launcher, zombies, locked files | a launch is fresh, a teardown complete |
| plugin cache (`provision/plugin_cache.py`) | cache files of plug-in hashes | complete, write entries | stale hashes re-trigger a scan that may hang | every present plug-in has a current entry in the right section |
| dialog monitor, crash watcher (`observe/watchdog.py`) | sightings, known report files | poll, dismiss, collect | a thread beside REAPER and the battery; reports are written asynchronously | panels and crashes are blamed on their cause |
| hygiene (`observe/hygiene.py`) | a snapshot | snapshot, diff | declared and undeclared changes | every undeclared change is reported |
| audio (`observe/audio/*`), visual (`observe/visual/*`) | rendered and captured files | render, analyse, capture, diff, golden | a file may be read before it is complete | a verdict is about the whole rendered signal |
| pytest plugin (`runner/pytest_plugin.py`) | one record per test, quarantine set | repeat, record, quarantine, mutation check, report | hooks of three phases times N runs overwrite one record; pytest logs only the last run | a flaky, failed or vacuous test never reads as green |
| quarantine, mutation (`runner/quarantine.py`, `mutation.py`) | outcomes | evaluate, repeat, mutation check | agreement of runs, surviving mutants | disagreement is never a pass, an assertion nothing kills never verifies |
| report (`report/*`) | results, provenance | gate, JUnit, JSON | several artifacts about one session | they tell one story |
| offline render (`observe/audio/render.py`) | the session that builds the project, the renderer process, the output file | build, launch the renderer, poll until stable, reap | the renderer is another process: it pauses, straggles, stalls; `open` may fail after it started one | one REAPER at a time, nothing left running, every render ends |
| batteries (`runner/{exttest,scripttest,jsfxtest,aubattery,repotest,themetest,autotest}.py`) | a result list, per-stage state | stages of one subject | an engine that hangs, dies or shows panels half-way; the audio thread and the defer loop of REAPER run when they like; caps and skips | every stage reports, nothing passes untested, no sound subject is blamed, what was installed is removed |
| `reaproof test` (`runner/cli.py`) | the exit code | dispatch by suffix, verdict | early returns and exceptions of seven batteries end in one exit code | exit 0 only after everything was looked at or named as skipped |
| dependency walk (`runner/jsfxtest.py`), installation (`provision/base.py`) | files seen, files to install, missing references | walk, install beside the subject | cycles, two names of one file, references upwards, a silent cap | what is installed resolves as it does at home |
| coverage, determinism, paths, authoring, scaffold | configuration and text | validate, derive, generate | little | mostly total functions on text |

Interaction is by calls, except: client and bridge share only the run
directory; the dialog monitor is a thread of its own; the operating system
writes crash reports when it likes; REAPER itself runs, hangs and dies
independently of everything.

## 2. Modules

| module | models | source |
|---|---|---|
| `RunDir` | the shared files, the processes' clock, the purge by a launch | `provision/base.py` `_reset_run_dir`, file names of both sides |
| `Bridge` | the Lua bridge | `bridge/reaproof_bridge.lua` |
| `BridgeClient` | `wait_ready` and `eval` | `control/bridge_client.py` |
| `FileQueue` | the three composed, time, death and relaunch | all of the above |
| `Rpc` | what the control channel promises, without files or polls (abstract) | - |
| `FileQueueProofs` | theorems about `FileQueue`: types, no false answer, order and number of executions, crash, hang and readiness verdicts, and that it implements `Rpc` | - |
| `Session` | `ReaperSession`, `session()`, the crash watcher, launch and liveness of the platforms | `runner/session.py`, `provision/*.py`, `observe/watchdog.py` |
| `SessionProofs` | theorems about `Session` | - |
| `PytestPlugin` | the plugin's hooks, what pytest does around them, the gate | `runner/pytest_plugin.py`, `report/results.py` |
| `PytestPluginProofs` | theorems about `PytestPlugin` | - |
| `ExtensionBattery` | the extension battery, the dialog monitor, REAPER's defer loop | `runner/exttest.py`, `observe/watchdog.py`, `observe/hygiene.py` |
| `ExtensionBatteryProofs` | theorems about `ExtensionBattery` | - |
| `Battery` | what the other batteries share: subject, results, gate, session, exceptions | `runner/*.py`, `report/results.py` |
| `OfflineRender` | one offline render with its two REAPERs, and the loop over a plan of renders | `observe/audio/render.py`, `runner/autotest.py` |
| `JsfxBattery`, `ScriptBattery`, `PluginBattery`, `AudioUnitBattery`, `ThemeBattery`, `RepoBattery` | the stages of each battery, with the actor each of them races | `runner/{jsfxtest,scripttest,autotest,aubattery,themetest,repotest}.py` |
| `TestCommand` | the command: dispatch, the batteries composed, verdict and exit code | `runner/cli.py` |
| `TestCommandProofs` | theorems about `TestCommand`: types, what a command leaves behind, whose build it tests | - |
| `TestCommandVerdictProofs` | theorems: exit code 0, failed results and the factory reset mean what they say | - |
| `PluginCache` | the completion of the VST scan cache, line by line, and what REAPER scans | `provision/plugin_cache.py` |
| `Dependencies` | the dependency walk of a JSFX and the installation of what it found | `runner/jsfxtest.py`, `provision/base.py` |
| `Profile` | the two composed: the profile a JSFX is launched in | `provision/base.py` |
| `PluginCacheProofs` | lemmas about `PluginCache`: what `_write_entries` makes of any file | - |
| `ProfileProofs` | theorems about `Profile`: what a completed cache covers and keeps, where references lead | - |
| `MCTestCommand`, `MCProfile` | the subjects, trees and cache files TLC tries | - |

**RunDir, Bridge, BridgeClient, FileQueue.** A request or response file is
abstracted to the number of the launch whose client wrote the request (0: no
file); a response also says ok or error. That is what the properties tell
apart: whether an answer is to this request of this client. `Bridge` has one
action per step of `loop()` between which REAPER may stop or die: heartbeat,
listing, running a chunk, writing its response, re-arming. `BridgeClient` has one
action per look at the shared state: `eval` publishes (`Submit`), looks for the
response (`CheckResponse`), reads clock and heartbeat (`ReadHeartbeat`), probes
the process and decides (`Probe`), and has a last look at the response when
REAPER is gone (`Grace`). `wait_ready` is `WaitReady` and `ReadyOrDead`. Time is
an integer; `Tick` advances it while a client waits. The client may be preempted
for up to `MaxSkew` between reading the clock and reading the heartbeat.
`LossyWrite` lets the bridge's `atomic_write` give up, `LossyPurge` lets an
unlink in `_reset_run_dir` fail, `ZombieProbe` is the liveness probe of Linux.

**Session.** `pc` is the place in `start()`, the body, `restart()` or
`__exit__`; `manager` is the spelling (`with ReaperSession()` or `session()`),
which decides who sees an exception of `start()` (`RaisedTo`). A process is named
by the number of its launch. The control channel enters with its verdicts only:
`wait_ready` returns or raises. Everything that may raise may raise: assembling,
launching (with or without a REAPER left behind) and the snapshot itself. What a
handler does is a step each, so that Ctrl-C may come between: snapshot and stop of a
failed start or restart (`HandlerSnapshot`, `HandlerStop`), then snapshot, artifacts
and stop of the exit (`ExitSnapshot`, `CollectArtifacts`, `ExitStop`). `Interrupt` says
where a KeyboardInterrupt leads from each of them: on to the exit handler, or, from
within it, out of the session, with REAPER left as it is. Only the snapshot of
`session()` is in a `try` whose `finally` still stops. `mishaps` remembers what the
promises except.

**PytestPlugin.** One action per phase of a run (`Setup`, `Call`, `Teardown`), the
judgement after the last run and the end of the session. `status[t]` is the one
record `makereport` keeps per test; `logged` is what pytest counted, which it
does for the last run only, and when the report is made. The record is made of the
exception of a phase (`call.excinfo`), the exit status of pytest's report of it, which
may be another outcome (`Reported`): an exception of an xfail, or `pytest.xfail()`, is
reported as a skip, and no exception of a strict xfail as a failure. `Expected` and
`Strict` are the tests so marked, and `forgiven` those of which pytest logged an
exception as a skip.

**ExtensionBattery.** How the extension is named, loaded and registered is chosen
at the start (`subject`, `kind`). The battery, REAPER's main thread and the monitor thread
interleave freely. An eval is served when the main thread is free and raises
when it is blocked, hung or dead (that it always does one or the other is
`EvalReturns` of `FileQueue`). What an action does to REAPER it may do at once or by a
timer later: open a panel (`LatePanel`) or change the state (`LateLeak`), also while a
later action is at work.

**Battery and what extends it.** A subject is a record of its kind, its *traits*
(what it is and has: sliders, saved state, a window, an `@init` that shows in its
chunk, a registered component; and the options of the command, `quick` and `nosweep`)
and its *flaws* (defects a report ought to name).
A result is the package, the stage and a status; its message is left out.
*Mishaps* are events outside of the subject: REAPER dies under an eval, `open`
fails, a disk is full, a renderer pauses, a window of time is too short, the
command is killed. `MaxMishaps` bounds them, and the properties name those they
except. An action is a stage, or the part of one between two looks at
something that another process or thread changes:

- `OfflineRender` has the host of a render (`Host`), whose launch may fail with a REAPER
  that comes up nonetheless, and the renderer (`RendererWrites`), which writes block by
  block, while `Poll` and `Settle` look at the size of its file; `Leave` is the
  `finally` that reaps it. A file above `Threshold` blocks that keeps its size counts as
  complete, which a truncated one may. `left` holds the REAPERs that run on and that no
  code refers to any more.
- `JsfxBattery` has REAPER's audio thread (`InitRuns`), which runs `@init` of an
  instance some time after it was inserted: between the polls of the factory reset's
  settle window, or, since that ends at the first difference, between the reads of the
  stages that follow (two saves, a truncated restore). A read of the chunk
  (`ChunkShows`) has the line of the sliders and the payload of `@serialize`; `@init` may
  show in either (`initshows`, `initsaves`), a volatile payload in every read, and what
  leaks unless it has no way into the chunk (`nochannel`), which
  `tests/test_jsfx_battery.py` says of Linux.
- `ScriptBattery` has REAPER's main thread with its defer loop (`ScriptRuns`) and
  the panels the monitor sees.
- `AudioUnitBattery` has a components directory that outlives the command, which
  may be killed and run again on a rebuilt subject (`KillCommand`, `Again`). Which build
  answers for the codes, when several are registered, is macOS's choice (`Answering`);
  from then on `subject` is the build that is tested, and auval, load and renders judge
  its flaws, while `given` stays what the command was asked about.
- `ThemeBattery` and `RepoBattery` are sequential; the latter runs the other
  batteries on its packages.

**PluginCache, Dependencies, Profile.** A cache file is a sequence of lines, a
section header or an entry with its key and mtime; `WriteLine` is the loop body
of `_write_entries`, a recursive function of the lines its run. A path is a sequence
of names (`Names`, which include the `..`, the root and the two directories of
`Effects/ReaProof`); `Normal` is `os.path.normpath` on top of a join, name by name
(`Descend`); the recursion of `walk` is the variable `stack`. `ChangeDisk` lets
plug-ins come, go and change between completion and launch. A profile's cache comes from
the project's directory if there is one, with a cache file in it or without, else from
the user's (`Sources`).

Operators named `Mut...` are not part of the models: each is a plausible bug (a
dropped guard, a wrong order, a missing reset) to put in the place of the
operator defined right after it, and shows that the property listed with it in
`PROJECT.json` can fail.

## 3. What the runs check

| run | bounds | shows |
|---|---|---|
| `queue_safety` | 3 evals, 2 launches, batches of 2, clock to 4, skew 1 | `NoFalseAnswer`, `CrashLosesNoAnswer`, `DeadReaperIsACrash`, `HangOnlyAfterSilence`, `ExecutedInOrder`, `AtMostOnce`, `ReadyIsFresh` |
| `queue_faulty` | 2 evals, 2 launches, batches of 1, writes may fail | `FileQueue` refines `Rpc`; only unanswered requests run again; every eval ends; every sent request is executed |
| `session` | 3 launches, 2 stored values, Ctrl-C at every step | `NoOrphan`, `OneReaper`, `FailureHasEvidence`, `CleanRestartKeepsState`, `FirstCrashIsReported` |
| `pytest_plugin` | 2 tests, one of them a strict xfail, 2 runs each, all exceptions of all phases, all reports of them, Ctrl-C | `PassedInEveryRun`, `ReportAndExitAgree`, `ReportIsComplete`, `VacuousFailsSession` |
| `extension_battery` | 3 actions of 3 kinds, 7 effects each | `PassedIsClean`, `LeakBlame`, `BatteryEnds` |
| `test_command` | 252 subjects of 7 kinds, all but two with at most one flaw, 7 repositories, 1 mishap, 3 blocks of output, 2 parameters with a cap of 1, 2 runs | `NoFalseGreen`, `FailureNamesDefect`, `ResetPassIsProof`, `NothingLeftRunning`, `OneReaper`, `ComponentRestored`, `TestsOwnBuild`, `CommandEnds` |
| `profile` | 6 files with every choice of up to 2 references, a cap of 4; 12 cache files, 2 bundles in 2 directories, 2 mtimes, 1 change | `KnownIsNotScanned`, `ResolvesAlike`, `RewriteKeepsRest` |

Why the bounds are enough. *Queue*: two launches are needed for anything stale, two
requests for overtaking, three with batches of two for a batch that ends in the middle
of a listing; the timeouts need a clock that passes each of them, and a heartbeat that
passes the tick read before the request. Nothing in the code looks further back than
that: the client compares with the last tick only, the bridge with the files only.
*Session*: the third launch is the one after a restart that itself followed a restart;
two stored values distinguish what the last clean quit flushed from what came before it.
*Plugin*: disagreement takes two runs; two tests are needed for one record to hide
behind another's exit status, and the marked one is strict, since a plain xfail differs
from that only where it passes, and is then an ordinary test. *Extension*: an action
after one after another shows what lingers, and what a timer of the first does under the
second or the third. *Command*: a verdict is to be about one defect, so subjects have
one flaw or none (a plug-in has two, where one hides the other, and a JSFX that is
volatile and leaks), and are tried with every set of traits that changes the battery's
way; with one mishap every exception of a property is shown to be needed by itself, and
a second one adds to what is excepted already; three blocks of output are one that is
too small to look at, one that is truncated and one that is complete; one parameter and
one component beyond the cap, and a third package, are what a cap leaves out; the second
run of the command is the one that finds what the first has left. *Profile*: two
directories make twins, a second section makes orphans, a change after the completion
makes stale entries; two references per subject and one per library reach every file by
two ways, below, beside, above and too far above the subject, a sixth file is a namesake
of what the subject's directory becomes, and a cap of four is met; of the cache files
two have `[vstcache]` twice and one an entry twice. Walk and cache do not meet, so a
tree is tried with one cache and a cache with one tree. The bounded counters saturate or
stop (`MaxTick`, `MaxClock`, `MaxSeq`, `MaxLaunch`, `MaxStored`), so the behaviours end
there, and the runs that reach such an end, or a program that is over, do not ask about
deadlock.

Fairness. `EvalReturns` assumes that the client's thread is scheduled and the
clock advances, nothing of REAPER. `SentIsExecuted` additionally assumes, as an
antecedent, that REAPER's defer loop runs while the process lives, which is what
REAPER does when nothing blocks it; it excepts a request starved by `Batch`
earlier ones whose responses cannot be written, since those are listed first in
every tick. `BatteryEnds` assumes that the battery's thread runs, and REAPER's
while it is not blocked. `CommandEnds` assumes that the command's thread runs,
REAPER's audio thread and defer loop while they can, and a renderer as long as its
subject does not stall: of one that does nothing is assumed, and the render's
deadline ends the wait. Each is weak fairness: a thread that is always able to
go on eventually does.

### Disagreements between code and documentation

Five runs end in a violation, each of a sentence of the sources; the exact
quotations are in `PROJECT.json`.

- `zombie_reaper` (`DeadReaperIsACrash`): on Linux `is_alive` signals a child that
  nobody waits for. A dead REAPER stays a zombie, looks alive, and its death is
  reported as a hang or timeout. (In `Session`, with `ZombieProbe`, the same
  probe makes every clean `restart()` time out.)
- `session_lost_report` (`CrashIsReported`): `restart()` does not tell the crash
  watcher the new pid, so the crash report of a relaunched REAPER is dropped by the sweep
  of `session()`'s exit handler. The property is about that spelling, and a teardown that
  was not cut short: only there is a sweep after every way out. The trace launches twice.
- `pytest_flaky_exit` (`FlakyFailsSession`): a test that fails and then passes is
  recorded as quarantined, but pytest has already logged the passing run, and
  exits with 0.
- `extension_blame` (`PanelBlame`): the monitor's sightings accumulate; after the
  first panel every later action is failed for it.
- `reset_blame` (`ResetBlame`): the factory-reset stage compares the re-added
  instance with the virgin block before its `@init` has run on the audio thread
  as well as after, and takes the first difference for a leak: a sound JSFX whose
  `@init` shows in its chunk may fail it.

Others are visible in the exceptions the passing properties make: `NoOrphan` excepts a
REAPER that macOS `open` started but whose pid was not found, the one of a `with
ReaperSession()` whose `start()` was interrupted or could not write its snapshot, and
the one of a teardown that Ctrl-C cuts short before `stop()` is done (`cutshort`);
`FailureHasEvidence` excepts the last two as well, a profile that was not assembled, a
snapshot that could not be written, and a `launch()` that fails under the first
spelling; `CleanRestartKeepsState` excepts a REAPER that crashes while it quits, which
counts as a clean quit; `PassedInEveryRun` speaks of the last teardown of a test only,
because the record of an earlier run is overwritten, and excepts the calls of a strict
xfail, whose passing is a failure to pytest and a pass to the record;
`ReportAndExitAgree` excepts a skipped test whose teardown raises, since only a record
that says passed is downgraded, that strict xfail, and an exception that pytest reports
as a skip (an xfail, `pytest.skip()` in a teardown), which is recorded as failed while
pytest exits with 0. `LeakBlame` excepts changes that a timer of an action makes late:
one that lands between the two snapshots of a later action is blamed on that one, and
nothing in the battery could tell; `PassedIsClean` excepts late panels and changes for
the same reason. In the extension battery an action that hung the engine makes the next
one's first eval raise out of the battery, and no report is written (`BatteryEnds`
counts that as an end).

`NoFalseGreen` excepts what a green report neither covers nor names (`BlindSpot`):
the sound of a repository's packages, which are not rendered, nor is a JSFX or Audio
Unit under `--quick`; the parameters, under `--no-sweep`, of either of which no result
says anything; everything but the manifest of an Audio Unit whose codes another build
answers for, since auval, load and renders are that one's; a leak that has no way into
the chunk, as on Linux; a render that was cut off, of a plug-in or Audio
Unit, whose lengths are not
looked at, while `jsfxtest.py` says "a truncated result must never read as
pathology-free"; parameters beyond `--max-params`, which only the log mentions;
noise that an instrument makes when nothing is played; the window of a script that
is not Lua and is not loaded; the saved state of a JSFX without a slider to tweak, and what a
truncated one does where there is no payload to truncate.
And it excepts what another
event can hide (`HiddenBy`): a script that fails after the settle time, a slow
`@init`, a renderer that pauses, a window resized between two captures, two volatile saves
that are the same by luck.
`FailureNamesDefect` excepts the false alarms (`FalseAlarm`): a reset check on a
chunk that shows no tweak, or shows `@init`, or has a volatile payload; the checks of
repeated saves and of a truncated restore where `@init` may land between the two reads
they compare, which takes an early end of the reset's window; the determinism check of a
silent subject; a repository without packages. And it takes a defect of the build that
was tested in place of an Audio Unit for one, though the subject is blamed for it.
`ResetPassIsProof` is about leaks that have a way into the chunk.
`ComponentRestored` excepts a copy that
failed half-way, a removal that failed (its errors are ignored) and a killed
command; `NothingLeftRunning` a REAPER that `open` started although it failed or its pid
was not found, of a battery's session (`NoSession`), a render's host or a renderer, and
the session of a render whose input file could not be written, since all of these come
before the `try` whose `finally` would stop them. `OneReaper` counts them: a REAPER that
is launched beside one that was left needs one of those mishaps before.

`KnownIsNotScanned` excepts keys that are shared by bundles with different mtimes
in two directories (each completion writes the other's), keys that
have an entry in another section (it is refreshed there, and `[vstcache]` never
gets one), and bundles that cannot be stat'ed, of which the code warns.
`ResolvesAlike` excepts a walk that met its cap, files that are installed but not
walked because of their suffix, a file that is referred to by two names that
lead to two places in the profile (it is walked once, under the first), and namesakes:
the subject is installed in `Effects/ReaProof`, whatever its own directory is called, so
the files of a directory beside it that is named `ReaProof` are installed among the
subject's own, and of two at one place the later one stays. `RewriteKeepsRest` excepts a
file whose `[vstcache]` is in two parts: an entry that is pending at the end of the
first part is inserted there, though the second may have its key.
With `LossyPurge` a queue file that cannot be unlinked survives a relaunch and
answers the new client's first request: `NoFalseAnswer` needs a complete purge.

## 4. What is proved

TLAPS checks every proof below; the theorems hold for every value of the bounds,
the timeouts and the batch size, under the assumptions on constants that the
modules name (`RunDirAssumption`, `BatchAssumption`, `ClientAssumption`,
`SessionAssumption`, `PluginAssumption`, `BatteryAssumption`, `MishapAssumption`,
`RenderAssumption`, `ComponentAssumption`, `PackageAssumption`: the bounds are
naturals, the switches Booleans, a render that is too short to look at is shorter
than a complete one). Two assumptions say what may be given to the command.
`SubjectAssumption`: a subject has any set of the defects that a thing of its kind
with its traits can have (`Defects`): a JSFX without an output makes no sound, one
without sliders has no parameters, a script in another language than Lua is not
linted as Lua. `RepoAssumption`: a
repository is a sequence of such JSFX and scripts, the scripts with a header and
none of them in Python, which is what `discover_packages` takes. Three say what a
profile is made of. `WorldAssumption`: the subject is one of the files, no file is a
directory of another one, a file's path leads straight down, and a reference has a
name at least; which files there are, what they refer to and what the caches hold is
free. `WalkAssumption`: the names that the code itself writes are names.
`CacheAssumption`: finitely many directories and bundles, the directories numbered in
the order of the scan, and no bundle with the name of a section. A failure
mode that a theorem excludes is in its statement, as `~LossyPurge` (a relaunch
can unlink the queue files), `~LossyWrite` (the bridge's writes succeed) or
`~ZombieProbe` (the liveness probe tells the dead from the living).

| theorem | module | shows | excludes |
|---|---|---|---|
| `TypeCorrect` | `FileQueueProofs` | `TypeOK` | - |
| `AnswersAreGenuine` | `FileQueueProofs` | `NoFalseAnswer` | `LossyPurge` |
| `OrderIsKept` | `FileQueueProofs` | `ExecutedInOrder` | `LossyPurge` |
| `NoChunkRunsTwice` | `FileQueueProofs` | `AtMostOnce` | `LossyPurge`, `LossyWrite` |
| `RerunsNeedALostResponse` | `FileQueueProofs` | `RerunsOnlyUnanswered` | - |
| `CrashVerdictIsFinal` | `FileQueueProofs` | `CrashLosesNoAnswer` | - |
| `DeathIsACrash` | `FileQueueProofs` | `DeadReaperIsACrash` | `ZombieProbe` |
| `ReadinessIsFresh` | `FileQueueProofs` | `ReadyIsFresh` | - |
| `HangNeedsSilence` | `FileQueueProofs` | `HangOnlyAfterSilence` | `LossyWrite` |
| `FileQueueImplementsRpc` | `FileQueueProofs` | `ImplementsRpc` | `LossyPurge` |
| `TypeCorrect` | `SessionProofs` | `TypeOK` | - |
| `TeardownIsComplete` | `SessionProofs` | `NoOrphan` | - |
| `AtMostOneReaper` | `SessionProofs` | `OneReaper` | - |
| `FailuresHaveEvidence` | `SessionProofs` | `FailureHasEvidence` | - |
| `RestartKeepsState` | `SessionProofs` | `CleanRestartKeepsState` | - |
| `FirstCrashIsCollected` | `SessionProofs` | `FirstCrashIsReported` | - |
| `TypeCorrect` | `PytestPluginProofs` | `TypeOK` | - |
| `NeverRetriedToGreen` | `PytestPluginProofs` | `PassedInEveryRun` | - |
| `NoInvisibleTests` | `PytestPluginProofs` | `ReportIsComplete` | - |
| `VacuousTestsFail` | `PytestPluginProofs` | `VacuousFailsSession` | - |
| `OneStory` | `PytestPluginProofs` | `ReportAndExitAgree` | - |
| `TypeCorrect` | `ExtensionBatteryProofs` | `TypeOK` | - |
| `NoHollowPass` | `ExtensionBatteryProofs` | `PassedIsClean` | - |
| `LeaksAreBlamedRightly` | `ExtensionBatteryProofs` | `LeakBlame` | - |
| `TypeCorrect` | `TestCommandProofs` | `TypeOK` | - |
| `HostIsLeftClean` | `TestCommandProofs` | `NothingLeftRunning` | - |
| `OneReaperAtATime` | `TestCommandProofs` | `OneReaper` | - |
| `ComponentIsRestored` | `TestCommandProofs` | `ComponentRestored` | - |
| `OwnBuildIsTested` | `TestCommandProofs` | `TestsOwnBuild` | - |
| `GreenMeansLookedFor` | `TestCommandVerdictProofs` | `NoFalseGreen` | - |
| `FailuresAreFounded` | `TestCommandVerdictProofs` | `FailureNamesDefect` | - |
| `PassedResetIsProof` | `TestCommandVerdictProofs` | `ResetPassIsProof` | - |
| `TypeCorrect` | `ProfileProofs` | `TypeOK` | - |
| `KnownNotScanned` | `ProfileProofs` | `KnownIsNotScanned` | - |
| `RewritingKeepsRest` | `ProfileProofs` | `RewriteKeepsRest` | - |
| `ResolvesLikeAtHome` | `ProfileProofs` | `ResolvesAlike` | - |

What happens to a command is not excluded by a hypothesis: the properties
themselves name the mishaps that excuse a step, and the theorems hold for any
number of mishaps and of runs.

**The file queue.** `TypeInv` adds to the types that an answer is only looked for
under a request's number and that a batch is not yet full when a response is
published; without these a step could leave the types. `Phases` relates the three
places (process, bridge, client). The invariants on top of them:

- `QueueIsFresh`: every request in the directory is this launch's and one of the
  client's first `seq`; every response belongs to a request this launch executed.
  `NoFalseAnswer` is not inductive without it: a response left behind would be
  returned by the next poll. The relaunch case is where `~LossyPurge` is used.
- `ListingComplete`: whatever precedes a listed request is listed too or has been
  executed. So the smallest listed request is the next one in the order of
  sending, which is `ExecutedInOrder`.
- `ExecutedIsAnswered`: an executed request has its response, or it is being
  published; so no listing contains it. A death between the two steps is
  harmless, since the next launch starts from an empty queue.
- `ListedIsUnanswered`: within a tick a response is only written for a request
  that has left the listing.
- `DeathIsSeen`: only a relaunch brings REAPER back, and a client that is inside an
  eval does not relaunch; so what the last look of `Grace` does not find is never
  written.
- `ReadyInv`: the bridge announces itself once per launch, while the client is
  still waiting.
- `StallInv`: while the heartbeat shows nothing new, its age and `MaxSkew` together
  are at least the time since the client last saw an advance. With `LossyWrite` this
  fails: a rename that removes the old file hides a tick from the client.

The refinement proof goes through the steps of the bridge and the client under the
mapping `R`: `Relaunch` is `Connect`, `Submit` is `Call`, `Execute` is `Execute`
or, for a request that runs again, nothing; `Publish` is `Reply`; a poll is
`Return`, `DeclareCrash`, `GiveUp` or nothing.

**The session.** `TypeOK` is not inductive: `_quit_cleanly` polls the process of
`handle`, so the invariant has to say that there is one. `IInv` adds `HandleInv` (where
a handle must exist, and that it is the newest process), `RunningInv` (a process that
runs is the newest one, held by the handle or lost by a stated mishap) and `DiskInv`
(what clean quits promised is on disk, and a quit that has ended by itself flushed all
that was stored). `NoOrphan`, `OneReaper` and `CleanRestartKeepsState` follow from
`IInv`. `WatchInv` says that the crash watcher is told of launch 1 or of none, because
`start()` runs once and before any `restart()`; so the sweep of the exit handler takes
up what the OS has written of that launch (`FirstCrashIsReported`, by `SweptInv`, from
the sweep on). `EvidenceInv` says that an exception that is past its snapshot has one,
or a reason to have none; when the session is over that is `FailureHasEvidence`.

**The pytest plugin.** `ItemInv` says what the plugin remembers of the item at
work, phase by phase; `PassedInv` that an outcome that stands as passed has been
passed in every run so far; `RecordInv` that every run ends with a record;
`LoggedInv` that what pytest has logged as failed is recorded as no pass, a strict xfail
apart, and what is recorded as failed was logged or forgiven, of which only the last run
of a test is.
Only a finish or an interrupt ends a session, so the statements about the report
and the exit code have one step to look at, and are stable after it.

**The extension battery.** Every step of the three processes is one of six kinds
(`Steps`): it ends the battery, moves it to another stage, sends an action, runs what
was deferred, opens a panel, or leaks late. `EffectInv` says that what REAPER still has
to run has had no effect and that only actions that ran have leaked; `WindowInv` that
between the two snapshots of an action nothing but that action runs, so that the second
differs from the first by its leak alone, and by those that timers make; `StageInv` that
the loop has settled every action it is past; `ReportInv` is `LeakBlame` and that what
has passed was clean or had its effect late. `LeakBlame` is not inductive without
`WindowInv`: the order of the tick that flushes the last action and of the snapshot is
what it rests on.

**The test command.** Seven batteries, an offline renderer and a loop over packages
share the variables `step`, `engine`, `render` and `results`; so the proofs first
say which battery may be where. `TestCommandProofs` has:

- `TypeInv`: the types, and that a render is at work only for the label at the head
  of the plan; without it a render could be taken off an empty plan.
- `SubjectInv`: the subject at work is the one the command was given, or the package
  of the index `package`, which is below the cap, or another build of an Audio Unit that
  has its codes (`ElseTested`). Every statement about a kind of
  subject goes through it.
- `EngineInv`: a REAPER is there only in the steps of a session (`InSession`, by
  kind) or while a render builds its project, a renderer only while its output is
  awaited; so they never meet (`OneReaper`), and `exited` has neither.
- `LeftInv`: what nobody will stop any more comes from a launch that failed or did not
  find its process, or from a full disk.
- `CopyInv`: a component that is there is this run's, which will remove it, or
  something has happened. It spans the runs: `ComponentRestored` and
  `TestsOwnBuild` are not inductive without knowing whose copy it is.

`TestCommandVerdictProofs` adds, in `VInv`, what a stage knows about its subject and
what is still to be looked for:

- `ResetInv`, `SaveInv`, `ScriptInv`, `PaintInv`, `RenderKnown` and `KeptKnown`, one per
  mechanism. Each ties what a battery sees (the chunk, panels and a hung engine, the
  window, the length of a render, the render kept for a comparison) to the defects of
  its subject and to what has happened. `FailureNamesDefect` and `ResetPassIsProof`
  follow from them stage by stage (`VerdictStep`): `ResetInv`, for instance, says that
  a chunk is compared only after `store` was tweaked, and that an instance that has run
  its `@init` has read back every leak; `SaveInv`, that nothing comes between the two reads
  of a later stage unless `@init` shows in the chunk (`Steady`).
- `CoverInv` is the induction behind `NoFalseGreen`: before the command has stopped,
  every defect of every subject is still due in the battery at work (`Due`), belongs to
  a package that is still waiting (`Waits`), or is `Answered`: a failed result, a skip
  the report names, a blind spot, or something that has happened. A stage may drop a
  defect from `Due` only by answering it; there is one lemma per battery for that
  (`JsfxLooks`, `ScriptLooks`, `PluginLooks`, `UnitLooks`, `ThemeLooks`, `RepoLooks`,
  `RendersLook`). When another build takes the place of an Audio Unit, its defects are
  answered at once, as a blind spot (`InstallLooks`, `ElseIsBlind`). Once the report is
  out nothing is due, so either a result has failed and the exit code is not 0, or all
  is answered.
- `NotRunInv`: a script the host cannot run ends without a passed result, so the gate
  does not let it pass; `PlaceInv`: outside of its packages a repository is tested as
  such.

TLC has checked `VInv` on the instance of the run `test_command`.

**The profile.** What its properties compare is computed line by line and name by
name, so their proofs are inductions over data. `PluginCacheProofs` starts from what
the library has without an operator for a parameter: `<` is well-founded on the
naturals. `Least` and `Induct` follow, for sets. A recursive function is a `CHOOSE`, so
each of the three (`WriteEntries`, `Normal`, `Kept`) is first shown to exist, by
induction on the number of lines or names (`LoopExists`, `PathExists`, `KeptExists`);
then its equations can be used (`LoopEquations`, `NormalAppend`, `KeptAppend`).

- `LoopInv` is the invariant of the loop of `_write_entries`, after any number of lines:
  what is pending has not been written, and what was pending has been, into
  `[vstcache]`, unless the key has an entry elsewhere (`Written`); every other entry is
  in the section it was in (`Carried`); no key has a second entry in `[vstcache]`
  (`Single`), for which one must know that the section does not come back. At the end
  (`Rewritten`) nothing is pending. `CompletedKnows` concludes that REAPER finds every
  stamp it was completed with.
- `Covered` is the invariant that carries this from the completion to the launch, while
  the disk changes; `InPhase` says that the profile's cache is then the completed one.
  `KnownIsNotScanned` follows from the two.
- `StepKeeps` and `LoopKeeps`: a line that is not an entry of a changed plug-in goes to
  the output as it is, in its turn, and what is inserted between is none.
  `RewriteKeepsRest` follows from this and from `Single`.
- `WalkInv`: a frame of the walk is a file with its directory seen from the subject's
  (`InFrame`), and its references not yet looked at are the last of those of its file; a
  record is where its name leads from the subject's directory (`IsRecord`); a reference
  of a file that was walked is recorded, still on the stack, or something is missing
  (`Handled`). The type invariant and `ResolvesAlike` both need it.
- `ResolvesAlike` then rests on three facts about paths: references compose
  (`NormalComposes`), the directory of a place is the place of its directory
  (`NormalFront`), and two records at one place are one record (`PlaceOnce`). A record
  goes up once at most and not at its end (`IsRel`), since the directories above the
  subject are no files. The last fact is where namesakes have to be excepted.

TLC has checked the inductive invariant `Inv` of `ProfileProofs` on the instance of the
run `profile`.

**Only model-checked.** Liveness (`EvalReturns`, `SentIsExecuted`, `BatteryEnds`,
`CommandEnds`), which is out of the prover's reach. Every other property of a run that
passes is proved.

## 5. What is not modelled

Left out for good, as they are pure text or I/O without control worth checking:
the DSP of the analysers (`observe/audio/analysis.py`, `signals.py`; the batteries'
models take their verdicts as traits of the subject), image comparison, synthetic
input, report formatting, scaffolding and authoring templates, path discovery, the
CLI's argument parsing, the bodies of the external validators (`validators/*`).
Left out of the modelled components: the JSON encoding (an encoding error is an
error response), `wait_until` and the Lua wrapping, the OS-specific process scans
of `terminate` (modelled as: the handle's process is gone afterwards), evidence
screenshots, the batteries' notes and metrics.

Of the plug-in cache, the CLAP and AU caches are only copied, and
`complete_all_caches` has no caller in the package. Two commands that run at the
same time and share a profile, since `autotest.py:104` names it after the file's
stem, are not modelled: the commands are run one at a time.

## 6. Plan

1. *Done.* Control channel: `RunDir`, `Bridge`, `BridgeClient`, `FileQueue`, refining
   the abstract `Rpc`, with theorems for all safety properties and the refinement.
2. *Done.* `Session`, `PytestPlugin` and `ExtensionBattery`, with theorems for all
   their safety properties.
3. *Done.* The batteries of `reaproof test` and `test-repo`, composed in
   `TestCommand`: stages, offline renders, parameter sweeps, install and remove,
   sub-results, exit code.
4. *Done.* `Profile`: what a profile is completed with, the plug-in cache and the
   files a JSFX depends on.
5. *Done.* Theorems about `TestCommand`: all its safety properties.
6. *Done.* Theorems about `Profile`: all its properties.
7. `Provision` composed with `Session`: assemble, launch, terminate, and the
   removal of a profile still in use; `wait_until` as a client of `Rpc`.
8. `Verdicts`: quarantine, mutation, hygiene diff and feature validation as
   operators over bounded inputs, against reference definitions.
9. `LuaWrap`: the depth scan of `_has_top_level_statement` over token sequences.
