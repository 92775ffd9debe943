------------------------------- MODULE Session -------------------------------
(***************************************************************************)
(* A supervised REAPER session (runner/session.py): the context manager    *)
(* assembles a profile, launches REAPER, waits for the bridge, runs its    *)
(* body, relaunches the same profile on restart() and tears everything     *)
(* down.  There are two spellings of it, `with ReaperSession()` and the    *)
(* generator session(); only the second one sees a start() that raises.    *)
(*                                                                         *)
(* The control channel is abstracted to its verdicts: wait_ready and eval  *)
(* return or raise (FileQueue says when).  A process is named by the       *)
(* number of the launch that started it, which stands for its pid.         *)
(***************************************************************************)
EXTENDS Integers

CONSTANTS
  MaxLaunch,   \* bound: launches of the profile
  MaxStored,   \* bound: persistent values the body stores
  ZombieProbe  \* is_alive() is os.kill(pid, 0) on an unreaped child (Linux)

ASSUME SessionAssumption ==
  /\ MaxLaunch \in Nat \ {0} /\ MaxStored \in Nat
  /\ ZombieProbe \in BOOLEAN

VARIABLES
  pc,         \* what the session does next
  manager,    \* the spelling of the context manager
  method,     \* the method launching REAPER: "start" or "restart"
  launches,   \* how often REAPER was launched
  proc,       \* proc[l]: the process of launch l
  handle,     \* self.handle: the launch it names (0: None)
  stored,     \* the body's persistent value inside REAPER
  disk,       \* the value REAPER last flushed to the profile
  promised,   \* history: value a clean restart has to carry over
  polled,     \* history: what _quit_cleanly's last poll of the process found
  watching,   \* crash_watcher.pid (0: None)
  reports,    \* launches whose crash report the OS has written
  collected,  \* crash reports copied to the artifacts
  evidence,   \* "snapshot" once a snapshot was collected, else "none"
  raised,     \* the exception in flight or last propagated
  mishaps     \* history: what went wrong that the promises do not cover

callVars == <<pc, method>>
procVars == <<launches, proc, handle>>
diskVars == <<stored, disk, promised, polled>>
proofVars == <<reports, collected, evidence>>
vars == <<callVars, manager, procVars, diskVars, watching, proofVars, raised,
          mishaps>>

Launch == 1..MaxLaunch

ProcState == {"none", "up", "quitting", "gone", "crashed", "killed"}

ControlTypeOK ==
  /\ pc \in {"new", "launch", "wait", "handler", "cleanup", "body", "quit", "raised",
            "exit", "artifacts", "stop", "over"}
  /\ manager \in {"class", "generator"}
  /\ method \in {"start", "restart"}
  /\ raised \in {"none", "error", "quit timeout", "interrupt"}
  /\ mishaps \subseteq {"noprofile",   \* assemble_profile() raised
                       "nopid",       \* launch() raised, REAPER was started
                       "unseen",      \* an exception no handler of ours saw
                       "nosnapshot",  \* a snapshot could not be written, or was cut short
                       "cutshort",    \* Ctrl-C while the session was torn down
                       "quitcrash"}   \* REAPER crashed while quitting

ProcTypeOK ==
  /\ launches \in 0..MaxLaunch
  /\ proc \in [Launch -> ProcState]
  /\ handle \in 0..MaxLaunch
  /\ polled \in ProcState

DiskTypeOK ==
  stored \in 0..MaxStored /\ disk \in 0..MaxStored /\ promised \in 0..MaxStored

ProofTypeOK ==
  /\ watching \in 0..MaxLaunch
  /\ reports \subseteq Launch /\ collected \subseteq reports
  /\ evidence \in {"none", "snapshot"}

TypeOK == ControlTypeOK /\ ProcTypeOK /\ DiskTypeOK /\ ProofTypeOK

Init ==
  /\ pc = "new" /\ manager \in {"class", "generator"} /\ method = "start"
  /\ launches = 0 /\ proc = [l \in Launch |-> "none"] /\ handle = 0
  /\ stored = 0 /\ disk = 0 /\ promised = 0 /\ polled = "none"
  /\ watching = 0 /\ reports = {} /\ collected = {}
  /\ evidence = "none" /\ raised = "none" /\ mishaps = {}

Running(l) == proc[l] \in {"up", "quitting"}

(* Provisioner.is_alive(self.handle). *)
MutAliveUntilAsked == proc[handle] = "up"
Alive == Running(handle) \/ ZombieProbe

(* Where an exception of start() or restart() goes: `with` never calls     *)
(* __exit__ for an __enter__ that raised.                                  *)
RaisedTo == IF method = "restart" THEN "raised"
            ELSE IF manager = "generator" THEN "exit" ELSE "over"

Fail(how) == raised' = how /\ pc' = RaisedTo

Unseen == IF RaisedTo = "over" THEN {"unseen"} ELSE {}

(* Provisioner.terminate signals the process and reaps every straggler of  *)
(* the profile.                                                            *)
Terminate ==
  proc' = [l \in Launch |-> IF l = handle /\ Running(l) THEN "killed" ELSE proc[l]]

(* ReaperSession.stop; exceptions of terminate() are suppressed, Ctrl-C is *)
(* not.                                                                    *)
MutStop == handle' = 0 /\ UNCHANGED <<proc, launches>>
Stop == handle' = 0 /\ Terminate /\ UNCHANGED launches

-----------------------------------------------------------------------------
(* The handler of a start() or a restart() that failed: collect_snapshot() *)
(* and stop(), then the exception goes on.                                 *)

MutUnwound == pc' = RaisedTo
Unwound == pc' = "cleanup"

MutHandlerSnapshot ==
  /\ pc = "handler" /\ pc' = "cleanup"
  /\ UNCHANGED <<method, manager, procVars, diskVars, watching, proofVars, raised, mishaps>>

(* A snapshot that cannot be written raises in turn, and nothing is        *)
(* stopped; where the exception of a start() goes unseen, so does this.    *)
HandlerSnapshot ==
  /\ pc = "handler"
  /\ \/ evidence' = "snapshot" /\ Unwound /\ UNCHANGED <<raised, mishaps>>
     \/ Fail("error") /\ mishaps' = mishaps \cup {"nosnapshot"} \cup Unseen
        /\ UNCHANGED evidence
  /\ UNCHANGED <<method, manager, procVars, diskVars, watching, reports, collected>>

HandlerStop ==
  /\ pc = "cleanup" /\ pc' = RaisedTo
  /\ Stop
  /\ UNCHANGED <<method, manager, diskVars, watching, proofVars, raised, mishaps>>

-----------------------------------------------------------------------------
(* start() *)

Assemble ==
  /\ pc = "new"
  /\ \/ pc' = "launch" /\ UNCHANGED <<raised, mishaps>>
     \/ /\ pc' = "over" /\ raised' \in {"error", "interrupt"}
        /\ mishaps' = mishaps \cup {"noprofile"}
  /\ UNCHANGED <<method, manager, procVars, diskVars, watching, proofVars>>

(* Provisioner.launch, from start() and from restart().  Only start()      *)
(* tells the crash watcher the pid.                                        *)
MutWatch == launches + 1
Watch == IF method = "start" THEN launches + 1 ELSE watching

Spawn ==
  /\ launches' = launches + 1
  /\ proc' = [proc EXCEPT ![launches + 1] = "up"]
  /\ stored' = disk

LaunchReaper ==
  /\ pc = "launch" /\ launches < MaxLaunch
  /\ Spawn
  /\ handle' = launches + 1
  /\ watching' = Watch
  /\ pc' = "wait"
  /\ UNCHANGED <<method, manager, disk, promised, polled, proofVars, raised, mishaps>>

(* The executable is missing or cannot be run, or Ctrl-C comes before it. *)
LaunchFails ==
  /\ pc = "launch"
  /\ \E how \in {"error", "interrupt"} : Fail(how)
  /\ mishaps' = mishaps \cup Unseen
  /\ UNCHANGED <<method, manager, procVars, diskVars, watching, proofVars>>

(* macOS: `open` started REAPER, but timed out, its pid was not found, or  *)
(* the wait for it was interrupted.                                        *)
LaunchLosesPid ==
  /\ pc = "launch" /\ launches < MaxLaunch
  /\ Spawn
  /\ \E how \in {"error", "interrupt"} : Fail(how)
  /\ mishaps' = mishaps \cup {"nopid"} \cup Unseen
  /\ UNCHANGED <<handle, method, manager, disk, promised, polled, watching,
                 proofVars>>

Ready ==
  /\ pc = "wait" /\ pc' = "body"
  /\ UNCHANGED <<method, manager, procVars, diskVars, watching, proofVars, raised, mishaps>>

(* wait_ready raises BridgeCrash or BridgeNotReady. *)
NotReady ==
  /\ pc = "wait" /\ pc' = "handler" /\ raised' = "error"
  /\ UNCHANGED <<method, manager, procVars, diskVars, watching, proofVars, mishaps>>

-----------------------------------------------------------------------------
(* The body and restart() *)

(* An eval stores a persistent ExtState value in REAPER. *)
Store ==
  /\ pc = "body" /\ handle # 0
  /\ proc[handle] = "up" /\ stored < MaxStored
  /\ stored' = stored + 1
  /\ UNCHANGED <<callVars, manager, procVars, disk, promised, polled, watching,
                 proofVars, raised, mishaps>>

(* restart(hard=True): state stored since the last flush may be lost. *)
RestartHard ==
  /\ pc = "body" /\ handle # 0 /\ launches < MaxLaunch
  /\ Stop
  /\ pc' = "launch" /\ method' = "restart"
  /\ promised' = disk
  /\ UNCHANGED <<manager, stored, disk, polled, watching, proofVars, raised, mishaps>>

(* _quit_cleanly has its evals answered: REAPER will run File>Quit. *)
AskQuit ==
  /\ pc = "body" /\ handle # 0 /\ launches < MaxLaunch
  /\ proc[handle] = "up"
  /\ proc' = [proc EXCEPT ![handle] = "quitting"]
  /\ pc' = "quit" /\ method' = "restart" /\ polled' = "none"
  /\ UNCHANGED <<launches, handle, manager, stored, disk, promised, watching,
                 proofVars, raised, mishaps>>

(* The clean quit failed: snapshot, stop, RuntimeError. *)
QuitFailed(how) ==
  /\ pc' = "handler" /\ raised' = how /\ method' = "restart"
  /\ UNCHANGED <<manager, procVars, diskVars, watching, proofVars, mishaps>>

(* An eval of _quit_cleanly raised: REAPER is hung, dead or too slow. *)
CannotAskQuit ==
  /\ pc = "body" /\ handle # 0 /\ launches < MaxLaunch
  /\ QuitFailed("error")

(* One poll of the process.  Once it is no longer alive, whatever ended   *)
(* it, it counts as having quit.                                           *)
QuitPoll ==
  /\ pc = "quit"
  /\ polled' = proc[handle]
  /\ \/ Alive /\ UNCHANGED <<pc, handle, promised>>
     \/ ~Alive /\ pc' = "launch" /\ handle' = 0 /\ promised' = stored
  /\ UNCHANGED <<launches, proc, method, manager, stored, disk, watching,
                 proofVars, raised, mishaps>>

(* The deadline passed; REAPER may have quit since the last poll. *)
QuitTimeout == pc = "quit" /\ QuitFailed("quit timeout")

(* The body catches what restart() raised and goes on, or does not. *)
Catch ==
  /\ pc = "raised" /\ raised # "interrupt"
  /\ pc' = "body" /\ raised' = "none"
  /\ UNCHANGED <<method, manager, procVars, diskVars, watching, proofVars, mishaps>>

Propagate ==
  /\ pc = "raised" /\ pc' = "exit"
  /\ UNCHANGED <<method, manager, procVars, diskVars, watching, proofVars, raised, mishaps>>

(* The body ends, or an eval or an assertion of it raises. *)
Leave ==
  /\ pc = "body"
  /\ \/ pc' = "artifacts" /\ UNCHANGED raised
     \/ pc' = "exit" /\ raised' = "error"
  /\ UNCHANGED <<method, manager, procVars, diskVars, watching, proofVars, mishaps>>

-----------------------------------------------------------------------------
(* __exit__, or the handlers of session(): snapshot of a failure, then the *)
(* artifacts with a quick sweep for crash reports, then stop().            *)

ExitSnapshot ==
  /\ pc = "exit" /\ pc' = "artifacts"
  /\ \/ evidence' = "snapshot" /\ UNCHANGED mishaps
     \/ UNCHANGED evidence /\ mishaps' = mishaps \cup {"nosnapshot"}
  /\ UNCHANGED <<method, manager, procVars, diskVars, watching, reports, collected,
                 raised>>

MutOurReports == IF watching = 0 THEN reports ELSE {watching}
OurReports == {l \in reports : watching \in {0, l}}

CollectArtifacts ==
  /\ pc = "artifacts" /\ pc' = "stop"
  /\ collected' = collected \cup OurReports
  /\ UNCHANGED <<method, manager, procVars, diskVars, watching, reports, evidence,
                 raised, mishaps>>

ExitStop ==
  /\ pc = "stop" /\ pc' = "over"
  /\ Stop
  /\ UNCHANGED <<method, manager, diskVars, watching, proofVars, raised, mishaps>>

-----------------------------------------------------------------------------
(* Ctrl-C.  KeyboardInterrupt is no Exception: start(), restart(),         *)
(* _quit_cleanly and the suppress() blocks let it pass.                    *)

(* In start() or restart() once REAPER was launched, their handlers        *)
(* included; an interrupted terminate() may have done its work.            *)
InterruptStart ==
  /\ pc \in {"wait", "quit", "handler", "cleanup"}
  /\ Fail("interrupt")
  /\ mishaps' = mishaps \cup Unseen \cup {m \in {"nosnapshot"} : pc = "handler"}
  /\ UNCHANGED proc \/ (pc = "cleanup" /\ Terminate)

(* In the body, in a hard restart's stop(), or while an exception leaves.  *)
InterruptBody ==
  /\ pc \in {"body", "raised"} /\ pc' = "exit"
  /\ raised' = "interrupt" /\ UNCHANGED mishaps
  /\ UNCHANGED proc \/ (pc = "body" /\ Terminate)

(* In the snapshot of session()'s handler: artifacts and stop() are in a   *)
(* finally, and still run.                                                 *)
InterruptHandler ==
  /\ pc = "exit" /\ manager = "generator" /\ pc' = "artifacts"
  /\ raised' = "interrupt" /\ mishaps' = mishaps \cup {"nosnapshot"}
  /\ UNCHANGED proc

(* Anywhere else in the teardown: what it had left is not done.            *)
InterruptTeardown ==
  /\ \/ pc = "exit" /\ manager = "class"
     \/ pc \in {"artifacts", "stop"}
  /\ pc' = "over"
  /\ raised' = "interrupt" /\ mishaps' = mishaps \cup {"cutshort"}
  /\ UNCHANGED proc \/ (pc = "stop" /\ Terminate)

Interrupt ==
  /\ InterruptStart \/ InterruptBody \/ InterruptHandler \/ InterruptTeardown
  /\ UNCHANGED <<method, manager, launches, handle, diskVars, watching, proofVars>>

SessionStep ==
  \/ Assemble \/ LaunchReaper \/ LaunchFails \/ LaunchLosesPid
  \/ Ready \/ NotReady \/ HandlerSnapshot \/ HandlerStop
  \/ Store \/ RestartHard \/ AskQuit \/ CannotAskQuit \/ QuitPoll \/ QuitTimeout
  \/ Catch \/ Propagate \/ Leave
  \/ ExitSnapshot \/ CollectArtifacts \/ ExitStop \/ Interrupt

-----------------------------------------------------------------------------
(* REAPER and the operating system *)

(* The quit action runs: persistent state is flushed, the process ends. *)
ReaperQuits ==
  \E l \in Launch :
    /\ proc[l] = "quitting"
    /\ proc' = [proc EXCEPT ![l] = "gone"]
    /\ disk' = stored
    /\ UNCHANGED <<callVars, manager, launches, handle, stored, promised, polled,
                   watching, proofVars, raised, mishaps>>

ReaperCrashes ==
  \E l \in Launch :
    /\ Running(l)
    /\ proc' = [proc EXCEPT ![l] = "crashed"]
    /\ mishaps' = IF proc[l] = "quitting" THEN mishaps \cup {"quitcrash"} ELSE mishaps
    /\ UNCHANGED <<callVars, manager, launches, handle, diskVars, watching,
                   proofVars, raised>>

(* The OS writes crash reports asynchronously; one it writes after the     *)
(* artifacts were swept up is nobody's.                                    *)
ReportWritten ==
  \E l \in Launch :
    /\ proc[l] = "crashed" /\ l \notin reports /\ pc \notin {"stop", "over"}
    /\ reports' = reports \cup {l}
    /\ UNCHANGED <<callVars, manager, procVars, diskVars, watching, collected,
                   evidence, raised, mishaps>>

Next == SessionStep \/ ReaperQuits \/ ReaperCrashes \/ ReportWritten

Spec == Init /\ [][Next]_vars

-----------------------------------------------------------------------------
(* Properties *)

(* Guaranteed teardown, through restarts that fail or are caught, and      *)
(* through any Ctrl-C while session()'s handler writes its snapshot: a     *)
(* session that is over leaves no REAPER running.  Three orphans are left: *)
(* one launch() started without finding its pid, one of a `with            *)
(* ReaperSession()` whose start() was interrupted or could not write its   *)
(* snapshot, and one of a teardown that Ctrl-C cut short before stop().    *)
NoOrphan ==
  (pc = "over" /\ mishaps \cap {"nopid", "unseen", "cutshort"} = {})
    => \A l \in Launch : ~Running(l)

(* Two REAPERs never run on one profile, through any sequence of restarts  *)
(* that fail, are caught and are tried again: they would share the queue.  *)
OneReaper == \A k, l \in Launch : Running(k) /\ Running(l) => k = l

(* Every failure that leaves a session carries a snapshot, unless there    *)
(* was no profile to take it of, it could not be written, the exception    *)
(* passed every handler, or it is a Ctrl-C in the teardown itself.         *)
FailureHasEvidence ==
  (pc = "over" /\ raised # "none")
    => \/ evidence = "snapshot"
       \/ mishaps \cap {"noprofile", "unseen", "nosnapshot", "cutshort"} # {}

(* A clean restart that returned has everything the body stored before it; *)
(* also a later hard restart goes back no further than that.  A crash      *)
(* while quitting is taken for a clean quit, and is excepted.              *)
CleanRestartKeepsState ==
  (pc = "body" /\ method = "restart" /\ handle # 0 /\ "quitcrash" \notin mishaps)
    => disk >= promised

(* session() has swept up its artifacts, Ctrl-C did not keep it from that. *)
Swept == pc = "over" /\ manager = "generator" /\ "cutshort" \notin mishaps

(* Every crash report of the session's REAPERs that was written by then is *)
(* among the artifacts.                                                    *)
CrashIsReported == Swept => reports \subseteq collected

(* The same for its first launch.                                          *)
FirstCrashIsReported == Swept => reports \cap {1} \subseteq collected

=============================================================================
