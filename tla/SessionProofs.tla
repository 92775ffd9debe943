---------------------------- MODULE SessionProofs ----------------------------
(***************************************************************************)
(* Theorems about Session, for any number of launches and stored values:   *)
(* types, guaranteed teardown, one REAPER per profile, evidence, what a    *)
(* clean restart keeps, and the crash reports of the first launch.  One    *)
(* inductive invariant carries them.                                       *)
(***************************************************************************)
EXTENDS Session, TLAPS

-----------------------------------------------------------------------------
(* The inductive invariant *)

(* self.handle names the last launch, and only while the session is past a *)
(* launch.                                                                 *)
HandleInv ==
  /\ handle \in {0, launches}
  /\ pc \in {"new", "launch"} => handle = 0
  /\ pc \in {"wait", "quit"} => handle # 0

(* Only the last launch runs, and the session holds its handle, unless its *)
(* pid was never found.                                                    *)
RunningInv ==
  \A l \in Launch : Running(l) =>
    /\ l = launches
    /\ pc \notin {"new", "launch"}
    /\ handle = l \/ "nopid" \in mishaps
    /\ pc = "over" => mishaps \cap {"nopid", "unseen", "cutshort"} # {}

(* What the profile holds never falls behind what was promised.  A quit    *)
(* that ended the process by itself has flushed everything stored.         *)
DiskInv ==
  \/ "quitcrash" \in mishaps
  \/ /\ promised <= disk /\ disk <= stored
     /\ pc = "quit" => \/ proc[handle] = "quitting"
                       \/ proc[handle] = "gone" /\ disk = stored

(* start() launches REAPER first, once, and tells the crash watcher that   *)
(* launch; no restart() tells it another one.                              *)
WatchInv ==
  /\ watching \in {0, 1}
  /\ pc = "new" => /\ method = "start" /\ launches = 0 /\ reports = {}
                   /\ proc = [l \in Launch |-> "none"]
  /\ pc = "launch" /\ method = "start" => launches = 0
  /\ pc = "quit" => method = "restart"

(* An exception is in flight only past a failure.  Past the snapshot it    *)
(* has one, or a reason to have none.                                      *)
EvidenceInv ==
  /\ pc \in {"new", "launch", "wait", "body", "quit"} => raised = "none"
  /\ (pc \in {"cleanup", "artifacts", "stop", "over"} /\ raised # "none")
       => \/ evidence = "snapshot"
          \/ mishaps \cap {"noprofile", "unseen", "nosnapshot", "cutshort"} # {}

(* From the sweep on, the first launch's report is collected. *)
SweptInv ==
  (pc \in {"stop", "over"} /\ manager = "generator" /\ "cutshort" \notin mishaps)
    => reports \cap {1} \subseteq collected

IInv ==
  /\ TypeOK /\ HandleInv /\ RunningInv /\ DiskInv /\ EvidenceInv
  /\ WatchInv /\ SweptInv

-----------------------------------------------------------------------------
(* Types *)

LEMMA InitTypeOK == Init => TypeOK
<1>1. MaxLaunch \in Nat /\ MaxStored \in Nat
  BY SessionAssumption DEF SessionAssumption
<1> QED BY <1>1 DEF Init, TypeOK, ControlTypeOK, ProcTypeOK, DiskTypeOK, ProofTypeOK,
                    Launch, ProcState

(* The actions by what they do to the session's process. *)
Launching == LaunchReaper \/ LaunchLosesPid
Stopping == RestartHard \/ HandlerStop \/ ExitStop
Failing == LaunchFails \/ NotReady \/ CannotAskQuit \/ QuitTimeout \/ HandlerSnapshot
Leaving == Catch \/ Propagate \/ Leave \/ ExitSnapshot \/ CollectArtifacts
Passive == Assemble \/ Ready \/ Store \/ Failing \/ Leaving \/ ReportWritten
Own == ReaperQuits \/ ReaperCrashes

LEMMA Kinds ==
  [Next]_vars => \/ Launching \/ Stopping \/ Passive \/ Interrupt \/ Own \/ AskQuit
                 \/ QuitPoll \/ UNCHANGED vars
  BY DEF Next, SessionStep, Launching, Stopping, Failing, Leaving, Passive, Own

(* The passive ones leave processes, launches and the handle alone. *)
LEMMA PassiveProcs == Passive => UNCHANGED <<procVars, disk, promised, polled>>
  BY DEF Passive, Failing, Leaving, Assemble, LaunchFails, NotReady, CannotAskQuit,
         QuitTimeout, QuitFailed, HandlerSnapshot, Ready, Store, Catch, Propagate,
         Leave, ExitSnapshot, CollectArtifacts, ReportWritten, procVars, diskVars

LEMMA PassiveMishaps == Passive => mishaps \subseteq mishaps'
  BY DEF Passive, Failing, Leaving, Assemble, LaunchFails, NotReady, CannotAskQuit,
         QuitTimeout, QuitFailed, HandlerSnapshot, Ready, Store, Catch, Propagate,
         Leave, ExitSnapshot, CollectArtifacts, ReportWritten

(* stop() ends the process the handle names, and no other. *)
LEMMA StoppingStops ==
  Stopping => Stop /\ UNCHANGED <<stored, disk, polled>> /\ mishaps' = mishaps
  BY DEF Stopping, RestartHard, HandlerStop, ExitStop, diskVars

(* Ctrl-C ends at most that one, and forgets no handle. *)
LEMMA InterruptKills ==
  Interrupt => /\ proc' = proc \/ Terminate
               /\ UNCHANGED <<launches, handle, diskVars, watching, proofVars, method>>
               /\ mishaps \subseteq mishaps'
  BY DEF Interrupt, InterruptStart, InterruptBody, InterruptHandler, InterruptTeardown

LEMMA InterruptControl ==
  Interrupt => /\ raised' = "interrupt"
               /\ \/ pc' \in {"raised", "exit", "artifacts"}
                  \/ pc' = "over" /\ mishaps' \cap {"unseen", "cutshort"} # {}
  BY DEF Interrupt, InterruptStart, InterruptBody, InterruptHandler, InterruptTeardown,
         Fail, RaisedTo, Unseen

LEMMA NextControlTypeOK == ControlTypeOK /\ [Next]_vars => ControlTypeOK'
<1> SUFFICES ASSUME ControlTypeOK, [Next]_vars PROVE ControlTypeOK'
  OBVIOUS
<1> USE DEF ControlTypeOK, callVars, Fail, RaisedTo, Unseen
<1>1. CASE Launching
  BY <1>1 DEF Launching, LaunchReaper, LaunchLosesPid
<1>2. CASE Stopping
  BY <1>2 DEF Stopping, RestartHard, HandlerStop, ExitStop
<1>3. CASE Assemble \/ Ready \/ Store \/ ReportWritten
  BY <1>3 DEF Assemble, Ready, Store, ReportWritten
<1>4. CASE Failing
  BY <1>4 DEF Failing, LaunchFails, NotReady, CannotAskQuit, QuitTimeout, QuitFailed,
              HandlerSnapshot, Unwound
<1>5. CASE Leaving
  BY <1>5 DEF Leaving, Catch, Propagate, Leave, ExitSnapshot, CollectArtifacts
<1>6. CASE Interrupt
  <2>1. /\ pc' \in {"raised", "exit", "artifacts", "over"} /\ raised' = "interrupt"
        /\ UNCHANGED <<manager, method>>
    BY <1>6, InterruptControl DEF Interrupt
  <2>2. mishaps' \subseteq mishaps \cup {"unseen", "nosnapshot", "cutshort"}
    BY <1>6 DEF Interrupt, InterruptStart, InterruptBody, InterruptHandler,
                InterruptTeardown
  <2> QED BY <2>1, <2>2
<1>7. CASE AskQuit \/ QuitPoll \/ Own
  BY <1>7 DEF AskQuit, QuitPoll, Own, ReaperQuits, ReaperCrashes
<1>8. CASE UNCHANGED vars
  BY <1>8 DEF vars
<1> QED BY <1>1, <1>2, <1>3, <1>4, <1>5, <1>6, <1>7, <1>8, Kinds DEF Passive

(* _quit_cleanly polls a process it has the handle of. *)
LEMMA NextProcTypeOK == ProcTypeOK /\ HandleInv /\ [Next]_vars => ProcTypeOK'
<1> SUFFICES ASSUME ProcTypeOK, HandleInv, [Next]_vars PROVE ProcTypeOK'
  OBVIOUS
<1>0. MaxLaunch \in Nat
  BY SessionAssumption DEF SessionAssumption
<1> USE <1>0 DEF ProcTypeOK, ProcState, procVars, diskVars, Launch
<1>1. CASE Launching
  BY <1>1 DEF Launching, LaunchReaper, LaunchLosesPid, Spawn
<1>2. CASE Stopping
  BY <1>2, StoppingStops DEF Stop, Terminate
<1>3. CASE Passive
  BY <1>3, PassiveProcs
<1>4. CASE Interrupt
  BY <1>4, InterruptKills DEF Terminate
<1>5. CASE Own
  <2>1. CASE ReaperQuits
    BY <2>1 DEF ReaperQuits
  <2>2. CASE ReaperCrashes
    BY <2>2 DEF ReaperCrashes
  <2> QED BY <1>5, <2>1, <2>2 DEF Own
<1>6. CASE AskQuit
  BY <1>6 DEF AskQuit
<1>7. CASE QuitPoll
  BY <1>7 DEF QuitPoll, HandleInv
<1>8. CASE UNCHANGED vars
  BY <1>8 DEF vars
<1> QED BY <1>1, <1>2, <1>3, <1>4, <1>5, <1>6, <1>7, <1>8, Kinds

LEMMA NextDiskTypeOK == DiskTypeOK /\ [Next]_vars => DiskTypeOK'
<1> SUFFICES ASSUME DiskTypeOK, [Next]_vars PROVE DiskTypeOK'
  OBVIOUS
<1>0. MaxStored \in Nat
  BY SessionAssumption DEF SessionAssumption
<1> USE <1>0 DEF DiskTypeOK, diskVars
<1>1. CASE Launching
  BY <1>1 DEF Launching, LaunchReaper, LaunchLosesPid, Spawn
<1>2. CASE Stopping \/ Interrupt
  BY <1>2, InterruptKills DEF Stopping, RestartHard, HandlerStop, ExitStop
<1>3. CASE Passive
  <2>1. UNCHANGED <<disk, promised>> /\ stored' \in {stored, stored + 1}
        /\ (stored' = stored \/ stored < MaxStored)
    BY <1>3, PassiveProcs
       DEF Passive, Failing, Leaving, Assemble, LaunchFails, NotReady, CannotAskQuit,
       QuitTimeout, QuitFailed, HandlerSnapshot, Ready, Store, Catch, Propagate, Leave,
       ExitSnapshot, CollectArtifacts, ReportWritten
  <2> QED BY <2>1
<1>4. CASE Own \/ AskQuit \/ QuitPoll
  BY <1>4 DEF Own, ReaperQuits, ReaperCrashes, AskQuit, QuitPoll
<1>5. CASE UNCHANGED vars
  BY <1>5 DEF vars
<1> QED BY <1>1, <1>2, <1>3, <1>4, <1>5, Kinds

LEMMA NextProofTypeOK == ProcTypeOK /\ ProofTypeOK /\ [Next]_vars => ProofTypeOK'
<1> SUFFICES ASSUME ProcTypeOK, ProofTypeOK, [Next]_vars PROVE ProofTypeOK'
  OBVIOUS
<1>0. MaxLaunch \in Nat /\ launches \in 0..MaxLaunch
  BY SessionAssumption DEF SessionAssumption, ProcTypeOK
<1> USE <1>0 DEF ProofTypeOK, proofVars
<1>1. CASE Launching
  BY <1>1 DEF Launching, LaunchReaper, LaunchLosesPid, Watch
<1>2. CASE Stopping \/ Interrupt
  BY <1>2, InterruptKills DEF Stopping, RestartHard, HandlerStop, ExitStop
<1>3. CASE Passive
  BY <1>3
     DEF Passive, Failing, Leaving, Assemble, LaunchFails, NotReady, CannotAskQuit,
       QuitTimeout, QuitFailed, HandlerSnapshot, Ready, Store, Catch, Propagate, Leave,
       ExitSnapshot, CollectArtifacts, ReportWritten,
       OurReports
<1>4. CASE Own \/ AskQuit \/ QuitPoll
  BY <1>4 DEF Own, ReaperQuits, ReaperCrashes, AskQuit, QuitPoll
<1>5. CASE UNCHANGED vars
  BY <1>5 DEF vars
<1> QED BY <1>1, <1>2, <1>3, <1>4, <1>5, Kinds

LEMMA NextTypeOK == TypeOK /\ HandleInv /\ [Next]_vars => TypeOK'
  BY NextControlTypeOK, NextProcTypeOK, NextDiskTypeOK, NextProofTypeOK DEF TypeOK

-----------------------------------------------------------------------------
(* Processes *)

(* The handle is 0 or the last launch, and is there while it is waited for *)
(* or asked to quit.                                                       *)
LEMMA NextHandleInv == ProcTypeOK /\ HandleInv /\ [Next]_vars => HandleInv'
<1> SUFFICES ASSUME ProcTypeOK, HandleInv, [Next]_vars PROVE HandleInv'
  OBVIOUS
<1>0. launches \in Nat
  BY SessionAssumption DEF SessionAssumption, ProcTypeOK
<1> USE <1>0 DEF HandleInv, procVars, callVars
<1>1. CASE Launching
  BY <1>1 DEF Launching, LaunchReaper, LaunchLosesPid, Spawn, Fail, RaisedTo
<1>2. CASE Stopping
  BY <1>2, StoppingStops DEF Stopping, RestartHard, HandlerStop, ExitStop, RaisedTo, Stop
<1>3. CASE Passive
  <2>1. \/ pc \in {"new", "launch"}
        \/ pc' \notin {"new", "launch", "wait", "quit"} \/ pc' = pc
    BY <1>3
       DEF Passive, Failing, Leaving, Assemble, LaunchFails, NotReady, CannotAskQuit,
       QuitTimeout, QuitFailed, HandlerSnapshot, Ready, Store, Catch, Propagate, Leave,
       ExitSnapshot, CollectArtifacts, ReportWritten,
       Fail, RaisedTo, Unwound, callVars
  <2>2. pc \in {"new", "launch"} => pc' \notin {"wait", "quit"}
    BY <1>3
       DEF Passive, Failing, Leaving, Assemble, LaunchFails, NotReady, CannotAskQuit,
       QuitTimeout, QuitFailed, HandlerSnapshot, Ready, Store, Catch, Propagate, Leave,
       ExitSnapshot, CollectArtifacts, ReportWritten,
       Fail, RaisedTo, callVars
  <2> QED BY <1>3, <2>1, <2>2, PassiveProcs
<1>4. CASE Interrupt
  BY <1>4, InterruptKills, InterruptControl
<1>5. CASE Own \/ AskQuit \/ QuitPoll
  BY <1>5 DEF Own, ReaperQuits, ReaperCrashes, AskQuit, QuitPoll
<1>6. CASE UNCHANGED vars
  BY <1>6 DEF vars
<1> QED BY <1>1, <1>2, <1>3, <1>4, <1>5, <1>6, Kinds

LEMMA NextRunningInv ==
  TypeOK /\ HandleInv /\ RunningInv /\ [Next]_vars => RunningInv'
<1> SUFFICES ASSUME TypeOK, HandleInv, RunningInv, [Next]_vars PROVE RunningInv'
  OBVIOUS
<1>0. /\ launches \in Nat /\ proc \in [Launch -> ProcState]
      /\ MaxLaunch \in Nat /\ Launch = 1..MaxLaunch
  BY SessionAssumption DEF SessionAssumption, TypeOK, ProcTypeOK, Launch
<1> USE <1>0 DEF HandleInv, RunningInv, Running, procVars
<1>1. CASE Launching
  <2>1. \A l \in Launch : ~Running(l)
    BY <1>1 DEF Launching, LaunchReaper, LaunchLosesPid
  <2>2. launches' = launches + 1 /\ \A l \in Launch : Running(l)' => l = launches'
    BY <1>1, <2>1 DEF Launching, LaunchReaper, LaunchLosesPid, Spawn
  <2>3. CASE LaunchReaper
    BY <2>2, <2>3 DEF LaunchReaper
  <2>4. CASE LaunchLosesPid
    BY <2>2, <2>4 DEF LaunchLosesPid, Fail, RaisedTo
  <2> QED BY <1>1, <2>3, <2>4 DEF Launching
<1>2. CASE Stopping
  <2>1. Stop /\ mishaps' = mishaps
    BY <1>2, StoppingStops
  <2>2. \A l \in Launch : Running(l)' => Running(l) /\ l # handle
    BY <2>1 DEF Stop, Terminate
  <2>3. \A l \in Launch : Running(l)' => l = launches' /\ "nopid" \in mishaps'
    BY <2>1, <2>2 DEF Stop
  <2>4. \A l \in Launch : Running(l)' => pc' \notin {"new", "launch"}
    <3>1. RestartHard => handle # 0
      BY DEF RestartHard
    <3>2. RestartHard \/ pc' \in {"over", "raised", "exit"}
      BY <1>2 DEF Stopping, HandlerStop, ExitStop, RaisedTo
    <3> QED BY <2>2, <3>1, <3>2
  <2> QED BY <2>3, <2>4
<1>3. CASE Passive
  <2>1. UNCHANGED procVars /\ mishaps \subseteq mishaps'
    BY <1>3, PassiveProcs, PassiveMishaps
  <2>2. \/ pc \in {"new", "launch"}
        \/ pc' \notin {"new", "launch"} /\ (pc' = "over" => pc = "over" \/ "unseen" \in mishaps')
    BY <1>3
       DEF Passive, Failing, Leaving, Assemble, LaunchFails, NotReady, CannotAskQuit,
       QuitTimeout, QuitFailed, HandlerSnapshot, Ready, Store, Catch, Propagate, Leave,
       ExitSnapshot, CollectArtifacts, ReportWritten,
       Fail, RaisedTo, Unseen, Unwound, callVars
  <2> QED BY <2>1, <2>2
<1>4. CASE Interrupt
  <2>1. /\ UNCHANGED <<launches, handle>> /\ mishaps \subseteq mishaps'
        /\ \A l \in Launch : Running(l)' => Running(l)
    BY <1>4, InterruptKills DEF Terminate
  <2> QED BY <1>4, <2>1, InterruptControl
<1>5. CASE Own
  <2>1. /\ UNCHANGED <<pc, launches, handle>> /\ mishaps \subseteq mishaps'
        /\ \A l \in Launch : Running(l)' => Running(l)
    BY <1>5 DEF Own, ReaperQuits, ReaperCrashes, callVars
  <2> QED BY <2>1
<1>6. CASE AskQuit
  <2>1. /\ UNCHANGED <<launches, handle, mishaps>> /\ pc' = "quit"
        /\ \A l \in Launch : Running(l)' => Running(l)
    BY <1>6 DEF AskQuit
  <2> QED BY <2>1
<1>7. CASE QuitPoll
  <2>1. \/ UNCHANGED <<pc, handle>>
        \/ handle # 0 /\ ~Running(handle)
    BY <1>7 DEF QuitPoll, Alive
  <2>2. UNCHANGED <<proc, launches, mishaps>> /\ pc = "quit"
    BY <1>7 DEF QuitPoll
  <2> QED BY <2>1, <2>2 DEF QuitPoll
<1>8. CASE UNCHANGED vars
  BY <1>8 DEF vars, callVars
<1> QED BY <1>1, <1>2, <1>3, <1>4, <1>5, <1>6, <1>7, <1>8, Kinds

-----------------------------------------------------------------------------
(* The profile *)

LEMMA NextDiskInv ==
  TypeOK /\ HandleInv /\ DiskInv /\ [Next]_vars => DiskInv'
<1> SUFFICES ASSUME TypeOK, HandleInv, DiskInv, [Next]_vars PROVE DiskInv'
  OBVIOUS
<1>0. /\ stored \in Nat /\ disk \in Nat /\ promised \in Nat
      /\ launches \in Nat /\ proc \in [Launch -> ProcState] /\ Launch = 1..MaxLaunch
      /\ launches \in 0..MaxLaunch /\ MaxLaunch \in Nat
  BY SessionAssumption DEF SessionAssumption, TypeOK, ProcTypeOK, DiskTypeOK, Launch
<1>a. "quitcrash" \in mishaps => "quitcrash" \in mishaps'
  <2>1. CASE Launching
    BY <2>1 DEF Launching, LaunchReaper, LaunchLosesPid
  <2>2. CASE Stopping \/ Passive \/ Interrupt
    BY <2>2, StoppingStops, PassiveMishaps, InterruptKills
  <2>3. CASE Own \/ AskQuit \/ QuitPoll \/ UNCHANGED vars
    BY <2>3 DEF Own, ReaperQuits, ReaperCrashes, AskQuit, QuitPoll, vars
  <2> QED BY <2>1, <2>2, <2>3, Kinds
<1>b. SUFFICES ASSUME "quitcrash" \notin mishaps, "quitcrash" \notin mishaps'
               PROVE  DiskInv'
  BY <1>a DEF DiskInv
<1> USE <1>0, <1>b DEF HandleInv, DiskInv, diskVars
<1>1. CASE Launching
  BY <1>1 DEF Launching, LaunchReaper, LaunchLosesPid, Spawn, Fail, RaisedTo
<1>2. CASE Stopping
  <2>1. promised' \in {promised, disk} /\ pc' # "quit"
    BY <1>2 DEF Stopping, RestartHard, HandlerStop, ExitStop, RaisedTo
  <2> QED BY <1>2, <2>1, StoppingStops
<1>3. CASE Passive
  <2>1. UNCHANGED <<proc, handle, disk, promised>> /\ stored' \in {stored, stored + 1}
    BY <1>3, PassiveProcs
       DEF Passive, Failing, Leaving, Assemble, LaunchFails, NotReady, CannotAskQuit,
       QuitTimeout, QuitFailed, HandlerSnapshot, Ready, Store, Catch, Propagate, Leave,
       ExitSnapshot, CollectArtifacts, ReportWritten, procVars
  <2>2. pc' # "quit" \/ UNCHANGED <<pc, stored>>
    BY <1>3
       DEF Passive, Failing, Leaving, Assemble, LaunchFails, NotReady, CannotAskQuit,
       QuitTimeout, QuitFailed, HandlerSnapshot, Ready, Store, Catch, Propagate, Leave,
       ExitSnapshot, CollectArtifacts, ReportWritten,
       Fail, RaisedTo, Unwound, callVars
  <2> QED BY <2>1, <2>2
<1>9. CASE Interrupt
  BY <1>9, InterruptKills, InterruptControl
<1>4. CASE ReaperQuits
  <2>1. PICK l \in Launch : proc[l] = "quitting" /\ proc' = [proc EXCEPT ![l] = "gone"]
    BY <1>4 DEF ReaperQuits
  <2>2. disk' = stored /\ UNCHANGED <<pc, handle, stored, promised>>
    BY <1>4 DEF ReaperQuits, callVars
  <2>3. pc = "quit" => proc'[handle] \in {"quitting", "gone"}
    BY <2>1
  <2> QED BY <2>2, <2>3
<1>5. CASE ReaperCrashes
  <2>1. PICK l \in Launch : proc[l] # "quitting" /\ proc[l] # "gone"
                            /\ proc' = [proc EXCEPT ![l] = "crashed"]
    BY <1>5 DEF ReaperCrashes, Running
  <2>2. UNCHANGED <<pc, handle, stored, disk, promised>>
    BY <1>5 DEF ReaperCrashes, callVars
  <2>3. pc = "quit" => proc'[handle] = proc[handle]
    BY <2>1
  <2> QED BY <2>2, <2>3
<1>6. CASE AskQuit
  <2>1. pc' = "quit" /\ handle' = handle /\ proc'[handle] = "quitting"
    BY <1>6 DEF AskQuit
  <2> QED BY <1>6, <2>1 DEF AskQuit
<1>7. CASE QuitPoll
  <2>1. UNCHANGED <<proc, disk, stored>> /\ pc = "quit"
    BY <1>7 DEF QuitPoll
  <2>2. CASE UNCHANGED <<pc, handle, promised>>
    BY <2>1, <2>2
  <2>3. CASE ~Alive /\ pc' = "launch" /\ promised' = stored
    BY <2>1, <2>3 DEF Alive, Running
  <2> QED BY <1>7, <2>2, <2>3 DEF QuitPoll
<1>8. CASE UNCHANGED vars
  BY <1>8 DEF vars, callVars, procVars
<1> QED BY <1>1, <1>2, <1>3, <1>4, <1>5, <1>6, <1>7, <1>8, <1>9, Kinds DEF Own

-----------------------------------------------------------------------------
(* Evidence *)

LEMMA NextEvidence == EvidenceInv /\ [Next]_vars => EvidenceInv'
<1> SUFFICES ASSUME EvidenceInv, [Next]_vars PROVE EvidenceInv'
  OBVIOUS
<1> USE DEF EvidenceInv, proofVars
<1>1. CASE Assemble \/ LaunchFails \/ Launching
  BY <1>1 DEF Assemble, LaunchFails, Launching, LaunchReaper, LaunchLosesPid, Fail,
              RaisedTo, Unseen
<1>2. CASE RestartHard \/ HandlerStop \/ ExitStop
  BY <1>2 DEF RestartHard, HandlerStop, ExitStop, RaisedTo
<1>3. CASE NotReady \/ CannotAskQuit \/ QuitTimeout
  BY <1>3 DEF NotReady, CannotAskQuit, QuitTimeout, QuitFailed
<1>4. CASE HandlerSnapshot \/ ExitSnapshot \/ CollectArtifacts
  BY <1>4 DEF HandlerSnapshot, Unwound, ExitSnapshot, CollectArtifacts, Fail, RaisedTo
<1>5. CASE Ready \/ Store \/ Catch \/ Propagate \/ Leave
  BY <1>5 DEF Ready, Store, Catch, Propagate, Leave, callVars
<1>6. CASE Interrupt
  <2>1. /\ UNCHANGED evidence
        /\ pc' \in {"raised", "exit"} \/ mishaps' \cap {"unseen", "nosnapshot", "cutshort"} # {}
        /\ pc' \in {"raised", "exit", "artifacts", "over"}
    BY <1>6 DEF Interrupt, InterruptStart, InterruptBody, InterruptHandler,
                InterruptTeardown, Fail, RaisedTo, Unseen
  <2> QED BY <2>1
<1>7. CASE AskQuit \/ QuitPoll \/ Own \/ ReportWritten
  BY <1>7 DEF AskQuit, QuitPoll, Own, ReaperQuits, ReaperCrashes, ReportWritten, callVars
<1>8. CASE UNCHANGED vars
  BY <1>8 DEF vars, callVars
<1> QED BY <1>1, <1>2, <1>3, <1>4, <1>5, <1>6, <1>7, <1>8, Kinds
        DEF Passive, Failing, Leaving, Stopping

-----------------------------------------------------------------------------
(* Crash reports *)

LEMMA NextWatchInv == ProcTypeOK /\ WatchInv /\ [Next]_vars => WatchInv'
<1> SUFFICES ASSUME ProcTypeOK, WatchInv, [Next]_vars PROVE WatchInv'
  OBVIOUS
<1> USE DEF WatchInv
<1>1. CASE Assemble
  BY <1>1 DEF Assemble, procVars
<1>2. CASE Launching
  BY <1>2 DEF Launching, LaunchReaper, LaunchLosesPid, Watch, Fail, RaisedTo
<1>3. CASE Stopping
  <2>1. /\ UNCHANGED watching /\ pc' \notin {"new", "quit"}
        /\ pc' = "launch" => method' = "restart"
    BY <1>3 DEF Stopping, RestartHard, HandlerStop, ExitStop, RaisedTo
  <2> QED BY <2>1
<1>4. CASE Ready \/ Store \/ Failing \/ Leaving
  <2>1. UNCHANGED watching /\ pc' \notin {"new", "launch", "quit"}
    BY <1>4 DEF Ready, Store, Failing, LaunchFails, NotReady, CannotAskQuit, QuitTimeout,
       QuitFailed, HandlerSnapshot, Leaving, Catch, Propagate, Leave, ExitSnapshot,
       CollectArtifacts, Fail, RaisedTo, Unwound, callVars
  <2> QED BY <2>1
<1>5. CASE Interrupt
  BY <1>5, InterruptKills, InterruptControl
<1>6. CASE AskQuit
  BY <1>6 DEF AskQuit
<1>7. CASE QuitPoll
  <2>1. /\ UNCHANGED <<watching, method>>
        /\ pc = "quit" /\ pc' \in {"quit", "launch"}
    BY <1>7 DEF QuitPoll
  <2> QED BY <2>1
<1>8. CASE Own \/ ReportWritten
  <2>1. UNCHANGED <<pc, method, watching, launches>>
    BY <1>8 DEF Own, ReaperQuits, ReaperCrashes, ReportWritten, callVars, procVars
  <2>2. pc # "new"
    <3>1. \E l \in Launch : proc[l] # "none"
      BY <1>8 DEF Own, ReaperQuits, ReaperCrashes, ReportWritten, Running
    <3> QED BY <3>1
  <2> QED BY <2>1, <2>2
<1>9. CASE UNCHANGED vars
  BY <1>9 DEF vars, callVars, procVars, proofVars
<1> QED BY <1>1, <1>2, <1>3, <1>4, <1>5, <1>6, <1>7, <1>8, <1>9, Kinds DEF Passive

(* A session() whose teardown nothing cuts short ends through the sweep,   *)
(* and that takes the reports of the watched launch.                       *)
LEMMA NextSweptInv == ProofTypeOK /\ WatchInv /\ SweptInv /\ [Next]_vars => SweptInv'
<1> SUFFICES ASSUME ProofTypeOK, WatchInv, SweptInv, [Next]_vars,
                    pc' \in {"stop", "over"}, manager' = "generator",
                    "cutshort" \notin mishaps'
             PROVE  reports' \cap {1} \subseteq collected'
  BY DEF SweptInv
<1> USE DEF SweptInv
<1>1. CASE Assemble
  BY <1>1 DEF Assemble, WatchInv, proofVars
<1>2. CASE CollectArtifacts
  BY <1>2 DEF CollectArtifacts, OurReports, WatchInv
<1>3. CASE Stopping
  BY <1>3 DEF Stopping, RestartHard, HandlerStop, ExitStop, RaisedTo, proofVars
<1>4. CASE Launching \/ Failing
  BY <1>4 DEF Launching, LaunchReaper, LaunchLosesPid, Failing, LaunchFails, NotReady,
     CannotAskQuit, QuitTimeout, QuitFailed, HandlerSnapshot, Unwound, Fail, RaisedTo
<1>5. CASE Ready \/ Store \/ Catch \/ Propagate \/ Leave \/ ExitSnapshot
  BY <1>5 DEF Ready, Store, Catch, Propagate, Leave, ExitSnapshot, callVars
<1>6. CASE Interrupt
  BY <1>6 DEF Interrupt, InterruptStart, InterruptBody, InterruptHandler,
              InterruptTeardown, Fail, RaisedTo
<1>7. CASE AskQuit \/ QuitPoll \/ Own \/ ReportWritten
  BY <1>7 DEF AskQuit, QuitPoll, Own, ReaperQuits, ReaperCrashes, ReportWritten,
              callVars, proofVars
<1>8. CASE UNCHANGED vars
  BY <1>8 DEF vars, callVars, proofVars
<1> QED BY <1>1, <1>2, <1>3, <1>4, <1>5, <1>6, <1>7, <1>8, Kinds DEF Passive, Leaving

-----------------------------------------------------------------------------
(* Theorems *)

LEMMA Inductive == Spec => []IInv
<1>1. Init => IInv
  <2>1. Init => \A l \in Launch : ~Running(l)
    BY DEF Init, Running
  <2> QED BY <2>1, InitTypeOK DEF Init, IInv, HandleInv, RunningInv, DiskInv,
                                  EvidenceInv, WatchInv, SweptInv
<1>2. IInv /\ [Next]_vars => IInv'
  BY NextTypeOK, NextHandleInv, NextRunningInv, NextDiskInv, NextEvidence,
     NextWatchInv, NextSweptInv DEF IInv, TypeOK
<1> QED BY <1>1, <1>2, PTL DEF Spec

(* Every reachable state is well typed; in particular every poll of the    *)
(* process during a clean quit is of a process there is.                   *)
THEOREM TypeCorrect == Spec => []TypeOK
<1>1. IInv => TypeOK
  BY DEF IInv
<1> QED BY <1>1, Inductive, PTL

(* Guaranteed teardown, for any number of restarts that succeed, fail or   *)
(* are caught, and wherever Ctrl-C comes: a session that is over leaves no *)
(* REAPER running, unless its pid was never found, no handler saw start()  *)
(* raise, or the interrupt cut the teardown itself short.                  *)
THEOREM TeardownIsComplete == Spec => []NoOrphan
<1>1. IInv => NoOrphan
  BY DEF IInv, RunningInv, NoOrphan
<1> QED BY <1>1, Inductive, PTL

(* Whatever goes wrong, two REAPERs never run on one profile: they would   *)
(* share its command queue.                                                *)
THEOREM AtMostOneReaper == Spec => []OneReaper
<1>1. IInv => OneReaper
  BY DEF IInv, RunningInv, OneReaper
<1> QED BY <1>1, Inductive, PTL

(* A failure leaves the session with a snapshot, or for a named reason.    *)
THEOREM FailuresHaveEvidence == Spec => []FailureHasEvidence
<1>1. IInv => FailureHasEvidence
  BY DEF IInv, EvidenceInv, FailureHasEvidence
<1> QED BY <1>1, Inductive, PTL

(* After restart() the profile holds everything stored before the last     *)
(* clean quit, whichever hard restarts, crashes and failures came between. *)
THEOREM RestartKeepsState == Spec => []CleanRestartKeepsState
<1>1. IInv => CleanRestartKeepsState
  <2> SUFFICES ASSUME IInv, "quitcrash" \notin mishaps PROVE disk >= promised
    BY DEF CleanRestartKeepsState
  <2>1. disk \in Nat /\ promised \in Nat
    BY SessionAssumption DEF SessionAssumption, IInv, TypeOK, DiskTypeOK
  <2> QED BY <2>1 DEF IInv, DiskInv
<1> QED BY <1>1, Inductive, PTL

(* The teardown of a session() collects every crash report written by then *)
(* for its first launch, however many restarts, failed starts and          *)
(* interrupts came between, unless it is itself cut short.                 *)
THEOREM FirstCrashIsCollected == Spec => []FirstCrashIsReported
<1>1. IInv => FirstCrashIsReported
  BY DEF IInv, SweptInv, FirstCrashIsReported, Swept
<1> QED BY <1>1, Inductive, PTL

=============================================================================
