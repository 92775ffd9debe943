------------------------------ MODULE FileQueue ------------------------------
(***************************************************************************)
(* The control channel as a whole: REAPER with its bridge, the client, the *)
(* run directory between them, time, the death of REAPER at any moment and *)
(* the relaunch of the same profile (ReaperSession.start and restart).     *)
(***************************************************************************)
EXTENDS Bridge, BridgeClient

vars == <<sharedVars, bridgeVars, clientVars>>

TypeOK == RunDirTypeOK /\ BridgeTypeOK /\ ClientTypeOK

Init == RunDirInit /\ BridgeInit /\ ClientInit

(* Provisioner.launch() and the new BridgeClient start() and restart()     *)
(* make.  The session's thread is the client's, so no eval is in progress; *)
(* the previous REAPER has been terminated or has quit.                    *)
Relaunch ==
  /\ ~up /\ launch < MaxLaunch /\ cpc \in {"detached", "idle"}
  /\ ResetRunDir
  /\ launch' = launch + 1 /\ reaper' = "up"
  /\ bpc' = "boot" /\ tick' = 0 /\ todo' = {} /\ served' = 0 /\ cur' = NoJob
  /\ runs' = [s \in Cmd |-> 0]
  /\ cpc' = "wait" /\ seq' = 0 /\ now' = 0 /\ lastTick' = 0 /\ lastAdvance' = 0
  /\ outcome' = "none" /\ got' = NoResponse /\ env' = 0
  /\ seen' = "up" /\ hbAge' = 0
  /\ clock' = 0 /\ quiet' = 0

(* Time passes while the client waits. *)
Tick ==
  /\ cpc \in InWait \cup InEval /\ clock < MaxClock
  /\ clock' = clock + 1
  /\ quiet' = AtMost(quiet + 1, MaxClock)
  /\ UNCHANGED <<fileVars, procVars, bridgeVars, clientVars>>

Bridging == (BridgeStep \/ Die) /\ UNCHANGED clientVars
Calling  == (Submit \/ ClientStep) /\ UNCHANGED bridgeVars

Next == Relaunch \/ Tick \/ Bridging \/ Calling

Spec == Init /\ [][Next]_vars

(* The client's thread and the clock never stop; nothing is assumed of     *)
(* REAPER, which may hang or die at any point.                             *)
ClientFairness ==
  /\ WF_vars(ClientStep /\ UNCHANGED bridgeVars)
  /\ WF_vars(Tick)

(* REAPER's defer loop keeps running while the process lives. *)
BridgeFairness == WF_vars(BridgeStep /\ UNCHANGED clientVars)

FairSpec == Spec /\ ClientFairness

-----------------------------------------------------------------------------
(* Safety *)

(* No false result: what an eval returns is the response to the very       *)
(* request it sent, and this launch's REAPER did execute that request.     *)
(* A fresh client numbers its requests from 1 again, so this needs the run *)
(* directory purged of every earlier request and response.                 *)
NoFalseAnswer ==
  outcome \in {"value", "error"} => got.req = launch /\ runs[seq] >= 1

(* BridgeCrash never hides an answer: when it is raised, REAPER is dead    *)
(* and no response to the request is there, nor ever will be.              *)
CrashLosesNoAnswer ==
  (outcome = "crash" /\ cpc = "idle") => ~up /\ ~Answered(seq)

(* A dead REAPER is reported as a crash, not as a hang or a timeout: those *)
(* two are raised only in a poll that found REAPER running when it began.  *)
DeadReaperIsACrash == outcome \in {"hang", "timeout"} => seen = "up"

(* BridgeHang is raised only after heartbeat.json showed no new tick for   *)
(* longer than hang_timeout, give or take the time the client was          *)
(* preempted between reading the clock and reading the heartbeat.  Where   *)
(* writes fail it may be wrong: a tick whose file is removed goes unseen.  *)
HangOnlyAfterSilence == outcome = "hang" => hbAge + MaxSkew > HangTimeout

(* Requests take effect in the order the client sent them, also those the  *)
(* client gave up on: an eval never overtakes an abandoned one.            *)
ExecutedInOrder ==
  \A s, t \in Cmd : (s < t /\ runs[t] >= 1) => runs[s] >= 1

(* A chunk is executed at most once, however often its request is listed.  *)
AtMostOnce == \A s \in Cmd : runs[s] <= 1

(* A request executed again is one whose response was lost: service_one    *)
(* never re-runs a request that has a response.                            *)
RerunsOnlyUnanswered ==
  [][\A s \in Cmd : runs'[s] > runs[s] => ~Answered(s)]_vars

(* An eval is only ever sent under the env of the ready file this launch's *)
(* bridge wrote, and never under a degraded one.                           *)
ReadyIsFresh ==
  cpc \in {"idle"} \cup InEval => env = launch /\ ~ready.degraded

-----------------------------------------------------------------------------
(* Refinement: the file queue is an Rpc.  A connection is a launch, a call *)
(* is executed once the bridge has run it and replied to once its response *)
(* file of this launch is in place.                                        *)

RpcVerdict ==
  CASE cpc \in InEval -> "pending"
    [] cpc \notin InEval /\ seq = 0 -> "none"
    [] cpc \notin InEval /\ seq > 0 ->
         IF outcome \in {"value", "error"} THEN "answered"
         ELSE IF outcome = "crash" THEN "crashed" ELSE "gaveup"

R == INSTANCE Rpc WITH
  Calls      <- MaxSeq,
  connection <- launch,
  serverUp   <- up,
  call       <- seq,
  executed   <- {s \in Cmd : runs[s] >= 1},
  replied    <- {s \in Cmd : Answered(s) /\ cmdOut[s].req = launch},
  verdict    <- RpcVerdict

(* The client, the bridge and their files together keep the promises of    *)
(* Rpc: every step of theirs is a step of it, or changes nothing there.    *)
ImplementsRpc == R!Spec

-----------------------------------------------------------------------------
(* Liveness *)

(* Every eval and every wait_ready returns or raises, whatever REAPER      *)
(* does: a hung or dead REAPER never blocks the runner for good.           *)
EvalReturns == cpc \in InWait \cup InEval ~> cpc \in {"idle", "detached"}

(* If REAPER's defer loop keeps running while the process lives, a request *)
(* that was sent is executed even after its client gave up on it, unless   *)
(* REAPER dies first, or an earlier one, whose response cannot be written, *)
(* is executed over and over in its place (Batch of those starve it).      *)
SentIsExecuted ==
  BridgeFairness =>
    \A s \in Cmd :
      (s <= seq /\ up) ~> (runs[s] >= 1 \/ ~up \/ \E t \in 1..(s - 1) : runs[t] > 1)

=============================================================================
