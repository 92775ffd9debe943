---------------------------- MODULE BridgeClient ----------------------------
(***************************************************************************)
(* The Python side of the file queue (control/bridge_client.py).  A client *)
(* is made by every launch with its counter at 0; it waits for ready.json, *)
(* then evaluates Lua chunks one at a time.  While it waits for a response *)
(* it polls: response file, heartbeat, process.  Each look at the shared   *)
(* state is a step of its own, so the bridge and the death of REAPER fall  *)
(* between any two of them.                                                *)
(***************************************************************************)
EXTENDS RunDir

CONSTANTS
  HangTimeout,   \* hang_timeout of an eval
  Timeout,       \* timeout of an eval
  ReadyTimeout,  \* timeout of wait_ready
  MaxSkew,       \* how long the client may be preempted between reading the
                 \* clock and reading the heartbeat in one poll
  ZombieProbe    \* is_alive() is os.kill(pid, 0) on an unreaped child (Linux)

ASSUME ClientAssumption ==
  /\ HangTimeout \in Nat /\ Timeout \in Nat /\ ReadyTimeout \in Nat
  /\ MaxSkew \in Nat
  /\ ZombieProbe \in BOOLEAN

VARIABLES
  cpc,          \* what the client does next
  seq,          \* _seq, the number of its last request
  now,          \* now, the clock as this poll read it
  lastTick,     \* last_tick (0: None)
  lastAdvance,  \* last_advance
  outcome,      \* how the last eval or wait_ready ended
  got,          \* the response the last eval returned
  env,          \* launch whose ready.json wait_ready adopted
  seen,         \* history: state of REAPER when this poll began
  hbAge         \* history: age of the heartbeat when this poll read it

clientVars == <<cpc, seq, now, lastTick, lastAdvance, outcome, got, env,
                seen, hbAge>>

InWait == {"wait", "ready?"}                    \* inside wait_ready
InEval == {"check", "beat?", "alive?", "grace"} \* inside eval

ClientTypeOK ==
  /\ cpc \in {"detached", "idle"} \cup InWait \cup InEval
  /\ seq \in 0..MaxSeq
  /\ now \in 0..MaxClock
  /\ lastTick \in 0..MaxTick
  /\ lastAdvance \in 0..MaxClock
  /\ outcome \in {"none", "value", "error", "crash", "hang", "timeout", "notready"}
  /\ got \in Response
  /\ env \in Launch
  /\ seen \in {"up", "down"}
  /\ hbAge \in 0..MaxClock

ClientInit ==
  /\ cpc = "detached"
  /\ seq = 0
  /\ now = 0
  /\ lastTick = 0
  /\ lastAdvance = 0
  /\ outcome = "none"
  /\ got = NoResponse
  /\ env = 0
  /\ seen = "up"
  /\ hbAge = 0

(* Provisioner.is_alive as the client's callback sees it.  A POSIX child   *)
(* nobody has waited for still answers signal 0 after its death.           *)
Alive == up \/ ZombieProbe

EndWait(how) == cpc' = "idle" /\ outcome' = how

-----------------------------------------------------------------------------
(* wait_ready() *)

Adopt == ready.by # NoFile /\ ~ready.degraded

(* The top of its loop: the deadline, then the ready file. *)
WaitReady ==
  /\ cpc = "wait"
  /\ \/ /\ clock >= ReadyTimeout
        /\ cpc' = "detached" /\ outcome' = "notready"
        /\ UNCHANGED env
     \/ /\ clock < ReadyTimeout
        /\ Adopt
        /\ EndWait("none")
        /\ env' = ready.by
     \/ /\ clock < ReadyTimeout
        /\ ready.by # NoFile /\ ~Adopt
        /\ cpc' = "detached" /\ outcome' = "notready"
        /\ UNCHANGED env
     \/ /\ clock < ReadyTimeout
        /\ ready.by = NoFile
        /\ cpc' = "ready?"
        /\ UNCHANGED <<outcome, env>>
  /\ UNCHANGED sharedVars
  /\ UNCHANGED <<seq, now, lastTick, lastAdvance, got, seen, hbAge>>

(* No ready file was there: a dead REAPER is a crash, unless the file has  *)
(* been published in between; then the loop looks again.                   *)
ReadyOrDead ==
  /\ cpc = "ready?"
  /\ \/ /\ ~Alive /\ ready.by = NoFile
        /\ cpc' = "detached" /\ outcome' = "crash"
     \/ /\ Alive \/ ready.by # NoFile
        /\ cpc' = "wait"
        /\ UNCHANGED outcome
  /\ UNCHANGED sharedVars
  /\ UNCHANGED <<seq, now, lastTick, lastAdvance, got, env, seen, hbAge>>

-----------------------------------------------------------------------------
(* eval() *)

(* The request is published under the next number, then the heartbeat and  *)
(* the clock give the starting point of the stall measurement.             *)
Submit ==
  /\ cpc = "idle" /\ seq < MaxSeq
  /\ seq' = seq + 1
  /\ cmdIn' = [cmdIn EXCEPT ![seq + 1] = launch]
  /\ lastTick' = heartbeat
  /\ clock' = 0 /\ now' = 0 /\ lastAdvance' = 0
  /\ cpc' = "check" /\ outcome' = "none" /\ got' = NoResponse
  /\ UNCHANGED <<cmdOut, heartbeat, ready, procVars, quiet>>
  /\ UNCHANGED <<env, seen, hbAge>>

(* _parse_response: the file named after the request is the answer. *)
Return ==
  /\ got' = cmdOut[seq]
  /\ EndWait(IF cmdOut[seq].ok THEN "value" ELSE "error")

CheckResponse ==
  /\ cpc = "check"
  /\ \/ Answered(seq) /\ Return
     \/ /\ ~Answered(seq)
        /\ cpc' = "beat?"
        /\ UNCHANGED <<outcome, got>>
  /\ seen' = reaper
  /\ UNCHANGED sharedVars
  /\ UNCHANGED <<seq, now, lastTick, lastAdvance, env, hbAge>>

MutAdvanced == heartbeat # NoFile /\ lastTick # 0 /\ heartbeat > lastTick
Advanced == heartbeat # NoFile /\ (lastTick = 0 \/ heartbeat > lastTick)

(* now = time.monotonic() at most MaxSkew before the heartbeat is read. *)
MutClockReads == {now}
ClockReads == {t \in now..clock : clock - t <= MaxSkew}

ReadHeartbeat ==
  /\ cpc = "beat?"
  /\ now' \in ClockReads
  /\ lastTick' = IF Advanced THEN heartbeat ELSE lastTick
  /\ lastAdvance' = IF Advanced THEN now' ELSE lastAdvance
  /\ hbAge' = quiet
  /\ cpc' = "alive?"
  /\ UNCHANGED sharedVars
  /\ UNCHANGED <<seq, outcome, got, env, seen>>

Stalled == now - lastAdvance > HangTimeout

MutVerdict == IF Stalled THEN "hang" ELSE IF ~Alive THEN "grace"
              ELSE IF now > Timeout THEN "timeout" ELSE "poll"
Verdict == IF ~Alive THEN "grace"
           ELSE IF Stalled THEN "hang"
           ELSE IF now > Timeout THEN "timeout" ELSE "poll"

(* The rest of the poll: the process first, then the two timeouts. *)
Probe ==
  /\ cpc = "alive?"
  /\ \/ /\ Verdict \in {"hang", "timeout"}
        /\ EndWait(Verdict)
     \/ /\ Verdict = "grace"
        /\ cpc' = "grace"
        /\ UNCHANGED outcome
     \/ /\ Verdict = "poll"
        /\ cpc' = "check"
        /\ UNCHANGED outcome
  /\ UNCHANGED sharedVars
  /\ UNCHANGED <<seq, now, lastTick, lastAdvance, got, env, seen, hbAge>>

MutRecheck == FALSE
Recheck == Answered(seq)

(* REAPER is gone: one last look for a response flushed before it died. *)
Grace ==
  /\ cpc = "grace"
  /\ \/ Recheck /\ Return
     \/ ~Recheck /\ EndWait("crash") /\ UNCHANGED got
  /\ UNCHANGED sharedVars
  /\ UNCHANGED <<seq, now, lastTick, lastAdvance, env, seen, hbAge>>

ClientStep == WaitReady \/ ReadyOrDead \/ CheckResponse \/ ReadHeartbeat
              \/ Probe \/ Grace

=============================================================================
