------------------------------- MODULE RunDir -------------------------------
(***************************************************************************)
(* The run directory <resource>/_reaproof: everything the Python client    *)
(* and the Lua bridge inside REAPER share.  They exchange files only:      *)
(*                                                                         *)
(*   cmd/in/<seq>.lua     a request, renamed into place by the client      *)
(*   cmd/out/<seq>.json   its response, renamed into place by the bridge   *)
(*   heartbeat.json       the bridge's tick                                *)
(*   ready.json           the bridge's announcement                        *)
(*                                                                         *)
(* Every rename is atomic, so a file is absent or complete.  Contents are  *)
(* abstracted to what the properties tell apart: a request or a response   *)
(* carries the number of the launch whose client wrote the request (0: no  *)
(* file), a response also whether it is an ok or an error response.        *)
(***************************************************************************)
EXTENDS Integers

CONSTANTS
  MaxSeq,      \* bound: evals per client (the client's counter is unbounded)
  MaxLaunch,   \* bound: launches of the same profile
  MaxTick,     \* bound: visible heartbeat ticks per launch
  MaxClock,    \* bound: the clock an eval or wait_ready measures with
  LossyPurge,  \* an unlink of a queue file may fail (Windows: file held open)
  LossyWrite   \* the bridge's atomic_write may give up (disk full, file held)

ASSUME RunDirAssumption ==
  /\ MaxSeq \in Nat /\ MaxLaunch \in Nat /\ MaxTick \in Nat /\ MaxClock \in Nat
  /\ LossyPurge \in BOOLEAN
  /\ LossyWrite \in BOOLEAN

VARIABLES
  launch,      \* how often REAPER was launched on this profile
  reaper,      \* the REAPER process of this launch: "up" or "down"
  cmdIn,       \* cmdIn[s]: launch of the client that wrote cmd/in/<s>.lua
  cmdOut,      \* cmdOut[s]: the response in cmd/out/<s>.json
  heartbeat,   \* the tick in heartbeat.json
  ready,       \* ready.json
  clock,       \* time since the client's current wait began
  quiet        \* history: time since heartbeat.json last showed a new tick

fileVars == <<cmdIn, cmdOut, heartbeat, ready>>
procVars == <<launch, reaper>>
timeVars == <<clock, quiet>>
sharedVars == <<fileVars, procVars, timeVars>>

Cmd    == 1..MaxSeq
Launch == 0..MaxLaunch
NoFile == 0

Response   == [req : Launch, ok : BOOLEAN]
NoResponse == [req |-> NoFile, ok |-> FALSE]
ReadyFile  == [by : Launch, degraded : BOOLEAN]
NoReady    == [by |-> NoFile, degraded |-> FALSE]

RunDirTypeOK ==
  /\ launch \in Launch
  /\ reaper \in {"up", "down"}
  /\ cmdIn \in [Cmd -> Launch]
  /\ cmdOut \in [Cmd -> Response]
  /\ heartbeat \in 0..MaxTick
  /\ ready \in ReadyFile
  /\ clock \in 0..MaxClock
  /\ quiet \in 0..MaxClock

RunDirInit ==
  /\ launch = 0
  /\ reaper = "down"
  /\ cmdIn = [s \in Cmd |-> NoFile]
  /\ cmdOut = [s \in Cmd |-> NoResponse]
  /\ heartbeat = NoFile
  /\ ready = NoReady
  /\ clock = 0
  /\ quiet = 0

up == reaper = "up"

Requested(s) == cmdIn[s] # NoFile
Answered(s)  == cmdOut[s].req # NoFile

-----------------------------------------------------------------------------
(* Provisioner._reset_run_dir, called by every launch().  The two markers  *)
(* are unlinked or launch() raises; a queue file that cannot be unlinked   *)
(* is skipped silently.                                                    *)

MutKept == {Cmd}
Kept == IF LossyPurge THEN SUBSET Cmd ELSE {{}}

MutPurgeMarkers == heartbeat' = NoFile /\ UNCHANGED ready
PurgeMarkers == heartbeat' = NoFile /\ ready' = NoReady

PurgeQueue(keptIn, keptOut) ==
  /\ cmdIn'  = [s \in Cmd |-> IF s \in keptIn THEN cmdIn[s] ELSE NoFile]
  /\ cmdOut' = [s \in Cmd |-> IF s \in keptOut THEN cmdOut[s] ELSE NoResponse]

ResetRunDir ==
  PurgeMarkers /\ \E keptIn, keptOut \in Kept : PurgeQueue(keptIn, keptOut)

=============================================================================
