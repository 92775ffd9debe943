------------------------------- MODULE Bridge -------------------------------
(***************************************************************************)
(* The bridge inside REAPER (bridge/reaproof_bridge.lua): it announces     *)
(* itself once and then runs one loop iteration per defer callback.  An    *)
(* iteration writes the heartbeat, lists the requests that have no         *)
(* response and services up to Batch of them in ascending order; a request *)
(* is executed first and its response is written afterwards, so the two    *)
(* are separate steps.  REAPER may stop between any two steps (a modal     *)
(* dialog, a long chunk) simply by not taking the next one, and may die.   *)
(***************************************************************************)
EXTENDS RunDir

CONSTANT Batch   \* requests serviced per tick (16 in the code)

ASSUME BatchAssumption == Batch \in Nat \ {0}

VARIABLES
  bpc,     \* what the bridge does next
  tick,    \* the loop's tick counter
  todo,    \* requests of this tick's listing not serviced yet
  served,  \* how many were serviced this tick (n)
  cur,     \* the request whose chunk has run and whose response is unwritten
  runs     \* history: runs[s], how often this launch executed <s>.lua (2: more)

bridgeVars == <<bpc, tick, todo, served, cur, runs>>

Job   == [seq : Cmd \cup {0}, req : Launch, ok : BOOLEAN]
NoJob == [seq |-> 0, req |-> NoFile, ok |-> FALSE]

BridgeTypeOK ==
  /\ bpc \in {"off", "boot", "beat", "list", "serve", "publish"}
  /\ tick \in 0..MaxTick
  /\ todo \in SUBSET Cmd
  /\ served \in 0..Batch
  /\ cur \in Job
  /\ runs \in [Cmd -> 0..2]

BridgeInit ==
  /\ bpc = "off"
  /\ tick = 0
  /\ todo = {}
  /\ served = 0
  /\ cur = NoJob
  /\ runs = [s \in Cmd |-> 0]

AtMost(n, bound) == IF n < bound THEN n ELSE bound

(* The init part of __startup.lua.  An env snapshot that raises publishes  *)
(* a degraded ready file; an atomic_write that gives up publishes nothing, *)
(* and its result is not looked at.                                        *)
Boot ==
  /\ up /\ bpc = "boot"
  /\ \/ \E d \in BOOLEAN : ready' = [by |-> launch, degraded |-> d]
     \/ LossyWrite /\ UNCHANGED ready
  /\ bpc' = "beat"
  /\ UNCHANGED <<cmdIn, cmdOut, heartbeat, procVars, timeVars>>
  /\ UNCHANGED <<tick, todo, served, cur, runs>>

(* First half of loop(): the heartbeat.  A failed rename may leave the old *)
(* file or, after os.remove, none.  Past MaxTick the file's tick no longer *)
(* advances in the model.                                                  *)
Beat ==
  /\ up /\ bpc = "beat"
  /\ tick' = AtMost(tick + 1, MaxTick)
  /\ \/ /\ heartbeat' = tick'
        /\ quiet' = IF tick' > tick THEN 0 ELSE quiet
     \/ /\ LossyWrite
        /\ heartbeat' \in {heartbeat, NoFile}
        /\ UNCHANGED quiet
  /\ bpc' = "list"
  /\ UNCHANGED <<cmdIn, cmdOut, ready, procVars, clock>>
  /\ UNCHANGED <<todo, served, cur, runs>>

(* pending_seqs(): requests lacking a response. *)
MutPending == {s \in Cmd : Requested(s)}
Pending == {s \in Cmd : Requested(s) /\ ~Answered(s)}

List ==
  /\ up /\ bpc = "list"
  /\ todo' = Pending
  /\ served' = 0
  /\ bpc' = "serve"
  /\ UNCHANGED sharedVars
  /\ UNCHANGED <<tick, cur, runs>>

MutIsNext(s) == s \in todo
IsNext(s) == s \in todo /\ \A t \in todo : s <= t

MutBatchFull == FALSE
BatchFull == served = Batch

(* First half of service_one(): the chunk is loaded and run.  Compile,     *)
(* runtime and encode errors all become an error response.                 *)
RunChunk(s, ok) ==
  /\ cur' = [seq |-> s, req |-> cmdIn[s], ok |-> ok]
  /\ runs' = [runs EXCEPT ![s] = AtMost(@ + 1, 2)]
  /\ todo' = todo \ {s}

Execute ==
  /\ up /\ bpc = "serve" /\ ~BatchFull
  /\ \E s \in Cmd, ok \in BOOLEAN : IsNext(s) /\ RunChunk(s, ok)
  /\ bpc' = "publish"
  /\ UNCHANGED sharedVars
  /\ UNCHANGED <<tick, served>>

(* Second half of service_one(): the response is renamed into place, or    *)
(* atomic_write gives up, which service_one does not look at.              *)
Publish ==
  /\ up /\ bpc = "publish"
  /\ \/ cmdOut' = [cmdOut EXCEPT ![cur.seq] = [req |-> cur.req, ok |-> cur.ok]]
     \/ LossyWrite /\ UNCHANGED cmdOut
  /\ served' = served + 1
  /\ cur' = NoJob
  /\ bpc' = "serve"
  /\ UNCHANGED <<cmdIn, heartbeat, ready, procVars, timeVars>>
  /\ UNCHANGED <<tick, todo, runs>>

MutRearm == "serve"
Rearm == "beat"

(* The batch is done: loop() defers itself. *)
EndTick ==
  /\ up /\ bpc = "serve" /\ (todo = {} \/ BatchFull)
  /\ bpc' = Rearm
  /\ todo' = {}
  /\ UNCHANGED sharedVars
  /\ UNCHANGED <<tick, served, cur, runs>>

BridgeStep == Boot \/ Beat \/ List \/ Execute \/ Publish \/ EndTick

(* REAPER crashes, is killed, or quits. *)
Die ==
  /\ up
  /\ reaper' = "down"
  /\ bpc' = "off"
  /\ todo' = {}
  /\ served' = 0
  /\ cur' = NoJob
  /\ UNCHANGED <<launch, fileVars, timeVars, tick, runs>>

=============================================================================
