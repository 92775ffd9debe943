--------------------------- MODULE FileQueueProofs ---------------------------
(***************************************************************************)
(* Theorems about FileQueue, for every value of its constants.  The proofs *)
(* follow the actions: one step per action, each from the named parts of   *)
(* the inductive invariant it needs.                                       *)
(*                                                                         *)
(* First what every call goes through, then what the client concludes      *)
(* (that REAPER died, that it hangs, that it is ready), and last that the  *)
(* file queue implements Rpc: under the refinement mapping R of FileQueue  *)
(* every step is a step of Rpc or changes nothing there.                   *)
(***************************************************************************)
EXTENDS FileQueue, TLAPS

-----------------------------------------------------------------------------
(* Parts of the inductive invariants *)

(* TypeOK alone is not inductive: an answer is read under the number of    *)
(* the last request, and served must not pass Batch.                       *)
TypeInv ==
  /\ TypeOK
  /\ cpc \in InEval => seq > 0
  /\ bpc = "publish" => served < Batch

(* The process, the bridge and the client agree on where they are. *)
Phases ==
  /\ up <=> bpc # "off"
  /\ (up \/ cpc # "detached") => launch > 0
  /\ cpc \in InEval => seq > 0
  /\ cpc \in InWait => seq = 0
  /\ seq > 0 => launch > 0
  /\ outcome \in {"value", "error", "hang", "timeout"} => seq > 0
  /\ cpc \in InEval \cup InWait => outcome = "none"

(* Every file of the queue is this launch's: the requests are those the    *)
(* client counts, a response is there only for an executed request.        *)
QueueIsFresh ==
  /\ \A s \in Cmd : cmdIn[s] = IF s <= seq THEN launch ELSE NoFile
  /\ \A s \in Cmd : Answered(s) => cmdOut[s].req = launch /\ runs[s] >= 1
  /\ \A s \in Cmd : runs[s] >= 1 => s <= seq
  /\ todo \subseteq 1..seq
  /\ bpc = "publish" => /\ cur.seq \in Cmd /\ cur.req = launch
                        /\ runs[cur.seq] >= 1

FreshInv == TypeInv /\ Phases /\ QueueIsFresh /\ NoFalseAnswer

-----------------------------------------------------------------------------
(* Type correctness *)

LEMMA Defaults ==
  NoResponse \in Response /\ NoReady \in ReadyFile /\ NoJob \in Job
  BY RunDirAssumption DEF RunDirAssumption, NoResponse, Response, NoReady, ReadyFile, NoJob, Job,
                          Launch, NoFile

LEMMA InitTypeInv == Init => TypeInv
<1> SUFFICES ASSUME Init PROVE TypeInv
  OBVIOUS
<1> USE RunDirAssumption, BatchAssumption, ClientAssumption, Defaults
    DEF RunDirAssumption, BatchAssumption, ClientAssumption, Init, Launch, NoFile
<1>1. RunDirTypeOK
  BY DEF RunDirInit, RunDirTypeOK
<1>2. BridgeTypeOK
  BY DEF BridgeInit, BridgeTypeOK
<1>3. ClientTypeOK
  BY DEF ClientInit, ClientTypeOK
<1> QED BY <1>1, <1>2, <1>3
        DEF BridgeInit, ClientInit, TypeInv, TypeOK, InEval

(* Every step preserves the types: the bounded counters are guarded or     *)
(* saturate, and every file written is a request, response or tick.        *)
LEMMA NextTypeInv == TypeInv /\ [Next]_vars => TypeInv'
<1> SUFFICES ASSUME TypeInv, [Next]_vars PROVE TypeInv'
  OBVIOUS
<1> USE RunDirAssumption, BatchAssumption, ClientAssumption
    DEF RunDirAssumption, BatchAssumption, ClientAssumption, TypeInv, TypeOK, RunDirTypeOK, BridgeTypeOK, ClientTypeOK,
            Cmd, Launch, NoFile, sharedVars, fileVars, procVars, timeVars,
            bridgeVars, clientVars, InWait, InEval
<1>1. CASE Relaunch
  <2> USE <1>1, Defaults DEF Relaunch, ResetRunDir, PurgeMarkers
  <2>1. PICK keptIn, keptOut \in Kept : PurgeQueue(keptIn, keptOut)
    OBVIOUS
  <2>2. RunDirTypeOK'
    BY <2>1 DEF PurgeQueue
  <2>3. BridgeTypeOK'
    OBVIOUS
  <2>4. ClientTypeOK'
    OBVIOUS
  <2> QED BY <2>2, <2>3, <2>4
<1>2. CASE Tick
  BY <1>2 DEF Tick, AtMost
<1>3. CASE Bridging
  <2>1. CASE Boot
    BY <1>3, <2>1 DEF Bridging, Boot, ReadyFile
  <2>2. CASE Beat
    BY <1>3, <2>2 DEF Bridging, Beat, AtMost
  <2>3. CASE List
    BY <1>3, <2>3 DEF Bridging, List, Pending
  <2>4. CASE Execute
    <3> USE <1>3, <2>4 DEF Bridging, Execute
    <3>1. PICK s \in Cmd, ok \in BOOLEAN : IsNext(s) /\ RunChunk(s, ok)
      OBVIOUS
    <3>2. AtMost(runs[s] + 1, 2) \in 0..2 /\ cmdIn[s] \in Launch
      BY DEF AtMost
    <3>3. cur' \in Job
      BY <3>1, <3>2 DEF RunChunk, Job
    <3>4. runs' \in [Cmd -> 0..2]
      BY <3>1, <3>2 DEF RunChunk
    <3>5. served < Batch
      BY DEF BatchFull
    <3> QED BY <3>1, <3>3, <3>4, <3>5 DEF RunChunk
  <2>5. CASE Publish
    <3> USE <1>3, <2>5, Defaults DEF Bridging, Publish
    <3>1. served' \in 0..Batch
      OBVIOUS
    <3>2. [req |-> cur.req, ok |-> cur.ok] \in Response
      BY DEF Job, Response
    <3>3. cmdOut' \in [Cmd -> Response]
      BY <3>2
    <3> QED BY <3>1, <3>3
  <2>6. CASE EndTick
    BY <1>3, <2>6 DEF Bridging, EndTick, Rearm
  <2>7. CASE Die
    BY <1>3, <2>7, Defaults DEF Bridging, Die
  <2> QED BY <1>3, <2>1, <2>2, <2>3, <2>4, <2>5, <2>6, <2>7
          DEF Bridging, BridgeStep
<1>4. CASE Calling
  <2>1. CASE Submit
    BY <1>4, <2>1, SMTT(30) DEF Calling, Submit, Response, NoResponse
  <2>2. CASE WaitReady
    BY <1>4, <2>2 DEF Calling, WaitReady, EndWait, ReadyFile
  <2>3. CASE ReadyOrDead
    BY <1>4, <2>3 DEF Calling, ReadyOrDead
  <2>4. CASE CheckResponse
    BY <1>4, <2>4 DEF Calling, CheckResponse, Return, EndWait, Answered
  <2>5. CASE ReadHeartbeat
    BY <1>4, <2>5 DEF Calling, ReadHeartbeat, ClockReads
  <2>6. CASE Probe
    BY <1>4, <2>6 DEF Calling, Probe, EndWait, Verdict
  <2>7. CASE Grace
    BY <1>4, <2>7 DEF Calling, Grace, Return, EndWait, Recheck, Answered
  <2> QED BY <1>4, <2>1, <2>2, <2>3, <2>4, <2>5, <2>6, <2>7
          DEF Calling, ClientStep
<1>5. CASE UNCHANGED vars
  BY <1>5 DEF vars
<1> QED BY <1>1, <1>2, <1>3, <1>4, <1>5 DEF Next

(* Every reachable state has the types the modules declare. *)
THEOREM TypeCorrect == Spec => []TypeOK
<1>1. TypeInv => TypeOK
  BY DEF TypeInv
<1> QED BY InitTypeInv, NextTypeInv, <1>1, PTL DEF Spec

-----------------------------------------------------------------------------
(* Where the processes are *)

LEMMA InitPhases == Init => Phases
  BY DEF Init, RunDirInit, BridgeInit, ClientInit, up, Phases, InEval, InWait

LEMMA NextPhases == TypeInv /\ Phases /\ [Next]_vars => Phases'
<1> SUFFICES ASSUME TypeInv, Phases, [Next]_vars PROVE Phases'
  OBVIOUS
<1>0. launch \in Nat /\ seq \in Nat /\ MaxSeq \in Nat
  BY RunDirAssumption DEF RunDirAssumption, TypeInv, TypeOK, RunDirTypeOK,
                          ClientTypeOK, Launch
<1> USE <1>0 DEF Phases, up, InEval, InWait, sharedVars, fileVars, procVars,
                 timeVars, bridgeVars, clientVars
<1>1. CASE Relaunch
  BY <1>1 DEF Relaunch
<1>2. CASE Tick
  BY <1>2 DEF Tick
<1>3. CASE Bridging
  BY <1>3 DEF Bridging, BridgeStep, Boot, Beat, List, Execute, Publish,
              EndTick, Rearm, Die
<1>4. CASE Calling
  <2> USE <1>4 DEF Calling
  <2>1. CASE Submit
    BY <2>1 DEF Submit
  <2>2. CASE WaitReady \/ ReadyOrDead
    BY <2>2 DEF WaitReady, ReadyOrDead, EndWait
  <2>3. CASE CheckResponse \/ ReadHeartbeat
    BY <2>3 DEF CheckResponse, ReadHeartbeat, EndWait, Return
  <2>4. CASE Probe
    BY <2>4 DEF Probe, EndWait
  <2>5. CASE Grace
    BY <2>5 DEF Grace, EndWait, Return
  <2> QED BY <2>1, <2>2, <2>3, <2>4, <2>5 DEF ClientStep
<1>5. CASE UNCHANGED vars
  BY <1>5 DEF vars
<1> QED BY <1>1, <1>2, <1>3, <1>4, <1>5 DEF Next

-----------------------------------------------------------------------------
(* No false answers, provided a relaunch can purge the queue *)

LEMMA InitFresh == Init => QueueIsFresh
  BY DEF Init, RunDirInit, BridgeInit, ClientInit, QueueIsFresh, Cmd, Answered,
         NoFile, NoResponse

(* The run directory never holds a file of an earlier launch, and a        *)
(* response of this launch only after the request has been executed.       *)
LEMMA NextFresh ==
  ~LossyPurge /\ TypeInv /\ Phases /\ QueueIsFresh /\ [Next]_vars
    => QueueIsFresh'
<1> SUFFICES ASSUME ~LossyPurge, TypeInv, Phases, QueueIsFresh, [Next]_vars
             PROVE  QueueIsFresh'
  OBVIOUS
<1>0. /\ launch \in Nat /\ seq \in 0..MaxSeq /\ MaxSeq \in Nat
      /\ runs \in [Cmd -> 0..2] /\ cmdIn \in [Cmd -> Launch]
      /\ cmdOut \in [Cmd -> Response] /\ todo \subseteq Cmd
  BY RunDirAssumption DEF RunDirAssumption, TypeInv, TypeOK, RunDirTypeOK,
                          BridgeTypeOK, ClientTypeOK, Launch
<1> USE <1>0 DEF QueueIsFresh, Answered, Cmd, NoFile, sharedVars, fileVars,
                 procVars, timeVars, bridgeVars, clientVars
<1>1. CASE Relaunch
  <2>1. PurgeQueue({}, {})
    BY <1>1 DEF Relaunch, ResetRunDir, Kept
  <2> QED BY <1>1, <2>1 DEF Relaunch, PurgeQueue, NoResponse
<1>2. CASE Tick
  BY <1>2 DEF Tick
<1>3. CASE Bridging
  <2> USE <1>3 DEF Bridging
  <2>1. CASE Boot \/ Beat
    BY <2>1 DEF Boot, Beat
  <2>2. CASE List
    BY <2>2 DEF List, Pending, Requested
  <2>3. CASE Execute
    <3>1. PICK s \in Cmd, ok \in BOOLEAN : IsNext(s) /\ RunChunk(s, ok)
      BY <2>3 DEF Execute
    <3>2. s \in todo /\ s <= seq /\ cmdIn[s] = launch
      BY <3>1 DEF IsNext
    <3>3. cur'.seq = s /\ cur'.req = launch /\ runs'[s] >= 1
      BY <3>1, <3>2, SMTT(30) DEF RunChunk, AtMost
    <3>4. \A t \in Cmd : t # s => runs'[t] = runs[t]
      BY <3>1 DEF RunChunk
    <3> QED BY <2>3, <3>1, <3>2, <3>3, <3>4 DEF Execute, RunChunk
  <2>4. CASE Publish
    <3>1. \A s \in Cmd : Answered(s)' =>
            \/ (Answered(s) /\ cmdOut'[s] = cmdOut[s])
            \/ (s = cur.seq /\ cmdOut'[s].req = launch)
      BY <2>4 DEF Publish
    <3> QED BY <2>4, <3>1 DEF Publish
  <2>5. CASE EndTick
    BY <2>5 DEF EndTick, Rearm
  <2>6. CASE Die
    BY <2>6 DEF Die
  <2> QED BY <2>1, <2>2, <2>3, <2>4, <2>5, <2>6 DEF BridgeStep
<1>4. CASE Calling
  <2> USE <1>4 DEF Calling
  <2>1. CASE Submit
    <3>1. \A s \in Cmd : cmdIn'[s] = IF s = seq + 1 THEN launch ELSE cmdIn[s]
      BY <2>1 DEF Submit
    <3> QED BY <2>1, <3>1 DEF Submit
  <2>2. CASE WaitReady \/ ReadyOrDead
    BY <2>2 DEF WaitReady, ReadyOrDead
  <2>3. CASE CheckResponse \/ ReadHeartbeat
    BY <2>3 DEF CheckResponse, ReadHeartbeat
  <2>4. CASE Probe \/ Grace
    BY <2>4 DEF Probe, Grace
  <2> QED BY <2>1, <2>2, <2>3, <2>4 DEF ClientStep
<1>5. CASE UNCHANGED vars
  BY <1>5 DEF vars
<1> QED BY <1>1, <1>2, <1>3, <1>4, <1>5 DEF Next

(* An execution count never goes back within a launch. *)
LEMMA RunsGrow ==
  TypeInv /\ [Next]_vars /\ ~Relaunch
    => \A s \in Cmd : runs[s] >= 1 => runs'[s] >= 1
<1> SUFFICES ASSUME TypeInv, [Next]_vars, ~Relaunch
             PROVE  \A s \in Cmd : runs[s] >= 1 => runs'[s] >= 1
  OBVIOUS
<1>0. runs \in [Cmd -> 0..2]
  BY DEF TypeInv, TypeOK, BridgeTypeOK
<1>1. CASE Execute
  <2>1. PICK s \in Cmd, ok \in BOOLEAN : RunChunk(s, ok)
    BY <1>1 DEF Execute
  <2> QED BY <1>0, <2>1 DEF RunChunk, AtMost
<1>2. CASE ~Execute
  <2>1. UNCHANGED runs
    BY <1>2 DEF Next, vars, bridgeVars, Tick, Bridging, BridgeStep, Boot, Beat,
                List, Publish, EndTick, Die, Calling
  <2> QED BY <2>1
<1> QED BY <1>1, <1>2

LEMMA NextNoFalseAnswer == FreshInv /\ [Next]_vars => NoFalseAnswer'
<1> SUFFICES ASSUME FreshInv, [Next]_vars PROVE NoFalseAnswer'
  OBVIOUS
<1>0. seq \in 0..MaxSeq /\ MaxSeq \in Nat
  BY RunDirAssumption DEF RunDirAssumption, FreshInv, TypeInv, TypeOK,
                          ClientTypeOK
<1> USE <1>0 DEF FreshInv, NoFalseAnswer, clientVars
<1>1. CASE Relaunch
  BY <1>1 DEF Relaunch
<1>2. CASE (CheckResponse \/ Grace) /\ UNCHANGED bridgeVars
  <2>1. UNCHANGED <<launch, runs, seq>>
    BY <1>2 DEF CheckResponse, Grace, sharedVars, procVars, bridgeVars
  <2>2. seq \in Cmd
    BY <1>2 DEF CheckResponse, Grace, Phases, InEval, Cmd
  <2>3. CASE Answered(seq) /\ Return
    BY <2>1, <2>2, <2>3 DEF QueueIsFresh, Return
  <2>4. CASE UNCHANGED <<outcome, got>>
    BY <2>1, <2>4
  <2>5. CASE outcome' = "crash"
    BY <2>5
  <2> QED BY <1>2, <2>3, <2>4, <2>5 DEF CheckResponse, Grace, Recheck, EndWait
<1>3. CASE Submit
  BY <1>3 DEF Submit
<1>4. CASE WaitReady \/ ReadyOrDead \/ ReadHeartbeat \/ Probe
  <2>1. \/ outcome' \notin {"value", "error"}
        \/ UNCHANGED <<outcome, got, launch, seq>>
    BY <1>4 DEF WaitReady, ReadyOrDead, ReadHeartbeat, Probe, EndWait,
                sharedVars, procVars
  <2>2. ~Relaunch
    BY <1>4 DEF WaitReady, ReadyOrDead, ReadHeartbeat, Probe, Relaunch
  <2> QED BY <2>1, <2>2, RunsGrow DEF Phases, Cmd
<1>5. CASE Tick \/ Bridging \/ UNCHANGED vars
  <2>1. UNCHANGED <<outcome, got, launch, seq>> /\ ~Relaunch
    BY <1>5 DEF Tick, Bridging, BridgeStep, Boot, Beat, List, Execute, Publish,
                EndTick, Die, vars, sharedVars, procVars, Relaunch
  <2> QED BY <2>1, RunsGrow DEF Phases, Cmd
<1> QED BY <1>1, <1>2, <1>3, <1>4, <1>5 DEF Next, Calling, ClientStep

(* No false result: if a relaunch can unlink every queue file, an eval     *)
(* returns only the response to the very request it sent, and this         *)
(* launch's REAPER executed that request -- for any number of launches,    *)
(* requests and ticks, and wherever REAPER hangs or dies.                  *)
THEOREM AnswersAreGenuine == ~LossyPurge /\ Spec => []NoFalseAnswer
<1> SUFFICES ASSUME ~LossyPurge PROVE Spec => []NoFalseAnswer
  OBVIOUS
<1>1. Init => FreshInv
  <2>1. Init => NoFalseAnswer
    BY DEF Init, ClientInit, NoFalseAnswer
  <2> QED BY <2>1, InitTypeInv, InitPhases, InitFresh DEF FreshInv
<1>2. FreshInv /\ [Next]_vars => FreshInv'
  BY NextTypeInv, NextPhases, NextFresh, NextNoFalseAnswer DEF FreshInv
<1>3. FreshInv => NoFalseAnswer
  BY DEF FreshInv
<1> QED BY <1>1, <1>2, <1>3, PTL DEF Spec

-----------------------------------------------------------------------------
(***************************************************************************)
(* What REAPER executes: the order of the requests, and how often each of  *)
(* them runs.                                                              *)
(***************************************************************************)

(* Inductive invariants *)

(* The listing is complete below each of its members. *)
ListingComplete ==
  \A s \in Cmd, t \in todo : s < t => s \in todo \/ runs[s] >= 1

OrderInv == TypeInv /\ Phases /\ QueueIsFresh /\ ListingComplete /\ ExecutedInOrder

(* Without failed writes an executed request is answered, or about to be,  *)
(* and no longer listed.                                                   *)
ExecutedIsAnswered ==
  /\ up => \A s \in Cmd : runs[s] >= 1 => \/ Answered(s)
                                          \/ bpc = "publish" /\ cur.seq = s
  /\ \A s \in todo : runs[s] = 0

OnceInv == TypeInv /\ Phases /\ QueueIsFresh /\ ExecutedIsAnswered /\ AtMostOnce

(* A listed request stays unanswered until it is its turn. *)
ListedIsUnanswered ==
  /\ \A s \in todo : ~Answered(s)
  /\ bpc = "publish" => cur.seq \notin todo

ListingInv == TypeInv /\ ListedIsUnanswered

-----------------------------------------------------------------------------
(* Which steps touch the bridge's work *)

(* What executing a request, the only step that counts an execution, does. *)
LEMMA ExecuteEffect ==
  ASSUME TypeInv, Execute
  PROVE  \E s \in todo :
           /\ \A t \in todo : s <= t
           /\ runs[s] \in 0..2 /\ runs'[s] = AtMost(runs[s] + 1, 2)
           /\ \A t \in Cmd : t # s => runs'[t] = runs[t]
           /\ todo' = todo \ {s}
           /\ cur'.seq = s
           /\ bpc' = "publish"
           /\ UNCHANGED <<cmdIn, cmdOut, launch, reaper>>
<1>1. PICK s \in Cmd, ok \in BOOLEAN : IsNext(s) /\ RunChunk(s, ok)
  BY DEF Execute
<1>2. runs \in [Cmd -> 0..2] /\ todo \subseteq Cmd
  BY DEF TypeInv, TypeOK, BridgeTypeOK
<1> QED BY <1>1, <1>2 DEF Execute, IsNext, RunChunk, sharedVars, fileVars, procVars

LEMMA OtherSteps ==
  ASSUME [Next]_vars
  PROVE  \/ Relaunch
         \/ (Execute /\ UNCHANGED seq)
         \/ (List /\ UNCHANGED seq)
         \/ (Publish /\ UNCHANGED seq)
         \/ (EndTick /\ UNCHANGED seq)
         \/ (Die /\ UNCHANGED seq)
         \/ (bpc' # "publish" /\ bpc # "publish"
              /\ UNCHANGED <<seq, reaper, launch, runs, todo, cmdOut>>)
         \/ (seq' \in {seq, seq + 1}
              /\ UNCHANGED <<reaper, launch, bpc, cur, runs, todo, cmdOut>>)
  BY DEF Next, vars, bridgeVars, clientVars, sharedVars, fileVars, procVars,
         Tick, Bridging, BridgeStep, Boot, Beat, EndTick, Rearm, up, Calling,
         Submit, ClientStep, WaitReady, ReadyOrDead, CheckResponse,
         ReadHeartbeat, Probe, Grace

-----------------------------------------------------------------------------
(* Requests take effect in the order they were sent *)

LEMMA NextOrder ==
  ASSUME ~LossyPurge, OrderInv, [Next]_vars
  PROVE  ListingComplete' /\ ExecutedInOrder'
<1>0. /\ MaxSeq \in Nat /\ seq \in 0..MaxSeq /\ launch \in Nat
      /\ runs \in [Cmd -> 0..2] /\ todo \subseteq Cmd
  BY RunDirAssumption DEF RunDirAssumption, OrderInv, TypeInv, TypeOK,
                          RunDirTypeOK, BridgeTypeOK, ClientTypeOK, Launch
<1> USE <1>0 DEF OrderInv, ListingComplete, ExecutedInOrder, Cmd
<1>1. CASE Relaunch
  BY <1>1 DEF Relaunch
<1>2. CASE Execute
  <2>1. PICK s \in todo :
          /\ \A t \in todo : s <= t
          /\ runs[s] \in 0..2 /\ runs'[s] = AtMost(runs[s] + 1, 2)
          /\ \A t \in Cmd : t # s => runs'[t] = runs[t]
          /\ todo' = todo \ {s}
    BY <1>2, ExecuteEffect
  <2>2. runs'[s] >= 1
    BY <2>1 DEF AtMost
  <2>3. \A t \in Cmd : t < s => runs[t] >= 1
    BY <2>1
  <2>4. \A t \in Cmd : runs[t] >= 1 => runs'[t] >= 1
    BY <2>1, <2>2
  <2>5. ListingComplete'
    BY <2>1, <2>2, <2>4
  <2>6. ExecutedInOrder'
    BY <2>1, <2>3, <2>4
  <2> QED BY <2>5, <2>6
<1>3. CASE List
  <2>1. todo' = Pending /\ UNCHANGED runs
    BY <1>3 DEF List
  <2>2. \A s \in Cmd, t \in Pending :
          s < t => s \in Pending \/ runs[s] >= 1
    BY DEF Pending, Requested, QueueIsFresh
  <2> QED BY <2>1, <2>2
<1>4. CASE UNCHANGED runs /\ (todo' = {} \/ UNCHANGED todo)
  BY <1>4
<1> QED BY <1>1, <1>2, <1>3, <1>4, OtherSteps DEF Publish, EndTick, Die

(* Requests take effect in the order the client sent them, whatever it     *)
(* gave up on: if a relaunch can purge the queue, no chunk runs before one *)
(* that was sent earlier, for any number of requests and any batch size.   *)
THEOREM OrderIsKept == ~LossyPurge /\ Spec => []ExecutedInOrder
<1> SUFFICES ASSUME ~LossyPurge PROVE Spec => []ExecutedInOrder
  OBVIOUS
<1>1. Init => OrderInv
  <2>1. Init => ListingComplete /\ ExecutedInOrder
    BY DEF Init, BridgeInit, ListingComplete, ExecutedInOrder
  <2> QED BY <2>1, InitTypeInv, InitPhases, InitFresh DEF OrderInv
<1>2. OrderInv /\ [Next]_vars => OrderInv'
  BY NextTypeInv, NextPhases, NextFresh, NextOrder DEF OrderInv
<1>3. OrderInv => ExecutedInOrder
  BY DEF OrderInv
<1> QED BY <1>1, <1>2, <1>3, PTL DEF Spec

-----------------------------------------------------------------------------
(* No request runs twice *)

LEMMA NextOnce ==
  ASSUME ~LossyWrite, OnceInv, [Next]_vars
  PROVE  ExecutedIsAnswered' /\ AtMostOnce'
<1>0. /\ MaxSeq \in Nat /\ seq \in 0..MaxSeq /\ launch \in Nat
      /\ runs \in [Cmd -> 0..2] /\ todo \subseteq Cmd
      /\ cmdOut \in [Cmd -> Response]
  BY RunDirAssumption DEF RunDirAssumption, OnceInv, TypeInv, TypeOK,
                          RunDirTypeOK, BridgeTypeOK, ClientTypeOK, Launch
<1> USE <1>0 DEF OnceInv, ExecutedIsAnswered, AtMostOnce, Answered, up
<1>1. CASE Relaunch
  BY <1>1 DEF Relaunch
<1>2. CASE Execute
  <2>1. PICK s \in todo :
          /\ runs[s] \in 0..2 /\ runs'[s] = AtMost(runs[s] + 1, 2)
          /\ \A t \in Cmd : t # s => runs'[t] = runs[t]
          /\ todo' = todo \ {s} /\ cur'.seq = s /\ bpc' = "publish"
          /\ UNCHANGED <<cmdOut, reaper>>
    BY <1>2, ExecuteEffect
  <2>2. runs'[s] = 1
    BY <2>1 DEF AtMost
  <2>3. bpc = "serve" /\ up
    BY <1>2 DEF Execute
  <2> QED BY <2>1, <2>2, <2>3
<1>3. CASE List
  <2>1. \A s \in Pending : runs[s] = 0
    BY <1>3 DEF List, Pending
  <2> QED BY <1>3, <2>1 DEF List, sharedVars, fileVars, procVars
<1>4. CASE Publish
  <2>1. /\ cmdOut' = [cmdOut EXCEPT ![cur.seq] =
                                       [req |-> cur.req, ok |-> cur.ok]]
        /\ up /\ bpc = "publish" /\ UNCHANGED <<runs, todo>>
    BY <1>4 DEF Publish
  <2>2. cur.seq \in Cmd /\ cur.req # NoFile
    BY <2>1 DEF QueueIsFresh, Phases, NoFile
  <2>3. \A s \in Cmd : s = cur.seq \/ Answered(s) => Answered(s)'
    BY <2>1, <2>2
  <2>4. bpc' = "serve" /\ up'
    BY <1>4 DEF Publish, procVars
  <2> QED BY <2>1, <2>3, <2>4
<1>5. CASE EndTick \/ Die
  BY <1>5 DEF EndTick, Die, sharedVars, fileVars, procVars
<1>6. CASE UNCHANGED <<reaper, runs, todo, cmdOut>>
           /\ (bpc # "publish" \/ UNCHANGED <<bpc, cur>>)
  BY <1>6
<1> QED BY <1>1, <1>2, <1>3, <1>4, <1>5, <1>6, OtherSteps

(* A chunk is executed at most once, however often its request is listed,  *)
(* if the bridge's writes and the purge of a relaunch do not fail.         *)
THEOREM NoChunkRunsTwice ==
  ~LossyPurge /\ ~LossyWrite /\ Spec => []AtMostOnce
<1> SUFFICES ASSUME ~LossyPurge, ~LossyWrite PROVE Spec => []AtMostOnce
  OBVIOUS
<1>1. Init => OnceInv
  <2>1. Init => ExecutedIsAnswered /\ AtMostOnce
    BY DEF Init, BridgeInit, ExecutedIsAnswered, AtMostOnce
  <2> QED BY <2>1, InitTypeInv, InitPhases, InitFresh DEF OnceInv
<1>2. OnceInv /\ [Next]_vars => OnceInv'
  BY NextTypeInv, NextPhases, NextFresh, NextOnce DEF OnceInv
<1>3. OnceInv => AtMostOnce
  BY DEF OnceInv
<1> QED BY <1>1, <1>2, <1>3, PTL DEF Spec

-----------------------------------------------------------------------------
(* What has a response does not run again *)

LEMMA NextListed ==
  ASSUME ListingInv, [Next]_vars
  PROVE  /\ ListedIsUnanswered'
         /\ \A s \in Cmd : runs'[s] > runs[s] => ~Answered(s)
<1>0. /\ runs \in [Cmd -> 0..2] /\ todo \subseteq Cmd /\ cur \in Job
      /\ cmdOut \in [Cmd -> Response]
  BY DEF ListingInv, TypeInv, TypeOK, RunDirTypeOK, BridgeTypeOK
<1> USE <1>0 DEF ListingInv, ListedIsUnanswered, Answered
<1>1. CASE Relaunch
  <2>1. \A s \in Cmd : runs'[s] = 0 /\ runs[s] \in 0..2
    BY <1>1 DEF Relaunch
  <2> QED BY <1>1, <2>1 DEF Relaunch
<1>2. CASE Execute
  <2>1. PICK s \in todo :
          /\ \A t \in Cmd : t # s => runs'[t] = runs[t]
          /\ todo' = todo \ {s} /\ cur'.seq = s /\ UNCHANGED cmdOut
    BY <1>2, ExecuteEffect
  <2>2. \A t \in Cmd : runs[t] \in Int
    OBVIOUS
  <2> QED BY <2>1, <2>2
<1>3. CASE UNCHANGED runs
  <2>1. \A s \in Cmd : ~(runs'[s] > runs[s])
    BY <1>3
  <2>2. CASE List
    BY <2>1, <2>2 DEF List, Pending, sharedVars, fileVars, Answered
  <2>3. CASE Publish
    BY <2>1, <2>3 DEF Publish
  <2>4. CASE EndTick \/ Die
    BY <2>1, <2>4 DEF EndTick, Die, Rearm
  <2>5. CASE /\ UNCHANGED <<todo, cmdOut>>
             /\ bpc' # "publish" \/ UNCHANGED <<bpc, cur>>
    BY <2>1, <2>5
  <2>6. CASE Relaunch \/ Execute
    BY <2>6, <1>1, <1>2
  <2> QED BY <2>2, <2>3, <2>4, <2>5, <2>6, OtherSteps
<1> QED BY <1>1, <1>2, <1>3, OtherSteps DEF List, Publish, EndTick, Die

(* A request executed again is one whose response was lost: whatever       *)
(* write or purge fails, no chunk runs whose response file is there.       *)
THEOREM RerunsNeedALostResponse == Spec => RerunsOnlyUnanswered
<1>1. Init => ListingInv
  <2>1. Init => ListedIsUnanswered
    BY DEF Init, BridgeInit, ListedIsUnanswered
  <2> QED BY <2>1, InitTypeInv DEF ListingInv
<1>2. ListingInv /\ [Next]_vars => ListingInv'
  BY NextTypeInv, NextListed DEF ListingInv
<1>3. ListingInv /\ [Next]_vars
        => [\A s \in Cmd : runs'[s] > runs[s] => ~Answered(s)]_vars
  BY NextListed
<1> QED BY <1>1, <1>2, <1>3, PTL DEF Spec, RerunsOnlyUnanswered

-----------------------------------------------------------------------------
(* The verdicts of the client: inductive invariants *)

(* The verdicts about a dead REAPER. *)
DeathIsSeen ==
  /\ cpc = "grace" => ~up
  /\ seen = "down" => ~up

CrashInv == TypeInv /\ Phases /\ DeathIsSeen /\ CrashLosesNoAnswer

VerdictInv == TypeInv /\ Phases /\ DeathIsSeen /\ DeadReaperIsACrash

(* The ready file is this launch's, and the bridge writes it only once. *)
ReadyInv ==
  /\ TypeInv /\ Phases
  /\ ready.by \in {NoFile, launch}
  /\ bpc = "boot" => ready.by = NoFile
  /\ cpc \in {"idle"} \cup InEval => ready.by = launch
  /\ ReadyIsFresh

(* While the heartbeat shows nothing new, its age bounds the stall the     *)
(* client measures, up to the preemption allowed in a poll.                *)
StallInv ==
  /\ TypeInv /\ Phases
  /\ lastTick <= tick /\ heartbeat <= tick
  /\ now <= clock /\ lastAdvance <= now
  /\ (cpc \in InEval /\ ~Advanced) => quiet + MaxSkew >= clock - lastAdvance
  /\ cpc = "alive?" => hbAge + MaxSkew >= now - lastAdvance
  /\ HangOnlyAfterSilence

-----------------------------------------------------------------------------
(* The death of REAPER *)

(* Only a relaunch brings a dead REAPER back, and only the living one      *)
(* writes: without a relaunch what a dead one left unanswered stays so.    *)
LEMMA DeathIsFinal ==
  ASSUME [Next]_vars, ~Relaunch, ~up
  PROVE  ~up' /\ UNCHANGED cmdOut
  BY DEF Next, vars, sharedVars, fileVars, procVars, up, Tick, Bridging,
         BridgeStep, Boot, Beat, List, Execute, Publish, EndTick, Die, Calling,
         Submit, ClientStep, WaitReady, ReadyOrDead, CheckResponse,
         ReadHeartbeat, Probe, Grace

(* Steps that are not the client's leave its variables alone. *)
LEMMA ClientIdles ==
  ASSUME [Next]_vars
  PROVE  \/ Relaunch
         \/ UNCHANGED clientVars
         \/ (Submit \/ ClientStep) /\ UNCHANGED bridgeVars
  BY DEF Next, vars, Tick, Bridging, Calling

LEMMA NextDeath ==
  ASSUME TypeInv, Phases, DeathIsSeen, [Next]_vars
  PROVE  DeathIsSeen'
<1> USE DEF DeathIsSeen
<1>1. CASE Relaunch
  BY <1>1 DEF Relaunch, up
<1>2. CASE UNCHANGED <<cpc, seen>> /\ ~Relaunch
  BY <1>2, DeathIsFinal
<1>3. CASE Submit \/ WaitReady \/ ReadyOrDead \/ ReadHeartbeat \/ Grace
  BY <1>3 DEF Submit, WaitReady, ReadyOrDead, ReadHeartbeat, Grace, EndWait,
              Return, sharedVars, procVars, up
<1>4. CASE CheckResponse
  BY <1>4 DEF CheckResponse, EndWait, Return, sharedVars, procVars, up
<1>5. CASE Probe
  BY <1>5 DEF Probe, EndWait, Verdict, Alive, sharedVars, procVars, up
<1>6. CASE UNCHANGED clientVars
  BY <1>1, <1>2, <1>6 DEF clientVars
<1> QED BY <1>1, <1>3, <1>4, <1>5, <1>6, ClientIdles DEF ClientStep

LEMMA NextCrash ==
  ASSUME CrashInv, [Next]_vars
  PROVE  CrashLosesNoAnswer'
<1> USE DEF CrashInv, CrashLosesNoAnswer
<1>1. CASE Relaunch
  BY <1>1 DEF Relaunch
<1>2. CASE UNCHANGED <<cpc, outcome, seq>> /\ ~Relaunch
  BY <1>2, DeathIsFinal DEF Answered
<1>3. CASE Grace
  <2>1. ~up /\ UNCHANGED <<seq, reaper, cmdOut>>
    BY <1>3 DEF Grace, DeathIsSeen, sharedVars, procVars, fileVars
  <2> QED BY <1>3, <2>1 DEF Grace, Recheck, Return, EndWait, Answered, up
<1>4. CASE Submit \/ WaitReady \/ ReadyOrDead \/ CheckResponse
             \/ ReadHeartbeat \/ Probe
  <2>1. outcome' # "crash" \/ cpc' # "idle"
    BY <1>4 DEF Submit, WaitReady, ReadyOrDead, CheckResponse, ReadHeartbeat,
                Probe, EndWait, Return
  <2> QED BY <2>1
<1>5. CASE UNCHANGED clientVars
  BY <1>1, <1>2, <1>5 DEF clientVars
<1> QED BY <1>1, <1>3, <1>4, <1>5, ClientIdles DEF ClientStep

(* A crash verdict never hides an answer: when eval() raises BridgeCrash,  *)
(* REAPER is dead and the request has no response, nor will it get one.    *)
(* The last look after the process check is what makes this true.          *)
THEOREM CrashVerdictIsFinal == Spec => []CrashLosesNoAnswer
<1>1. Init => CrashInv
  <2>1. Init => DeathIsSeen /\ CrashLosesNoAnswer
    BY DEF Init, ClientInit, DeathIsSeen, CrashLosesNoAnswer
  <2> QED BY <2>1, InitTypeInv, InitPhases DEF CrashInv
<1>2. CrashInv /\ [Next]_vars => CrashInv'
  BY NextTypeInv, NextPhases, NextDeath, NextCrash DEF CrashInv
<1>3. CrashInv => CrashLosesNoAnswer
  BY DEF CrashInv
<1> QED BY <1>1, <1>2, <1>3, PTL DEF Spec

LEMMA NextVerdict ==
  ASSUME ~ZombieProbe, VerdictInv, [Next]_vars
  PROVE  DeadReaperIsACrash'
<1> USE DEF VerdictInv, DeadReaperIsACrash
<1>1. CASE Relaunch
  BY <1>1 DEF Relaunch
<1>2. CASE Probe
  BY <1>2 DEF Probe, EndWait, Verdict, Alive, DeathIsSeen, TypeInv, TypeOK,
              ClientTypeOK
<1>3. CASE Submit \/ WaitReady \/ ReadyOrDead \/ CheckResponse \/ Grace
  <2>1. \/ outcome' \notin {"hang", "timeout"}
        \/ UNCHANGED <<outcome, seen>>
        \/ cpc = "check" /\ UNCHANGED outcome
    BY <1>3 DEF Submit, WaitReady, ReadyOrDead, CheckResponse, Grace, EndWait,
                Return
  <2> QED BY <2>1 DEF Phases, InEval
<1>4. CASE UNCHANGED clientVars \/ ReadHeartbeat
  BY <1>4 DEF clientVars, ReadHeartbeat
<1> QED BY <1>1, <1>2, <1>3, <1>4, ClientIdles DEF ClientStep

(* Where is_alive() tells the dead from the living (macOS, Windows), a     *)
(* dead REAPER is never reported as a hang or a timeout.                   *)
THEOREM DeathIsACrash == ~ZombieProbe /\ Spec => []DeadReaperIsACrash
<1> SUFFICES ASSUME ~ZombieProbe PROVE Spec => []DeadReaperIsACrash
  OBVIOUS
<1>1. Init => VerdictInv
  <2>1. Init => DeathIsSeen /\ DeadReaperIsACrash
    BY DEF Init, ClientInit, DeathIsSeen, DeadReaperIsACrash
  <2> QED BY <2>1, InitTypeInv, InitPhases DEF VerdictInv
<1>2. VerdictInv /\ [Next]_vars => VerdictInv'
  BY NextTypeInv, NextPhases, NextDeath, NextVerdict DEF VerdictInv
<1>3. VerdictInv => DeadReaperIsACrash
  BY DEF VerdictInv
<1> QED BY <1>1, <1>2, <1>3, PTL DEF Spec

-----------------------------------------------------------------------------
(* Readiness *)

LEMMA NextReady == ReadyInv /\ [Next]_vars => ReadyInv'
<1> SUFFICES ASSUME ReadyInv, [Next]_vars PROVE ReadyInv'
  OBVIOUS
<1>0. TypeInv' /\ Phases'
  BY NextTypeInv, NextPhases DEF ReadyInv
<1> USE <1>0 DEF ReadyInv, ReadyIsFresh
<1>1. CASE Relaunch
  BY <1>1 DEF Relaunch, ResetRunDir, PurgeMarkers, NoReady, NoFile, InEval
<1>2. CASE Boot /\ UNCHANGED clientVars
  <2>1. bpc = "boot" /\ up /\ ready.by = NoFile /\ launch > 0
    BY <1>2 DEF Boot, Phases
  <2>2. cpc \notin {"idle"} \cup InEval
    BY <2>1 DEF NoFile
  <2>3. ready'.by \in {NoFile, launch} /\ UNCHANGED launch /\ bpc' = "beat"
    BY <1>2, <2>1 DEF Boot, procVars
  <2> QED BY <1>2, <2>2, <2>3 DEF clientVars
<1>3. CASE UNCHANGED <<ready, launch, clientVars>>
           /\ (bpc' # "boot" \/ UNCHANGED bpc)
  BY <1>3 DEF clientVars
<1>4. CASE (Submit \/ ClientStep) /\ UNCHANGED bridgeVars
  <2>1. UNCHANGED <<ready, launch, bpc>>
    BY <1>4 DEF Submit, ClientStep, WaitReady, ReadyOrDead, CheckResponse,
                ReadHeartbeat, Probe, Grace, bridgeVars, sharedVars, fileVars,
                procVars
  <2>2. CASE WaitReady
    <3>1. \/ cpc' \notin {"idle"} \cup InEval
          \/ cpc' = "idle" /\ Adopt /\ env' = ready.by
      BY <2>2 DEF WaitReady, EndWait, InEval
    <3> QED BY <2>1, <3>1 DEF Adopt
  <2>3. CASE ReadyOrDead
    BY <2>1, <2>3 DEF ReadyOrDead, InEval
  <2>4. CASE Submit \/ CheckResponse \/ ReadHeartbeat \/ Probe \/ Grace
    <3>1. cpc \in {"idle"} \cup InEval /\ UNCHANGED env
      BY <2>4 DEF Submit, CheckResponse, ReadHeartbeat, Probe, Grace, InEval
    <3> QED BY <2>1, <3>1
  <2> QED BY <1>4, <2>2, <2>3, <2>4 DEF ClientStep
<1> QED BY <1>1, <1>2, <1>3, <1>4
        DEF Next, vars, bridgeVars, sharedVars, fileVars, procVars, Tick,
            Bridging, BridgeStep, Beat, List, Execute, Publish, EndTick, Rearm,
            Die, Calling

(* An eval is only ever sent under the env this launch's bridge announced, *)
(* and never under a degraded one, whatever other file operation fails:    *)
(* launch() removes ready.json or raises.                                  *)
THEOREM ReadinessIsFresh == Spec => []ReadyIsFresh
<1>1. Init => ReadyInv
  <2>1. Init => /\ ready.by = NoFile
                /\ cpc \notin {"idle"} \cup InEval
    BY DEF Init, RunDirInit, ClientInit, NoReady, InEval
  <2> QED BY <2>1, InitTypeInv, InitPhases DEF ReadyInv, ReadyIsFresh
<1>2. ReadyInv => ReadyIsFresh
  BY DEF ReadyInv
<1> QED BY <1>1, <1>2, NextReady, PTL DEF Spec

-----------------------------------------------------------------------------
(* Hangs *)

(* The numbers the stall measurement works with. *)
Measures ==
  /\ MaxClock \in Nat /\ MaxTick \in Nat /\ MaxSkew \in Nat
  /\ HangTimeout \in Nat
  /\ tick \in 0..MaxTick /\ heartbeat \in 0..MaxTick /\ lastTick \in 0..MaxTick
  /\ clock \in 0..MaxClock /\ quiet \in 0..MaxClock /\ now \in 0..MaxClock
  /\ lastAdvance \in 0..MaxClock /\ hbAge \in 0..MaxClock

LEMMA MeasuresTyped == TypeInv => Measures
  BY RunDirAssumption, ClientAssumption
     DEF RunDirAssumption, ClientAssumption, Measures, TypeInv, TypeOK,
         RunDirTypeOK, BridgeTypeOK, ClientTypeOK

LEMMA NextStall == ~LossyWrite /\ StallInv /\ [Next]_vars => StallInv'
<1> SUFFICES ASSUME ~LossyWrite, StallInv, [Next]_vars PROVE StallInv'
  OBVIOUS
<1>0. TypeInv' /\ Phases' /\ Measures
  BY NextTypeInv, NextPhases, MeasuresTyped DEF StallInv
<1> USE <1>0 DEF StallInv, HangOnlyAfterSilence, Measures, NoFile
<1>1. CASE Relaunch
  BY <1>1 DEF Relaunch, ResetRunDir, PurgeMarkers, InEval
<1>2. CASE Tick
  BY <1>2 DEF Tick, Advanced, AtMost, fileVars, bridgeVars, clientVars
<1>3. CASE Beat /\ UNCHANGED clientVars
  <2>1. heartbeat' = tick' /\ UNCHANGED clock
    BY <1>3 DEF Beat
  <2>2. CASE tick' = tick + 1 /\ quiet' = 0
    BY <1>3, <2>1, <2>2 DEF Advanced, clientVars
  <2>3. CASE tick' = tick /\ UNCHANGED quiet
    BY <1>3, <2>1, <2>3 DEF Advanced, clientVars
  <2> QED BY <1>3, <2>2, <2>3 DEF Beat, AtMost
<1>4. CASE UNCHANGED <<heartbeat, timeVars, tick, clientVars>>
  BY <1>4 DEF timeVars, clientVars, Advanced
<1>5. CASE Submit /\ UNCHANGED bridgeVars
  BY <1>5 DEF Submit, bridgeVars, InEval
<1>6. CASE ReadHeartbeat /\ UNCHANGED bridgeVars
  <2>1. PICK t \in now..clock : clock - t <= MaxSkew /\ now' = t
    BY <1>6 DEF ReadHeartbeat, ClockReads
  <2>2. /\ hbAge' = quiet /\ cpc' = "alive?" /\ cpc = "beat?"
        /\ UNCHANGED <<heartbeat, clock, quiet, tick, outcome>>
    BY <1>6 DEF ReadHeartbeat, sharedVars, fileVars, timeVars, bridgeVars
  <2>3. outcome' # "hang"
    BY <2>2 DEF Phases, InEval
  <2>4. CASE Advanced
    <3>1. lastTick' = heartbeat /\ lastAdvance' = t
      BY <1>6, <2>1, <2>4 DEF ReadHeartbeat
    <3>2. quiet + MaxSkew >= clock - t /\ quiet + MaxSkew >= t - t
      BY <2>1
    <3> QED BY <2>1, <2>2, <2>3, <3>1, <3>2
  <2>5. CASE ~Advanced
    <3>1. UNCHANGED <<lastTick, lastAdvance>>
      BY <1>6, <2>5 DEF ReadHeartbeat
    <3>2. quiet + MaxSkew >= clock - lastAdvance
      BY <2>2, <2>5 DEF InEval
    <3>3. quiet + MaxSkew >= t - lastAdvance /\ lastAdvance <= t
      BY <2>1, <3>2
    <3> QED BY <2>1, <2>2, <2>3, <3>1, <3>2, <3>3
  <2> QED BY <2>4, <2>5
<1>7. CASE Probe /\ UNCHANGED bridgeVars
  <2>1. UNCHANGED <<heartbeat, clock, quiet, tick, now, lastTick, lastAdvance,
                    hbAge>>
    BY <1>7 DEF Probe, sharedVars, fileVars, timeVars, bridgeVars
  <2>2. cpc = "alive?" /\ cpc' # "alive?"
    BY <1>7 DEF Probe, EndWait
  <2>3. outcome' = "hang" => Stalled
    BY <1>7, <2>2 DEF Probe, EndWait, Verdict, Phases, InEval
  <2> QED BY <2>1, <2>2, <2>3 DEF Stalled, Advanced, InEval
<1>8. CASE (WaitReady \/ ReadyOrDead \/ CheckResponse \/ Grace)
           /\ UNCHANGED bridgeVars
  <2>1. UNCHANGED <<heartbeat, clock, quiet, tick, now, lastTick, lastAdvance,
                    hbAge>>
    BY <1>8 DEF WaitReady, ReadyOrDead, CheckResponse, Grace, sharedVars,
                fileVars, timeVars, bridgeVars
  <2>2. cpc' # "alive?" /\ (cpc' \in InEval => cpc \in InEval)
    BY <1>8 DEF WaitReady, ReadyOrDead, CheckResponse, Grace, EndWait, Return,
                InEval
  <2>3. outcome' # "hang" \/ UNCHANGED outcome
    BY <1>8 DEF WaitReady, ReadyOrDead, CheckResponse, Grace, EndWait, Return
  <2> QED BY <2>1, <2>2, <2>3 DEF Advanced
<1>9. CASE (BridgeStep \/ Die) /\ UNCHANGED clientVars
  BY <1>3, <1>4, <1>9 DEF BridgeStep, Boot, List, Execute, Publish, EndTick, Die,
                          sharedVars, fileVars, timeVars
<1> QED BY <1>1, <1>2, <1>4, <1>5, <1>6, <1>7, <1>8, <1>9
        DEF Next, vars, bridgeVars, sharedVars, fileVars, timeVars, Bridging,
            Calling, ClientStep

(* BridgeHang needs a silent heartbeat: if the bridge's writes do not      *)
(* fail, the file had shown no new tick for longer than hang_timeout, up   *)
(* to the preemption allowed within a poll -- for any timeouts and ticks.  *)
THEOREM HangNeedsSilence == ~LossyWrite /\ Spec => []HangOnlyAfterSilence
<1> SUFFICES ASSUME ~LossyWrite PROVE Spec => []HangOnlyAfterSilence
  OBVIOUS
<1>1. Init => StallInv
  <2>1. Init => /\ lastTick = 0 /\ heartbeat = 0 /\ tick = 0 /\ now = 0
                /\ clock = 0 /\ lastAdvance = 0 /\ outcome = "none"
                /\ cpc = "detached"
    BY DEF Init, RunDirInit, BridgeInit, ClientInit, NoFile
  <2> QED BY <2>1, InitTypeInv, InitPhases
          DEF StallInv, HangOnlyAfterSilence, InEval
<1>2. StallInv => HangOnlyAfterSilence
  BY DEF StallInv
<1> QED BY <1>1, <1>2, NextStall, PTL DEF Spec

-----------------------------------------------------------------------------
(* The refinement of Rpc: the mapping *)

(* The calls executed and replied to, as R is given them. *)
Ran     == {s \in Cmd : runs[s] >= 1}
Replies == {s \in Cmd : Answered(s) /\ cmdOut[s].req = launch}

(* A call is executed in its turn, after every earlier one; a call that    *)
(* has crashed has no reply; all files are of this connection.             *)
ImplInv == OrderInv /\ DeathIsSeen /\ CrashLosesNoAnswer

LEMMA ImplInvHolds == ~LossyPurge /\ Spec => []ImplInv
<1> SUFFICES ASSUME ~LossyPurge PROVE Spec => []ImplInv
  OBVIOUS
<1>1. Init => ImplInv
  BY InitTypeInv, InitPhases, InitFresh
     DEF ImplInv, OrderInv, Init, BridgeInit, ClientInit, ListingComplete,
         ExecutedInOrder, DeathIsSeen, CrashLosesNoAnswer
<1>2. ImplInv /\ [Next]_vars => ImplInv'
  BY NextTypeInv, NextPhases, NextFresh, NextOrder, NextDeath, NextCrash
     DEF ImplInv, OrderInv, CrashInv
<1> QED BY <1>1, <1>2, PTL DEF Spec

LEMMA InitRefines == Init => R!Init
  BY RunDirAssumption
     DEF RunDirAssumption, Init, RunDirInit, BridgeInit, ClientInit, R!Init,
         RpcVerdict, up, Answered, NoResponse, NoFile, InEval, Cmd

-----------------------------------------------------------------------------
(* The steps of the bridge *)

LEMMA ExecuteRefines ==
  ASSUME ImplInv, Execute, UNCHANGED clientVars
  PROVE  R!Execute \/ UNCHANGED R!rpcVars
<1>0. /\ MaxSeq \in Nat /\ seq \in 0..MaxSeq /\ todo \subseteq Cmd
      /\ runs \in [Cmd -> 0..2] /\ TypeInv
  BY RunDirAssumption DEF RunDirAssumption, ImplInv, OrderInv, TypeInv, TypeOK,
                          BridgeTypeOK, ClientTypeOK
<1>1. PICK s \in todo :
        /\ \A t \in todo : s <= t
        /\ runs[s] \in 0..2 /\ runs'[s] = AtMost(runs[s] + 1, 2)
        /\ \A t \in Cmd : t # s => runs'[t] = runs[t]
        /\ UNCHANGED <<cmdOut, launch, reaper>>
  BY <1>0, ExecuteEffect
<1>2. s \in Cmd /\ s \in 1..seq /\ runs'[s] >= 1
  <2>1. s \in Cmd
    BY <1>0
  <2>2. s \in 1..seq
    BY <1>1 DEF ImplInv, OrderInv, QueueIsFresh
  <2>3. runs'[s] >= 1
    BY <1>1 DEF AtMost
  <2> QED BY <2>1, <2>2, <2>3
<1>3. Ran' = Ran \cup {s}
  BY <1>0, <1>1, <1>2 DEF Ran
<1>4. 1..(s - 1) \subseteq Ran
  BY <1>0, <1>1, <1>2 DEF Ran, ImplInv, OrderInv, ListingComplete, Cmd
<1>5. UNCHANGED <<launch, up, seq, Replies, RpcVerdict>> /\ up
  BY <1>1 DEF clientVars, up, Replies, Answered, RpcVerdict, Execute
<1>6. CASE s \in Ran
  BY <1>3, <1>5, <1>6 DEF R!rpcVars, Ran, Replies
<1>7. CASE s \notin Ran
  BY <1>2, <1>3, <1>4, <1>5, <1>7 DEF R!Execute, Ran, Replies
<1> QED BY <1>6, <1>7

LEMMA PublishRefines ==
  ASSUME ImplInv, Publish, UNCHANGED clientVars
  PROVE  R!Reply \/ UNCHANGED R!rpcVars
<1>0. cmdOut \in [Cmd -> Response]
  BY DEF ImplInv, OrderInv, TypeInv, TypeOK, RunDirTypeOK
<1>1. cur.seq \in Ran /\ cur.req = launch /\ launch > 0 /\ up
  BY DEF Publish, ImplInv, OrderInv, QueueIsFresh, Phases, Ran
<1>2. UNCHANGED <<launch, up, seq, Ran, RpcVerdict>>
  BY DEF Publish, clientVars, procVars, up, Ran, RpcVerdict
<1>3. CASE UNCHANGED cmdOut
  <2>1. UNCHANGED Replies
    BY <1>2, <1>3 DEF Replies, Answered
  <2> QED BY <1>2, <2>1 DEF R!rpcVars, Ran, Replies
<1>4. CASE cmdOut' = [cmdOut EXCEPT ![cur.seq] =
                                     [req |-> cur.req, ok |-> cur.ok]]
  <2>1. Replies' = Replies \cup {cur.seq}
    BY <1>0, <1>1, <1>2, <1>4 DEF Replies, Answered, NoFile, Ran
  <2>2. CASE cur.seq \in Replies
    BY <1>2, <2>1, <2>2 DEF R!rpcVars, Ran, Replies
  <2>3. CASE cur.seq \notin Replies
    BY <1>1, <1>2, <2>1, <2>3 DEF R!Reply, Ran, Replies
  <2> QED BY <2>2, <2>3
<1> QED BY <1>3, <1>4 DEF Publish

LEMMA BridgingRefines ==
  ASSUME ImplInv, Bridging
  PROVE  [R!Next]_R!rpcVars
<1>1. CASE Execute
  BY <1>1, ExecuteRefines DEF Bridging, R!Next
<1>2. CASE Publish
  BY <1>2, PublishRefines DEF Bridging, R!Next
<1>3. CASE Boot \/ Beat \/ List \/ EndTick
  BY <1>3 DEF Bridging, Boot, Beat, List, EndTick, sharedVars, fileVars,
              procVars, clientVars, up, Answered, RpcVerdict, R!rpcVars
<1>4. CASE Die
  BY <1>4 DEF Bridging, Die, fileVars, clientVars, up, Answered, RpcVerdict,
              R!ServerDies, R!Next
<1> QED BY <1>1, <1>2, <1>3, <1>4 DEF Bridging, BridgeStep

-----------------------------------------------------------------------------
(* The steps of the client *)

(* A step of the client that neither sends nor concludes anything. *)
LEMMA QuietRefines ==
  ASSUME UNCHANGED <<launch, reaper, cmdOut, runs, seq, RpcVerdict>>
  PROVE  UNCHANGED R!rpcVars
  BY DEF R!rpcVars, up, Answered

(* A call that is sent is pending; a verdict changes nothing else. *)
LEMMA SubmitRefines ==
  ASSUME ImplInv, Submit, UNCHANGED bridgeVars
  PROVE  R!Call
<1>1. launch > 0 /\ seq \in Nat
  BY RunDirAssumption
     DEF RunDirAssumption, Submit, ImplInv, OrderInv, Phases, TypeInv, TypeOK,
         ClientTypeOK
<1>2. RpcVerdict # "pending" /\ RpcVerdict' = "pending"
  BY <1>1 DEF Submit, RpcVerdict, InEval
<1>3. /\ seq < MaxSeq /\ seq' = seq + 1
      /\ UNCHANGED <<launch, reaper, cmdOut, runs>>
  BY DEF Submit, procVars, bridgeVars
<1> QED BY <1>1, <1>2, <1>3 DEF R!Call, up, Answered

LEMMA ReturnRefines ==
  ASSUME ImplInv, CheckResponse \/ Grace, Answered(seq), Return,
         UNCHANGED bridgeVars
  PROVE  R!Return
<1>1. UNCHANGED <<launch, reaper, cmdOut, runs, seq>>
  BY DEF CheckResponse, Grace, sharedVars, fileVars, procVars, bridgeVars
<1>2. cpc \in InEval /\ seq > 0 /\ seq \in Cmd
  BY RunDirAssumption
     DEF RunDirAssumption, CheckResponse, Grace, InEval, ImplInv, OrderInv,
         TypeInv, TypeOK, ClientTypeOK, Cmd
<1>3. RpcVerdict = "pending" /\ RpcVerdict' = "answered"
  BY <1>1, <1>2 DEF Return, EndWait, RpcVerdict, InEval
<1>4. cmdOut[seq].req = launch
  BY <1>2 DEF ImplInv, OrderInv, QueueIsFresh
<1> QED BY <1>1, <1>2, <1>3, <1>4 DEF R!Return, up, Answered

LEMMA CrashRefines ==
  ASSUME ImplInv, Grace, ~Answered(seq), EndWait("crash"),
         UNCHANGED bridgeVars
  PROVE  R!DeclareCrash
<1>1. UNCHANGED <<launch, reaper, cmdOut, runs, seq>>
  BY DEF Grace, sharedVars, fileVars, procVars, bridgeVars
<1>2. cpc \in InEval /\ seq > 0 /\ ~up
  BY DEF Grace, InEval, ImplInv, OrderInv, TypeInv, DeathIsSeen
<1>3. RpcVerdict = "pending" /\ RpcVerdict' = "crashed"
  BY <1>1, <1>2 DEF EndWait, RpcVerdict, InEval
<1> QED BY <1>1, <1>2, <1>3 DEF R!DeclareCrash, up, Answered

LEMMA ProbeRefines ==
  ASSUME ImplInv, Probe, UNCHANGED bridgeVars
  PROVE  R!GiveUp \/ UNCHANGED R!rpcVars
<1>1. UNCHANGED <<launch, reaper, cmdOut, runs, seq>>
  BY DEF Probe, sharedVars, fileVars, procVars, bridgeVars
<1>2. cpc \in InEval /\ seq > 0
  BY DEF Probe, InEval, ImplInv, OrderInv, TypeInv
<1>3. CASE cpc' \in InEval
  BY <1>1, <1>2, <1>3, QuietRefines DEF RpcVerdict
<1>4. CASE cpc' \notin InEval
  <2>1. RpcVerdict = "pending" /\ RpcVerdict' = "gaveup"
    BY <1>1, <1>2, <1>4 DEF Probe, EndWait, RpcVerdict, InEval
  <2> QED BY <1>1, <2>1 DEF R!GiveUp, up, Answered
<1> QED BY <1>3, <1>4

LEMMA CallingRefines ==
  ASSUME ImplInv, Calling
  PROVE  [R!Next]_R!rpcVars
<1>1. CASE Submit
  BY <1>1, SubmitRefines DEF Calling, R!Next
<1>2. CASE WaitReady \/ ReadyOrDead
  <2>1. UNCHANGED <<launch, reaper, cmdOut, runs, seq>>
    BY <1>2 DEF Calling, WaitReady, ReadyOrDead, sharedVars, fileVars,
                procVars, bridgeVars
  <2>2. seq = 0 /\ cpc \notin InEval /\ cpc' \notin InEval
    BY <1>2 DEF WaitReady, ReadyOrDead, EndWait, InWait, InEval, ImplInv,
                OrderInv, Phases
  <2> QED BY <2>1, <2>2, QuietRefines DEF RpcVerdict
<1>3. CASE CheckResponse
  <2>1. CASE Answered(seq) /\ Return
    BY <1>3, <2>1, ReturnRefines DEF Calling, R!Next
  <2>2. CASE cpc' = "beat?"
    BY <1>3, <2>2, QuietRefines
       DEF Calling, CheckResponse, sharedVars, fileVars, procVars, bridgeVars,
           RpcVerdict, InEval
  <2> QED BY <1>3, <2>1, <2>2 DEF CheckResponse
<1>4. CASE ReadHeartbeat
  BY <1>4, QuietRefines
     DEF Calling, ReadHeartbeat, sharedVars, fileVars, procVars, bridgeVars,
         RpcVerdict, InEval
<1>5. CASE Probe
  BY <1>5, ProbeRefines DEF Calling, R!Next
<1>6. CASE Grace
  BY <1>6, ReturnRefines, CrashRefines DEF Calling, Grace, Recheck, R!Next
<1> QED BY <1>1, <1>2, <1>3, <1>4, <1>5, <1>6 DEF Calling, ClientStep

-----------------------------------------------------------------------------
(* Relaunch and time *)

LEMMA RelaunchRefines ==
  ASSUME ~LossyPurge, ImplInv, Relaunch
  PROVE  R!Connect
<1>1. PurgeQueue({}, {})
  BY DEF Relaunch, ResetRunDir, Kept
<1>2. \A s \in Cmd : ~Answered(s)' /\ runs'[s] = 0
  BY <1>1 DEF Relaunch, PurgeQueue, Answered, NoResponse, NoFile
<1>3. RpcVerdict # "pending" /\ RpcVerdict' = "none"
  <2>1. seq \in Nat
    BY RunDirAssumption DEF RunDirAssumption, ImplInv, OrderInv, TypeInv,
                            TypeOK, ClientTypeOK
  <2> QED BY <2>1 DEF Relaunch, RpcVerdict, InEval
<1>4. ~up /\ up' /\ launch' = launch + 1 /\ seq' = 0
  BY DEF Relaunch, up
<1>5. /\ {s \in Cmd : runs'[s] >= 1} = {}
      /\ {s \in Cmd : Answered(s)' /\ (cmdOut[s].req = launch)'} = {}
  BY <1>2
<1> QED BY <1>3, <1>4, <1>5 DEF R!Connect, Cmd

LEMMA NextRefines ==
  ASSUME ~LossyPurge, ImplInv, [Next]_vars
  PROVE  [R!Next]_R!rpcVars
<1>1. CASE Relaunch
  BY <1>1, RelaunchRefines DEF R!Next
<1>2. CASE Tick \/ UNCHANGED vars
  BY <1>2, QuietRefines DEF Tick, vars, sharedVars, fileVars, procVars,
                            bridgeVars, clientVars, RpcVerdict
<1>3. CASE Bridging
  BY <1>3, BridgingRefines
<1>4. CASE Calling
  BY <1>4, CallingRefines
<1> QED BY <1>1, <1>2, <1>3, <1>4 DEF Next

(* The bridge, the client and the files between them keep the promises of  *)
(* Rpc, whatever write fails and wherever REAPER hangs or dies: no answer  *)
(* out of nothing or of another connection, execution in order, a crash    *)
(* verdict only when no answer can come.                                   *)
THEOREM FileQueueImplementsRpc == ~LossyPurge /\ Spec => ImplementsRpc
<1> SUFFICES ASSUME ~LossyPurge PROVE Spec => ImplementsRpc
  OBVIOUS
<1>1. Spec => []ImplInv
  BY ImplInvHolds
<1>2. ImplInv /\ [Next]_vars => [R!Next]_R!rpcVars
  BY NextRefines
<1> QED BY <1>1, <1>2, InitRefines, PTL DEF Spec, ImplementsRpc, R!Spec

=============================================================================
