------------------------ MODULE ExtensionBatteryProofs ------------------------
(***************************************************************************)
(* Theorems about ExtensionBattery, for any number of actions with any     *)
(* effects, in every interleaving of the battery, REAPER and the monitor:  *)
(* no hollow pass, and every state leak is blamed on the action that left  *)
(* it, but for those that come late.                                       *)
(***************************************************************************)
EXTENDS ExtensionBattery, TLAPS

-----------------------------------------------------------------------------
(* The inductive invariant *)

Loop == {"lookup", "before", "send", "watch", "ping", "diff"}

(* What REAPER still has to run has had no effect; what has leaked was     *)
(* left by an action that ran.  No action ahead of the battery has run.    *)
EffectInv ==
  /\ deferred # 0 => effect[deferred] = "none" /\ deferred <= at
  /\ \A a \in leaked : effect[a] \in {"leak", "lateleak"}
  /\ \A a \in Action : a > at => effect[a] = "none"
  /\ step \in {"naming", "baseline", "load", "lookup", "before", "send"} =>
       effect[at] = "none" /\ deferred # at

(* The snapshot before an action is one of a REAPER that has nothing left  *)
(* to run; from then on only that action runs, and what it did is seen in  *)
(* the engine or in the next snapshot.  Besides, only changes made late    *)
(* tell the snapshots apart.                                               *)
Late(a) == effect[a] = "lateleak"

Undisturbed == before \subseteq leaked /\ \A a \in leaked \ before : Late(a)

WindowInv ==
  /\ step = "send" => deferred = 0 /\ Undisturbed
  /\ step \in {"watch", "ping", "diff"} =>
       \/ deferred = at /\ Undisturbed
       \/ /\ deferred = 0 /\ effect[at] # "none"
          /\ before \subseteq leaked /\ at \notin before
          /\ effect[at] = "leak" => at \in leaked
          /\ \A a \in leaked \ before : a = at \/ Late(a)
          /\ effect[at] \in {"panel", "hang", "die"} => engine # "running"

(* What the stages said, and that the loop has settled every action it is  *)
(* past.                                                                   *)
Settled(a) ==
  \/ report[a] \in Verdict \cup {"passed"}
  \/ report[a] = "skipped" /\ kind[a] = "elsewhere"

StageInv ==
  /\ step \in {"naming", "baseline", "load"} => at = 1
  /\ step \in Loop \cup {"baseline", "load"} => subject.named
  /\ step \in Loop \cup {"emitted"} =>
       /\ ~subject.named => <<"naming", "failed">> \in stages
       /\ subject.named /\ ~subject.loads => <<"load", "failed">> \in stages
  /\ step \in Loop => \A a \in Action : a < at => Settled(a)
  /\ step = "emitted" /\ subject.named /\ subject.run /\ subject.actions =>
       \/ \E a \in Action : report[a] \in Verdict
       \/ \A a \in Action : Settled(a)

ReportInv ==
  /\ \A a \in Action : report[a] = "passed" => effect[a] \in {"clean", "late", "lateleak"}
  /\ LeakBlame

IInv == TypeOK /\ EffectInv /\ WindowInv /\ StageInv /\ ReportInv

-----------------------------------------------------------------------------

LEMMA Initially == Init => IInv
<1> SUFFICES ASSUME Init PROVE IInv
  OBVIOUS
<1> USE BatteryAssumption DEF BatteryAssumption, Init, Action
<1>1. TypeOK
  BY DEF TypeOK, Verdict
<1>2. EffectInv /\ WindowInv
  BY DEF EffectInv, WindowInv
<1>3. StageInv /\ ReportInv
  BY DEF StageInv, ReportInv, LeakBlame, Loop
<1> QED BY <1>1, <1>2, <1>3 DEF IInv

(* The battery's steps that leave REAPER alone. *)
Stage == Naming \/ Baseline \/ Load
Quiet == Skip \/ Lookup \/ Before \/ Diff

-----------------------------------------------------------------------------
(* Types *)

LEMMA ResultTypes ==
  ASSUME TypeOK, NEW verdict \in {"passed", "skipped"} \cup Verdict, NEW breaks,
         Result(verdict, breaks)
  PROVE  /\ step' \in {"emitted", "lookup"} /\ at' \in Action
         /\ report' \in [Action -> {"none", "passed", "skipped"} \cup Verdict]
         /\ UNCHANGED <<subject, kind, stages, before>>
BY BatteryAssumption
   DEF BatteryAssumption, TypeOK, Result, IsLast, To, Action, subjectVars

(* The variables the stages leave alone keep their types. *)
LEMMA LoadTypes ==
  ASSUME TypeOK, UNCHANGED <<subject, kind, loopVars, reaperVars, sightings>>,
         stages' \subseteq {"naming", "load", "register"} \X {"passed", "failed", "skipped"},
         step' \in {"load", "lookup", "emitted", "aborted"}
  PROVE  TypeOK'
BY DEF TypeOK, loopVars, reaperVars, Action, Verdict

LEMMA TypeStep == ASSUME TypeOK, [Next]_vars PROVE TypeOK'
<1> USE BatteryAssumption DEF BatteryAssumption, TypeOK, To, Abort, subjectVars, loopVars,
        batteryVars, reaperVars, Action
<1>1. CASE Stage
  <2>1. CASE Naming
    BY <2>1 DEF Naming
  <2>2. CASE Baseline \/ (Load /\ UNCHANGED stages)
    BY <2>2 DEF Baseline, Load
  <2>3. CASE Load /\ ~UNCHANGED stages
    <3>1. Registered \in {"passed", "failed", "skipped"}
      BY DEF Registered
    <3>2. /\ stages' = stages \cup {<<"load", IF subject.loads THEN "passed" ELSE "failed">>,
                                   <<"register", Registered>>}
          /\ step' \in {"lookup", "emitted"}
          /\ UNCHANGED <<subject, kind, loopVars, reaperVars, sightings>>
      BY <2>3 DEF Load
    <3>3. stages' \subseteq {"naming", "load", "register"} \X {"passed", "failed", "skipped"}
      BY <3>1, <3>2
    <3>4. step' \in {"lookup", "emitted"}
      BY <3>2
    <3> QED BY <3>3, <3>4, <3>2, LoadTypes
  <2> QED BY <1>1, <2>1, <2>2, <2>3 DEF Stage
<1>2. CASE Skip
  BY <1>2, ResultTypes DEF Skip
<1>3. CASE Lookup
  BY <1>3, ResultTypes DEF Lookup, Verdict
<1>4. CASE Before \/ Send
  BY <1>4 DEF Before, Send, TakeBefore, Snapshot
<1>5. ASSUME NEW verdict \in Verdict, FailAction(verdict) PROVE TypeOK'
  BY <1>5, ResultTypes DEF FailAction
<1>6. CASE Watch
  BY <1>5, <1>6 DEF Watch, Verdict
<1>7. CASE Ping
  BY <1>5, <1>7 DEF Ping, Verdict
<1>8. CASE Diff
  BY <1>8, ResultTypes DEF Diff, Verdict
<1>9. CASE RunDeferred
  BY <1>9 DEF RunDeferred, Open
<1>10. CASE LatePanel \/ LateLeak \/ Monitor
  BY <1>10 DEF LatePanel, LateLeak, Monitor, Open
<1>11. CASE UNCHANGED vars
  BY <1>11 DEF vars
<1> QED BY <1>1, <1>2, <1>3, <1>4, <1>6, <1>7, <1>8, <1>9, <1>10, <1>11
        DEF Next, BatteryStep, Stage

-----------------------------------------------------------------------------
(* What a step is, for the invariants: a result settles the action it is   *)
(* about and goes on with the next, or ends the report.                    *)

LEMMA ResultGoesOn ==
  ASSUME TypeOK, NEW verdict, NEW breaks, Result(verdict, breaks)
  PROVE  \/ step' = "emitted" /\ at' = at
         \/ step' = "lookup" /\ at' = at + 1 /\ at' \in Action
BY BatteryAssumption
   DEF BatteryAssumption, TypeOK, Result, IsLast, To, Action

LEMMA FailGoesOn ==
  ASSUME TypeOK, NEW verdict, FailAction(verdict)
  PROVE  /\ \/ step' = "emitted" /\ at' = at
            \/ step' = "lookup" /\ at' = at + 1 /\ at' \in Action
         /\ UNCHANGED <<deferred, effect, leaked>>
BY ResultGoesOn DEF FailAction

(* Steps that end the work on an action, and steps within it. *)
Ends ==
  /\ step \in Loop
  /\ \/ step' = "emitted" /\ at' = at
     \/ step' = "lookup" /\ at' = at + 1 /\ at' \in Action
  /\ UNCHANGED <<deferred, effect, leaked>>

Moves ==
  /\ UNCHANGED <<deferred, effect, leaked, engine, at>>
  /\ \/ step' = step /\ UNCHANGED before
     \/ step' \in {"emitted", "aborted"}
     \/ step \in {"naming", "baseline", "load"} /\ step' \in {"baseline", "load", "lookup"}
     \/ step = "lookup" /\ step' = "before"
     \/ step = "before" /\ step' = "send" /\ deferred = 0 /\ before' = leaked
     \/ step = "watch" /\ step' = "ping" /\ UNCHANGED before
     \/ step = "ping" /\ step' = "diff" /\ UNCHANGED before

Sends ==
  /\ step = "send" /\ step' = "watch" /\ deferred = 0 /\ deferred' = at
  /\ UNCHANGED <<effect, leaked, engine, at, before>>

(* A timer of an action that ran long ago. *)
Leaks ==
  /\ \E a \in Action : Late(a) /\ leaked' = leaked \cup {a}
  /\ UNCHANGED <<batteryVars, engine, deferred, effect>>

Opens == engine' = "blocked" /\ UNCHANGED <<batteryVars, deferred, effect, leaked>>

LEMMA Steps ==
  ASSUME TypeOK, [Next]_vars
  PROVE  Ends \/ Moves \/ Sends \/ RunDeferred \/ Opens \/ Leaks
<1> USE DEF To, Abort, subjectVars, loopVars, batteryVars, reaperVars, Loop
<1>1. CASE Stage
  BY <1>1 DEF Stage, Naming, Baseline, Load, Moves
<1>2. CASE Skip
  BY <1>2, ResultGoesOn DEF Skip, Ends
<1>3. CASE Lookup
  BY <1>3, ResultGoesOn DEF Lookup, Ends, Moves
<1>4. CASE Before
  BY <1>4 DEF Before, TakeBefore, Snapshot, EvalServed, Moves
<1>5. CASE Send
  BY <1>5 DEF Send, EvalServed, Sends, Moves
<1>6. CASE Watch
  BY <1>6, FailGoesOn DEF Watch, Ends, Moves
<1>7. CASE Ping
  BY <1>7, FailGoesOn DEF Ping, Ends, Moves
<1>8. CASE Diff
  BY <1>8, ResultGoesOn DEF Diff, Ends, Moves
<1>9. CASE LatePanel
  BY <1>9 DEF LatePanel, Open, Opens
<1>12. CASE LateLeak
  BY <1>12 DEF LateLeak, Leaks, Late
<1>10. CASE Monitor
  BY <1>10 DEF Monitor, Moves
<1>11. CASE UNCHANGED vars
  BY <1>11 DEF vars, Moves
<1> QED BY <1>1, <1>2, <1>3, <1>4, <1>5, <1>6, <1>7, <1>8, <1>9, <1>10, <1>11,
          <1>12 DEF Next, BatteryStep, Stage

-----------------------------------------------------------------------------
(* Effects *)

LEMMA EffectStep == ASSUME TypeOK, EffectInv, [Next]_vars PROVE EffectInv'
<1> USE BatteryAssumption DEF BatteryAssumption, TypeOK, EffectInv, Action, Loop
<1>1. CASE Ends
  BY <1>1 DEF Ends
<1>2. CASE Moves
  BY <1>2 DEF Moves
<1>3. CASE Sends
  BY <1>3 DEF Sends
<1>4. CASE RunDeferred
  BY <1>4 DEF RunDeferred, batteryVars, loopVars
<1>5. CASE Opens
  BY <1>5 DEF Opens, batteryVars, loopVars
<1>6. CASE Leaks
  BY <1>6 DEF Leaks, Late, batteryVars, loopVars
<1> QED BY <1>1, <1>2, <1>3, <1>4, <1>5, <1>6, Steps

-----------------------------------------------------------------------------
(* The window between the snapshots *)

LEMMA WindowStep == ASSUME TypeOK, EffectInv, WindowInv, [Next]_vars PROVE WindowInv'
<1> USE BatteryAssumption DEF BatteryAssumption, TypeOK, EffectInv, WindowInv, Undisturbed, Late,
        Action, Loop
<1>1. CASE Ends
  BY <1>1 DEF Ends
<1>2. CASE Moves
  BY <1>2 DEF Moves
<1>3. CASE Sends
  BY <1>3 DEF Sends
<1>4. CASE RunDeferred
  BY <1>4 DEF RunDeferred, Open, batteryVars, loopVars
<1>5. CASE Opens
  BY <1>5 DEF Opens, batteryVars, loopVars
<1>6. CASE Leaks
  BY <1>6 DEF Leaks, Late, batteryVars, loopVars
<1> QED BY <1>1, <1>2, <1>3, <1>4, <1>5, <1>6, Steps

-----------------------------------------------------------------------------
(* Stages and the order of the loop *)

LEMMA ResultSettles ==
  ASSUME TypeOK, StageInv, step \in Loop, NEW verdict, NEW breaks, Result(verdict, breaks),
         verdict \in Verdict \cup {"passed"} \/ (verdict = "skipped" /\ kind[at] = "elsewhere"),
         breaks => verdict \in Verdict
  PROVE  StageInv'
<1> USE BatteryAssumption DEF BatteryAssumption, TypeOK, StageInv, Loop, Action
<1>1. UNCHANGED <<subject, kind, stages>> /\ report'[at] = verdict
  BY DEF Result, To, subjectVars
<1>2. \A a \in Action : a < at => Settled(a)'
  BY <1>1 DEF Result, Settled
<1>3. \A a \in Action : a = at => Settled(a)'
  BY <1>1 DEF Settled
<1>4. CASE step' = "lookup"
  BY <1>1, <1>2, <1>3, <1>4, ResultGoesOn
<1>5. CASE step' = "emitted" /\ at = Last
  <2>1. \A a \in Action : Settled(a)'
    BY <1>2, <1>3, <1>5
  <2> QED BY <1>1, <1>5, <2>1
<1>6. CASE step' = "emitted" /\ verdict \in Verdict
  BY <1>1, <1>6
<1>7. step' = "lookup" \/ (step' = "emitted" /\ (at = Last \/ verdict \in Verdict))
  BY DEF Result, To, IsLast
<1> QED BY <1>4, <1>5, <1>6, <1>7

LEMMA StageStep == ASSUME TypeOK, StageInv, [Next]_vars PROVE StageInv'
<1> USE DEF To, Abort, subjectVars, loopVars, batteryVars, reaperVars
<1>1. CASE Naming
  BY <1>1 DEF Naming, StageInv, Loop, TypeOK
<1>2. CASE Baseline
  BY <1>2 DEF Baseline, StageInv, Loop
<1>3. CASE Load
  BY <1>3 DEF Load, StageInv, Loop, TypeOK, Action
<1>4. CASE Skip
  BY <1>4, ResultSettles DEF Skip, Loop
<1>5. CASE Lookup
  BY <1>5, ResultSettles DEF Lookup, Loop, Verdict, StageInv, Settled
<1>6. CASE Before \/ Send
  BY <1>6 DEF Before, Send, StageInv, Settled, Loop
<1>7. ASSUME NEW verdict \in Verdict, FailAction(verdict), step \in Loop PROVE StageInv'
  BY <1>7, ResultSettles DEF FailAction
<1>8. CASE Watch
  BY <1>7, <1>8 DEF Watch, StageInv, Settled, Loop, Verdict
<1>9. CASE Ping
  BY <1>7, <1>9 DEF Ping, StageInv, Settled, Loop, Verdict
<1>10. CASE Diff
  BY <1>10, ResultSettles DEF Diff, StageInv, Settled, Loop, Verdict
<1>11. CASE RunDeferred \/ LatePanel \/ LateLeak \/ Monitor
  BY <1>11 DEF RunDeferred, LatePanel, LateLeak, Monitor, StageInv, Settled
<1>12. CASE UNCHANGED vars
  BY <1>12 DEF vars, StageInv, Settled
<1> QED BY <1>1, <1>2, <1>3, <1>4, <1>5, <1>6, <1>8, <1>9, <1>10, <1>11, <1>12
        DEF Next, BatteryStep

-----------------------------------------------------------------------------
(* The reports *)

(* A result that is neither a pass nor a leak says nothing of an effect.   *)
LEMMA ReportKept ==
  ASSUME TypeOK, ReportInv, UNCHANGED <<effect, leaked>>,
         NEW verdict, verdict \notin {"passed", "state leak"},
         report' = [report EXCEPT ![at] = verdict] \/ UNCHANGED report
  PROVE  ReportInv'
BY DEF ReportInv, LeakBlame, TypeOK

LEMMA ReportUntouched ==
  ASSUME ReportInv, UNCHANGED <<effect, report>>, leaked \subseteq leaked' PROVE ReportInv'
BY DEF ReportInv, LeakBlame

(* The second snapshot tells what the action left behind, unless a timer   *)
(* of an earlier one got in between.                                       *)
LEMMA DiffTells ==
  ASSUME TypeOK, EffectInv, WindowInv, step = "diff", EvalServed
  PROVE  IF Snapshot # before
         THEN effect[at] = "leak" \/ \E b \in leaked : b <= at /\ effect[b] = "lateleak"
         ELSE effect[at] \in {"clean", "late", "lateleak"}
<1>1. at \in Action /\ at # 0 /\ at \in Int /\ leaked \subseteq Action
  BY BatteryAssumption DEF BatteryAssumption, TypeOK, Action
<1>2. effect[at] \in {"none", "clean", "leak", "panel", "late", "lateleak", "hang", "die"}
  BY <1>1, BatteryAssumption DEF BatteryAssumption, TypeOK
<1>3. /\ effect[at] \notin {"none", "panel", "hang", "die"} /\ at \notin before
      /\ before \subseteq leaked
      /\ effect[at] = "leak" => at \in leaked
      /\ \A a \in leaked \ before : a = at \/ Late(a)
  BY <1>1 DEF WindowInv, EvalServed
<1>4. CASE Snapshot # before
  <2>1. PICK a \in leaked : a \notin before
    <3>1. leaked # before /\ before \subseteq leaked
      BY <1>3, <1>4 DEF Snapshot
    <3> QED BY <3>1
  <2>2. a <= at
    <3>1. a \in Int /\ (a > at => effect[a] = "none") /\ effect[a] # "none"
      BY <1>1, <2>1, BatteryAssumption DEF BatteryAssumption, EffectInv, Action
    <3> QED BY <1>1, <3>1
  <2>3. effect[a] \in {"leak", "lateleak"}
    BY <2>1 DEF EffectInv
  <2> QED BY <1>3, <1>4, <2>1, <2>2, <2>3 DEF Late
<1>5. CASE Snapshot = before
  BY <1>2, <1>3, <1>5 DEF Snapshot
<1> QED BY <1>4, <1>5

LEMMA ReportStep == ASSUME TypeOK, EffectInv, WindowInv, ReportInv, [Next]_vars PROVE ReportInv'
<1> USE DEF To, Abort, subjectVars, loopVars, batteryVars, reaperVars
<1>1. CASE Stage
  BY <1>1, ReportKept DEF Stage, Naming, Baseline, Load
<1>2. CASE Skip \/ Lookup
  BY <1>2, ReportKept DEF Skip, Lookup, Result
<1>3. CASE Before \/ Send
  BY <1>3, ReportKept DEF Before, Send
<1>4. CASE Watch \/ Ping
  BY <1>4, ReportKept DEF Watch, Ping, FailAction, Result
<1>5. CASE Diff
  <2>0. EvalServed => /\ UNCHANGED <<effect, leaked>>
                      /\ report' = [report EXCEPT ![at] =
                                     IF Snapshot # before THEN "state leak" ELSE "passed"]
    BY <1>5 DEF Diff, EvalServed, EvalRaises, Result
  <2>1. CASE EvalServed /\ Snapshot # before
    <3>1. effect[at] = "leak" \/ \E b \in leaked : b <= at /\ effect[b] = "lateleak"
      BY <1>5, <2>1, DiffTells DEF Diff
    <3>2. \A a \in Action : report'[a] = IF a = at THEN "state leak" ELSE report[a]
      BY <2>0, <2>1 DEF TypeOK
    <3> QED BY <2>0, <2>1, <3>1, <3>2 DEF ReportInv, LeakBlame
  <2>2. CASE EvalServed /\ Snapshot = before
    BY <1>5, <2>0, <2>2, DiffTells DEF Diff, ReportInv, LeakBlame, TypeOK
  <2>3. CASE ~EvalServed
    BY <1>5, <2>3, ReportKept DEF Diff
  <2> QED BY <2>1, <2>2, <2>3
<1>6. CASE RunDeferred
  <2>1. PICK e \in Effects : effect' = [effect EXCEPT ![deferred] = e]
    BY <1>6 DEF RunDeferred
  <2>2. /\ UNCHANGED <<report, at>> /\ leaked \subseteq leaked'
        /\ deferred \in Action /\ effect[deferred] = "none"
    BY <1>6 DEF RunDeferred, EffectInv, TypeOK
  <2>3. \A a \in Action : effect[a] # "none" => effect'[a] = effect[a]
    BY <2>1, <2>2 DEF TypeOK
  <2>4. leaked \subseteq Action
    BY DEF TypeOK
  <2> QED BY <2>2, <2>3, <2>4 DEF ReportInv, LeakBlame
<1>7. CASE LatePanel \/ LateLeak \/ Monitor
  BY <1>7, ReportUntouched DEF LatePanel, LateLeak, Monitor
<1>8. CASE UNCHANGED vars
  BY <1>8, ReportUntouched DEF vars
<1> QED BY <1>1, <1>2, <1>3, <1>4, <1>5, <1>6, <1>7, <1>8 DEF Next, BatteryStep, Stage

-----------------------------------------------------------------------------

LEMMA Inductive == Spec => []IInv
<1>1. IInv /\ [Next]_vars => IInv'
  BY TypeStep, EffectStep, WindowStep, StageStep, ReportStep DEF IInv
<1> QED BY <1>1, Initially, PTL DEF Spec

(* Every reachable state of the battery is well typed. *)
THEOREM TypeCorrect == Spec => []TypeOK
<1>1. IInv => TypeOK
  BY DEF IInv
<1> QED BY <1>1, Inductive, PTL

(* An action that passed left REAPER as it was; a green report is about an *)
(* extension that was loaded and had all its actions run.                  *)
THEOREM NoHollowPass == Spec => []PassedIsClean
<1>1. IInv => PassedIsClean
  <2> SUFFICES ASSUME IInv, Green PROVE
        /\ subject.named /\ subject.loads
        /\ (subject.run /\ subject.actions) =>
             \A a \in Action : report[a] = "passed" \/ kind[a] = "elsewhere"
    BY DEF IInv, ReportInv, PassedIsClean
  <2> QED BY DEF IInv, StageInv, Settled, Green, Loop
<1> QED BY <1>1, Inductive, PTL

(* Whatever earlier actions left behind, a leak is blamed on the action    *)
(* that left it, unless an action that ran had a timer change REAPER late. *)
THEOREM LeaksAreBlamedRightly == Spec => []LeakBlame
<1>1. IInv => LeakBlame
  BY DEF IInv, ReportInv
<1> QED BY <1>1, Inductive, PTL

=============================================================================
