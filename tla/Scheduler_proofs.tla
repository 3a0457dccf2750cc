-------------------------- MODULE Scheduler_proofs --------------------------
(***************************************************************************)
(* Theorems about the scheduler, for every set of callers and intervals    *)
(* and every bound on the clock.                                           *)
(***************************************************************************)
EXTENDS Scheduler, TLAPS

USE DEF settings, schedule, channels, goroutine, history, Zero, Off

-----------------------------------------------------------------------------
(* The interval in force is positive whatever a caller asks for. *)
LEMMA EffectiveType ==
  ASSUME NEW i \in Interval
  PROVE  Effective(i) \in Nat \ {0}
BY SchedulerAssumption DEF Effective

(* The step and the local variables of the loop. *)
LEMMA RunUpdates ==
  ASSUME run \in Run, NEW step \in RunStep
  PROVE  /\ GoTo(step) => run' \in Run /\ run' = [run EXCEPT !.step = step]
         /\ Return(step) => run' \in Run /\ run'.step = step
<1>1. NoLocals \in Run /\ \A s \in RunStep : [NoLocals EXCEPT !.step = s] \in Run
  BY DEF NoLocals, Run, RunStep
<1>2. [run EXCEPT !.step = step] \in Run
  BY DEF Run
<1>3. [NoLocals EXCEPT !.step = step].step = step
  BY DEF NoLocals
<1> QED  BY <1>1, <1>2, <1>3 DEF GoTo, Return

LEMMA TypeInit == Init => TypeOK
<1>1. NoLocals \in Run
  BY DEF NoLocals, Run, RunStep
<1>2. [u \in Caller |-> "none"] \in [Caller -> CallerStep]
  BY DEF CallerStep
<1>3. Init => interval \in Nat \ {0} /\ nextRun \in Nat /\ timer \in Nat /\ now \in Nat \ {0}
  BY SchedulerAssumption DEF Init
<1> QED  BY <1>1, <1>2, <1>3 DEF Init, TypeOK, State

(* What the callers do keeps the types. *)
LEMMA TypeCalls ==
  ASSUME TypeOK, NEW u \in Caller, CallStep(u) \/ ReturnStep(u)
  PROVE  TypeOK'
<1> USE DEF TypeOK, Ready, Continue, CallerStep, State
<1>1. ASSUME NEW i \in Interval, SetInterval(u, i) PROVE TypeOK'
  BY <1>1, EffectiveType DEF SetInterval
<1>2. CASE Trigger(u)
  BY <1>2 DEF Trigger
<1>3. CASE Pause(u)
  BY <1>3 DEF Pause
<1>4. CASE PauseIfIdle(u)
  BY <1>4 DEF PauseIfIdle
<1>5. CASE Resume(u)
  <2>1. nextRun' \in Nat
    BY <1>5 DEF Resume
  <2> QED  BY <1>5, <2>1 DEF Resume
<1>6. CASE Show(u)
  BY <1>6 DEF Show
<1>7. CASE Notify(u)
  BY <1>7 DEF Notify
<1> QED  BY <1>1, <1>2, <1>3, <1>4, <1>5, <1>6, <1>7 DEF CallStep, ReturnStep

(* So does the environment of the loop, *)
LEMMA TypeEnvironment ==
  ASSUME TypeOK, BeginRun \/ Cancel \/ Tick \/ WatcherCancels
  PROVE  TypeOK'
<1>1. CASE BeginRun
  <2>1. run' \in Run
    BY <1>1 DEF BeginRun, TypeOK, Run, RunStep
  <2>2. nextRun' \in Nat
    BY <1>1 DEF BeginRun, TypeOK
  <2> QED  BY <1>1, <2>1, <2>2 DEF BeginRun, TypeOK
<1>2. CASE Cancel
  BY <1>2 DEF Cancel, TypeOK
<1>3. CASE Tick
  BY <1>3 DEF Tick, TypeOK
<1>4. CASE WatcherCancels
  BY <1>4 DEF WatcherCancels, CancelRun, TypeOK
<1> QED  BY <1>1, <1>2, <1>3, <1>4

(* the loop outside a cycle, *)
LEMMA TypeLoop ==
  ASSUME TypeOK,
         \/ Arm \/ SelectDone \/ SelectIntervalChange \/ SelectTimer \/ SelectTrigger
         \/ TimerEventCurrent \/ ResetTimer \/ Leave \/ EndRun
  PROVE  TypeOK'
<1>1. run \in Run
  BY DEF TypeOK
<1>2. CASE Arm
  BY <1>1, <1>2, RunUpdates DEF Arm, TypeOK, Run, RunStep
<1>3. CASE SelectDone
  BY <1>1, <1>3, RunUpdates DEF SelectDone, TypeOK, RunStep
<1>4. CASE SelectIntervalChange
  BY <1>1, <1>4, RunUpdates DEF SelectIntervalChange, Received, TypeOK, RunStep
<1>5. CASE SelectTimer
  <2>1. run' \in Run
    BY <1>1, <1>5 DEF SelectTimer, TypeOK, Run, RunStep
  <2> QED  BY <1>5, <2>1 DEF SelectTimer, TypeOK
<1>6. CASE SelectTrigger
  BY <1>1, <1>6, RunUpdates DEF SelectTrigger, Received, TypeOK, RunStep
<1>7. CASE TimerEventCurrent
  BY <1>1, <1>7, RunUpdates DEF TimerEventCurrent, TypeOK, RunStep
<1>8. CASE ResetTimer
  <2>1. timer' \in Nat
    BY <1>8 DEF ResetTimer, TypeOK
  <2> QED  BY <1>1, <1>8, <2>1, RunUpdates DEF ResetTimer, TypeOK, RunStep
<1>9. CASE Leave
  BY <1>1, <1>9, RunUpdates DEF Leave, CancelRun, TypeOK, RunStep
<1>10. CASE EndRun
  BY <1>1, <1>10, RunUpdates DEF EndRun, TypeOK, RunStep
<1> QED  BY <1>2, <1>3, <1>4, <1>5, <1>6, <1>7, <1>8, <1>9, <1>10

(* and a cycle. *)
LEMMA TypeCycle ==
  ASSUME TypeOK, CycleStep
  PROVE  TypeOK'
<1>1. run \in Run
  BY DEF TypeOK
<1>2. CASE BeginCycle
  BY <1>1, <1>2, RunUpdates DEF BeginCycle, TypeOK, RunStep
<1>3. CASE ShowUpdating
  BY <1>1, <1>3, RunUpdates DEF ShowUpdating, TypeOK, RunStep, State
<1>4. CASE Job
  <2>1. run' \in Run
    BY <1>1, <1>4 DEF Job, Run, RunStep
  <2> QED  BY <1>4, <2>1 DEF Job, TypeOK
<1>5. CASE CycleCancelled
  BY <1>1, <1>5, RunUpdates DEF CycleCancelled, CancelRun, TypeOK, RunStep
<1>6. CASE RearmAfterCycle
  <2>1. run' \in Run
    BY <1>1, <1>6, RunUpdates DEF RearmAfterCycle, TypeOK, Run, RunStep
  <2>2. nextRun' \in Nat
    BY <1>6 DEF RearmAfterCycle, TypeOK
  <2> QED  BY <1>6, <2>1, <2>2 DEF RearmAfterCycle, TypeOK
<1>7. CASE Rearm
  BY <1>1, <1>7, RunUpdates DEF Rearm, TypeOK, Run, RunStep
<1>8. CASE AskPaused
  BY <1>1, <1>8, RunUpdates DEF AskPaused, TypeOK, RunStep
<1>9. CASE ShowOutcome
  BY <1>1, <1>9, RunUpdates DEF ShowOutcome, TypeOK, RunStep, State
<1>10. CASE FinishCycle
  BY <1>1, <1>10, RunUpdates DEF FinishCycle, TypeOK, RunStep
<1> QED  BY <1>2, <1>3, <1>4, <1>5, <1>6, <1>7, <1>8, <1>9, <1>10 DEF CycleStep

LEMMA TypeNext == TypeOK /\ [Next]_vars => TypeOK'
<1> SUFFICES ASSUME TypeOK, [Next]_vars PROVE TypeOK'
  OBVIOUS
<1>1. CASE \E u \in Caller : CallStep(u) \/ ReturnStep(u)
  BY <1>1, TypeCalls
<1>2. CASE BeginRun \/ Cancel \/ Tick \/ WatcherCancels
  BY <1>2, TypeEnvironment
<1>3. CASE LoopStep
  BY <1>3, TypeLoop, TypeCycle DEF LoopStep
<1>4. CASE UNCHANGED vars
  BY <1>4 DEF vars, TypeOK
<1> QED  BY <1>1, <1>2, <1>3, <1>4 DEF Next

(***************************************************************************)
(* Type correctness of the scheduler.                                      *)
(***************************************************************************)
THEOREM TypeCorrect == Spec => []TypeOK
<1> QED  BY TypeInit, TypeNext, PTL DEF Spec
-----------------------------------------------------------------------------
(* The fields go with the step of the loop. *)
LEMMA RunInit == Init => RunInv
BY DEF Init, RunInv, NextRunZero, HeldMeansQuiet, At, Live, NoLocals

LEMMA RunCalls ==
  ASSUME TypeOK, RunInv, NEW u \in Caller, CallStep(u) \/ ReturnStep(u)
  PROVE  RunInv'
<1> USE DEF TypeOK, RunInv, NextRunZero, HeldMeansQuiet, At, Live
<1>1. ASSUME NEW i \in Interval, SetInterval(u, i) PROVE RunInv'
  BY <1>1, EffectiveType DEF SetInterval
<1>2. CASE Trigger(u)
  BY <1>2 DEF Trigger
<1>3. CASE Pause(u)
  BY <1>3 DEF Pause
<1>4. CASE PauseIfIdle(u)
  BY <1>4 DEF PauseIfIdle
<1>5. CASE Resume(u)
  BY <1>5 DEF Resume
<1>6. CASE Show(u)
  BY <1>6 DEF Show
<1>7. CASE Notify(u)
  BY <1>7 DEF Notify
<1> QED  BY <1>1, <1>2, <1>3, <1>4, <1>5, <1>6, <1>7 DEF CallStep, ReturnStep

LEMMA RunEnvironment ==
  ASSUME TypeOK, RunInv, BeginRun \/ Cancel \/ Tick \/ WatcherCancels
  PROVE  RunInv'
<1> USE DEF TypeOK, RunInv, NextRunZero, HeldMeansQuiet, At, Live, Run
<1>1. CASE BeginRun
  BY <1>1 DEF BeginRun
<1>2. CASE Cancel
  BY <1>2 DEF Cancel
<1>3. CASE Tick
  BY <1>3 DEF Tick
<1>4. CASE WatcherCancels
  BY <1>4 DEF WatcherCancels, CancelRun
<1> QED  BY <1>1, <1>2, <1>3, <1>4

LEMMA RunLoop ==
  ASSUME TypeOK, RunInv,
         \/ Arm \/ SelectDone \/ SelectIntervalChange \/ SelectTimer \/ SelectTrigger
         \/ TimerEventCurrent \/ ResetTimer \/ Leave \/ EndRun
  PROVE  RunInv'
<1> USE DEF TypeOK, RunInv, NextRunZero, HeldMeansQuiet, At, Live, Run, GoTo, Return, NoLocals
<1>1. CASE Arm
  BY <1>1 DEF Arm
<1>2. CASE SelectDone
  BY <1>2 DEF SelectDone
<1>3. CASE SelectIntervalChange
  BY <1>3 DEF SelectIntervalChange, Received
<1>4. CASE SelectTimer
  BY <1>4 DEF SelectTimer
<1>5. CASE SelectTrigger
  BY <1>5 DEF SelectTrigger, Received
<1>6. CASE TimerEventCurrent
  BY <1>6 DEF TimerEventCurrent
<1>7. CASE ResetTimer
  BY <1>7 DEF ResetTimer
<1>8. CASE Leave
  BY <1>8 DEF Leave, CancelRun
<1>9. CASE EndRun
  BY <1>9 DEF EndRun
<1> QED  BY <1>1, <1>2, <1>3, <1>4, <1>5, <1>6, <1>7, <1>8, <1>9

LEMMA RunCycle ==
  ASSUME TypeOK, RunInv, CycleStep
  PROVE  RunInv'
<1> USE DEF TypeOK, RunInv, NextRunZero, HeldMeansQuiet, At, Live, Run, GoTo, Return, NoLocals
<1>1. CASE BeginCycle
  BY <1>1 DEF BeginCycle
<1>2. CASE ShowUpdating
  BY <1>2 DEF ShowUpdating
<1>3. CASE Job
  BY <1>3 DEF Job
<1>4. CASE CycleCancelled
  BY <1>4 DEF CycleCancelled, CancelRun
<1>5. CASE RearmAfterCycle /\ Live /\ ~paused
  <2>1. nextRun' = now + interval /\ nextRun' # Zero
    BY <1>5 DEF RearmAfterCycle
  <2>2. run'.step = "rearm" /\ run.step = "after"
    BY <1>5 DEF RearmAfterCycle
  <2> QED  BY <1>5, <2>1, <2>2 DEF RearmAfterCycle
<1>6. CASE RearmAfterCycle /\ ~(Live /\ ~paused)
  <2>1. run'.step = "finish" /\ run.step = "after"
    BY <1>6 DEF RearmAfterCycle
  <2> QED  BY <1>6, <2>1 DEF RearmAfterCycle
<1>7. CASE Rearm
  BY <1>7 DEF Rearm
<1>8. CASE AskPaused
  BY <1>8 DEF AskPaused
<1>9. CASE ShowOutcome
  BY <1>9 DEF ShowOutcome
<1>10. CASE FinishCycle
  BY <1>10 DEF FinishCycle
<1> QED  BY <1>1, <1>2, <1>3, <1>4, <1>5, <1>6, <1>7, <1>8, <1>9, <1>10 DEF CycleStep

LEMMA RunNext == TypeOK /\ RunInv /\ [Next]_vars => RunInv'
<1> SUFFICES ASSUME TypeOK, RunInv, [Next]_vars PROVE RunInv'
  OBVIOUS
<1>1. CASE \E u \in Caller : CallStep(u) \/ ReturnStep(u)
  BY <1>1, RunCalls
<1>2. CASE BeginRun \/ Cancel \/ Tick \/ WatcherCancels
  BY <1>2, RunEnvironment
<1>3. CASE LoopStep
  BY <1>3, RunLoop, RunCycle DEF LoopStep
<1>4. CASE UNCHANGED vars
  BY <1>4 DEF vars, RunInv, NextRunZero, HeldMeansQuiet, At, Live
<1> QED  BY <1>1, <1>2, <1>3, <1>4 DEF Next

LEMMA RunCorrect == Spec => [](TypeOK /\ RunInv)
<1> QED  BY TypeInit, TypeNext, RunInit, RunNext, PTL DEF Spec

(***************************************************************************)
(* NextRun is the zero time while the scheduler is stopped or paused.      *)
(***************************************************************************)
THEOREM NextRunIsZero == Spec => []NextRunZero
<1>1. RunInv => NextRunZero
  BY DEF RunInv
<1> QED  BY <1>1, RunCorrect, PTL

(***************************************************************************)
(* No cycle runs from a successful PauseIfIdle to the next Resume.         *)
(***************************************************************************)
THEOREM HeldIsQuiet == Spec => []HeldMeansQuiet
<1>1. RunInv => HeldMeansQuiet
  BY DEF RunInv
<1> QED  BY <1>1, RunCorrect, PTL

(***************************************************************************)
(* A request made before the cancellation does not reach the next run.     *)
(***************************************************************************)
THEOREM NoTriggerSurvives == Spec => []NoTriggerOutlives
<1>1. RunInv => NoTriggerOutlives
  BY DEF RunInv, NoTriggerOutlives
<1> QED  BY <1>1, RunCorrect, PTL
-----------------------------------------------------------------------------
(* What the loop finds when it waits. *)
LEMMA TimerInit == Init => TimerInv
BY DEF Init, TimerInv, NoLocals, At

(* A call that changes the schedule owes a notification until it is sent.  *)
LEMMA TimerCalls ==
  ASSUME TypeOK, RunInv, TimerInv, NEW u \in Caller, CallStep(u) \/ ReturnStep(u)
  PROVE  TimerInv'
<1> USE DEF TypeOK, TimerInv, At
<1>1. ASSUME caller' = [caller EXCEPT ![u] = caller'[u]], caller'[u] # "none" PROVE Told'
  BY <1>1 DEF Told
<1>2. ASSUME NEW i \in Interval, SetInterval(u, i) PROVE TimerInv'
  BY <1>1, <1>2 DEF SetInterval, Continue
<1>3. CASE Trigger(u)
  BY <1>3 DEF Trigger, Told
<1>4. CASE Pause(u)
  BY <1>1, <1>4 DEF Pause, Continue
<1>5. CASE PauseIfIdle(u)
  BY <1>1, <1>5 DEF PauseIfIdle, Continue
<1>6. CASE Resume(u)
  BY <1>1, <1>6 DEF Resume, Continue
<1>7. CASE Show(u)
  BY <1>1, <1>7 DEF Show, Continue
<1>8. CASE Notify(u)
  BY <1>8 DEF Notify, Told
<1> QED  BY <1>2, <1>3, <1>4, <1>5, <1>6, <1>7, <1>8 DEF CallStep, ReturnStep

LEMMA TimerEnvironment ==
  ASSUME TypeOK, RunInv, TimerInv, BeginRun \/ Cancel \/ Tick \/ WatcherCancels
  PROVE  TimerInv'
<1> USE DEF TypeOK, RunInv, NextRunZero, TimerInv, Told, At, Live, Run
<1>1. CASE BeginRun
  BY <1>1 DEF BeginRun
<1>2. CASE Cancel
  BY <1>2 DEF Cancel
<1>3. CASE Tick
  BY <1>3 DEF Tick
<1>4. CASE WatcherCancels
  BY <1>4 DEF WatcherCancels, CancelRun
<1> QED  BY <1>1, <1>2, <1>3, <1>4

LEMMA TimerLoop ==
  ASSUME TypeOK, RunInv, TimerInv,
         \/ Arm \/ SelectDone \/ SelectIntervalChange \/ SelectTimer \/ SelectTrigger
         \/ TimerEventCurrent \/ ResetTimer \/ Leave \/ EndRun
  PROVE  TimerInv'
<1> USE DEF TypeOK, RunInv, NextRunZero, TimerInv, Told, At, Live, Run, GoTo, Return, NoLocals
<1>1. CASE Arm
  BY <1>1 DEF Arm
<1>2. CASE SelectDone
  BY <1>2 DEF SelectDone
<1>3. CASE SelectIntervalChange
  BY <1>3 DEF SelectIntervalChange, Received
<1>4. CASE SelectTimer
  BY <1>4 DEF SelectTimer
<1>5. CASE SelectTrigger
  BY <1>5 DEF SelectTrigger, Received
<1>6. CASE TimerEventCurrent
  BY <1>6 DEF TimerEventCurrent
<1>7. CASE ResetTimer
  BY <1>7 DEF ResetTimer
<1>8. CASE Leave
  BY <1>8 DEF Leave, CancelRun
<1>9. CASE EndRun
  BY <1>9 DEF EndRun
<1> QED  BY <1>1, <1>2, <1>3, <1>4, <1>5, <1>6, <1>7, <1>8, <1>9

LEMMA TimerCycle ==
  ASSUME TypeOK, RunInv, TimerInv, CycleStep
  PROVE  TimerInv'
<1> USE DEF TypeOK, RunInv, NextRunZero, TimerInv, Told, At, Live, Run, GoTo, Return, NoLocals
<1>1. CASE BeginCycle
  BY <1>1 DEF BeginCycle
<1>2. CASE ShowUpdating
  BY <1>2 DEF ShowUpdating
<1>3. CASE Job
  BY <1>3 DEF Job
<1>4. CASE CycleCancelled
  BY <1>4 DEF CycleCancelled, CancelRun
<1>5. CASE RearmAfterCycle
  <2>1. CASE Live /\ ~paused
    <3>1. nextRun' = now + interval
      BY <1>5, <2>1 DEF RearmAfterCycle
    <3>2. run'.step = "rearm" /\ run'.interval = interval
      BY <1>5, <2>1 DEF RearmAfterCycle
    <3> QED  BY <1>5, <2>1, <3>1, <3>2 DEF RearmAfterCycle
  <2>2. CASE ~(Live /\ ~paused)
    <3>1. run'.step = "finish" /\ run.step = "after"
      BY <1>5, <2>2 DEF RearmAfterCycle
    <3> QED  BY <1>5, <2>2, <3>1 DEF RearmAfterCycle
  <2> QED  BY <2>1, <2>2
<1>6. CASE Rearm
  BY <1>6 DEF Rearm
<1>7. CASE AskPaused
  BY <1>7 DEF AskPaused
<1>8. CASE ShowOutcome
  BY <1>8 DEF ShowOutcome
<1>9. CASE FinishCycle
  BY <1>9 DEF FinishCycle
<1> QED  BY <1>1, <1>2, <1>3, <1>4, <1>5, <1>6, <1>7, <1>8, <1>9 DEF CycleStep

LEMMA TimerNext == TypeOK /\ RunInv /\ TimerInv /\ [Next]_vars => TimerInv'
<1> SUFFICES ASSUME TypeOK, RunInv, TimerInv, [Next]_vars PROVE TimerInv'
  OBVIOUS
<1>1. CASE \E u \in Caller : CallStep(u) \/ ReturnStep(u)
  BY <1>1, TimerCalls
<1>2. CASE BeginRun \/ Cancel \/ Tick \/ WatcherCancels
  BY <1>2, TimerEnvironment
<1>3. CASE LoopStep
  BY <1>3, TimerLoop, TimerCycle DEF LoopStep
<1>4. CASE UNCHANGED vars
  BY <1>4 DEF vars, TimerInv, Told, At
<1> QED  BY <1>1, <1>2, <1>3, <1>4 DEF Next

(***************************************************************************)
(* The loop never waits with a forgotten schedule.                         *)
(***************************************************************************)
THEOREM AlwaysArmed == Spec => []Armed
<1>1. TypeOK /\ RunInv /\ TimerInv => Armed
  BY DEF TypeOK, RunInv, TimerInv, Armed, At, Live
<1> QED  BY <1>1, RunCorrect, TimerInit, TimerNext, PTL DEF Spec

-----------------------------------------------------------------------------
(* A job runs exactly in the steps between the sections that set           *)
(* jobRunning and that reset it.                                           *)
Cycling == {"updating", "job", "after", "rearm", "ask", "show", "finish"}

BusyInv == jobRunning <=> run.step \in Cycling

LEMMA BusyInit == Init => BusyInv
BY DEF Init, BusyInv, Cycling, NoLocals

LEMMA BusyNext == TypeOK /\ BusyInv /\ [Next]_vars => BusyInv'
<1> SUFFICES ASSUME TypeOK, BusyInv, [Next]_vars PROVE BusyInv'
  OBVIOUS
<1> USE DEF BusyInv, Cycling
<1>1. run \in Run
  BY DEF TypeOK
<1>2. CASE UNCHANGED vars
  BY <1>2 DEF vars
<1>3. ASSUME NEW u \in Caller, CallStep(u) \/ ReturnStep(u) PROVE BusyInv'
  BY <1>3 DEF CallStep, ReturnStep, SetInterval, Trigger, Pause, PauseIfIdle, Resume, Show, Notify
<1>4. CASE BeginRun \/ Cancel \/ Tick \/ WatcherCancels
  <2>1. CASE BeginRun
    <3>1. run' = [run EXCEPT !.step = "arm", !.interval = interval]
      BY <2>1 DEF BeginRun
    <3>2. run'.step = "arm" /\ run.step = "off"
      BY <1>1, <2>1, <3>1 DEF BeginRun, At, Run
    <3> QED  BY <2>1, <3>2 DEF BeginRun
  <2>2. CASE Cancel \/ Tick \/ WatcherCancels
    BY <2>2 DEF Cancel, Tick, WatcherCancels, CancelRun
  <2> QED  BY <1>4, <2>1, <2>2
<1>5. CASE \/ Arm \/ SelectDone \/ SelectIntervalChange \/ SelectTimer \/ SelectTrigger
           \/ TimerEventCurrent \/ ResetTimer \/ Leave \/ EndRun
  <2>1. CASE Arm
    BY <1>1, <2>1 DEF Arm, Return, NoLocals, At, Run
  <2>2. CASE SelectDone
    BY <1>1, <2>2 DEF SelectDone, GoTo, At, Run
  <2>3. CASE SelectIntervalChange
    BY <1>1, <2>3 DEF SelectIntervalChange, Received, GoTo, At, Run
  <2>4. CASE SelectTimer
    <3>1. run' = [run EXCEPT !.step = IF ctx THEN "leave" ELSE "check", !.firedAt = timer]
      BY <2>4 DEF SelectTimer
    <3>2. run'.step \in {"leave", "check"} /\ run.step = "select"
      BY <1>1, <2>4, <3>1 DEF SelectTimer, At, Run
    <3> QED  BY <2>4, <3>2 DEF SelectTimer
  <2>5. CASE SelectTrigger
    BY <1>1, <2>5 DEF SelectTrigger, Received, GoTo, At, Run
  <2>6. CASE TimerEventCurrent
    BY <1>1, <2>6 DEF TimerEventCurrent, Return, NoLocals, At, Run
  <2>7. CASE ResetTimer
    BY <1>1, <2>7 DEF ResetTimer, GoTo, At, Run
  <2>8. CASE Leave
    BY <1>1, <2>8 DEF Leave, CancelRun, GoTo, At, Run
  <2>9. CASE EndRun
    BY <1>1, <2>9 DEF EndRun, Return, NoLocals, At, Run
  <2> QED  BY <1>5, <2>1, <2>2, <2>3, <2>4, <2>5, <2>6, <2>7, <2>8, <2>9
<1>6. CASE CycleStep
  <2>1. CASE BeginCycle
    BY <1>1, <2>1 DEF BeginCycle, GoTo, At, Run
  <2>2. CASE ShowUpdating
    BY <1>1, <2>2 DEF ShowUpdating, GoTo, At, Run
  <2>3. CASE Job
    BY <1>1, <2>3 DEF Job, At, Run
  <2>4. CASE CycleCancelled
    BY <1>1, <2>4 DEF CycleCancelled, CancelRun, GoTo, At, Run
  <2>5. CASE RearmAfterCycle
    BY <1>1, <2>5 DEF RearmAfterCycle, GoTo, At, Run
  <2>6. CASE Rearm
    BY <1>1, <2>6 DEF Rearm, GoTo, At, Run
  <2>7. CASE AskPaused
    BY <1>1, <2>7 DEF AskPaused, GoTo, At, Run
  <2>8. CASE ShowOutcome
    BY <1>1, <2>8 DEF ShowOutcome, GoTo, At, Run
  <2>9. CASE FinishCycle
    BY <1>1, <2>9 DEF FinishCycle, Return, NoLocals, At, Run
  <2> QED  BY <1>6, <2>1, <2>2, <2>3, <2>4, <2>5, <2>6, <2>7, <2>8, <2>9 DEF CycleStep
<1> QED  BY <1>2, <1>3, <1>4, <1>5, <1>6 DEF Next, LoopStep

(* Every step of the scheduler is a step of JobControl or leaves it alone. *)
LEMMA ControlStep ==
  ASSUME TypeOK, RunInv, BusyInv, [Next]_vars
  PROVE  [Control!Next]_(Control!job)
<1> USE DEF Control!Next, Control!job, Control!Begin, Control!Stop, Control!End, Control!Pause,
            Control!PauseIfIdle, Control!Resume, Control!StartJob, Control!EndJob
<1>1. CASE UNCHANGED vars
  BY <1>1 DEF vars
<1>2. ASSUME NEW u \in Caller, CallStep(u) \/ ReturnStep(u) PROVE [Control!Next]_(Control!job)
  BY <1>2 DEF CallStep, ReturnStep, SetInterval, Trigger, Pause, PauseIfIdle, Resume, Show, Notify
<1>3. CASE BeginRun
  BY <1>3 DEF BeginRun
<1>4. CASE Cancel
  BY <1>4 DEF Cancel, RunInv
<1>5. CASE Tick \/ WatcherCancels
  BY <1>5 DEF Tick, WatcherCancels
<1>6. CASE \/ Arm \/ SelectDone \/ SelectIntervalChange \/ SelectTimer \/ SelectTrigger
           \/ TimerEventCurrent \/ ResetTimer \/ Leave
  BY <1>6 DEF Arm, SelectDone, SelectIntervalChange, SelectTimer, SelectTrigger,
       TimerEventCurrent, ResetTimer, Leave
<1>7. CASE EndRun
  BY <1>7 DEF EndRun, RunInv, BusyInv, Cycling, At, TypeOK
<1>8. CASE BeginCycle
  BY <1>8 DEF BeginCycle, RunInv, BusyInv, Cycling, At, TypeOK
<1>9. CASE FinishCycle
  BY <1>9 DEF FinishCycle, BusyInv, Cycling, At, TypeOK
<1>10. CASE \/ ShowUpdating \/ Job \/ CycleCancelled \/ RearmAfterCycle \/ Rearm
            \/ AskPaused \/ ShowOutcome
  BY <1>10 DEF ShowUpdating, Job, CycleCancelled, RearmAfterCycle, Rearm, AskPaused, ShowOutcome
<1> QED  BY <1>1, <1>2, <1>3, <1>4, <1>5, <1>6, <1>7, <1>8, <1>9, <1>10
     DEF Next, LoopStep, CycleStep

(* The scheduler implements JobControl: what the desktop service assumes   *)
(* of pausing, holding and stopping it.                                    *)
THEOREM ControlImplemented == Spec => ImplementsControl
<1>1. Init => Control!Init
  BY DEF Init, Control!Init
<1>2. TypeOK /\ RunInv /\ BusyInv /\ [Next]_vars => [Control!Next]_(Control!job)
  BY ControlStep
<1>3. Spec => []BusyInv
  BY BusyInit, BusyNext, TypeCorrect, PTL DEF Spec
<1> QED  BY <1>1, <1>2, <1>3, RunCorrect, PTL DEF Spec, ImplementsControl, Control!Spec
=============================================================================
