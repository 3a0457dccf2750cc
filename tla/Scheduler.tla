----------------------------- MODULE Scheduler -----------------------------
(***************************************************************************)
(* The scheduler of synchronization passes (internal/scheduler): one       *)
(* goroutine in Run, a goroutine watching for its cancellation, and the    *)
(* callers of the window, the tray and the reset and update commands, who  *)
(* share the scheduler without a lock of their own.                        *)
(*                                                                         *)
(* One action is one section under Scheduler.mu, one channel operation or  *)
(* one use of the timer.  Time is a counter; 0 is the zero time.  A Stop   *)
(* or Reset of the timer leaves no stale value in its channel (Go 1.23).   *)
(***************************************************************************)
EXTENDS Integers

CONSTANTS
  Caller,     (* goroutines that call the scheduler's methods *)
  Interval,   (* intervals they ask for *)
  Default,    (* the interval that replaces a non-positive one *)
  MaxTime     (* bound on the clock *)

ASSUME SchedulerAssumption ==
  /\ Interval \subseteq Int
  /\ Default \in Nat \ {0}
  /\ MaxTime \in Nat

Zero == 0
Off == 0

State == {"idle", "updating", "done", "error", "paused"}
CallerStep == {"none", "show-paused", "show-idle", "notify"}
RunStep == {"off", "arm", "select", "reset", "check", "cycle", "updating", "job",
            "after", "rearm", "ask", "show", "finish", "leave", "end"}

VARIABLES
  (* fields of Scheduler, under mu *)
  interval, paused, state, nextRun, running, jobRunning, cancelled,
  (* its channels of capacity one *)
  trigger, intervalChange,
  (* the goroutine in Run: its step, the interval it read, when the timer  *)
  (* it received fired, whether the job failed                             *)
  run,
  timer,      (* when its timer fires, or Off *)
  watching,   (* whether the cancellation watcher is running *)
  ctx,        (* whether the context of Run is cancelled *)
  caller,     (* Caller -> what is left of the call it is in *)
  now,
  (* history *)
  held,       (* a PauseIfIdle succeeded, and no Resume since *)
  asked       (* a Trigger is owed a cycle *)

settings == <<interval, paused, state>>
schedule == <<nextRun, running, jobRunning, cancelled>>
channels == <<trigger, intervalChange>>
goroutine == <<run, timer, watching, ctx>>
history == <<held, asked>>
vars == <<settings, schedule, channels, goroutine, caller, now, history>>

-----------------------------------------------------------------------------
At(step) == run.step = step
GoTo(step) == run' = [run EXCEPT !.step = step]

(* The local variables of a case of the loop go out of scope. *)
NoLocals == [step |-> "off", interval |-> Zero, firedAt |-> Zero, failed |-> FALSE]
Return(step) == run' = [NoLocals EXCEPT !.step = step]

Live == running /\ ~cancelled

(* Mutant: what the caller asks for. *)
AsAsked(i) == i

Effective(i) == IF i <= 0 THEN Default ELSE i

-----------------------------------------------------------------------------
(***************************************************************************)
(* The callers.  Each call first changes the fields under mu; Pause and    *)
(* Resume then show the new state and send the notification, two steps in  *)
(* which others may come between.                                          *)
(***************************************************************************)
Ready(u) == caller[u] = "none"
Continue(u, step) == caller' = [caller EXCEPT ![u] = step]

(* Mutant: the next run is set whatever the scheduler does. *)
SetIntervalAlways(u, i) ==
  /\ Ready(u)
  /\ interval' = Effective(i)
  /\ nextRun' = now + interval'
  /\ Continue(u, "notify")
  /\ UNCHANGED <<paused, state, running, jobRunning, cancelled, channels, goroutine, now, history>>

SetInterval(u, i) ==
  /\ Ready(u)
  /\ interval' = Effective(i)
  /\ nextRun' = IF Live /\ ~paused THEN now + interval' ELSE nextRun
  /\ Continue(u, "notify")
  /\ UNCHANGED <<paused, state, running, jobRunning, cancelled, channels, goroutine, now, history>>

(* Mutants: a cancelled run still takes requests; a busy one takes none. *)
TriggerAlways(u) ==
  /\ Ready(u)
  /\ trigger' = TRUE
  /\ asked' = (asked \/ (~paused /\ ~ctx))
  /\ UNCHANGED <<settings, schedule, intervalChange, goroutine, caller, now, held>>

TriggerUnlessBusy(u) ==
  /\ Ready(u)
  /\ ~(running /\ cancelled)
  /\ trigger' = (trigger \/ ~jobRunning)
  /\ asked' = (asked \/ (~paused /\ ~ctx))
  /\ UNCHANGED <<settings, schedule, intervalChange, goroutine, caller, now, held>>

Trigger(u) ==
  /\ Ready(u)
  /\ ~(running /\ cancelled)
  /\ trigger' = TRUE
  /\ asked' = (asked \/ (~paused /\ ~ctx))
  /\ UNCHANGED <<settings, schedule, intervalChange, goroutine, caller, now, held>>

Pause(u) ==
  /\ Ready(u)
  /\ paused' = TRUE
  /\ nextRun' = Zero
  /\ asked' = FALSE
  /\ Continue(u, "show-paused")
  /\ UNCHANGED <<interval, state, running, jobRunning, cancelled, channels, goroutine, now, held>>

(* Mutant: idle by what the window shows. *)
PauseIfShownIdle(u) ==
  /\ Ready(u) /\ state # "updating"
  /\ paused' = TRUE
  /\ nextRun' = Zero
  /\ held' = TRUE /\ asked' = FALSE
  /\ Continue(u, "show-paused")
  /\ UNCHANGED <<interval, state, running, jobRunning, cancelled, channels, goroutine, now>>

PauseIfIdle(u) ==
  /\ Ready(u) /\ ~jobRunning
  /\ paused' = TRUE
  /\ nextRun' = Zero
  /\ held' = TRUE /\ asked' = FALSE
  /\ Continue(u, "show-paused")
  /\ UNCHANGED <<interval, state, running, jobRunning, cancelled, channels, goroutine, now>>

Resume(u) ==
  /\ Ready(u)
  /\ paused' = FALSE
  /\ nextRun' = IF Live THEN now + interval ELSE nextRun
  /\ held' = FALSE
  /\ Continue(u, "show-idle")
  /\ UNCHANGED <<interval, state, running, jobRunning, cancelled, channels, goroutine, now, asked>>

(* Mutant: the loop is not told. *)
ShowOnly(u) ==
  /\ caller[u] \in {"show-paused", "show-idle"}
  /\ state' = IF caller[u] = "show-paused" THEN "paused" ELSE "idle"
  /\ Continue(u, "none")
  /\ UNCHANGED <<interval, paused, schedule, channels, goroutine, now, history>>

Show(u) ==
  /\ caller[u] \in {"show-paused", "show-idle"}
  /\ state' = IF caller[u] = "show-paused" THEN "paused" ELSE "idle"
  /\ Continue(u, "notify")
  /\ UNCHANGED <<interval, paused, schedule, channels, goroutine, now, history>>

Notify(u) ==
  /\ caller[u] = "notify"
  /\ intervalChange' = TRUE
  /\ Continue(u, "none")
  /\ UNCHANGED <<settings, schedule, trigger, goroutine, now, history>>

-----------------------------------------------------------------------------
(***************************************************************************)
(* The environment of Run: its caller and the clock.                       *)
(***************************************************************************)
BeginRun ==
  /\ At("off") /\ ~running
  /\ running' = TRUE /\ cancelled' = FALSE
  /\ nextRun' = IF paused THEN Zero ELSE now + interval
  /\ run' = [run EXCEPT !.step = "arm", !.interval = interval]
  /\ watching' = FALSE /\ ctx' = FALSE
  /\ UNCHANGED <<settings, jobRunning, channels, timer, caller, now, history>>

Cancel ==
  /\ ~At("off") /\ ~ctx
  /\ ctx' = TRUE
  /\ asked' = FALSE
  /\ UNCHANGED <<settings, schedule, channels, run, timer, watching, caller, now, held>>

Tick ==
  /\ now < MaxTime
  /\ now' = now + 1
  /\ UNCHANGED <<settings, schedule, channels, goroutine, caller, history>>

(* cancelRun: no more requests, the one in the channel is dropped. *)
CancelRun ==
  /\ cancelled' = (cancelled \/ running)
  /\ nextRun' = IF running THEN Zero ELSE nextRun
  /\ trigger' = (trigger /\ ~running)

WatcherCancels ==
  /\ watching /\ ctx
  /\ CancelRun
  /\ watching' = FALSE
  /\ UNCHANGED <<settings, running, jobRunning, intervalChange, run, timer, ctx, caller, now, history>>

-----------------------------------------------------------------------------
(***************************************************************************)
(* The loop of Run.                                                        *)
(***************************************************************************)
(* newTimer with the interval beginRun returned, stopped when nothing is   *)
(* scheduled; then the watcher starts.                                     *)
Arm ==
  /\ At("arm")
  /\ timer' = IF nextRun = Zero THEN Off ELSE now + run.interval
  /\ watching' = TRUE
  /\ Return("select")
  /\ UNCHANGED <<settings, schedule, channels, ctx, caller, now, history>>

(* A select that received something still looks at the context. *)
Received(step) == GoTo(IF ctx THEN "leave" ELSE step)

SelectDone ==
  /\ At("select") /\ ctx
  /\ GoTo("leave")
  /\ UNCHANGED <<settings, schedule, channels, timer, watching, ctx, caller, now, history>>

SelectIntervalChange ==
  /\ At("select") /\ intervalChange
  /\ intervalChange' = FALSE
  /\ Received("reset")
  /\ UNCHANGED <<settings, schedule, trigger, timer, watching, ctx, caller, now, history>>

SelectTimer ==
  /\ At("select") /\ timer # Off /\ timer <= now
  /\ timer' = Off
  /\ run' = [run EXCEPT !.step = IF ctx THEN "leave" ELSE "check", !.firedAt = timer]
  /\ UNCHANGED <<settings, schedule, channels, watching, ctx, caller, now, history>>

SelectTrigger ==
  /\ At("select") /\ trigger
  /\ trigger' = FALSE
  /\ Received("cycle")
  /\ UNCHANGED <<settings, schedule, intervalChange, timer, watching, ctx, caller, now, history>>

(* timerEventCurrent: the schedule may have moved since the timer fired. *)
TimerEventCurrent ==
  /\ At("check")
  /\ Return(IF Live /\ ~paused /\ nextRun # Zero /\ run.firedAt >= nextRun
              THEN "cycle" ELSE "reset")
  /\ UNCHANGED <<settings, schedule, channels, timer, watching, ctx, caller, now, history>>

ResetTimer ==
  /\ At("reset")
  /\ timer' = CASE ~Live \/ paused \/ nextRun = Zero -> Off
                [] Live /\ ~paused /\ nextRun # Zero /\ nextRun > now -> nextRun
                [] OTHER -> now
  /\ GoTo("select")
  /\ UNCHANGED <<settings, schedule, channels, watching, ctx, caller, now, history>>

-----------------------------------------------------------------------------
(***************************************************************************)
(* runAndRearm: one cycle.                                                 *)
(***************************************************************************)
(* Mutant: a cycle begins although the scheduler was paused meanwhile. *)
BeginCycleAnyway ==
  /\ At("cycle")
  /\ timer' = Off
  /\ jobRunning' = TRUE
  /\ asked' = FALSE
  /\ GoTo("updating")
  /\ UNCHANGED <<settings, nextRun, running, cancelled, channels, watching, ctx, caller, now, held>>

BeginCycle ==
  /\ At("cycle")
  /\ timer' = Off
  /\ jobRunning' = ~paused
  /\ asked' = (asked /\ paused)
  /\ GoTo(IF paused THEN "select" ELSE "updating")
  /\ UNCHANGED <<settings, nextRun, running, cancelled, channels, watching, ctx, caller, now, held>>

ShowUpdating ==
  /\ At("updating")
  /\ state' = "updating"
  /\ GoTo("job")
  /\ UNCHANGED <<interval, paused, schedule, channels, timer, watching, ctx, caller, now, history>>

Job ==
  /\ At("job")
  /\ \E failed \in BOOLEAN : run' = [run EXCEPT !.step = "after", !.failed = failed]
  /\ UNCHANGED <<settings, schedule, channels, timer, watching, ctx, caller, now, history>>

(* The run was cancelled during the job. *)
CycleCancelled ==
  /\ At("after") /\ ctx
  /\ CancelRun
  /\ GoTo("finish")
  /\ UNCHANGED <<settings, running, jobRunning, intervalChange, timer, watching, ctx, caller, now, history>>

(* rearmAfterCycle: the next run is set under mu, the timer after it. *)
RearmAfterCycle ==
  /\ At("after")
  /\ ~ctx
  /\ IF Live /\ ~paused
       THEN /\ nextRun' = now + interval
            /\ run' = [run EXCEPT !.step = "rearm", !.interval = interval]
       ELSE /\ nextRun' = Zero
            /\ GoTo("finish")
  /\ UNCHANGED <<settings, running, jobRunning, cancelled, channels, timer, watching, ctx, caller, now, history>>

Rearm ==
  /\ At("rearm")
  /\ timer' = now + run.interval
  /\ GoTo("ask")
  /\ UNCHANGED <<settings, schedule, channels, watching, ctx, caller, now, history>>

AskPaused ==
  /\ At("ask")
  /\ GoTo(IF paused THEN "finish" ELSE "show")
  /\ UNCHANGED <<settings, schedule, channels, timer, watching, ctx, caller, now, history>>

ShowOutcome ==
  /\ At("show")
  /\ state' = IF run.failed THEN "error" ELSE "done"
  /\ GoTo("finish")
  /\ UNCHANGED <<interval, paused, schedule, channels, timer, watching, ctx, caller, now, history>>

FinishCycle ==
  /\ At("finish")
  /\ jobRunning' = FALSE
  /\ Return("select")
  /\ UNCHANGED <<settings, nextRun, running, cancelled, channels, timer, watching, ctx, caller, now, history>>

-----------------------------------------------------------------------------
(* The deferred function of Run: the watcher is stopped, the run cancelled *)
(* (again), and ended.                                                     *)
Leave ==
  /\ At("leave")
  /\ watching' = FALSE
  /\ CancelRun
  /\ GoTo("end")
  /\ UNCHANGED <<settings, running, jobRunning, intervalChange, timer, ctx, caller, now, history>>

EndRun ==
  /\ At("end")
  /\ running' = FALSE /\ cancelled' = FALSE
  /\ nextRun' = Zero
  /\ timer' = Off
  /\ ctx' = FALSE
  /\ Return("off")
  /\ UNCHANGED <<settings, jobRunning, channels, watching, caller, now, history>>

-----------------------------------------------------------------------------
Init ==
  /\ interval = Default
  /\ paused = FALSE /\ state = "idle"
  /\ nextRun = Zero
  /\ running = FALSE /\ jobRunning = FALSE /\ cancelled = FALSE
  /\ trigger = FALSE /\ intervalChange = FALSE
  /\ run = NoLocals
  /\ timer = Off /\ watching = FALSE /\ ctx = FALSE
  /\ caller = [u \in Caller |-> "none"]
  /\ now = 1
  /\ held = FALSE /\ asked = FALSE

CallStep(u) ==
  \/ \E i \in Interval : SetInterval(u, i)
  \/ Trigger(u) \/ Pause(u) \/ PauseIfIdle(u) \/ Resume(u)

ReturnStep(u) == Show(u) \/ Notify(u)

CycleStep ==
  \/ BeginCycle \/ ShowUpdating \/ Job \/ CycleCancelled
  \/ RearmAfterCycle \/ Rearm \/ AskPaused \/ ShowOutcome \/ FinishCycle

LoopStep ==
  \/ Arm
  \/ SelectDone \/ SelectIntervalChange \/ SelectTimer \/ SelectTrigger
  \/ TimerEventCurrent \/ ResetTimer
  \/ CycleStep
  \/ Leave \/ EndRun

Next ==
  \/ \E u \in Caller : CallStep(u) \/ ReturnStep(u)
  \/ BeginRun \/ Cancel \/ Tick \/ WatcherCancels
  \/ LoopStep

Spec == Init /\ [][Next]_vars

(* Goroutines run, jobs return, and a select that finds several channels   *)
(* ready takes each of them now and then.  Nobody has to call anything.    *)
FairSpec ==
  /\ Spec
  /\ WF_vars(LoopStep) /\ SF_vars(SelectTrigger)
  /\ \A u \in Caller : WF_vars(ReturnStep(u))

-----------------------------------------------------------------------------
Run == [step: RunStep, interval: Nat, firedAt: Nat, failed: BOOLEAN]

(* Every variable has its type: an interval is positive whatever is asked. *)
TypeOK ==
  /\ interval \in Nat \ {0}
  /\ paused \in BOOLEAN /\ state \in State
  /\ nextRun \in Nat
  /\ running \in BOOLEAN /\ jobRunning \in BOOLEAN /\ cancelled \in BOOLEAN
  /\ trigger \in BOOLEAN /\ intervalChange \in BOOLEAN
  /\ run \in Run
  /\ timer \in Nat /\ watching \in BOOLEAN /\ ctx \in BOOLEAN
  /\ caller \in [Caller -> CallerStep]
  /\ now \in Nat \ {0}
  /\ held \in BOOLEAN /\ asked \in BOOLEAN

(***************************************************************************)
(* NextRun "returns the authoritative next scheduled run, or zero while    *)
(* stopped or paused", whoever changes the interval, resumes or cancels    *)
(* while a cycle re-arms.                                                  *)
(***************************************************************************)
NextRunZero == paused \/ cancelled \/ ~running => nextRun = Zero

(***************************************************************************)
(* A successful PauseIfIdle means that no cycle runs, and none starts      *)
(* before a Resume: what a reset of the local setup and a restart for an   *)
(* update rely on.                                                         *)
(***************************************************************************)
HeldMeansQuiet == held => paused /\ ~jobRunning

(***************************************************************************)
(* The loop never waits with a forgotten schedule: when it waits and       *)
(* nobody is about to notify it, the timer is armed exactly while a run is *)
(* scheduled, and for no earlier than that run.                            *)
(***************************************************************************)
Told == intervalChange \/ \E u \in Caller : caller[u] # "none"

Armed ==
  At("select") /\ ~ctx /\ ~Told =>
    IF paused THEN timer = Off
    ELSE nextRun # Zero /\ timer # Off /\ timer >= nextRun

(* Why: which fields go with which step of the loop, *)
RunInv ==
  /\ NextRunZero /\ HeldMeansQuiet
  /\ running <=> ~At("off")
  /\ cancelled \/ At("leave") => ctx
  /\ At("end") => cancelled /\ ~trigger
  /\ Live /\ ~paused => nextRun # Zero

(* and what the timer and the interval read before it still are when it    *)
(* next waits, provided nobody owes it a notification.                     *)
TimerInv ==
  /\ run.step \in {"updating", "job", "after", "rearm"} => timer = Off
  /\ ~ctx /\ ~Told =>
       /\ run.step \in {"arm", "rearm"} =>
            paused \/ (run.interval # Zero /\ nextRun <= now + run.interval)
       /\ At("rearm") => ~paused
       /\ run.step \in {"ask", "show", "finish", "select"} =>
            IF paused THEN timer = Off ELSE timer # Off /\ timer >= nextRun

(***************************************************************************)
(* A request made before the run was cancelled does not outlive it: the    *)
(* next Run does not begin with a cycle nobody asked it for.               *)
(***************************************************************************)
NoTriggerOutlives == At("end") => ~trigger

(***************************************************************************)
(* Unless it is paused or cancelled, a run starts a cycle after every      *)
(* request, also one made while a cycle runs or before the run began.      *)
(***************************************************************************)
TriggerServed == asked /\ ~At("off") ~> ~asked

(***************************************************************************)
(* runCycle: "a Pause arrived during the run; keep the paused state".  So  *)
(* once every call has returned and no cycle runs, paused shows as paused. *)
(***************************************************************************)
PausedShows ==
  paused /\ At("select") /\ (\A u \in Caller : caller[u] = "none") => state = "paused"

(***************************************************************************)
(* Refinement: seen from outside, the fields, channels, timer and steps of *)
(* the loop are a JobControl.  Its run is on from beginRun to endRun, and  *)
(* its job is the cycle between the two sections that set jobRunning.      *)
(***************************************************************************)
Control == INSTANCE JobControl WITH
  on <- running, busy <- jobRunning, stopping <- ctx

(* A scheduler controlled as JobControl says: pause, hold and stop mean    *)
(* the same to the caller whatever the loop, the timer and the watcher do. *)
ImplementsControl == Control!Spec
=============================================================================
