------------------------------ MODULE Desktop ------------------------------
(***************************************************************************)
(* The desktop service (internal/desktop: service.go, lifecycle.go,        *)
(* reset.go, updates.go) with the scheduler it controls, the tray and the  *)
(* preview: settings are saved, the local setup is reset and created       *)
(* again, synchronization is paused from the window and from the tray, the *)
(* application restarts for an update.                                     *)
(*                                                                         *)
(* Scheduler methods are the actions of JobControl, which Scheduler        *)
(* implements.  The calls of the window come one at a time (App.tsx sets   *)
(* busy), except that RestartToUpdate may still be under way; most hold    *)
(* Service.operations, which the loop of Service.Run takes to begin a run  *)
(* and a reset holds throughout.  The tray and RestartToUpdate do not.     *)
(***************************************************************************)
EXTENDS PreviewCoordinator

CONSTANTS
  Budgets,     (* the budgets the bounded actions may have *)
  Unlimited    (* the budget of an action that is not bounded *)

(* The bounded actions: calls of the window, clicks in the tray, restarts  *)
(* for an update, requests of a preview, and what fails.                   *)
Bounded == {"window", "tray", "restart", "views", "troubles"}

NoDaemon == 0

(* What a reset stages, in the order it does: the clone, then what it      *)
(* names in the application home (resetArtifacts).                         *)
Target == {"clone", "config", "rest"}
Place == {"home", "staged", "absent", "left"}
Reports == Target \cup {"daemon"}

VARIABLES
  operations,   (* who holds Service.operations *)
  daemon,       (* Service.daemon, a number, or NoDaemon *)
  made,         (* the number of the last daemon made *)
  start,        (* the daemon in the channel to the loop, or NoDaemon *)
  loop,         (* the loop of Service.Run: its step, its daemon and        *)
                (* whether the context of the run is cancelled              *)
  on, paused, busy, stopping,   (* the scheduler of the last daemon made *)
  files,        (* Target -> where it is *)
  newest,       (* the last version of the settings saved *)
  window,       (* what the window's call is doing *)
  reset,        (* local variables of resetLocalSetup *)
  tray,         (* the daemon and state a click in the tray has read *)
  restart,      (* local variables of RestartToUpdate *)
  quitting,     (* the application is closing *)
  budget,       (* what is left of each bounded action *)
  (* history *)
  wanted,       (* the user's last word: paused or not *)
  disturbed,    (* a pause or resume met a reset or restart under way, *)
                (* or a reset left the scheduler paused                *)
  stranded,     (* a reset gave up after it had cancelled the run *)
  reported      (* what a reset has reported: remains, no daemon *)

scheduler == <<on, paused, busy, stopping>>
service == <<operations, daemon, made, start, loop>>
setup == <<files, newest>>
calling == <<window, reset, tray, restart>>
wishes == <<wanted, disturbed, stranded, reported>>
vars == <<coordinator, summaries, service, scheduler, setup, calling, quitting, budget, wishes>>

Jobs == INSTANCE JobControl

SchedulerUnchanged == UNCHANGED scheduler

-----------------------------------------------------------------------------
Spend(kind) ==
  IF budget[kind] = Unlimited THEN UNCHANGED budget
  ELSE /\ budget[kind] > 0
       /\ budget' = [budget EXCEPT ![kind] = @ - 1]

Running == ~quitting

(* Calls through a reference to an older daemon reach a scheduler that no  *)
(* longer runs: nothing anyone sees changes.                               *)
OnDaemon(d, call) == IF d = made THEN call ELSE SchedulerUnchanged

NoReset == [step |-> "none", daemon |-> NoDaemon, wasPaused |-> FALSE, outcome |-> "none"]
NoRestart == [step |-> "none", daemon |-> NoDaemon, wasPaused |-> FALSE]
NoClick == [step |-> "none", daemon |-> NoDaemon, wasPaused |-> FALSE]
NoRun == [step |-> "wait", daemon |-> NoDaemon, cancelled |-> FALSE]

HoldUnderWay == reset.step # "none" \/ restart.step # "none"

(* startConfigured: a no-op when there is a daemon; the loop is told.      *)
MakeDaemon ==
  /\ start = NoDaemon
  /\ made' = made + 1 /\ daemon' = made + 1 /\ start' = made + 1

-----------------------------------------------------------------------------
(***************************************************************************)
(* The window: onboarding ends, settings are saved, Trigger, Pause,        *)
(* Resume.                                                                 *)
(***************************************************************************)
WindowIdle == Running /\ window = "idle"

(* Onboarding complete: the clone is there, the settings are saved and     *)
(* StartConfigured makes the daemon.                                       *)
CompleteOnboarding ==
  /\ WindowIdle /\ operations = "free" /\ daemon = NoDaemon
  /\ Spend("window")
  /\ files' = [t \in Target |-> IF t = "rest" THEN files[t] ELSE "home"]
  /\ newest' = newest + 1
  /\ SaveSettings(newest + 1)
  /\ MakeDaemon
  /\ paused' = FALSE /\ wanted' = FALSE /\ stranded' = FALSE
  /\ UNCHANGED <<operations, loop, on, busy, stopping, calling, quitting, disturbed, reported>>

SaveBegins ==
  /\ WindowIdle /\ operations = "free" /\ daemon # NoDaemon
  /\ Spend("window")
  /\ operations' = "window" /\ window' = "saved"
  /\ newest' = newest + 1
  /\ SaveSettings(newest + 1)
  /\ UNCHANGED <<daemon, made, start, loop, scheduler, files, reset, tray, restart, quitting, wishes>>

(* The interval and the trigger are the scheduler's affair. *)
SaveEnds ==
  /\ window = "saved"
  /\ InvalidatePreview
  /\ operations' = "free" /\ window' = "idle"
  /\ UNCHANGED <<daemon, made, start, loop, scheduler, setup, reset, tray, restart, quitting, budget, wishes>>

WindowPauses(wish) ==
  /\ WindowIdle /\ operations = "free" /\ daemon # NoDaemon
  /\ Spend("window")
  /\ IF wish THEN Jobs!Pause ELSE Jobs!Resume
  /\ wanted' = wish
  /\ disturbed' = (disturbed \/ HoldUnderWay)
  /\ PreviewUnchanged
  /\ UNCHANGED <<service, setup, calling, quitting, stranded, reported>>

-----------------------------------------------------------------------------
(***************************************************************************)
(* The tray: the pause item reads the daemon and its state, then calls.    *)
(***************************************************************************)
TrayReads ==
  /\ Running /\ tray.step = "none" /\ daemon # NoDaemon
  /\ Spend("tray")
  /\ tray' = [step |-> "call", daemon |-> daemon, wasPaused |-> paused]
  /\ PreviewUnchanged
  /\ UNCHANGED <<service, scheduler, setup, window, reset, restart, quitting, wishes>>

TrayToggles ==
  /\ tray.step = "call"
  /\ OnDaemon(tray.daemon, IF tray.wasPaused THEN Jobs!Resume ELSE Jobs!Pause)
  /\ wanted' = IF tray.daemon = made THEN ~tray.wasPaused ELSE wanted
  /\ disturbed' = (disturbed \/ HoldUnderWay)
  /\ tray' = NoClick
  /\ PreviewUnchanged
  /\ UNCHANGED <<service, setup, window, reset, restart, quitting, budget, stranded, reported>>

-----------------------------------------------------------------------------
(***************************************************************************)
(* RestartToUpdate: pause, ask the updater, quit or resume.                *)
(***************************************************************************)
RestartReads ==
  /\ WindowIdle /\ restart.step = "none"
  /\ Spend("restart")
  /\ restart' = [step |-> IF daemon = NoDaemon THEN "ask" ELSE "hold",
                 daemon |-> daemon, wasPaused |-> paused]
  /\ PreviewUnchanged
  /\ UNCHANGED <<service, scheduler, setup, window, reset, tray, quitting, wishes>>

RestartHolds ==
  /\ restart.step = "hold"
  /\ \/ /\ restart.daemon = made /\ busy
        /\ restart' = NoRestart
        /\ SchedulerUnchanged
     \/ /\ OnDaemon(restart.daemon, Jobs!PauseIfIdle)
        /\ restart' = [restart EXCEPT !.step = "ask"]
  /\ disturbed' = (disturbed \/ reset.step # "none")
  /\ PreviewUnchanged
  /\ UNCHANGED <<service, setup, window, reset, tray, quitting, budget, wanted, stranded, reported>>

RestartDeclined ==
  /\ restart.step = "ask"
  /\ IF restart.daemon # NoDaemon /\ ~restart.wasPaused
       THEN OnDaemon(restart.daemon, Jobs!Resume)
       ELSE SchedulerUnchanged
  /\ restart' = NoRestart
  /\ disturbed' = (disturbed \/ reset.step # "none")
  /\ PreviewUnchanged
  /\ UNCHANGED <<service, setup, window, reset, tray, quitting, budget, wanted, stranded, reported>>

RestartAccepted ==
  /\ restart.step = "ask"
  /\ restart' = NoRestart
  /\ quitting' = TRUE
  /\ SchedulerUnchanged
  /\ PreviewUnchanged
  /\ UNCHANGED <<service, setup, window, reset, tray, budget, wishes>>

-----------------------------------------------------------------------------
(***************************************************************************)
(* The loop of Service.Run, and the scheduler it runs.                     *)
(***************************************************************************)
LoopChanges == UNCHANGED <<made, setup, calling, quitting, budget, wishes>> /\ PreviewUnchanged

Receive ==
  /\ loop.step = "wait" /\ start # NoDaemon
  /\ loop' = [step |-> "lock", daemon |-> start, cancelled |-> FALSE]
  /\ start' = NoDaemon
  /\ UNCHANGED <<operations, daemon, scheduler>> /\ LoopChanges

(* Mutant: a daemon that was replaced meanwhile is run. *)
TakeAny ==
  /\ loop.step = "lock" /\ operations = "free"
  /\ loop' = [loop EXCEPT !.step = "begin"]
  /\ UNCHANGED <<operations, daemon, start, scheduler>> /\ LoopChanges

(* Under operations: a daemon that was replaced meanwhile is dropped. *)
Take ==
  /\ loop.step = "lock" /\ operations = "free"
  /\ loop' = IF loop.daemon = daemon THEN [loop EXCEPT !.step = "begin"] ELSE NoRun
  /\ UNCHANGED <<operations, daemon, start, scheduler>> /\ LoopChanges

BeginRun ==
  /\ loop.step = "begin"
  /\ Jobs!Begin
  /\ loop' = [loop EXCEPT !.step = "run"]
  /\ UNCHANGED <<operations, daemon, start>> /\ LoopChanges

(* The context of the run is a child of the application's. *)
StopRun ==
  /\ loop.step = "run" /\ (loop.cancelled \/ quitting) /\ ~stopping
  /\ Jobs!Stop
  /\ UNCHANGED <<operations, daemon, start, loop>> /\ LoopChanges

EndRun ==
  /\ loop.step = "run"
  /\ Jobs!End
  /\ loop' = [loop EXCEPT !.step = "ended"]
  /\ UNCHANGED <<operations, daemon, start>> /\ LoopChanges

(* The log cannot be closed: Run returns the error, and no daemon made     *)
(* later is ever received.                                                 *)
RunFails ==
  /\ loop.step = "ended"
  /\ Spend("troubles")
  /\ loop' = [NoRun EXCEPT !.step = "over"]
  /\ UNCHANGED <<operations, daemon, made, start, scheduler, setup, calling, quitting, wishes>>
  /\ PreviewUnchanged

(* The daemon's log is closed, done is closed. *)
RunDone ==
  /\ loop.step = "ended"
  /\ loop' = NoRun
  /\ UNCHANGED <<operations, daemon, start, scheduler>> /\ LoopChanges

JobStep ==
  /\ Jobs!StartJob \/ Jobs!EndJob
  /\ UNCHANGED <<operations, daemon, start, loop>> /\ LoopChanges

LoopStep == Receive \/ Take \/ BeginRun \/ StopRun \/ EndRun \/ RunDone \/ RunFails

InRun == loop.step \in {"begin", "run", "ended"}

-----------------------------------------------------------------------------
(***************************************************************************)
(* resetLocalSetup.                                                        *)
(***************************************************************************)
ResetAt(step) == reset.step = step
ResetGo(step) == reset' = [reset EXCEPT !.step = step]

(* It returns: operations and previewMu are unlocked. *)
ResetReturns(outcome) ==
  /\ reset' = [NoReset EXCEPT !.outcome = outcome]
  /\ operations' = "free" /\ window' = "idle"

ResetBegins ==
  /\ WindowIdle /\ operations = "free"
  /\ Spend("window")
  /\ operations' = "window" /\ window' = "reset"
  /\ reset' = [step |-> IF daemon = NoDaemon THEN "validate" ELSE "hold",
               daemon |-> daemon, wasPaused |-> paused, outcome |-> "none"]
  /\ disturbed' = (disturbed \/ restart.step # "none")
  /\ PreviewUnchanged
  /\ UNCHANGED <<daemon, made, start, loop, scheduler, setup, tray, restart, quitting, wanted, stranded, reported>>

ResetHolds ==
  /\ ResetAt("hold")
  /\ Jobs!PauseIfIdle
  /\ ResetGo("validate")
  /\ PreviewUnchanged
  /\ UNCHANGED <<service, setup, window, tray, restart, quitting, budget, wishes>>

ResetRefused ==
  /\ ResetAt("hold") /\ busy
  /\ ResetReturns("refused")
  /\ PreviewUnchanged
  /\ UNCHANGED <<daemon, made, start, loop, scheduler, setup, tray, restart, quitting, budget, wishes>>

(* The clone, the credentials or an artifact is not fit to be removed. *)
ResetInvalid ==
  /\ ResetAt("validate")
  /\ Spend("troubles")
  /\ IF reset.daemon # NoDaemon /\ ~reset.wasPaused THEN Jobs!Resume ELSE SchedulerUnchanged
  /\ ResetReturns("refused")
  /\ PreviewUnchanged
  /\ UNCHANGED <<daemon, made, start, loop, setup, tray, restart, quitting, wishes>>

(* The run is cancelled, if there is one; without one the daemon is closed. *)
ResetCancels ==
  /\ ResetAt("validate")
  /\ loop' = [loop EXCEPT !.cancelled = @ \/ InRun]
  /\ ResetGo(IF InRun THEN "wait" ELSE "clear")
  /\ PreviewUnchanged
  /\ UNCHANGED <<operations, daemon, made, start, scheduler, setup, window, tray, restart, quitting, budget, wishes>>

(* Without a run, the log cannot be closed: nothing was removed, the       *)
(* daemon is kept and its scheduler stays paused.                          *)
CloseFails ==
  /\ ResetAt("validate") /\ ~InRun /\ reset.daemon # NoDaemon
  /\ Spend("troubles")
  /\ ResetReturns("failed")
  /\ disturbed' = TRUE
  /\ PreviewUnchanged
  /\ UNCHANGED <<daemon, made, start, loop, scheduler, setup, tray, restart, quitting, wanted, stranded, reported>>

RunHasEnded ==
  /\ ResetAt("wait") /\ ~InRun
  /\ ResetGo("clear")
  /\ PreviewUnchanged
  /\ UNCHANGED <<service, scheduler, setup, window, tray, restart, quitting, budget, wishes>>

(* Five seconds, or the request's context, are over: nothing was removed,  *)
(* the run stays cancelled and the scheduler paused.                       *)
ResetGivesUp ==
  /\ ResetAt("wait") /\ InRun
  /\ Spend("troubles")
  /\ ResetReturns("gave up")
  /\ stranded' = TRUE /\ disturbed' = TRUE
  /\ PreviewUnchanged
  /\ UNCHANGED <<daemon, made, start, loop, scheduler, setup, tray, restart, quitting, wanted, reported>>

(* Mutant: what is in the channel to the loop stays there. *)
ClearDaemonOnly ==
  /\ ResetAt("clear")
  /\ daemon' = NoDaemon
  /\ ResetGo("invalidate")
  /\ PreviewUnchanged
  /\ UNCHANGED <<operations, made, start, loop, scheduler, setup, window, tray, restart, quitting, budget, wishes>>

ClearDaemon ==
  /\ ResetAt("clear")
  /\ daemon' = NoDaemon /\ start' = NoDaemon
  /\ ResetGo("invalidate")
  /\ PreviewUnchanged
  /\ UNCHANGED <<operations, made, loop, scheduler, setup, window, tray, restart, quitting, budget, wishes>>

HoldPreview ==
  /\ ResetAt("invalidate")
  /\ previewHeld' = TRUE /\ generation' = generation + 1
  /\ ResetGo("stage")
  /\ UNCHANGED <<coordinator, settings, preview>>
  /\ UNCHANGED <<service, scheduler, setup, window, tray, restart, quitting, budget, wishes>>

-----------------------------------------------------------------------------
Rank == [clone |-> 1, config |-> 2, rest |-> 3]
Staged == {t \in Target : files[t] = "staged"}
AtHome == {t \in Target : files[t] = "home"}
Earliest(targets) == CHOOSE t \in targets : \A u \in targets : Rank[t] <= Rank[u]

(* What the service reads in a home from which some targets are missing. *)
SettingsIn(place) == IF place["config"] = "home" THEN newest ELSE NoSettings

Stage ==
  /\ ResetAt("stage") /\ AtHome # {}
  /\ files' = [files EXCEPT ![Earliest(AtHome)] = "staged"]
  /\ settings' = SettingsIn(files')
  /\ UNCHANGED <<coordinator, generation, previewHeld, preview>>
  /\ UNCHANGED <<newest, service, scheduler, calling, quitting, budget, wishes>>

(* Rollback: what was moved is moved back.  What cannot be is reported,    *)
(* and then no daemon is started.                                          *)
RollBack(moved, stuck) ==
  /\ files' = [t \in Target |-> IF t \in stuck THEN "left" ELSE IF t \in moved THEN "home" ELSE files[t]]
  /\ reported' = reported \cup stuck
  /\ settings' = SettingsIn(files')
  /\ previewHeld' = FALSE
  /\ UNCHANGED <<coordinator, generation, preview>>
  /\ IF stuck = {} /\ reset.daemon # NoDaemon
       THEN ResetGo("restore") /\ UNCHANGED <<operations, window>>
       ELSE ResetReturns(IF stuck = {} THEN "failed" ELSE "incomplete")
  /\ UNCHANGED <<newest, daemon, made, start, loop, scheduler, tray, restart, quitting, wanted, disturbed, stranded>>

(* Mutant: the target whose move failed hides the one moved before it. *)
StagingFailsShort ==
  /\ ResetAt("stage")
  /\ Spend("troubles")
  /\ LET last == {t \in Staged : \A u \in Staged : Rank[u] <= Rank[t]}
     IN  RollBack(Staged \ last, {})

(* A move fails, or the credential cannot be removed. *)
StagingFails ==
  /\ ResetAt("stage")
  /\ Spend("troubles")
  /\ RollBack(Staged, {})

StagingFailsTwice ==
  /\ ResetAt("stage")
  /\ Spend("troubles")
  /\ \E stuck \in SUBSET Staged \ {{}} : RollBack(Staged, stuck)

Removed(t) == IF files[t] = "staged" THEN "absent" ELSE files[t]

(* Mutant: previewMu stays locked. *)
RemoveLocked ==
  /\ ResetAt("stage") /\ AtHome = {}
  /\ files' = [t \in Target |-> Removed(t)]
  /\ preview' = NoPreview
  /\ ResetReturns("done")
  /\ UNCHANGED <<coordinator, generation, previewHeld, settings>>
  /\ UNCHANGED <<newest, daemon, made, start, loop, scheduler, tray, restart, quitting, budget, wishes>>

(* Everything is staged and the credential forgotten: the rest cannot be   *)
(* undone.  What cannot be removed is reported.                            *)
Remove ==
  /\ ResetAt("stage") /\ AtHome = {}
  /\ files' = [t \in Target |-> Removed(t)]
  /\ previewHeld' = FALSE /\ preview' = NoPreview
  /\ ResetReturns("done")
  /\ UNCHANGED <<coordinator, generation, settings>>
  /\ UNCHANGED <<newest, daemon, made, start, loop, scheduler, tray, restart, quitting, budget, wishes>>

RemoveFails ==
  /\ ResetAt("stage") /\ AtHome = {}
  /\ Spend("troubles")
  /\ \E left \in SUBSET Staged \ {{}} :
       /\ files' = [t \in Target |-> IF t \in left THEN "left" ELSE Removed(t)]
       /\ reported' = reported \cup left
  /\ previewHeld' = FALSE /\ preview' = NoPreview
  /\ ResetReturns("incomplete")
  /\ UNCHANGED <<coordinator, generation, settings>>
  /\ UNCHANGED <<newest, daemon, made, start, loop, scheduler, tray, restart, quitting, wanted, disturbed, stranded>>

(* Mutant: the new daemon runs whether the old one was paused or not. *)
RestoreRunning ==
  /\ ResetAt("restore")
  /\ MakeDaemon
  /\ paused' = FALSE
  /\ stranded' = FALSE
  /\ ResetReturns("failed")
  /\ PreviewUnchanged
  /\ UNCHANGED <<loop, on, busy, stopping, setup, tray, restart, quitting, budget, wanted, disturbed, reported>>

(* The deferred restore: a new daemon, paused as the old one was. *)
Restore ==
  /\ ResetAt("restore")
  /\ MakeDaemon
  /\ paused' = reset.wasPaused
  /\ stranded' = FALSE
  /\ ResetReturns("failed")
  /\ PreviewUnchanged
  /\ UNCHANGED <<loop, on, busy, stopping, setup, tray, restart, quitting, budget, wanted, disturbed, reported>>

(* startConfigured fails: the files are back and no daemon runs, which is  *)
(* reported.                                                               *)
RestoreFails ==
  /\ ResetAt("restore")
  /\ Spend("troubles")
  /\ reported' = reported \cup {"daemon"}
  /\ ResetReturns("failed")
  /\ PreviewUnchanged
  /\ UNCHANGED <<daemon, made, start, loop, scheduler, setup, tray, restart, quitting, wanted, disturbed, stranded>>

ResetStep ==
  \/ ResetHolds \/ ResetRefused \/ ResetInvalid
  \/ ResetCancels \/ CloseFails \/ RunHasEnded \/ ResetGivesUp
  \/ ClearDaemon \/ HoldPreview
  \/ Stage \/ StagingFails \/ StagingFailsTwice \/ Remove \/ RemoveFails
  \/ Restore \/ RestoreFails

-----------------------------------------------------------------------------
(* The tray's Quit. *)
Quit ==
  /\ Running
  /\ Spend("restart")
  /\ quitting' = TRUE
  /\ PreviewUnchanged
  /\ UNCHANGED <<service, scheduler, setup, calling, wishes>>

View ==
  /\ Running
  /\ \E v \in Viewer : Join(v) \/ \E c \in Call : StartCollection(v, c)
  /\ Spend("views")
  /\ UNCHANGED <<service, scheduler, setup, calling, quitting, wishes>>

LoseInterest ==
  /\ \E v \in Viewer : Abandon(v)
  /\ UNCHANGED <<service, scheduler, setup, calling, quitting, budget, wishes>>

Preview ==
  /\ (\E v \in Viewer : Answer(v)) \/ (\E c \in Call : CollectionStep(c))
  /\ UNCHANGED <<service, scheduler, setup, calling, quitting, budget, wishes>>

(* A service that was set up: its daemon is in the channel to the loop.    *)
Init ==
  /\ PreviewInit
  /\ operations = "free"
  /\ made = 1 /\ daemon = 1 /\ start = 1
  /\ loop = NoRun
  /\ Jobs!Init
  /\ files = [t \in Target |-> "home"]
  /\ newest = 1 /\ settings = 1
  /\ window = "idle" /\ reset = NoReset /\ tray = NoClick /\ restart = NoRestart
  /\ quitting = FALSE
  /\ budget \in Budgets
  /\ wanted = FALSE /\ disturbed = FALSE /\ stranded = FALSE
  /\ reported = {}

WindowStep ==
  \/ CompleteOnboarding \/ SaveBegins \/ SaveEnds
  \/ \E wish \in BOOLEAN : WindowPauses(wish)
  \/ ResetBegins

RestartStep == RestartHolds \/ RestartDeclined \/ RestartAccepted

Next ==
  \/ WindowStep \/ ResetStep
  \/ TrayReads \/ TrayToggles
  \/ RestartReads \/ RestartStep \/ Quit
  \/ LoopStep \/ JobStep
  \/ View \/ LoseInterest \/ Preview

Spec == Init /\ [][Next]_vars

(* Goroutines go on, jobs end, and a run that is stopped ends: once its    *)
(* context is done the scheduler begins at most one more job.  Nobody has  *)
(* to call anything.                                                       *)
FairSpec ==
  /\ Spec
  /\ WF_vars(LoopStep) /\ SF_vars(EndRun)
  /\ WF_vars(Jobs!EndJob /\ JobStep)
  /\ WF_vars(ResetStep \/ SaveEnds)
  /\ WF_vars(Preview)

-----------------------------------------------------------------------------
TypeOK ==
  /\ PreviewTypeOK
  /\ operations \in {"free", "window"}
  /\ daemon \in Nat /\ made \in Nat /\ start \in Nat /\ newest \in Nat
  /\ loop.step \in {"wait", "lock", "begin", "run", "ended", "over"}
  /\ <<on, paused, busy, stopping>> \in BOOLEAN \X BOOLEAN \X BOOLEAN \X BOOLEAN
  /\ files \in [Target -> Place]
  /\ window \in {"idle", "saved", "reset"}
  /\ wanted \in BOOLEAN /\ disturbed \in BOOLEAN /\ stranded \in BOOLEAN
  /\ reported \subseteq Reports

(***************************************************************************)
(* The run the loop is in is the run of the daemon that the service's      *)
(* calls reach, and while a reset moves and removes files there is none:   *)
(* neither a daemon that was in the channel, nor one the loop had already  *)
(* received, nor a job that began just before the hold                     *)
(* (lifecycle.go Run, reset.go resetLocalSetup).                           *)
(***************************************************************************)
RunsItsDaemon ==
  /\ InRun => loop.daemon = daemon
  /\ on \/ busy => InRun
  /\ Staged # {} /\ reset.step # "none" => ~on /\ ~busy

(***************************************************************************)
(* A reset removes the setup, leaves all of it, or says what it left where *)
(* ("Roll back moves if staging or credential removal fails"); and after   *)
(* one that was rolled back there is a daemon again, or the reset says     *)
(* that there is none.                                                     *)
(***************************************************************************)
ResetIsWhole ==
  reset.step = "none" =>
    /\ \/ \A t \in Target \ reported : files[t] = "home" \/ (t = "rest" /\ files[t] = "absent")
       \/ \A t \in Target \ reported : files[t] = "absent"
    /\ reported = {} => (files["config"] = "home") = (daemon # NoDaemon)

(***************************************************************************)
(* Pausing is the user's: whatever a reset or a restart for an update      *)
(* paused, once it is over and unless the user's own click met it half-way *)
(* or a reset gave up or could not close the log, the scheduler is paused  *)
(* exactly if the user said so ("preserve its paused state").              *)
(***************************************************************************)
PauseIsTheUsers ==
  ~HoldUnderWay /\ ~disturbed /\ ~quitting /\ daemon # NoDaemon =>
    paused = wanted

(***************************************************************************)
(* A preview collected for settings that have been replaced or removed is  *)
(* not saved over the invalidation ("resource preview invalidated by       *)
(* settings change"); only between saving the settings and invalidating    *)
(* the preview is the old one still there.  (Onboarding does not           *)
(* invalidate: over what an incomplete reset left, an old one may remain.) *)
(***************************************************************************)
StalePreviewNeverSaved ==
  preview # NoPreview /\ window # "saved" /\ reported = {} => preview = newest

(***************************************************************************)
(* The loop stays available ("Keep the desktop runner available to start a *)
(* fresh daemon after onboarding"): a daemon the service has is run, after *)
(* any sequence of resets, unless a reset cancelled its run and gave up or *)
(* Run has returned, a log not closed; and a reset ends, whoever resumes   *)
(* the scheduler meanwhile.                                                *)
(***************************************************************************)
ServiceGoesOn ==
  /\ reset.step # "none" ~> reset.step = "none"
  /\ daemon # NoDaemon /\ ~stranded ~>
       \/ on \/ daemon = NoDaemon \/ quitting
       \/ stranded \/ loop.step = "over" \/ reset.step # "none"

(* Everybody who waits for a preview gets an answer or loses interest,     *)
(* also while a reset holds the preview lock.                              *)
ViewersAnswered == \A v \in Viewer : viewer[v] # NoCall ~> viewer[v] = NoCall
=============================================================================
