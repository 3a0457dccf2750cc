------------------------------ MODULE Updater ------------------------------
(***************************************************************************)
(* The software updater (internal/updater) on the platform that installs   *)
(* by itself (Windows x64): the manager of the running program, which      *)
(* checks, downloads and stages; ApplyOnExit, which hands a staged         *)
(* installer to a copy of the program; and that copy, the helper, which    *)
(* waits for the program to end, installs, records the result and may      *)
(* start the program again.                                                *)
(*                                                                         *)
(* Files used by the two processes are shared state: the handoff           *)
(* directory with ready.json and proceed, and update-result.json.          *)
(* Releases are numbered in the order of their versions; what is           *)
(* downloaded is abstracted to its release and to whether the cached file  *)
(* still has its checksum.  The timeouts of the handshake are steps that   *)
(* may be taken at any time.                                               *)
(***************************************************************************)
EXTENDS Naturals, FiniteSets

CONSTANTS
  Helper,      (* helpers that may be at work at the same time *)
  NoHelper,
  Unlimited,
  Budgets      (* set of functions [Bounded -> Nat], one taken per behaviour *)

(* What is bounded: releases published, starts by the user, uses of the    *)
(* window, and faults (failed requests and writes, crashes, lost files).   *)
Bounded == {"releases", "starts", "window", "troubles"}

ASSUME UpdaterHelpers == NoHelper \notin Helper

ASSUME UpdaterBudgets == \A b \in Budgets : b \in [Bounded -> Nat \cup {Unlimited}]

None == 0   (* no release *)

VARIABLES
  budget,
  published,   (* the latest release on GitHub *)
  installed,   (* the release in the installation directory *)
  process,     (* the program: closed, or how far it has come *)
  run,         (* number of the program's present or last process *)
  current,     (* the release that process is *)
  phase,       (* Status.Phase *)
  automatic,   (* Status.Automatic, saved in update-settings.json *)
  restart,     (* Manager.restart *)
  pending,     (* Manager.pending: the release staged and its cached file *)
  check,       (* what Check does while it holds the operation lock *)
  helper,      (* Helper -> its step, its arguments and its handoff files *)
  launched,    (* the helper LaunchInstaller waits for, or NoHelper *)
  result,      (* update-result.json: no file, ok, or an error *)
  refused      (* history: helpers whose launch was reported as failed *)

manager == <<process, run, current, phase, automatic, restart, pending, check>>
handoff == <<helper, launched, refused>>
world == <<published, installed>>
vars == <<budget, world, manager, handoff, result>>

NoUpdate == [release |-> None, intact |-> FALSE]
NoCheck == [step |-> "none", release |-> None]
NotStarted == [step |-> "free", parent |-> 0, release |-> None, intact |-> FALSE,
               restart |-> FALSE, directory |-> FALSE, ready |-> "none", proceed |-> FALSE]

Spend(kind) ==
  \/ budget[kind] = Unlimited /\ UNCHANGED budget
  \/ budget[kind] # Unlimited /\ budget[kind] > 0
     /\ budget' = [budget EXCEPT ![kind] = @ - 1]

Set(h, changes) == helper' = [helper EXCEPT ![h] = changes]

-----------------------------------------------------------------------------
(***************************************************************************)
(* The world outside: releases appear, cached files go bad.                *)
(***************************************************************************)
Publish ==
  /\ Spend("releases")
  /\ published' = published + 1
  /\ UNCHANGED <<installed, manager, handoff, result>>

LoseStaged ==
  /\ pending.intact /\ Spend("troubles")
  /\ pending' = [pending EXCEPT !.intact = FALSE]
  /\ UNCHANGED <<world, process, run, current, phase, automatic, restart, check, handoff, result>>

LoseInstaller(h) ==
  /\ helper[h].intact /\ Spend("troubles")
  /\ Set(h, [helper[h] EXCEPT !.intact = FALSE])
  /\ UNCHANGED <<world, manager, launched, refused, result>>

-----------------------------------------------------------------------------
(***************************************************************************)
(* New: a process begins with what the last attempt recorded.  The single  *)
(* instance lock of the window toolkit keeps a second process out.         *)
(***************************************************************************)
Started ==
  /\ process = "closed"
  /\ process' = "running" /\ run' = run + 1 /\ current' = installed
  /\ phase' = IF result = "error" THEN "error" ELSE "idle"
  /\ restart' = FALSE /\ pending' = NoUpdate /\ check' = NoCheck
  /\ UNCHANGED automatic

UserStarts ==
  /\ Spend("starts") /\ Started
  /\ UNCHANGED <<world, handoff, result>>

-----------------------------------------------------------------------------
(***************************************************************************)
(* Check, from the loop of Run or from the window.  The loop takes a last  *)
(* turn when its timer and the end of its context are ready together.      *)
(***************************************************************************)
(* Mutant: a check does not mind that a restart was requested. *)
CheckBeginsAnyway ==
  /\ check.step = "none"
  /\ \/ process = "running" /\ Spend("window") /\ UNCHANGED process
     \/ process = "running" /\ automatic /\ UNCHANGED <<budget, process>>
     \/ process = "stopping" /\ automatic /\ process' = "stopped" /\ UNCHANGED budget
  /\ phase' = "checking" /\ check' = [step |-> "asking", release |-> None]
  /\ UNCHANGED <<world, run, current, automatic, restart, pending, handoff, result>>

CheckBegins ==
  /\ check.step = "none" /\ ~restart
  /\ \/ process = "running" /\ Spend("window") /\ UNCHANGED process
     \/ process = "running" /\ automatic /\ UNCHANGED <<budget, process>>
     \/ process = "stopping" /\ automatic /\ process' = "stopped" /\ UNCHANGED budget
  /\ phase' = "checking" /\ check' = [step |-> "asking", release |-> None]
  /\ UNCHANGED <<world, run, current, automatic, restart, pending, handoff, result>>

(* The latest release is not newer, is staged already, or is to be fetched. *)
CheckAnswered ==
  /\ check.step = "asking"
  /\ \/ /\ published <= current
        /\ phase' = "upToDate" /\ check' = NoCheck
     \/ /\ published > current
        /\ pending.release = published /\ pending.intact
        /\ phase' = "ready" /\ check' = NoCheck
     \/ /\ published > current
        /\ ~(pending.release = published /\ pending.intact)
        /\ phase' = "downloading"
        /\ check' = [step |-> "downloading", release |-> published]
  /\ UNCHANGED <<budget, world, process, run, current, automatic, restart, pending, handoff, result>>

(* download stages a file that had its checksum, in place of the older one. *)
Downloaded ==
  /\ check.step = "downloading"
  /\ pending' = [release |-> check.release, intact |-> TRUE]
  /\ phase' = "ready" /\ check' = NoCheck
  /\ UNCHANGED <<budget, world, process, run, current, automatic, restart, handoff, result>>

(* A request fails, or the context of a check ends with the program. *)
CheckFails ==
  /\ check.step \in {"asking", "downloading"}
  /\ \/ Spend("troubles")
     \/ process # "running" /\ UNCHANGED budget
  /\ phase' = "error" /\ check' = NoCheck
  /\ UNCHANGED <<world, process, run, current, automatic, restart, pending, handoff, result>>

SetAutomatic ==
  /\ process = "running" /\ Spend("window")
  /\ automatic' = ~automatic
  /\ UNCHANGED <<world, process, run, current, phase, restart, pending, check, handoff, result>>

-----------------------------------------------------------------------------
(***************************************************************************)
(* RequestRestart and the ways the program ends.                           *)
(***************************************************************************)
RequestRestart ==
  /\ process = "running" /\ Spend("window")
  /\ check.step = "none"
  /\ phase = "ready" /\ pending.intact
  /\ restart' = TRUE
  /\ UNCHANGED <<world, process, run, current, phase, automatic, pending, check, handoff, result>>

Quit ==
  /\ process = "running"
  /\ process' = "stopping"
  /\ UNCHANGED <<budget, world, run, current, phase, automatic, restart, pending, check, handoff, result>>

(* Run has returned, and ApplyOnExit holds the operation lock. *)
BeginExit ==
  /\ process \in {"stopping", "stopped"} /\ check.step = "none"
  /\ process' = "exiting"
  /\ UNCHANGED <<budget, world, run, current, phase, automatic, restart, pending, check, handoff, result>>

Wanted == phase = "ready" /\ (automatic \/ restart)

(* Nothing is staged, or what is staged is removed unused. *)
ExitUnchanged ==
  /\ process = "exiting"
  /\ pending = NoUpdate \/ ~Wanted
  /\ process' = "leaving" /\ pending' = NoUpdate
  /\ UNCHANGED <<budget, world, run, current, phase, automatic, restart, check, handoff, result>>

(* The failure is recorded for the next start, if that can be written. *)
LaunchFailed ==
  /\ process' = "leaving" /\ phase' = "error" /\ launched' = NoHelper
  /\ \/ result' = "error" /\ UNCHANGED budget
     \/ Spend("troubles") /\ UNCHANGED result
  /\ UNCHANGED <<world, run, current, automatic, restart, pending, check>>

(* LaunchInstaller refuses what it cannot verify, and where the helper     *)
(* cannot be placed or started or the installation not be written.         *)
LaunchRefused ==
  /\ process = "exiting" /\ pending # NoUpdate /\ Wanted
  /\ LaunchFailed
  /\ UNCHANGED <<helper, refused>>

LaunchHelper(h) ==
  /\ process = "exiting" /\ Wanted /\ pending.intact
  /\ helper[h].step \in {"free", "ended"}
  /\ process' = "handing" /\ launched' = h
  /\ Set(h, [NotStarted EXCEPT !.step = "starting", !.parent = run, !.release = pending.release,
                               !.intact = TRUE, !.restart = restart, !.directory = TRUE])
  /\ refused' = refused \ {h}
  /\ UNCHANGED <<budget, world, run, current, phase, automatic, restart, pending, check, result>>

-----------------------------------------------------------------------------
(***************************************************************************)
(* waitHelperReady, in the program: it polls ready.json, acknowledges with *)
(* proceed, and otherwise reports the launch as failed and takes the       *)
(* handoff directory away.                                                 *)
(***************************************************************************)
Refuse(h) ==
  /\ LaunchFailed
  /\ Set(h, [helper[h] EXCEPT !.directory = FALSE])
  /\ refused' = refused \cup {h}

ReadReady(h) ==
  /\ process = "handing" /\ launched = h
  /\ helper[h].directory /\ helper[h].ready = "ok"
  /\ process' = "acknowledging"
  /\ UNCHANGED <<budget, world, run, current, phase, automatic, restart, pending, check, handoff, result>>

Acknowledge(h) ==
  /\ process = "acknowledging" /\ launched = h
  /\ helper[h].directory
  /\ process' = "leaving" /\ launched' = NoHelper
  /\ Set(h, [helper[h] EXCEPT !.proceed = TRUE])
  /\ UNCHANGED <<budget, world, run, current, phase, automatic, restart, pending, check, refused, result>>

CannotAcknowledge(h) ==
  /\ process = "acknowledging" /\ launched = h
  /\ ~helper[h].directory
  /\ Refuse(h)

(* The helper refused or ended, or helperHandshakeTimeout has passed: it   *)
(* may have become ready since the last poll.                              *)
HandshakeFails(h) ==
  /\ process = "handing" /\ launched = h
  /\ Refuse(h)

Leave ==
  /\ process = "leaving"
  /\ process' = "closed"
  /\ UNCHANGED <<budget, world, run, current, phase, automatic, restart, pending, check, handoff, result>>

(* The process dies: nothing it would have written is written. *)
Crash ==
  /\ process # "closed" /\ Spend("troubles")
  /\ process' = "closed" /\ launched' = NoHelper
  /\ UNCHANGED <<world, run, current, phase, automatic, restart, pending, check, helper, refused, result>>

-----------------------------------------------------------------------------
(***************************************************************************)
(* applyHelperUpdate, in the helper.                                       *)
(***************************************************************************)
ParentRuns(h) == process # "closed" /\ run = helper[h].parent

(* Moves of a helper that leave the program and its record alone. *)
Goes(h, step) ==
  /\ Set(h, [helper[h] EXCEPT !.step = step])
  /\ UNCHANGED <<budget, world, manager, launched, refused, result>>

HelperReady(h) ==
  /\ helper[h].step = "starting"
  /\ ParentRuns(h) /\ helper[h].intact /\ helper[h].directory
  /\ Set(h, [helper[h] EXCEPT !.step = "waiting", !.ready = "ok"])
  /\ UNCHANGED <<budget, world, manager, launched, refused, result>>

(* Mutant: a handshake that is not acknowledged in time goes on. *)
HelperProceedsAnyway(h) ==
  /\ helper[h].step = "waiting"
  /\ helper[h].directory \/ ~ParentRuns(h)
  /\ Goes(h, "authorized")

HelperProceeds(h) ==
  /\ helper[h].step = "waiting"
  /\ helper[h].directory /\ helper[h].proceed
  /\ Goes(h, "authorized")

SeesParentExit(h) ==
  /\ helper[h].step = "authorized" /\ ~ParentRuns(h)
  /\ Goes(h, "unlocking")

(* The executable can be opened for writing once no process runs it. *)
BeginInstall(h) ==
  /\ helper[h].step = "unlocking" /\ process = "closed" /\ helper[h].intact
  /\ Goes(h, "installing")

Install(h) ==
  /\ helper[h].step = "installing"
  /\ installed' = helper[h].release
  /\ Set(h, [helper[h] EXCEPT !.step = "installed", !.intact = FALSE])
  /\ UNCHANGED <<budget, published, manager, launched, refused, result>>

(* An attempt that ends in an error records it, answers the program if it  *)
(* has not been answered, and leaves.                                      *)
Failed(h) ==
  /\ Set(h, [helper[h] EXCEPT !.step = "failed",
                              !.ready = IF @ = "none" /\ helper[h].directory THEN "refused" ELSE @])
  /\ \/ result' = "error" /\ UNCHANGED budget
     \/ Spend("troubles") /\ UNCHANGED result
  /\ UNCHANGED <<manager, launched, refused>>

CannotBegin(h) ==
  /\ helper[h].step = "starting"
  /\ ~ParentRuns(h) \/ ~helper[h].intact \/ ~helper[h].directory
  /\ Failed(h) /\ UNCHANGED world

(* Mutant: the wait for the acknowledgement ends only when it is cancelled. *)
OnlyCancelled(h) ==
  /\ helper[h].step = "waiting" /\ ~helper[h].directory
  /\ Failed(h) /\ UNCHANGED world

(* The handoff was cancelled, or helperHandshakeTimeout has passed. *)
NotAcknowledged(h) ==
  /\ helper[h].step = "waiting"
  /\ Failed(h) /\ UNCHANGED world

(* helperParentTimeout or helperUnlockTimeout has passed, or the installer *)
(* no longer has its checksum.                                             *)
CannotInstall(h) ==
  /\ \/ helper[h].step = "authorized" /\ ParentRuns(h)
     \/ helper[h].step = "unlocking" /\ (process # "closed" \/ ~helper[h].intact)
  /\ Failed(h) /\ UNCHANGED world

(* The installer fails, or is not waited for any longer and not stopped:   *)
(* it may or may not have replaced the program.                            *)
InstallFails(h) ==
  /\ helper[h].step = "installing"
  /\ Failed(h)
  /\ installed' \in {installed, helper[h].release}
  /\ UNCHANGED published

RecordInstalled(h) ==
  /\ helper[h].step = "installed"
  /\ result' = "ok"
  /\ Set(h, [helper[h] EXCEPT !.step = IF helper[h].restart THEN "recorded"
                                                ELSE "leaving"])
  /\ UNCHANGED <<budget, world, manager, launched, refused>>

(* relaunch: a program started meanwhile is only shown. *)
Relaunch(h) ==
  /\ helper[h].step = "recorded"
  /\ \/ Started
     \/ process # "closed" /\ UNCHANGED manager
  /\ Set(h, [helper[h] EXCEPT !.step = "leaving"])
  /\ UNCHANGED <<budget, world, launched, refused, result>>

(* The result cannot be written, or the program cannot be started. *)
CannotFinish(h) ==
  /\ helper[h].step \in {"installed", "recorded"}
  /\ Failed(h) /\ UNCHANGED world

(* runPlatformHelper takes the handoff directory away on every return. *)
HelperLeaves(h) ==
  /\ helper[h].step \in {"failed", "leaving"}
  /\ Set(h, [helper[h] EXCEPT !.step = "ended", !.directory = FALSE])
  /\ UNCHANGED <<budget, world, manager, launched, refused, result>>

HelperKilled(h) ==
  /\ helper[h].step \notin {"free", "ended"} /\ Spend("troubles")
  /\ Set(h, [helper[h] EXCEPT !.step = "ended"])
  /\ UNCHANGED <<world, manager, launched, refused, result>>

-----------------------------------------------------------------------------
HelperStep(h) ==
  \/ HelperReady(h) \/ HelperProceeds(h) \/ SeesParentExit(h)
  \/ BeginInstall(h) \/ Install(h) \/ RecordInstalled(h) \/ Relaunch(h)
  \/ CannotBegin(h) \/ NotAcknowledged(h) \/ CannotInstall(h)
  \/ InstallFails(h) \/ CannotFinish(h) \/ HelperLeaves(h)

ExitStep ==
  \/ BeginExit \/ ExitUnchanged \/ LaunchRefused \/ Leave
  \/ \E h \in Helper : LaunchHelper(h) \/ ReadReady(h) \/ Acknowledge(h)
                         \/ CannotAcknowledge(h) \/ HandshakeFails(h)

CheckStep == CheckAnswered \/ Downloaded \/ CheckFails

Init ==
  /\ budget \in Budgets
  /\ published = 1 /\ installed = 1
  /\ process = "closed" /\ run = 0 /\ current = None
  /\ phase = "idle" /\ automatic \in BOOLEAN /\ restart = FALSE
  /\ pending = NoUpdate /\ check = NoCheck
  /\ helper = [h \in Helper |-> NotStarted] /\ launched = NoHelper
  /\ result = "none" /\ refused = {}

Next ==
  \/ Publish \/ UserStarts \/ LoseStaged
  \/ CheckBegins \/ CheckStep \/ SetAutomatic \/ RequestRestart \/ Quit
  \/ ExitStep \/ Crash
  \/ \E h \in Helper : HelperStep(h) \/ HelperKilled(h) \/ LoseInstaller(h)

Spec == Init /\ [][Next]_vars

(* Both processes are scheduled, and both have a timeout for every wait;   *)
(* a restart that was requested quits the program.  The user need not act. *)
FairSpec ==
  /\ Spec
  /\ WF_vars(CheckStep) /\ WF_vars(ExitStep)
  /\ WF_vars(restart /\ Quit)
  /\ \A h \in Helper : WF_vars(HelperStep(h))

-----------------------------------------------------------------------------
(***************************************************************************)
(* Types.                                                                  *)
(***************************************************************************)
TypeOK ==
  /\ published \in Nat /\ installed \in Nat /\ run \in Nat /\ current \in Nat
  /\ process \in {"closed", "running", "stopping", "stopped", "exiting", "handing",
                  "acknowledging", "leaving"}
  /\ phase \in {"idle", "checking", "downloading", "ready", "upToDate", "error"}
  /\ automatic \in BOOLEAN /\ restart \in BOOLEAN
  /\ pending \in [release : Nat, intact : BOOLEAN]
  /\ check \in [step : {"none", "asking", "downloading"}, release : Nat]
  /\ helper \in [Helper -> [step : {"free", "starting", "waiting", "authorized", "unlocking",
                                    "installing", "installed", "recorded", "failed",
                                    "leaving", "ended"},
                            parent : Nat, release : Nat, intact : BOOLEAN, restart : BOOLEAN,
                            directory : BOOLEAN, ready : {"none", "ok", "refused"},
                            proceed : BOOLEAN]]
  /\ launched \in Helper \cup {NoHelper}
  /\ result \in {"none", "ok", "error"}
  /\ refused \in SUBSET Helper

(***************************************************************************)
(* Safety.                                                                 *)
(***************************************************************************)
(* A failed launch handshake never becomes an update later: a helper whose *)
(* launch ApplyOnExit reported as failed goes no further than its own      *)
(* handshake, whichever of the two processes gave up first (helper.go:     *)
(* waitHelperReady, waitHelperProceed).                                    *)
FailedLaunchNeverInstalls ==
  \A h \in refused : helper[h].step \notin {"authorized", "unlocking", "installing",
                                            "installed", "recorded"}

(* A restart that was accepted still has its update when the program ends: *)
(* no periodic check and no check from the window between RequestRestart   *)
(* and ApplyOnExit takes the staged update out of the ready phase          *)
(* (manager.go: Check, ApplyOnExit).                                       *)
AcceptedRestartKeepsUpdate ==
  restart /\ process \in {"running", "stopping", "stopped", "exiting"} =>
    phase = "ready" /\ pending # NoUpdate

(***************************************************************************)
(* Liveness.                                                               *)
(***************************************************************************)
(* Neither process waits for the other for ever: the program that hands an *)
(* update over ends, and the helper it launched ends, whatever becomes of  *)
(* the other one (helper.go: the four helper timeouts).                    *)
HandoffsEnd ==
  /\ process \in {"stopping", "stopped", "handing", "acknowledging"} ~> process \in {"closed", "running"}
  /\ \A h \in Helper : helper[h].step # "free" ~> helper[h].step = "ended"
=============================================================================
