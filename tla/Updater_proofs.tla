--------------------------- MODULE Updater_proofs ---------------------------
(***************************************************************************)
(* Theorems about the updater, for every number of helpers, releases,      *)
(* starts and faults.                                                      *)
(***************************************************************************)
EXTENDS Updater, TLAPS

USE DEF world, manager, handoff

HelperStepName ==
  {"free", "starting", "waiting", "authorized", "unlocking", "installing", "installed",
   "recorded", "failed", "leaving", "ended"}
HelperRecord ==
  [step : HelperStepName, parent : Nat, release : Nat, intact : BOOLEAN, restart : BOOLEAN,
   directory : BOOLEAN, ready : {"none", "ok", "refused"}, proceed : BOOLEAN]
Update == [release : Nat, intact : BOOLEAN]
Checking == [step : {"none", "asking", "downloading"}, release : Nat]

-----------------------------------------------------------------------------
(* The types with their records named. *)
Typed ==
  /\ published \in Nat /\ installed \in Nat /\ run \in Nat /\ current \in Nat
  /\ process \in {"closed", "running", "stopping", "stopped", "exiting", "handing",
                  "acknowledging", "leaving"}
  /\ phase \in {"idle", "checking", "downloading", "ready", "upToDate", "error"}
  /\ automatic \in BOOLEAN /\ restart \in BOOLEAN
  /\ pending \in Update /\ check \in Checking
  /\ helper \in [Helper -> HelperRecord] /\ launched \in Helper \cup {NoHelper}
  /\ result \in {"none", "ok", "error"} /\ refused \in SUBSET Helper

LEMMA Types == (TypeOK <=> Typed) /\ (TypeOK' <=> Typed')
BY DEF TypeOK, Typed, Update, Checking, HelperRecord, HelperStepName

LEMMA Records == NoUpdate \in Update /\ NoCheck \in Checking /\ NotStarted \in HelperRecord
BY DEF NoUpdate, NoCheck, NotStarted, None, Update, Checking, HelperRecord, HelperStepName

LEMMA TypeInit == Init => TypeOK
<1>1. ASSUME Init PROVE helper \in [Helper -> HelperRecord]
  BY <1>1, Records DEF Init
<1>2. ASSUME Init PROVE Typed
  BY <1>1, <1>2, Records DEF Init, None, Typed
<1> QED  BY <1>2, Types

(* Checks, the window and the ways out keep the types. *)
LEMMA TypeManager ==
  ASSUME TypeOK,
         CheckBegins \/ CheckStep \/ SetAutomatic \/ RequestRestart \/ Quit \/ BeginExit
           \/ ExitUnchanged \/ Leave \/ Publish \/ LoseStaged \/ Crash
  PROVE  TypeOK'
<1> USE Types, Records DEF Typed
<1>1. CASE CheckBegins
  <2>1. [step |-> "asking", release |-> None] \in Checking
    BY DEF Checking, None
  <2> QED  BY <1>1, <2>1 DEF CheckBegins
<1>2. CASE CheckAnswered
  <2>1. [step |-> "downloading", release |-> published] \in Checking
    BY DEF Checking
  <2> QED  BY <1>2, <2>1 DEF CheckAnswered
<1>3. CASE Downloaded
  <2>1. [release |-> check.release, intact |-> TRUE] \in Update
    BY DEF Checking, Update
  <2> QED  BY <1>3, <2>1 DEF Downloaded
<1>4. CASE CheckFails
  BY <1>4 DEF CheckFails
<1>5. CASE SetAutomatic
  BY <1>5 DEF SetAutomatic
<1>6. CASE RequestRestart \/ Quit \/ BeginExit \/ Leave
  BY <1>6 DEF RequestRestart, Quit, BeginExit, Leave
<1>7. CASE ExitUnchanged
  BY <1>7 DEF ExitUnchanged
<1>8. CASE Publish
  BY <1>8 DEF Publish
<1>9. CASE LoseStaged
  <2>1. [pending EXCEPT !.intact = FALSE] \in Update
    BY DEF Update
  <2> QED  BY <1>9, <2>1 DEF LoseStaged
<1>10. CASE Crash
  BY <1>10 DEF Crash
<1> QED  BY <1>1, <1>2, <1>3, <1>4, <1>5, <1>6, <1>7, <1>8, <1>9, <1>10 DEF CheckStep

(* A helper's record is replaced by one of its type. *)
LEMMA SetType ==
  ASSUME helper \in [Helper -> HelperRecord], NEW h \in Helper, NEW r \in HelperRecord, Set(h, r)
  PROVE  helper' \in [Helper -> HelperRecord]
BY DEF Set

(* The program starts, or ends without handing anything over; *)
LEMMA TypeStarted ==
  ASSUME TypeOK, Started
  PROVE  /\ run' \in Nat /\ current' \in Nat /\ process' = "running"
         /\ phase' \in {"idle", "error"} /\ automatic' \in BOOLEAN /\ restart' = FALSE
         /\ pending' \in Update /\ check' \in Checking
BY Types, Records DEF Typed, Started

LEMMA TypeAlone ==
  ASSUME TypeOK, UserStarts \/ LaunchRefused
  PROVE  TypeOK'
BY Types, TypeStarted DEF Typed, UserStarts, LaunchRefused, LaunchFailed

(* The program hands an update over; *)
LEMMA TypeHandoff ==
  ASSUME TypeOK, NEW h \in Helper,
         LaunchHelper(h) \/ ReadReady(h) \/ Acknowledge(h)
           \/ CannotAcknowledge(h) \/ HandshakeFails(h)
  PROVE  TypeOK'
<1> USE Types DEF Typed
<1>3. CASE LaunchHelper(h)
  <2>1. [NotStarted EXCEPT !.step = "starting", !.parent = run, !.release = pending.release,
           !.intact = TRUE, !.restart = restart, !.directory = TRUE] \in HelperRecord
    BY Records DEF HelperRecord, HelperStepName, Update
  <2>2. helper' \in [Helper -> HelperRecord]
    BY <1>3, <2>1, SetType DEF LaunchHelper
  <2> QED  BY <1>3, <2>2 DEF LaunchHelper
<1>4. CASE ReadReady(h)
  BY <1>4 DEF ReadReady
<1>5. CASE Acknowledge(h)
  <2>1. [helper[h] EXCEPT !.proceed = TRUE] \in HelperRecord
    BY DEF HelperRecord
  <2>2. helper' \in [Helper -> HelperRecord]
    BY <1>5, <2>1, SetType DEF Acknowledge
  <2> QED  BY <1>5, <2>2 DEF Acknowledge
<1>6. CASE CannotAcknowledge(h) \/ HandshakeFails(h)
  <2>1. Refuse(h)
    BY <1>6 DEF CannotAcknowledge, HandshakeFails
  <2>2. [helper[h] EXCEPT !.directory = FALSE] \in HelperRecord
    BY DEF HelperRecord
  <2>3. helper' \in [Helper -> HelperRecord]
    BY <2>1, <2>2, SetType DEF Refuse
  <2> QED  BY <2>1, <2>3 DEF Refuse, LaunchFailed
<1> QED  BY <1>3, <1>4, <1>5, <1>6

(* and the helper does its part. *)
LEMMA TypeHelper ==
  ASSUME TypeOK, NEW h \in Helper, HelperStep(h) \/ HelperKilled(h) \/ LoseInstaller(h)
  PROVE  TypeOK'
<1> USE Types DEF Typed
<1>1. \A step \in HelperStepName : [helper[h] EXCEPT !.step = step] \in HelperRecord
  BY DEF HelperRecord
<1>2. ASSUME NEW step \in HelperStepName, Goes(h, step) PROVE TypeOK'
  <2>1. helper' \in [Helper -> HelperRecord]
    BY <1>1, <1>2, SetType DEF Goes
  <2> QED  BY <1>2, <2>1 DEF Goes
<1>3. CASE HelperProceeds(h) \/ SeesParentExit(h) \/ BeginInstall(h)
  BY <1>2, <1>3 DEF HelperProceeds, SeesParentExit, BeginInstall, HelperStepName
<1>4. CASE HelperReady(h)
  <2>1. [helper[h] EXCEPT !.step = "waiting", !.ready = "ok"] \in HelperRecord
    <3>1. helper[h] \in HelperRecord /\ "waiting" \in HelperStepName
      BY DEF HelperStepName
    <3> QED  BY <3>1 DEF HelperRecord
  <2>2. helper' \in [Helper -> HelperRecord]
    BY <1>4, <2>1, SetType DEF HelperReady
  <2> QED  BY <1>4, <2>2 DEF HelperReady
<1>5. CASE Install(h)
  <2>1. [helper[h] EXCEPT !.step = "installed", !.intact = FALSE] \in HelperRecord
    <3>1. helper[h] \in HelperRecord /\ "installed" \in HelperStepName
      BY DEF HelperStepName
    <3> QED  BY <3>1 DEF HelperRecord
  <2>2. helper' \in [Helper -> HelperRecord]
    BY <1>5, <2>1, SetType DEF Install
  <2>3. helper[h].release \in Nat
    BY DEF HelperRecord
  <2> QED  BY <1>5, <2>2, <2>3 DEF Install
<1>6. CASE RecordInstalled(h)
  <2>1. \E step \in HelperStepName : Set(h, [helper[h] EXCEPT !.step = step])
    BY <1>6 DEF RecordInstalled, HelperStepName
  <2>2. helper' \in [Helper -> HelperRecord]
    BY <1>1, <2>1, SetType
  <2> QED  BY <1>6, <2>2 DEF RecordInstalled
<1>7. CASE Relaunch(h)
  <2>1. helper' \in [Helper -> HelperRecord]
    BY <1>1, <1>7, SetType DEF Relaunch, HelperStepName
  <2>2. CASE Started
    BY <1>7, <2>1, <2>2, TypeStarted DEF Relaunch
  <2> QED  BY <1>7, <2>1, <2>2 DEF Relaunch
<1>8. ASSUME Failed(h), installed' \in Nat, UNCHANGED published PROVE TypeOK'
  <2>1. \A answer \in {"none", "ok", "refused"} :
          [helper[h] EXCEPT !.step = "failed", !.ready = answer] \in HelperRecord
    <3>1. helper[h] \in HelperRecord /\ "failed" \in HelperStepName
      BY DEF HelperStepName
    <3> QED  BY <3>1 DEF HelperRecord
  <2>2. (IF helper[h].ready = "none" /\ helper[h].directory THEN "refused" ELSE helper[h].ready)
           \in {"none", "ok", "refused"}
    BY DEF HelperRecord
  <2>3. helper' \in [Helper -> HelperRecord]
    BY <1>8, <2>1, <2>2, SetType DEF Failed
  <2> QED  BY <1>8, <2>3 DEF Failed
<1>9. CASE CannotBegin(h) \/ NotAcknowledged(h) \/ CannotInstall(h) \/ CannotFinish(h)
  BY <1>8, <1>9 DEF CannotBegin, NotAcknowledged, CannotInstall, CannotFinish
<1>10. CASE InstallFails(h)
  <2>1. helper[h].release \in Nat
    BY DEF HelperRecord
  <2> QED  BY <1>8, <1>10, <2>1 DEF InstallFails
<1>11. CASE HelperLeaves(h)
  <2>1. [helper[h] EXCEPT !.step = "ended", !.directory = FALSE] \in HelperRecord
    <3>1. helper[h] \in HelperRecord /\ "ended" \in HelperStepName
      BY DEF HelperStepName
    <3> QED  BY <3>1 DEF HelperRecord
  <2>2. helper' \in [Helper -> HelperRecord]
    BY <1>11, <2>1, SetType DEF HelperLeaves
  <2> QED  BY <1>11, <2>2 DEF HelperLeaves
<1>12. CASE HelperKilled(h)
  <2>1. helper' \in [Helper -> HelperRecord]
    BY <1>1, <1>12, SetType DEF HelperKilled, HelperStepName
  <2> QED  BY <1>12, <2>1 DEF HelperKilled
<1>13. CASE LoseInstaller(h)
  <2>1. [helper[h] EXCEPT !.intact = FALSE] \in HelperRecord
    BY DEF HelperRecord
  <2>2. helper' \in [Helper -> HelperRecord]
    BY <1>13, <2>1, SetType DEF LoseInstaller
  <2> QED  BY <1>13, <2>2 DEF LoseInstaller
<1> QED  BY <1>3, <1>4, <1>5, <1>6, <1>7, <1>9, <1>10, <1>11, <1>12, <1>13 DEF HelperStep

(* Type correctness of the updater. *)
THEOREM TypeCorrect == Spec => []TypeOK
<1>1. ASSUME TypeOK, [Next]_vars PROVE TypeOK'
  <2>1. CASE UNCHANGED vars
    BY <1>1, <2>1 DEF vars, TypeOK
  <2>2. CASE Next
    BY <1>1, <2>2, TypeManager, TypeHandoff, TypeHelper, TypeAlone DEF Next, ExitStep
  <2> QED  BY <1>1, <2>1, <2>2
<1> QED  BY <1>1, TypeInit, PTL DEF Spec

-----------------------------------------------------------------------------
(***************************************************************************)
(* A launch that failed.  Until its proceed file is written, a helper is   *)
(* in its handshake or on its way out; the program writes that file only   *)
(* for the helper it still waits for, and gives up waiting when it reports *)
(* the launch as failed.                                                   *)
(***************************************************************************)
Handshake == {"starting", "waiting", "failed", "leaving", "ended"}

HandoffInv ==
  /\ launched \notin refused
  /\ \A h \in Helper : h \in refused \/ h = launched =>
       helper[h].step \in Handshake /\ ~helper[h].proceed

(* No step of a helper leaves the handshake without the proceed file. *)
HeldBack(h, r) ==
  /\ Set(h, r)
  /\ r.proceed = helper[h].proceed
  /\ helper[h].step \in Handshake /\ ~helper[h].proceed => r.step \in Handshake

LEMMA HelperHeldBack ==
  ASSUME TypeOK, NEW h \in Helper, HelperStep(h) \/ HelperKilled(h) \/ LoseInstaller(h)
  PROVE  \E r \in HelperRecord : HeldBack(h, r)
<1> helper[h] \in HelperRecord
  BY Types DEF Typed
<1>1. ASSUME NEW step \in HelperStepName, Set(h, [helper[h] EXCEPT !.step = step]),
             helper[h].step \in Handshake /\ ~helper[h].proceed => step \in Handshake
      PROVE  \E r \in HelperRecord : HeldBack(h, r)
  <2>1. /\ [helper[h] EXCEPT !.step = step] \in HelperRecord
        /\ [helper[h] EXCEPT !.step = step].proceed = helper[h].proceed
        /\ [helper[h] EXCEPT !.step = step].step = step
    BY DEF HelperRecord
  <2> QED  BY <1>1, <2>1 DEF HeldBack
<1>2. CASE HelperReady(h)
  <2>1. [helper[h] EXCEPT !.step = "waiting", !.ready = "ok"] \in HelperRecord
    BY DEF HelperRecord, HelperStepName
  <2> QED  BY <1>2, <2>1 DEF HelperReady, HeldBack, HelperRecord, Handshake
<1>3. CASE HelperProceeds(h)
  BY <1>1, <1>3 DEF HelperProceeds, Goes, HelperStepName
<1>4. CASE SeesParentExit(h) \/ BeginInstall(h)
  BY <1>1, <1>4 DEF SeesParentExit, BeginInstall, Goes, HelperStepName, Handshake
<1>5. CASE Install(h)
  <2>1. [helper[h] EXCEPT !.step = "installed", !.intact = FALSE] \in HelperRecord
    BY DEF HelperRecord, HelperStepName
  <2> QED  BY <1>5, <2>1 DEF Install, HeldBack, HelperRecord, Handshake
<1>6. CASE RecordInstalled(h)
  <2>1. CASE helper[h].restart
    BY <1>1, <1>6, <2>1 DEF RecordInstalled, HelperStepName, Handshake
  <2>2. CASE ~helper[h].restart
    BY <1>1, <1>6, <2>2 DEF RecordInstalled, HelperStepName, Handshake
  <2> QED  BY <2>1, <2>2
<1>7. CASE Relaunch(h)
  BY <1>1, <1>7 DEF Relaunch, HelperStepName, Handshake
<1>8. CASE Failed(h)
  <2>1. PICK answer \in {"none", "ok", "refused"} :
          Set(h, [helper[h] EXCEPT !.step = "failed", !.ready = answer])
    <3>1. (IF helper[h].ready = "none" /\ helper[h].directory THEN "refused" ELSE helper[h].ready)
             \in {"none", "ok", "refused"}
      BY DEF HelperRecord
    <3> QED  BY <1>8, <3>1 DEF Failed
  <2>2. /\ [helper[h] EXCEPT !.step = "failed", !.ready = answer] \in HelperRecord
        /\ [helper[h] EXCEPT !.step = "failed", !.ready = answer].proceed = helper[h].proceed
        /\ [helper[h] EXCEPT !.step = "failed", !.ready = answer].step = "failed"
    BY DEF HelperRecord, HelperStepName
  <2> QED  BY <2>1, <2>2 DEF HeldBack, Handshake
<1>9. CASE CannotBegin(h) \/ NotAcknowledged(h) \/ CannotInstall(h) \/ InstallFails(h) \/ CannotFinish(h)
  BY <1>8, <1>9 DEF CannotBegin, NotAcknowledged, CannotInstall, InstallFails, CannotFinish
<1>10. CASE HelperLeaves(h)
  <2>1. [helper[h] EXCEPT !.step = "ended", !.directory = FALSE] \in HelperRecord
    BY DEF HelperRecord, HelperStepName
  <2> QED  BY <1>10, <2>1 DEF HelperLeaves, HeldBack, HelperRecord, Handshake
<1>11. CASE HelperKilled(h)
  BY <1>1, <1>11 DEF HelperKilled, HelperStepName, Handshake
<1>12. CASE LoseInstaller(h)
  <2>1. [helper[h] EXCEPT !.intact = FALSE] \in HelperRecord
    BY DEF HelperRecord
  <2> QED  BY <1>12, <2>1 DEF LoseInstaller, HeldBack, HelperRecord
<1> QED  BY <1>2, <1>3, <1>4, <1>5, <1>6, <1>7, <1>9, <1>10, <1>11, <1>12 DEF HelperStep

LEMMA HandoffNext ==
  ASSUME TypeOK, HandoffInv, [Next]_vars
  PROVE  HandoffInv'
<1> USE Types, UpdaterHelpers DEF Typed, HandoffInv
<1>1. CASE UNCHANGED <<helper, launched, refused>>
  BY <1>1
<1>2. CASE LaunchRefused \/ Crash
  BY <1>2 DEF LaunchRefused, LaunchFailed, Crash
<1>3. ASSUME NEW h \in Helper, LaunchHelper(h) PROVE HandoffInv'
  BY <1>3 DEF LaunchHelper, Set, Handshake, NotStarted
<1>4. ASSUME NEW h \in Helper, CannotAcknowledge(h) \/ HandshakeFails(h) PROVE HandoffInv'
  BY <1>4 DEF CannotAcknowledge, HandshakeFails, Refuse, LaunchFailed, Set, HelperRecord
<1>5. ASSUME NEW h \in Helper, Acknowledge(h) PROVE HandoffInv'
  BY <1>5 DEF Acknowledge, Set, HelperRecord
<1>6. ASSUME NEW h \in Helper, UNCHANGED <<launched, refused>>, NEW r \in HelperRecord, HeldBack(h, r)
      PROVE  HandoffInv'
  BY <1>6 DEF HeldBack, Set
<1>7. ASSUME NEW h \in Helper, HelperStep(h) \/ HelperKilled(h) \/ LoseInstaller(h)
      PROVE  HandoffInv'
  <2>1. UNCHANGED <<launched, refused>>
    BY <1>7 DEF HelperStep, HelperReady, HelperProceeds, SeesParentExit, BeginInstall, Install,
         RecordInstalled, Relaunch, CannotBegin, NotAcknowledged, CannotInstall, InstallFails,
         CannotFinish, HelperLeaves, HelperKilled, LoseInstaller, Goes, Failed
  <2>2. \E r \in HelperRecord : HeldBack(h, r)
    BY <1>7, HelperHeldBack
  <2> QED  BY <1>6, <2>1, <2>2 DEF HeldBack
<1>8. CASE UNCHANGED vars
  BY <1>1, <1>8 DEF vars, handoff
<1>9. CASE Next
  <2>1. CASE \/ Publish \/ UserStarts \/ LoseStaged \/ CheckBegins \/ CheckStep \/ SetAutomatic
             \/ RequestRestart \/ Quit \/ BeginExit \/ ExitUnchanged \/ Leave
             \/ (\E h \in Helper : ReadReady(h))
    BY <1>1, <2>1 DEF Publish, UserStarts, LoseStaged, CheckBegins, CheckStep, CheckAnswered,
         Downloaded, CheckFails, SetAutomatic, RequestRestart, Quit, BeginExit, ExitUnchanged,
         Leave, ReadReady, handoff
  <2> QED  BY <1>2, <1>3, <1>4, <1>5, <1>7, <1>9, <2>1 DEF Next, ExitStep
<1> QED  BY <1>8, <1>9

(* A launch that ApplyOnExit reported as failed never becomes an update.   *)
THEOREM FailedLaunchHarmless == Spec => []FailedLaunchNeverInstalls
<1>1. Init => HandoffInv
  BY UpdaterHelpers DEF Init, HandoffInv
<1>2. HandoffInv /\ TypeOK => FailedLaunchNeverInstalls
  BY Types DEF Typed, HandoffInv, FailedLaunchNeverInstalls, Handshake
<1> QED  BY <1>1, <1>2, HandoffNext, TypeCorrect, PTL DEF Spec

-----------------------------------------------------------------------------
(***************************************************************************)
(* An accepted restart.  No check is under way when it is accepted and     *)
(* none begins after it, so nobody changes the phase or the staged update  *)
(* before ApplyOnExit; a staged update always is one of a release.         *)
(***************************************************************************)
RestartInv ==
  /\ pending.intact => pending.release # None
  /\ check.step = "downloading" => check.release # None
  /\ restart /\ process \in {"running", "stopping", "stopped", "exiting"} =>
       phase = "ready" /\ pending.release # None /\ check.step = "none"

LEMMA RestartNext ==
  ASSUME TypeOK, RestartInv, [Next]_vars
  PROVE  RestartInv'
<1> USE Types DEF Typed, RestartInv, None
<1>1. CASE UNCHANGED <<pending, check, restart, process, phase>>
  BY <1>1
<1>2. CASE Started
  BY <1>2 DEF Started, NoUpdate, NoCheck
<1>3. CASE CheckBegins
  BY <1>3 DEF CheckBegins
<1>4. CASE CheckAnswered
  BY <1>4 DEF CheckAnswered, NoCheck, Checking
<1>5. CASE Downloaded
  BY <1>5 DEF Downloaded, NoCheck
<1>6. CASE CheckFails
  BY <1>6 DEF CheckFails, NoCheck
<1>7. CASE LoseStaged
  BY <1>7 DEF LoseStaged, Update
<1>8. CASE RequestRestart
  BY <1>8 DEF RequestRestart
<1>9. CASE Quit \/ BeginExit \/ Leave \/ Crash
  BY <1>9 DEF Quit, BeginExit, Leave, Crash
<1>10. CASE ExitUnchanged
  BY <1>10 DEF ExitUnchanged, NoUpdate
<1>11. CASE LaunchRefused
  BY <1>11 DEF LaunchRefused, LaunchFailed
<1>12. ASSUME NEW h \in Helper,
              LaunchHelper(h) \/ ReadReady(h) \/ Acknowledge(h) \/ CannotAcknowledge(h) \/ HandshakeFails(h)
       PROVE  RestartInv'
  BY <1>12 DEF LaunchHelper, ReadReady, Acknowledge, CannotAcknowledge, HandshakeFails, Refuse, LaunchFailed
<1>13. CASE UNCHANGED vars \/ Publish \/ SetAutomatic
  BY <1>1, <1>13 DEF vars, Publish, SetAutomatic
<1>14. ASSUME NEW h \in Helper, HelperStep(h) \/ HelperKilled(h) \/ LoseInstaller(h)
       PROVE  RestartInv'
  <2>1. Started \/ UNCHANGED manager
    BY <1>14 DEF HelperStep, HelperReady, HelperProceeds, SeesParentExit, BeginInstall, Install,
         RecordInstalled, Relaunch, CannotBegin, NotAcknowledged, CannotInstall, InstallFails,
         CannotFinish, HelperLeaves, HelperKilled, LoseInstaller, Goes, Failed
  <2> QED  BY <1>1, <1>2, <2>1
<1>15. CASE UserStarts
  BY <1>2, <1>15 DEF UserStarts
<1> QED  BY <1>3, <1>4, <1>5, <1>6, <1>7, <1>8, <1>9, <1>10, <1>11, <1>12, <1>13, <1>14, <1>15
     DEF Next, CheckStep, ExitStep

(* An accepted restart keeps its update until ApplyOnExit uses it.         *)
THEOREM RestartKeepsUpdate == Spec => []AcceptedRestartKeepsUpdate
<1>1. Init => RestartInv
  BY DEF Init, RestartInv, NoUpdate, NoCheck
<1>2. RestartInv /\ TypeOK => AcceptedRestartKeepsUpdate
  BY DEF RestartInv, AcceptedRestartKeepsUpdate, NoUpdate
<1> QED  BY <1>1, <1>2, RestartNext, TypeCorrect, PTL DEF Spec
=============================================================================
