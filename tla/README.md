# A TLA+ development of SyncHub for Agents

SyncHub keeps the files of coding agents (skills, instructions, settings,
plugins) the same on several computers through a private git repository. This
directory holds TLA+ modules translated from the Go sources under `src/`, the
TLC configurations that check them on small instances, and theorems about them
that the TLA+ proof system proves for every value of the constants.

`PROJECT.json` names, for every definition, the source lines it stands for.

- [The system](#the-system)
- [The modules](#the-modules)
- [The runs](#the-runs)
- [What the runs refute](#what-the-runs-refute)
- [What is proved](#what-is-proved)
- [What is not modelled](#what-is-not-modelled)
- [Plan](#plan)

## The system

### Components

| component | source | state | operations |
|---|---|---|---|
| reconciliation | `syncengine/reconcile.go`, `planning.go` | none | plan one path from base, local and remote; first-sync direction; next base |
| portable merge | `portablemerge` | none | structured, text (`git merge-file`) and binary three-way merges |
| synchronization pass | `syncengine/engine.go`, `resource_apply.go`, `resources.go`; `gitclient`; `cli/sync.go` | agent files, clone, `state.json`, base store | `SyncOnce`: recover, pull, collect, answer, plan, apply, commit, push, save |
| conflict store | `conflict` | bundles under `<home>/conflicts` and in the clone; `pending.json`, `failed.json`, `applying-view.json`, `transaction.json` | create, mirror, queue, apply, recover, resolve |
| scheduler | `scheduler` | interval, paused, state, next run, three flags, two channels, a timer | `Run`, `Trigger`, `SetInterval`, `Pause`, `PauseIfIdle`, `Resume` |
| resource collection | `resourcecollect`, `resource`, `portableconfig`, `secret` | a staging directory | walk, project, scan, stage |
| trash and retention | `syncengine/cleanup.go`, `cli/cleanup.go` | `.trash/files`, `.trash/index.json` | soft delete, purge, push |
| install plans | `installplan` | `pending.json`, `approvals.json`, `applied.json` | take the inventory, plan, approve, execute, clear |
| shared library | `sharedlibrary` | the library's sources, the copies, `library-ownership.json` | preview, then import, apply, restore or detach; refresh after a pass |
| updater | `updater` | status, pending download, restart flag; the handoff directory, `update-result.json` | check, download, restart, apply on exit; the helper's wait, installation and relaunch |
| desktop service | `desktop`, `daemon`, `app.go`, `main.go` | the daemon, the loop that runs it, the reset's staging | onboard, save settings, run, pause, reset, restart for an update |
| preview coordinator | `desktop/preview_coordinator.go` | one call in flight, its waiters | refresh, release |
| configuration, onboarding | `config`, `settings`, `onboarding`, `provider`, `pathresolver` | `config.json`, wizard steps | load, save, set up |
| repository setup | `repository`, `sshprobe` | clone, remote | clone, adopt, initialise |
| startup, migration | `startup`, `autostart`, `cli/home_migration.go` | registrations, the home folder | register, migrate |
| profile ownership | `instance` | one locked file | acquire, release |
| credentials | `auth`, `cli/credential.go` | keyring entries, metadata | sign in, forget |
| tray, command line | `tray`, `cli`, `cmd/synchub` | none of their own | present, dispatch |

`frontend/`, `packages/`, `scripts/`, `tools/`, `mcp/`, `backup/` and `build/`
hold the window, packaging and tooling and are left aside.

### How they interact

The **scheduler** calls the daemon's job, which runs a **pass** and then the
**cleanup** on the same clone. A pass owns the clone, `state.json` and the base
store; it shares the **conflict store** with the window, which queues batches of
answers and resolves single conflicts while a pass runs. The conflict store's
transaction lock covers its own operations, not the pass around them. Passes of
different machines meet only in origin, through `git pull --rebase` and `git
push`. The window, the tray, the reset and the updater call the scheduler from
goroutines of their own. Agent files are shared with the user and the agents,
who edit them at any time.

An **install plan** is made inside a pass, from the manifest of plugins that the
pass has just reconciled, and approved from the window while passes go on. The
**shared library** takes the library lock, which a pass holds too: it refreshes
adopted copies when the pass is over. The **desktop service** owns the daemon (and
with it the scheduler), hands it to the loop that runs it, and takes it away for a
reset. The **updater** leaves its work to a second process, with which it only
shares files.

### What is hard about it

- *Several machines*: a push is rejected, the clone reset and the pass repeated
  on files its first attempt has already changed; a commit that could not be
  pushed stays behind in the clone and is rebased, published or thrown away later.
- *Failure at any step*: a pass writes agent files, the working tree, a commit,
  origin, `state.json` and the base store one after the other. Death between any
  two of them, a file that cannot be read or written, and a network that loses
  the answer to a push leave mixtures the next pass has to make sense of.
- *Conflicts are data*: bundles travel through the repository, are answered on
  any machine, withdrawn by others' answers, and come back after a rejected push.
- *The batch transaction*: files, two copies of each bundle and four metadata
  files change one at a time.
- *Plans that outlive what they were made from*: the install plan on the screen, the
  library plan the user approved, the preview collected before settings changed.
- *Two processes and a handshake*: the program and the update helper both give up
  waiting, and either may die.
- *Undoing*: a reset that fails after moving half of the setup, a copy of a skill of
  which half is written, an import that fails.
- *The scheduler*: one loop, a cancellation watcher and any number of callers
  change the schedule between any two critical sections.

`PROJECT.json` lists the hazards at their lines, with the properties that cover
them or the reason why none does.

### What makes each component correct

- *Pass*: no edit is overwritten unseen; no trouble is taken for a deletion; the
  base was really shared, in both records of it; conflicts stay until answered;
  secrets leave; left alone, machines agree.
- *Conflict store*: a batch is applied or rolled back as a whole, its answers
  survive a crash, readers never see half of it.
- *Scheduler*: the next run shown is the one in force, an idle pause is quiet,
  the timer is never forgotten, every request is served.
- *Install plans*: only what the user has seen runs; what was planned stays pending
  until it is applied; a computer without plugins asks nobody to remove theirs.
- *Shared library*: nothing the user typed is replaced before a plan has shown it, an
  interrupted copy can be restored, a restore gives back what was adopted.
- *Updater*: a launch reported as failed never installs, an accepted restart keeps
  its update, neither process waits for ever.
- *Preview coordinator*: a waiter gets a collection nobody else has cancelled, and
  nothing collected for older settings is saved.
- *Desktop service*: the loop runs the daemon the service has; a reset removes
  everything or leaves everything in place; pausing is the user's decision.

## The modules

| module | models | instance |
|---|---|---|
| `Reconciliation` | the pure decisions: plan, first-sync direction, next base, merges | |
| `SyncEngine` | the pass on every machine, git, origin, the user | `MCSync` |
| `SyncProperties` | the properties of `SyncEngine` | `MCSync` |
| `SyncEngine_proofs` | its types, and the conflicts that are never lost | |
| `SyncProperties_proofs` | the other safety properties, on the lemmas of `SyncEngine_proofs` | |
| `ConflictResolution` | the conflict store of one machine, write by write | `MCConflictResolution` |
| `ConflictResolution_proofs` | theorems about it | |
| `Scheduler` | the scheduler, its callers, the clock | `MCScheduler` |
| `JobControl` | what a scheduler promises those who control it | |
| `Scheduler_proofs` | theorems about `Scheduler`; that it implements `JobControl` | |
| `PreviewCoordinator` | the preview of the window, shared by its viewers | |
| `Desktop` | the service, its loop, reset, tray and restart, over `JobControl` and `PreviewCoordinator` | `MCDesktop` |
| `Desktop_proofs` | theorems about both | |
| `InstallPlan` | plugins and dependencies: manifest, plan, approvals, execution, on every machine | `MCInstallPlan` |
| `InstallPlan_proofs` | theorems about it | |
| `SharedLibrary` | one skill in the library and its copies | `MCSharedLibrary` |
| `SharedLibrary_proofs` | theorems about it | |
| `Updater` | the updater of the running program and its helpers | `MCUpdater` |
| `Updater_proofs` | theorems about it | |

### Reconciliation

A file is `None` or a function from `Field` to `Value`: a field is a key of a
structured document or a hunk of a text file, `Blank` a missing key or an empty
hunk. The code compares SHA-256 hashes; the model compares contents. `Decide` is
`ReconcileWithBlocked` for one path, `Directed` is `ApplyFirstSyncStrategy`,
`PreserveSnapshot` the function of that name. `MergeOutcome` is the choice of a
merge in `mergeResource`: clean with data, conflict, or error.

### SyncEngine

Every machine has its clone (`root`, the last commit of origin under HEAD;
`head`; `work`, the working tree; `staged`; `wedged`, a rebase that stopped), its
agent files (`local`, `access`), its records (`state` is `state.json`, `store` the
base store, `mirror`, `pending`, `failed`, `first`) and its running `pass`, which
holds the local variables of `syncOnce` and is gone after a crash. Actions follow
`syncOnce`:

    Pull -> [HoldBatch | FailBatch | ApplyBatch -> Restore] -> Plan
         -> one action per planned path, in path order
         -> AddAll -> Commit -> push -> Save -> Capture -> MarkFirstSync
                                 \-> FetchAndReset -> Pull ...

`Crash` may come between any two of them. Failing variants (`PullFails`,
`PullWedges`, `LocalWriteFails`, `GitFails`, `PushFails`, `PushUnacknowledged`,
`FetchFails`, `CaptureFails`) stand beside the steps that can fail.

`history` is not part of the program: it remembers what was published, which
bundles were opened and resolved, what users deleted, which machines were cut
between commit and push (`stranded`), and the paths whose two base records came
apart (`apart`: a death between `state.json` and the base store, or an adopted
answer whose path the pass then preserved; until a pass captures the path again). No guard reads it.

The plan is not stored: base, scan and the working tree at a path stay as they
are until that path's own action, so `Planned(m, p)` reads the action off them.
`Save` is the end of the pass's own knowledge: `preserve` is `pass.keep`.

git is modelled from how `gitclient` uses it: a pull refuses modified tracked
files, staged additions and untracked files in the way; a rebase replays changes
file by file; a file moved to `.trash` is a rename, which carries the other
side's edit along; origin takes a push only from a clone that has its last commit.

`ApplyPendingBatch` is one step here and many in `ConflictResolution`.

### ConflictResolution

One machine's clone, conflict directories and metadata files. Every write,
rename and removal that may be the last one before a crash is an action:
`PublishView`, `MarkApplying`, `Journal`, `WriteAnswer`, `RemoveLocal`,
`RemoveRepo`, the removals of metadata (`ClearOne`), `OpenLocal` and `OpenRepo`
of a new bundle, and the same of a single resolution. `Fail` is the closure of
that name, `Recover` is `RecoverTransactions`. Other machines appear as pulls
that bring an answer or a conflict. The transaction lock is `Locked`; readers do
not change anything and are not actions (what they would see is the subject of
`ViewBehindApplying`).

### Scheduler

One action per critical section, channel operation or use of the timer, for the
goroutine in `Run` (`run.step`), the watcher (`watching`) and each caller
(`caller`, what is left of its call). The channels have capacity one and are
Booleans. Time is a counter up to `MaxTime`; a received timer value is its
deadline, and stopping or resetting a timer leaves nothing in its channel (the
semantics of Go's timers since 1.23; `go.mod` asks for a later version).
The job itself is a step with an outcome.

### JobControl

The scheduler as its callers may rely on it: a run begins and ends, at most one job
runs, none starts while paused, `PauseIfIdle` succeeds only while no job runs, and a
stopped run may start one more job before it ends (`select` may still pick the
timer). `Scheduler!ImplementsControl` is the refinement: `busy` is computed from the
step of the loop, everything else is the variable of the same name. `Desktop` is
composed with `JobControl`, not with `Scheduler`.

### PreviewCoordinator

`calls` are collections, `viewer` says which one a request waits for. `Join` and
`StartCollection` are `refresh`, `Abandon` and `Answer` the two arms of its `select`
with `release`; `ReadGeneration` ... `Complete` are `run` and `refreshPreview`. The
generation is read before the settings and compared under the lock when the preview
is written (`Commit`).

### Desktop

`loop` is `Service.Run` (`Receive` from the channel, `Take` under `operations`,
`BeginRun`, `EndRun`), `reset` the local variables of `resetLocalSetup`, `restart`
those of `RestartToUpdate`, `tray` a click between its reading and its call. A call
through a reference to an older daemon changes nothing (`OnDaemon`). A reset goes

    hold -> validate -> cancel and wait -> clear -> hold the preview
         -> Stage, one target at a time -> Remove | RollBack -> Restore

and `CloseFails` (the daemon's log), `ResetGivesUp`, `StagingFails`,
`StagingFailsTwice` (a roll-back that fails too), `RemoveFails` and `RestoreFails` (no
daemon can be started after a roll-back, which is reported) stand beside its steps.
Files are in place, staged, gone, or left behind and reported. `RunFails` ends
`Service.Run` for good: the daemon's log could not be closed after its run.

### InstallPlan

A pass takes the inventory of plugins (`Collect`), reconciles it as the file it is
(`Reconciled`, the branches of `SyncOnce` for manifests, with the direction of a first
synchronization), makes the plan and saves it (`Reconcile`), executes it operation by
operation (`Skip`, `Hold`, `Run` or `RunFails`, `BackupFails`, `MarkApplied`, `Finish`),
publishes, saves its base and marks the first synchronization (`MarkFirstSync`). A
manifest declares plugins with a version, enabled or not; only enabled ones are wanted.
The window refreshes what it shows, and `ApproveInstallPlan` compares the plan's
identifier once and then writes one approval after the other (`Approve`), beside
whatever the pass does.
`forgotten` is history: the machines on which a pass found a manifest that enables no
plugin, so that the pending plan was cleared, until a pass has saved a base again.

### SharedLibrary

The library and three harnesses; a copy is `Managed` if the program may write it. A
plan is what `prepare` read and proposes; `Approve` carries it out only if it is
still the plan that would be made. The operation is then file by file: `Saved` or
`BackedUp`, `CreateTemp` and `Rename` for a file to write or `RemoveFile`, `Finish`, or
`Fail` and, for an import, the way back. `PassBegins`, `PassWrites`, `RefreshBegins`,
`RefreshNext`, `PassEnds` are a pass that holds the same lock. Every edit makes a new
content, so a content tells who wrote it. A temporary file (`Temp`) lies in the copy
itself, where a dead process leaves it; `litter` is history and remembers which were
left.

### Updater

The manager (`phase`, `pending`, `restart`, `check`), the end of the program
(`BeginExit` to `Leave`), and each helper's `applyHelperUpdate` with its handoff
directory. `ReadReady` and `Acknowledge` are the program's half of the handshake,
`HelperReady` and `HelperProceeds` the helper's. A timeout is a step that may be
taken at any moment of its wait. Releases are numbers, a file is intact or not.

## The runs

`Limit` and `Budgets` bound how often each kind of environment step happens, never
the steps of the program. All counters are part of the state, so runs are exhaustive
within them. A set of budgets stands for several instances in one run: a behaviour
takes one of them in its first state, and each is large where its question needs it.

| run | instance | checks |
|---|---|---|
| `sync_interruptions` | 2 machines, 1 binary file, 2 edits, 1 cut pass, 1 network failure, 1 batch | `BaseWasShared`, `NoSilentOverwrite` |
| `sync_files` | 2 machines, 1 structured file with 3 values, 2 edits, 1 trouble, 1 batch | `TypeOK`, `NoPhantomDeletion`, `BasesAgree`, `OneBundlePerPath`, `BlockedLeaves`, `HeldAnswerSurvives` |
| `sync_converges` | a use-local and a use-cloud machine, 3 edits, 4 push attempts, fair | `NoConflictLost`, `Converges`, `ConflictedFileStays`, `UseCloudTrustsCloud` |
| `conflict_batch` | 3 bundles on 2 files (one of them missing), 2 batches or single answers, 2 crashes, 1 fault, 2 pulls | `TypeOK`, `RollbackRestores`, `ViewBehindApplying`, `AnswersSurvive`, `NoBundleDropped` |
| `scheduler` | 2 callers, intervals 0 (replaced by the default 1) and 2, clock up to 3, fair | `TypeOK`, `NextRunZero`, `HeldMeansQuiet`, `Armed`, `NoTriggerOutlives`, `TriggerServed`, `ImplementsControl` |
| `install_plans` | 2 machines, any first-sync direction, 1 plugin with 2 versions, enabled or not, and 1 Skill; `Changes` (2 by the user, 1 approval), `Cuts` (2 changes, 1 failure or crash), `Failures` (1 of each) | `ReviewedOnly`, `UnfinishedStaysPending`, `NewcomerTakesNothing` |
| `library` | 1 skill of 2 files, 2 temporary names, 4 places; `Edits` (2 edits, 1 plan), `Refreshes` (1 edit, 1 plan, a pass that brings a file), `Interrupted` (1 edit, 2 plans, 1 failure or crash), `Repeated` (3 plans, 2 failures or crashes), `Readopted` (4 plans, 1 failure or crash), `Removed` (2 plans, 2 passes that bring and remove files) | `UntouchedIsRecoverable`, `RestoreIsExact`, `OnlyReviewedReplaced` |
| `updater` | 2 helpers; `Faults` (2 releases, 2 uses of the window, 1 fault), `Again` (2 releases, 2 starts), `Breaks` (2 faults), fair | `FailedLaunchNeverInstalls`, `AcceptedRestartKeepsUpdate`, `HandoffsEnd` |
| `desktop` | 2 viewers, 2 collections; `Clashes` (2 window calls, a tray click, a restart, 2 failures), `Repeats` (4 window calls, 1 failure), `Previews`, `Sharing` (2 views), fair | `RunsItsDaemon`, `ResetIsWhole`, `PauseIsTheUsers`, `StalePreviewNeverSaved`, `NobodyWaitsForCancelled`, `ServiceGoesOn`, `ViewersAnswered` |

**What they show.** In the bounds above, and apart from the situations a property
names as its excuse:

- `NoSilentOverwrite`: the engine replaces an agent file only by something that
  keeps the user's changes, or when its content is in the repository's history.
  Its excuses are the ones the code has: an answered conflict, a first-sync
  direction, an edit after collection, a pass cut before its push, two records of
  the base that came apart.
- `BaseWasShared`, `BasesAgree`: `state.json` names only published content, and
  the base store holds that content whenever a merge starts from it, unless the
  program died between writing the one and the other (`apart`).
- `NoPhantomDeletion`, `BlockedLeaves`: a file leaves the repository only if it was
  deleted or holds a secret, and in the second case it does leave, unless the path is
  held back while the answer to its conflict waits (engine.go:323). The first is
  not promised to machines that start with a direction, where an answered conflict
  decided, or once a push was abandoned.
- `UseCloudTrustsCloud`: a first pass with use-cloud writes nothing of its own into
  the repository. What it removes is blocked, or was recorded by an earlier first
  pass that was cut before it was marked completed.
- `NoConflictLost`, `OneBundlePerPath`, `ConflictedFileStays`, `HeldAnswerSurvives`:
  conflicts survive every push race, a race yields one bundle as long as no pass is
  cut short, and neither a removal nor a failed restore undoes an open or an
  answered conflict.
- `Converges`: without edits, machines end up with the shared content.
- `RollbackRestores`, `AnswersSurvive`, `NoBundleDropped`, `ViewBehindApplying`: the
  batch is a transaction in the files it changes, its answers remain readable in
  `pending.json` or `failed.json`, and the published view covers it while it runs.
  Two failures of the file system are outside these promises, and the properties
  name them: a file that cannot be written back, and a `failed.json` that cannot be
  written. `fail` (resolution.go:347) clears `pending.json` and the journal even so
  (`RollbackFails`, `SettleFails`); a recovery that has its journal does not.
- The scheduler's properties are stated one by one in its module. `ImplementsControl`
  shows it to be the `JobControl` that `Desktop` is built on.
- `ReviewedOnly`: although passes replace the plan while it is on the screen and while
  its approval is written, a command runs only if its source was displayed and
  approved on that machine. `UnfinishedStaysPending`: wherever a pass is cut, what it
  planned is applied or pending. `NewcomerTakesNothing`: an inventory without plugins,
  or none at all, is not published as the removal of everybody's. Its excuses: a first
  synchronization with use-local, which asks for it, and `forgotten`: a pass found a
  manifest that enables no plugin and cleared the pending plan, so that an older base,
  or that manifest itself, is no longer protected. `ManifestIsKept` shows the latter.
- `UntouchedIsRecoverable`: a copy the user has left alone can be restored whatever was
  interrupted, once the temporary files that interrupted operations left in it are taken
  away, which the program itself does not do (`InterruptedIsRestored`); `RestoreIsExact`: it gives back what was adopted; `OnlyReviewedReplaced`:
  operations and refreshes never replace what the user typed unseen. The excuse of these
  two is an edit made while the operation itself runs, which the code does not
  guard (`writeTree` writes what `prepare` planned from).
- `FailedLaunchNeverInstalls`, `AcceptedRestartKeepsUpdate`, `HandoffsEnd`: the two
  processes of an update agree on whether it happens, and both end.
- `RunsItsDaemon`: no daemon that a reset has replaced runs, and no job runs while files
  are moved. `ResetIsWhole`: a reset that fails rolls back or reports what it left, and
  that no daemon could be started. `PauseIsTheUsers`: neither a reset nor a declined
  restart changes whether the user had paused, but for a reset that gave up or could not
  close the log, which leaves the scheduler paused. `StalePreviewNeverSaved`, `NobodyWaitsForCancelled`, `ViewersAnswered`: the
  preview. `ServiceGoesOn`: a reset ends and the loop runs the next daemon; a reset
  that gave up waiting for a cancelled run (`stranded`) and a loop that returned over a
  log it could not close (`RunFails`) are its excuses, because there the code leaves the
  service without a running scheduler until the next start.

**Why the bounds are enough.** Two machines race in every way one rejected push
can be caused; a third only repeats a rejection, which `PushRetries` counts. Two
edits make a conflict, a third one makes an edit meet an answer or a retry. One
cut or failure at every point of a pass is the case recovery is written for;
`conflict_batch` allows a second crash during the recovery from the first. Three
values give three-way merges all their outcomes. Two bundles on one file are
what tells a rollback in journal order from one in reverse, and a missing file
what tells "existed with these bytes" from "bytes". Two callers are enough to
interleave any two critical sections with the loop, and a clock of three ticks
lets a timer expire before, at and after a moved schedule. One plugin with two
versions has every kind of operation, and the Skill adds a second source, so that an
approval is more than one write. Two files make a half-written copy, three
plans an adoption, an interrupted update and a restore, a fourth one adopts again; a
second temporary name lets an operation meet what an earlier one left. Two
helpers overlap when a second program ends before the first helper; one of two
releases is superseded. Four calls of the window are a reset, onboarding, and the
same again.

**Symmetry** is used where no configuration tells machines, fields, values or temporary
names apart and no liveness property is checked.

**Fairness.** `sync_converges` assumes that each machine keeps taking steps of its
own passes (weak fairness of `SyncStep`): the scheduler starts one after every
interval, and every call a pass makes returns. Users owe nothing: no edit or
answer is assumed to come. `scheduler` assumes weak fairness of the loop and of
calls in progress (goroutines run, jobs return) and strong fairness of receiving
from `trigger`, because Go's `select` picks at random among the channels that are
ready. Neither the clock nor any caller owes a step.

In `updater` both processes are scheduled and every wait has a timeout (weak fairness
of the steps of a check, of the exit and of each helper), and an accepted restart
quits the program, as `app.go` does; nobody has to check, click or start. In `desktop`
the loop, the reset, the end of a job and the collections go on (weak fairness); the
end of a stopped run is strongly fair, because the scheduler may begin one more job
before it sees that its context is done, and Go's `select` does not prefer the other
channel for ever. Window, tray and viewers owe nothing.

**Deadlock** is checked except in `library`, `updater` and `desktop`. These systems
really stop: the program is closed and nobody starts it again, the application
has quit, the user has nothing more to do. That a program step is not left waiting is
what `HandoffsEnd`, `ServiceGoesOn` and `ViewersAnswered` check instead.

## What the runs refute

Each of these is a statement of the repository's documents or comments that the
code does not keep, with a run whose counterexample shows it; `PROJECT.json` quotes
the statement and the lines.

| run | statement | what happens instead |
|---|---|---|
| `f_stranded_loss` | network failures preserve the local state | a commit left behind by one failed push is dropped by the next, and its file deleted as "removed elsewhere" |
| `f_text_conflict` | conflicting edits create a conflict bundle | two conflicting hunks are an error of `git merge-file`, not a conflict |
| `f_failed_install` | a failed command remains pending | the next pass takes the machine's unchanged plugins for an edit of the manifest it has just adopted, publishes them over it, and clears the pending plan |

Eight more configurations are kept beside these. They are not among the runs of
`PROJECT.json`; each ends in a counterexample when run by hand, for example
`tlc -config f_skip_forgets.cfg MCSync`.

| configuration | module | property | what happens |
|---|---|---|---|
| `f_skip_forgets` | `MCSync` | `NoResurrection` | a pass that could not read a file forgets its base; a later deletion is undone |
| `f_answer_elsewhere` | `MCSync` | `AnswerIsPublished` | a "local" answer given on another machine than the conflict's own is overwritten by that machine's file |
| `f_use_cloud` | `MCSync` | `CloudIsAuthority` | a first pass with use-cloud that is cut before it is marked completed is repeated: it deletes the file the user made meanwhile, and the next pass deletes the shared one as "removed here" |
| `f_held_secret` | `MCSync` | `BlockedAlwaysLeaves` | a file that holds a secret stays published while the answer to its conflict waits, because the engine skips held paths before it looks at the removal |
| `f_disabled_manifest` | `MCInstallPlan` | `ManifestIsKept` | nothing is pending for a manifest of disabled plugins, so a new computer adopts it as its base and publishes its own empty list as their removal |
| `f_library_litter` | `MCSharedLibrary` | `InterruptedIsRestored` | a temporary file left in a copy by a death before its rename counts as the user's, and the restore that docs/shared-library.md:221 promises is refused |
| `f_failed_batch` | `MCConflictResolution` | `FailedBatchLeavesConflicts` | bundles removed before a failure are gone although their files are rolled back |
| `f_paused_shown` | `MCScheduler` | `PausedShows` | a pause between the start of a cycle and its first state change is shown as updating from then on, so the tray's toggle pauses again |

## What is proved

Checked by `tlapm`, for all values of the constants that satisfy the assumptions of
the modules:

| assumption | says |
|---|---|
| `ContentAssumption` | `None` is not a content, `Blank` is a value |
| `EngineAssumption` | paths are numbers, each with a strategy; each machine has a first-sync mode; `PushRetries` is at least one, the bounds are naturals |
| `ResolutionAssumption` | conflicts are positive numbers (their order is the order of their identifiers), each is about a path, which has a file to begin with or none; the bounds are naturals |
| `SchedulerAssumption` | intervals are integers, the default is positive, the clock's bound is a natural |
| `PreviewAssumption` | `NoCall` is no call |
| `InstallAssumption` | plugins are positive numbers, `MaxVersion` is positive, the bounds are naturals |
| `LibraryFiles`, `LibraryBudgets` | `SKILL.md` is a file of the skill, the temporary names are other files; budgets are naturals or `Unlimited` |
| `UpdaterHelpers`, `UpdaterBudgets` | `NoHelper` is no helper; budgets are naturals or `Unlimited` |

Machines, paths, conflicts, plugins and files may be of any number, and a bound may be
any natural: every finite behaviour of the program lies within some bounds, and a safety
property is one of finite behaviours. Proofs look at a counter only where a property does:
`OneBundlePerPath` is about behaviours in which no pass was cut, `NoSilentOverwrite` about
steps that are no edit.

Every invariant and every action property of the passing runs is a theorem. Few are
inductive alone; what follows says from which invariant each comes, and why.

**The engine** (`SyncEngine_proofs`, `SyncProperties_proofs`).

- `TypeCorrect`: `Spec => []TypeOK`.
- `NoConflictIsLost` (`NoConflictLost`). A push makes origin a copy of HEAD, so it must be
  known that HEAD lacks no unanswered bundle of origin. `ConflictInv` follows a bundle
  on its way: a machine that is not behind has origin as its `root`, `head` has
  every unanswered bundle of `root`, `work` every one of `head`. Pulls and resets
  establish it, rebases carry it over, only `ApplyBatch` removes a bundle and it
  records it as answered.
- `BasesAreShared` (`BaseWasShared`), from `SharedInv`: unless a push was abandoned HEAD is
  a commit of origin, but while a commit waits to be pushed. `Save` comes after the
  push, so what it records is then in the history of origin.
- `MergesStartFromTheBase` (`BasesAgree`), from `BaseInv` and `StoreInv`. A pass compares
  with what `state.json` held when it began, or with an answer it has adopted, which is
  then also what the working tree holds, so that no merge is planned from it. The store
  follows `state.json` path by path, and between the two writes it is known which
  paths the capture will bring along (`Preserved`).
- `CleanMergesKeep`: a clean merge, of any strategy, keeps every field that one side
  changed since the base. A lemma about `MergeOutcome` rather than about behaviours.
- `NothingIsOverwritten` (`NoSilentOverwrite`), from the three invariants above and
  `CleanMergesKeep`: an agent file is replaced by what came from origin because it
  equals the recorded base, which was published, or by a merge.
- `NothingVanishes` (`NoPhantomDeletion`), from `KeptInv` and `ConflictInv`. For a path nobody
  has deleted, answered or directed: a clone whose root has the file has it in the working
  tree, a machine whose `state.json` names it has it among its agent files, and a collection
  that could read it has found it. So no plan reads an absence as a deletion.
- `OneBundleForEach` (`OneBundlePerPath`), from `OneBundleInv`: clones are clean between
  passes, and during one the mirror shows the bundles of the working tree, so
  `conflictExists` asks the right question.
- `SecretsLeave` (`BlockedLeaves`), from `BlockedInv` and `WaitsInv` (a held path has an
  answer that is queued, or applied in this pass); `HeldAnswersStay`
  (`HeldAnswerSurvives`), from `HeldInv`; `ConflictsKeepTheirFile` (`ConflictedFileStays`), from
  `SuspendedInv`. Each says where a path of its kind stands between planning and commit.
- `CloudIsTrusted` (`UseCloudTrustsCloud`), from the decisions of `Directed`.

**The conflict store** (`ConflictResolution_proofs`).

- `TypeCorrect`: `Spec => []TypeOK`, with `ShapeInv` on the steps of a pass: the
  transaction lock keeps a batch and a single resolution apart.
- `ViewIsThere` (`ViewBehindApplying`) and `AnswersAreKept` (`AnswersSurvive`), from `BatchInv`:
  until it is removed `pending.json` holds the batch in memory, and the lists of metadata
  still to be removed (`pass.clear`) say which record outlives which.
- `RollbackIsWhole` (`RollbackRestores`), from `JournalInv`: the first entry of the journal for
  a file holds what the batch found there, and files without an entry are as they
  were. Rolling back in reverse writes that first entry last. A recovery may itself be
  cut and start again from the journal on disk.
- `BundlesAreKept` (`NoBundleDropped`), from `AnswerInv`: what HEAD has and the clone has
  not was answered in the file it is about, so the commit takes both along.

**The scheduler** (`Scheduler_proofs`).

- `TypeCorrect`, `NextRunIsZero` (`NextRunZero`), `HeldIsQuiet` (`HeldMeansQuiet`),
  `NoTriggerSurvives` (`NoTriggerOutlives`): from `RunInv`, which ties the flags to the step of
  the loop (`running` exactly while `Run` runs, `cancelled` only under a cancelled
  context, ...).
- `AlwaysArmed` (`Armed`): from `TimerInv`, which says what the interval that
  was read and the next run have to do with each other between reading one and
  arming the timer, as long as no caller owes the loop a notification.
- `ControlImplemented`: `Spec => Control!Spec`, the refinement. `BusyInv` says when the
  loop's variables mean a running job; every step maps to one step of `JobControl` or
  to none.

**The desktop service** (`Desktop_proofs`, over `JobControl` and `PreviewCoordinator`).

- `TypeCorrect`; `LoopRunsTheDaemon` (`RunsItsDaemon`), from `LockInv` (who holds
  `Service.operations`) and `LoopInv`: once a reset is about to clear the daemon no run is
  left, and the loop cannot begin one without the lock that the reset holds.
- `ResetLeavesAWhole` (`ResetIsWhole`), from `SetupInv`: the files that are not reported are
  all still somewhere, or all gone, and the service has a daemon exactly with its
  configuration in place, unless the reset reported that it could not start one.
- `PauseStaysTheUsers` (`PauseIsTheUsers`), from `PauseInv`: what a reset or a restart
  remembers is what the user wants, as long as no click came between.
- `NobodyIsCancelled` (`NobodyWaitsForCancelled`), from `ViewInv`: viewers and waiters are the
  same relation, and a cancelled call has none and is not the one in flight.
- `PreviewsAreNew` (`StalePreviewNeverSaved`), from `StaleInv`: a collection whose generation is
  the present one was made for the present settings; saving settings and holding the
  preview both change the generation first.

**Install plans** (`InstallPlan_proofs`).

- `TypeCorrect`; `OnlyReviewedRuns` (`ReviewedOnly`), from `ReviewInv`. What makes it
  inductive: two plans with the same identifier have the same operations, and what one of
  them has no longer left was approved before, so what is being approved was on the screen.
- `UnfinishedPending` (`UnfinishedStaysPending`), from `PlannedInv`: the operations of a plan
  are those to come, those held back, the one running and the applied ones, and the saved
  plan covers all but the last.
- `NewcomersTakeNothing` (`NewcomerTakesNothing`), from `NewcomerInv`: a machine that never
  had a plugin records a manifest that names some only while the operations it asks for
  are pending, and a pending installation keeps the machine's inventory out of the plan.
  A manifest that enables none asks for nothing, hence the excuse `forgotten`.

**The shared library** (`SharedLibrary_proofs`).

- `TypeCorrect`; `CopiesRecoverable` (`UntouchedIsRecoverable`), from `LockInv` (one operation
  or pass at a time) and `CopyInv`: a copy being written is, without its temporary files,
  file by file what the record on disk calls previous or applied.
- `RestoresExactly` (`RestoreIsExact`), from `OriginalInv`, which carries the adopted contents
  through every update and interruption.
- `ReviewedReplaced` (`OnlyReviewedReplaced`), from `NumberInv` (contents are made once) and
  `SeenInv`, which says where contents nobody has reviewed can not be: in the record of a
  copy, in an operation, in a refresh.

**The updater** (`Updater_proofs`).

- `TypeCorrect`; `FailedLaunchHarmless` (`FailedLaunchNeverInstalls`), from `HandoffInv`: a
  helper the program has given up has no acknowledgement in its directory, and never
  gets one, because the program acknowledges only the helper it still waits for.
- `RestartKeepsUpdate` (`AcceptedRestartKeepsUpdate`), from `RestartInv`: no check is under
  way once a restart is accepted.

**Only model-checked.** Liveness (`Converges`, `TriggerServed`, `HandoffsEnd`,
`ServiceGoesOn`, `ViewersAnswered`): fairness and `ENABLED` are out of the prover's reach.
The three statements of `PROJECT.json`'s findings and the eight configurations above are
counterexamples and need no proof. Statements about all inputs of a recursive
definition would need induction over data; none is made.

## What is not modelled

- *Inside the pass*: validation of remote resources (ownership and validation
  issues) and aliases of shared skills. They add reasons to skip a path, not new ways
  to change one. Install manifests and the refresh of the library are modelled beside
  the pass, in `InstallPlan` and `SharedLibrary`, each with as much of a pass as it needs.
- *git*: a rebase is file by file with renames into `.trash` only. Commits are
  trees; authorship and history other than `root` do not matter to the code.
- *A document's inner structure*: nested maps, hunks that touch, and formats.
- *Timestamps and identifiers*: a bundle's identity is its contents; the hash of
  two different bundles, or of two different plans, is taken to differ.
- *Files outside a machine's own pass*: a second program that writes `state.json` or
  the clone is excluded by the profile lock, a second window by the toolkit's lock.
- *Install plans*: one adapter, and one command line tool; its output, the
  format of manifests and the copies of local payloads are abstracted.
- *Shared library*: limits, links and content checks are refusals without effect; the
  listing for the window only reads.
- *Updater*: development builds and platforms without an installer of their own, the
  text of releases, old helper directories.
- *Desktop service*: summaries, autostart, preferences, and a crash in the middle of a
  reset. A staging directory that a dead process leaves behind is not looked for by
  anything in `reset.go`, so there is no recovery to model.
- *Components of the table above without a module*: see the plan. Credentials,
  probes, autostart, tray icons and formatting are I/O or presentation and stay out.

Things the models show that no document forbids, and that a reader of the
properties should know: a failed check between staging and quitting discards the
ready update, which is downloaded again later (`updater/manager.go:241`); of two
overlapping helpers the one with the older release may install last
(`updater/helper.go:417`); an edit made between the reading and the writing of one
library operation is overwritten (`sharedlibrary/manager.go:245`); after a death between
`state.json` and the base store (`engine.go:537`) the next merge of that path starts from
an older version than the plan compared with, and a change that was taken back counts as
none.

## Plan

1. **Core** (done): `Reconciliation`, `SyncEngine`, `ConflictResolution`, `Scheduler`,
   their runs and first theorems.
2. **Around the pass** (done): `InstallPlan`, `SharedLibrary`, `Updater`,
   `PreviewCoordinator`, `Desktop`; `JobControl` and the refinement by `Scheduler`.
3. **Still to model**
   - `TrashRetention`: soft delete, index, retention and the cleanup's push, composed
     with the clone of `SyncEngine`.
   - configuration writers and the lost update after the first pass (`cli/sync.go:108`);
     onboarding, repository setup and the home migration.
   - the tray's and the cycle observer's view of the scheduler (`scheduler.go:221`).
4. **Abstraction**: a two-phase abstract batch (`queued -> applied | failed`, bundles and
   files together) that `ConflictResolution` implements up to the removals that
   `f_failed_batch` is about; `SyncEngine`'s one-step batch as its instance.
5. **Proofs** (done for every safety property and action property that a run checks).
   Left: the refinement of item 4, and `Decide` and `PreserveSnapshot` as lemmas of
   their own (what each decision owes its three versions).
