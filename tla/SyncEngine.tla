----------------------------- MODULE SyncEngine -----------------------------
(***************************************************************************)
(* The synchronization engine (internal/syncengine/engine.go, driven by    *)
(* internal/cli/sync.go and internal/gitclient): several machines, each    *)
(* with its agent files, its clone of the shared repository, its state.json*)
(* and base store, synchronize through one origin.                         *)
(*                                                                         *)
(* One action is one step of syncOnce between two points at which the      *)
(* process may die, the network may fail or the user may edit a file.      *)
(* Paths are numbers because the engine applies its actions in path order. *)
(***************************************************************************)
EXTENDS Reconciliation

CONSTANTS
  Machine,      (* the user's computers *)
  Path,         (* repository-relative paths, numbered in sort order *)
  Strategy,     (* Path -> Strategies *)
  FirstMode,    (* Machine -> FirstSyncMode: cfg.FirstSync.Strategy *)
  PushRetries,  (* attempts of one pass (RunSync uses 5) *)
  Limit         (* bound on every kind of environment step *)

(* Edits of agent files; passes cut by a death of the process or by a git  *)
(* command; network failures; files that turn unreadable or cannot be      *)
(* written; queued batches of answers.                                     *)
Bounded == {"edits", "cuts", "offline", "troubles", "batches"}

ASSUME EngineAssumption ==
  /\ Path \subseteq Nat
  /\ Strategy \in [Path -> Strategies]
  /\ FirstMode \in [Machine -> FirstSyncMode]
  /\ PushRetries \in Nat \ {0}
  /\ Limit \in [Bounded -> Nat]

(***************************************************************************)
(* A conflict bundle: the path and the bytes of its three variants.  Its   *)
(* identifier is a hash of exactly these (conflictID).                     *)
(***************************************************************************)
Bundle == [path: Path, base: Content, local: Content, remote: Content]
Variant == {"local", "remote", "merged"}
Selection == [bundle: Bundle, choice: Variant, content: Content]

(* What a commit holds: canonical files, conflict bundles and .trash. *)
Tree == [files: [Path -> File], bundles: SUBSET Bundle, trash: [Path -> File]]
EmptyTree == [files   |-> [p \in Path |-> None],
              bundles |-> {},
              trash   |-> [p \in Path |-> None]]

(* Whether the collector can read a local file: skipped covers a missing   *)
(* root, an unreadable or oversized file; blocked a detected secret.       *)
Access == {"ok", "skipped", "blocked"}

Step == {"idle", "retry", "collected", "restore", "plan", "apply", "commit",
         "push", "fetch", "save", "capture", "mark"}

(***************************************************************************)
(* The volatile state of one pass: gone when the process dies.             *)
(***************************************************************************)
Pass == [step: Step, attempt: 0..PushRetries, scan: [Path -> File],
         seen: [Path -> Access], base: [Path -> File], loaded: [Path -> File],
         todo: SUBSET Path, keep: SUBSET Path, held: SUBSET Path,
         applied: SUBSET Selection]

NoPass == [step |-> "idle", attempt |-> 0,
           scan |-> [p \in Path |-> None], seen |-> [p \in Path |-> "ok"],
           base |-> [p \in Path |-> None], loaded |-> [p \in Path |-> None],
           todo |-> {}, keep |-> {}, held |-> {}, applied |-> {}]

VARIABLES
  (* the shared repository *)
  origin,    (* the tree of origin's branch *)
  behind,    (* machines that have not fetched origin's last commit *)
  (* each machine's clone *)
  root,      (* the last commit of origin that HEAD descends from *)
  head,      (* the tree of HEAD *)
  work,      (* the working tree *)
  staged,    (* machines whose index holds the additions of `git add -A` *)
  wedged,    (* machines whose clone stopped in the middle of a rebase *)
  (* each machine's files and persisted records *)
  local,     (* the agent files *)
  access,    (* what the collector would report of them *)
  state,     (* state.json: the base snapshot *)
  store,     (* the base store: the contents three-way merges start from *)
  mirror,    (* conflict bundles under <home>/conflicts *)
  pending,   (* the queued resolution batch *)
  failed,    (* the failed resolution batch *)
  first,     (* machines whose first synchronization is not marked completed *)
  (* each machine's running pass *)
  pass,
  (* bounds and history *)
  count,     (* environment steps taken, by kind *)
  history    (* facts about the past that the properties speak of *)

clone == <<root, head, work, staged, wedged>>
files == <<local, access>>
records == <<state, store, mirror, pending, failed, first>>
vars == <<origin, behind, clone, files, records, pass, count, history>>

-----------------------------------------------------------------------------
Spend(kind) ==
  /\ count[kind] < Limit[kind]
  /\ count' = [count EXCEPT ![kind] = @ + 1]

At(m, step) == pass[m].step = step
GoTo(m, step) == pass' = [pass EXCEPT ![m].step = step]
Abort(m) == pass' = [pass EXCEPT ![m] = NoPass]

ConflictPaths(m) == {b.path : b \in mirror[m]}

(***************************************************************************)
(* git status: a pull refuses a working tree with modified or deleted      *)
(* tracked files or with staged additions, and one whose untracked files   *)
(* stand where the new commit has files.                                   *)
(***************************************************************************)
Tracked(m, p) == head[m].files[p] # None
Modified(m) ==
  \/ staged[m] /\ work[m] # head[m]
  \/ \E p \in Path : Tracked(m, p) /\ work[m].files[p] # head[m].files[p]
  \/ head[m].bundles \ work[m].bundles # {}
  \/ work[m].trash # head[m].trash

InTheWay(m, tree) ==
  \/ \E p \in Path : /\ ~Tracked(m, p) /\ work[m].files[p] # None
                     /\ tree.files[p] # None
  \/ (work[m].bundles \ head[m].bundles) \cap tree.bundles # {}

(* The untracked leftovers of an interrupted pass survive a pull. *)
CarryUntracked(m, tree) ==
  [files   |-> [p \in Path |-> IF ~Tracked(m, p) /\ work[m].files[p] # None
                                 THEN work[m].files[p] ELSE tree.files[p]],
   bundles |-> tree.bundles \cup (work[m].bundles \ head[m].bundles),
   trash   |-> tree.trash]

(***************************************************************************)
(* git rebase: the changes from..mine replayed on onto, file by file.  A   *)
(* file moved to .trash on one side is a rename to git, which carries the  *)
(* other side's edit along.  Two changes of .trash meet in its index.      *)
(***************************************************************************)
Replay(from, mine, onto) == IF mine = from THEN onto ELSE mine
Collides(from, mine, onto) == mine # from /\ onto # from /\ mine # onto
Moved(from, to, p) == /\ from.files[p] # None /\ to.files[p] = None
                      /\ to.trash[p] = from.files[p]

RebaseConflict(from, mine, onto) ==
  \/ mine.trash # from.trash /\ onto.trash # from.trash
  \/ \E p \in Path : /\ Collides(from.files[p], mine.files[p], onto.files[p])
                     /\ ~Moved(from, mine, p) /\ ~Moved(from, onto, p)

Rebase(from, mine, onto) ==
  [files   |-> [p \in Path |-> IF Moved(from, mine, p) \/ Moved(from, onto, p) THEN None
                               ELSE Replay(from.files[p], mine.files[p], onto.files[p])],
   bundles |-> (onto.bundles \ (from.bundles \ mine.bundles))
                 \cup (mine.bundles \ from.bundles),
   trash   |-> [p \in Path |->
                  CASE Moved(from, mine, p) /\ onto.files[p] # None -> onto.files[p]
                    [] Moved(from, onto, p) /\ mine.files[p] # None -> mine.files[p]
                    [] OTHER -> Replay(from.trash[p], mine.trash[p], onto.trash[p])]]

-----------------------------------------------------------------------------
(***************************************************************************)
(* The environment: users edit their files and answer conflicts; a file    *)
(* becomes unreadable or starts to hold a secret; a process dies.          *)
(***************************************************************************)
Edit(m, p, file) ==
  /\ file # local[m][p]
  /\ Spend("edits")
  /\ local' = [local EXCEPT ![m][p] = file]
  /\ history' = IF file # None THEN [history EXCEPT !.tombs[m][p] = None]
                ELSE [history EXCEPT !.deleted = @ \cup {p},
                                     !.tombs[m][p] = IF local[m][p] = state[m][p]
                                                       THEN local[m][p] ELSE None]
  /\ UNCHANGED <<origin, behind, clone, access, records, pass>>

ChangeAccess(m, p, a) ==
  /\ a # access[m][p]
  /\ Spend("troubles")
  /\ access' = [access EXCEPT ![m][p] = a]
  /\ history' = IF a = "blocked" THEN [history EXCEPT !.deleted = @ \cup {p}] ELSE history
  /\ UNCHANGED <<origin, behind, clone, local, records, pass>>

(* QueueBatch: every visible conflict answered, no batch pending. *)
QueueBatch(m, selections) ==
  /\ mirror[m] # {} /\ pending[m] = {}
  /\ {s.bundle : s \in selections} = mirror[m]
  /\ Cardinality(selections) = Cardinality(mirror[m])
  /\ \A s \in selections : s.choice # "merged" => s.content = s.bundle[s.choice]
  /\ Spend("batches")
  /\ pending' = [pending EXCEPT ![m] = selections]
  /\ failed' = [failed EXCEPT ![m] = {}]
  /\ UNCHANGED <<origin, behind, clone, files, state, store, mirror, first, pass, history>>

Crash(m) ==
  /\ ~At(m, "idle")
  /\ Spend("cuts")
  /\ Abort(m)
  /\ history' = CASE At(m, "push") \/ At(m, "fetch") ->
                      [history EXCEPT !.stranded = @ \cup {m}]
                   [] At(m, "capture") ->
                      [history EXCEPT !.apart = @ \cup
                         {<<m, p>> : p \in {q \in Path : state[m][q] # store[m][q]}}]
                   [] OTHER -> history
  /\ UNCHANGED <<origin, behind, clone, files, records>>

-----------------------------------------------------------------------------
(***************************************************************************)
(* Pull: git pull --rebase, at the start of a pass and of each retry.      *)
(***************************************************************************)
Pulling(m) == At(m, "idle") \/ At(m, "retry")
PullReady(m) == Pulling(m) /\ ~wedged[m]

Pull(m) ==
  LET rebased == Rebase(root[m], head[m], origin)
      tree == CarryUntracked(m, rebased)
  IN  /\ PullReady(m)
      /\ ~Modified(m) /\ ~InTheWay(m, rebased)
      /\ ~RebaseConflict(root[m], head[m], origin)
      /\ root' = [root EXCEPT ![m] = origin]
      /\ head' = [head EXCEPT ![m] = rebased]
      /\ work' = [work EXCEPT ![m] = tree]
      /\ behind' = behind \ {m}
      (* the read-only half of a pass: mirror, state.json and collection *)
      /\ mirror' = [mirror EXCEPT ![m] = tree.bundles]
      /\ pass' = [pass EXCEPT ![m] =
           [NoPass EXCEPT !.step = "collected",
                          !.attempt = IF At(m, "idle") THEN PushRetries ELSE pass[m].attempt,
                          !.scan = [p \in Path |-> IF access[m][p] = "ok" THEN local[m][p] ELSE None],
                          !.seen = access[m],
                          !.base = state[m]]]
      /\ UNCHANGED <<origin, staged, wedged, files, state, store, pending, failed, first, count, history>>

(* The pull fails: no network, or a clone it will not touch. *)
PullFails(m) ==
  LET rebased == Rebase(root[m], head[m], origin)
  IN  /\ Pulling(m)
      /\ IF wedged[m] \/ Modified(m) \/ InTheWay(m, rebased)
           THEN UNCHANGED count
           ELSE Spend("offline")
      /\ Abort(m)
      /\ UNCHANGED <<origin, behind, clone, files, records, history>>

(* The rebase of an unpushed commit stops at a conflict: the clone is left *)
(* in the middle of it, and no later pull gets past that.                  *)
PullWedges(m) ==
  /\ PullReady(m)
  /\ ~Modified(m) /\ RebaseConflict(root[m], head[m], origin)
  /\ wedged' = [wedged EXCEPT ![m] = TRUE]
  /\ Abort(m)
  /\ UNCHANGED <<origin, behind, root, head, work, staged, files, records, count, history>>

-----------------------------------------------------------------------------
(***************************************************************************)
(* The queued conflict batch.  ApplyPendingBatch is one step here.         *)
(***************************************************************************)
(* The paths of the bundles that are answered and still open. *)
Selected(m) == {s.bundle.path : s \in {t \in pending[m] : t.bundle \in mirror[m]}}

(* preflightResolutionBatch: a selected path cannot be collected, the      *)
(* whole batch waits and its paths are left out of this pass.              *)
HoldBatch(m) ==
  /\ At(m, "collected") /\ pending[m] # {}
  /\ \E p \in Selected(m) : pass[m].seen[p] # "ok"
  /\ pass' = [pass EXCEPT ![m].step = "plan", ![m].held = Selected(m)]
  /\ UNCHANGED <<origin, behind, clone, files, records, count, history>>

BatchPasses(m) ==
  /\ At(m, "collected") /\ pending[m] # {}
  /\ \A p \in Selected(m) : pass[m].seen[p] = "ok"

(* A selected bundle was resolved elsewhere: the batch fails, and the pass. *)
FailBatch(m) ==
  /\ BatchPasses(m)
  /\ \E s \in pending[m] : s.bundle \notin mirror[m]
  /\ pending' = [pending EXCEPT ![m] = {}]
  /\ failed' = [failed EXCEPT ![m] = pending[m]]
  /\ Abort(m)
  /\ UNCHANGED <<origin, behind, clone, files, state, store, mirror, first, count, history>>

(* Each chosen content becomes the canonical file, the bundles go. *)
ApplyBatch(m) ==
  LET gone == {s.bundle : s \in pending[m]}
      chosen(p) == {s.content : s \in {t \in pending[m] : t.bundle.path = p}}
  IN  /\ BatchPasses(m)
      /\ gone \subseteq mirror[m]
      /\ \E content \in [Path -> File] :
           /\ \A p \in Path : IF chosen(p) = {} THEN content[p] = work[m].files[p]
                                                ELSE content[p] \in chosen(p)
           /\ work' = [work EXCEPT ![m].files = content, ![m].bundles = @ \ gone]
      /\ mirror' = [mirror EXCEPT ![m] = @ \ gone]
      /\ pending' = [pending EXCEPT ![m] = {}]
      /\ failed' = [failed EXCEPT ![m] = {}]
      /\ pass' = [pass EXCEPT ![m].step = "restore", ![m].applied = pending[m]]
      /\ history' = [history EXCEPT !.resolved = @ \cup gone]
      /\ UNCHANGED <<origin, behind, root, head, staged, wedged, files, state, store, first, count>>

(***************************************************************************)
(* restoreResolution for every applied selection, then the second          *)
(* collection.  A "local" choice adopts the canonical content as the base  *)
(* without touching the files; the others are written out first, and a     *)
(* path whose restore fails is left out of this pass.                      *)
(***************************************************************************)
Restore(m, broken) ==
  LET applied == {s.bundle.path : s \in pass[m].applied}
      written == {s.bundle.path : s \in {t \in pass[m].applied : t.choice # "local"}}
      restored == [p \in Path |-> IF p \in written \ broken
                                    THEN work[m].files[p] ELSE local[m][p]]
  IN  /\ At(m, "restore")
      /\ broken \subseteq written
      /\ IF broken = {} THEN UNCHANGED count ELSE Spend("troubles")
      /\ local' = [local EXCEPT ![m] = restored]
      /\ pass' = [pass EXCEPT
           ![m].step = "plan",
           ![m].base = [p \in Path |-> IF p \in applied \ broken
                                         THEN work[m].files[p] ELSE pass[m].base[p]],
           ![m].held = broken,
           ![m].seen = access[m],
           ![m].scan = [p \in Path |-> IF access[m][p] = "ok" THEN restored[p] ELSE None]]
      /\ UNCHANGED <<origin, behind, clone, access, records, history>>

-----------------------------------------------------------------------------
(***************************************************************************)
(* The plan.  prepareResourcePlan takes skipped paths out of all three     *)
(* snapshots; base, scan and the working tree at p stay as they are until  *)
(* p's own action, so the plan can be read off them when p is applied.     *)
(***************************************************************************)
Skipped(m) == {p \in Path : pass[m].seen[p] = "skipped"}
BaseOwned(m) == [p \in Path |-> IF p \in Skipped(m) THEN None ELSE pass[m].base[p]]

(* Mutant: a skipped path is planned like a missing file. *)
PlannedWithSkipped(m, p) ==
  LET l == pass[m].scan[p]
      r == work[m].files[p]
      action == Decide(pass[m].base[p], l, r, pass[m].seen[p] = "blocked")
  IN  IF m \in first THEN Directed(FirstMode[m], action, l, r) ELSE action

Planned(m, p) ==
  LET l == pass[m].scan[p]
      r == work[m].files[p]
      action == Decide(pass[m].base[p], l, r, pass[m].seen[p] = "blocked")
  IN  IF p \in Skipped(m) THEN "none"
      ELSE IF m \in first THEN Directed(FirstMode[m], action, l, r)
      ELSE action

(* Mutants: the exception for removals, or the suspension, forgotten. *)
SuspendedRemovals(m, p) == p \in ConflictPaths(m) /\ Planned(m, p) # "merge"
NeverSuspended(m, p) == FALSE

(* Actions on a path with an unresolved bundle are dropped, merges and     *)
(* removals of blocked content excepted.                                   *)
Suspended(m, p) == /\ p \in ConflictPaths(m)
                   /\ Planned(m, p) \notin {"merge", "remove-remote"}

(* The paths that keep their old base: a skipped one only while the        *)
(* repository has it, since its base is no longer in the plan.             *)
Kept(m) ==
  ConflictPaths(m) \cup {p \in Skipped(m) : work[m].files[p] # None} \cup pass[m].held

(* Mutant: the held paths are planned too. *)
PlanHeld(m) ==
  /\ At(m, "plan") \/ (At(m, "collected") /\ pending[m] = {})
  /\ pass' = [pass EXCEPT
       ![m].step = "apply",
       ![m].todo = {p \in Path : Planned(m, p) # "none" /\ ~Suspended(m, p)},
       ![m].keep = Kept(m)]
  /\ UNCHANGED <<origin, behind, clone, files, records, count, history>>

Plan(m) ==
  LET actions == {p \in Path \ pass[m].held : Planned(m, p) # "none"}
  IN  /\ At(m, "plan") \/ (At(m, "collected") /\ pending[m] = {})
      /\ pass' = [pass EXCEPT
           ![m].step = "apply",
           ![m].todo = {p \in actions : ~Suspended(m, p)},
           ![m].keep = Kept(m)]
      /\ UNCHANGED <<origin, behind, clone, files, records, count, history>>

-----------------------------------------------------------------------------
(***************************************************************************)
(* Applying the plan, one path after the other in sort order.              *)
(***************************************************************************)
Turn(m, p, action) ==
  /\ At(m, "apply") /\ p \in pass[m].todo
  /\ \A q \in pass[m].todo : p <= q
  /\ Planned(m, p) = action

Done(m, p) == pass' = [pass EXCEPT ![m].todo = @ \ {p}]
DoneKeeping(m, p) == pass' = [pass EXCEPT ![m].todo = @ \ {p}, ![m].keep = @ \cup {p}]

(* PushArtifact: the staged copy of the collection, not the file as it is now. *)
PushToRemote(m, p) ==
  /\ Turn(m, p, "push")
  /\ work' = [work EXCEPT ![m].files[p] = pass[m].scan[p]]
  /\ Done(m, p)
  /\ UNCHANGED <<origin, behind, root, head, staged, wedged, files, records, count, history>>

PullToLocal(m, p) ==
  /\ Turn(m, p, "pull")
  /\ local' = [local EXCEPT ![m][p] = work[m].files[p]]
  /\ Done(m, p)
  /\ UNCHANGED <<origin, behind, clone, access, records, count, history>>

DeleteLocal(m, p) ==
  /\ Turn(m, p, "delete-local")
  /\ local' = [local EXCEPT ![m][p] = None]
  /\ Done(m, p)
  /\ UNCHANGED <<origin, behind, clone, access, records, count, history>>

(* Restore or Delete fails: the path is reported and keeps its base. *)
LocalWriteFails(m, p) ==
  /\ Turn(m, p, "pull") \/ Turn(m, p, "delete-local")
  /\ Spend("troubles")
  /\ DoneKeeping(m, p)
  /\ UNCHANGED <<origin, behind, clone, files, records, history>>

(* SoftDeleteRemote, then Delete of what is left of it locally (aliases). *)
DeleteRemote(m, p) ==
  /\ Turn(m, p, "delete-remote")
  /\ work' = [work EXCEPT ![m].trash[p] = work[m].files[p], ![m].files[p] = None]
  /\ \/ /\ local' = [local EXCEPT ![m][p] = None]
        /\ Done(m, p)
        /\ UNCHANGED count
     \/ /\ Spend("troubles")
        /\ DoneKeeping(m, p)
        /\ UNCHANGED local
  /\ UNCHANGED <<origin, behind, root, head, staged, wedged, access, records, history>>

RemoveRemote(m, p) ==
  /\ Turn(m, p, "remove-remote")
  /\ work' = [work EXCEPT ![m].files[p] = None]
  /\ Done(m, p)
  /\ UNCHANGED <<origin, behind, root, head, staged, wedged, files, records, count, history>>

MergeResult(m, p) ==
  MergeOutcome(Strategy[p], store[m][p], pass[m].scan[p], work[m].files[p])

(* A clean merge is written to the repository, then to the agent file; if  *)
(* the second write fails the first one stays.                             *)
MergeBoth(m, p) ==
  LET merge == MergeResult(m, p)
  IN  /\ Turn(m, p, "merge") /\ merge.outcome = "clean"
      /\ work' = [work EXCEPT ![m].files[p] = merge.data]
      /\ \/ /\ local' = [local EXCEPT ![m][p] = merge.data]
            /\ Done(m, p)
            /\ UNCHANGED count
         \/ /\ Spend("troubles")
            /\ DoneKeeping(m, p)
            /\ UNCHANGED local
      /\ UNCHANGED <<origin, behind, root, head, staged, wedged, access, records, history>>

(* Mutant: an absent side stays absent. *)
NewBundleOfFiles(m, p) ==
  [path |-> p, base |-> store[m][p], local |-> pass[m].scan[p],
   remote |-> work[m].files[p]]

(* Store.Create: an absent side is stored as an empty file. *)
NewBundle(m, p) ==
  [path |-> p, base |-> AsBytes(store[m][p]), local |-> AsBytes(pass[m].scan[p]),
   remote |-> AsBytes(work[m].files[p])]

(* Mutant: without asking for an existing bundle. *)
MergeStopsAgain(m, p) ==
  /\ Turn(m, p, "merge") /\ MergeResult(m, p).outcome = "conflict"
  /\ work' = [work EXCEPT ![m].bundles = @ \cup {NewBundle(m, p)}]
  /\ mirror' = [mirror EXCEPT ![m] = @ \cup {NewBundle(m, p)}]
  /\ DoneKeeping(m, p)
  /\ UNCHANGED <<origin, behind, root, head, staged, wedged, files, state, store,
                 pending, failed, first, count, history>>

(* Both files stay; only a conflict, not an error, leaves a bundle. *)
MergeStops(m, p) ==
  LET outcome == MergeResult(m, p).outcome
      bundle == IF outcome = "conflict" /\ p \notin ConflictPaths(m)
                  THEN {NewBundle(m, p)} ELSE {}
  IN  /\ Turn(m, p, "merge") /\ outcome # "clean"
      /\ work' = [work EXCEPT ![m].bundles = @ \cup bundle]
      /\ mirror' = [mirror EXCEPT ![m] = @ \cup bundle]
      /\ DoneKeeping(m, p)
      /\ UNCHANGED <<origin, behind, root, head, staged, wedged, files, state, store,
                     pending, failed, first, count, history>>

-----------------------------------------------------------------------------
(***************************************************************************)
(* Commit and push.                                                        *)
(***************************************************************************)
AddAll(m) ==
  /\ At(m, "apply") /\ pass[m].todo = {}
  /\ staged' = [staged EXCEPT ![m] = work[m] # head[m]]
  /\ GoTo(m, "commit")
  /\ UNCHANGED <<origin, behind, root, head, work, wedged, files, records, count, history>>

(* git add or git commit fails: the pass is over, the working tree stays.  *)
GitFails(m) ==
  /\ (At(m, "apply") /\ pass[m].todo = {}) \/ At(m, "commit")
  /\ Spend("cuts")
  /\ Abort(m)
  /\ UNCHANGED <<origin, behind, clone, files, records, history>>

(* Mutant: the base is saved before the push. *)
CommitThenSave(m) ==
  /\ At(m, "commit")
  /\ head' = [head EXCEPT ![m] = work[m]]
  /\ staged' = [staged EXCEPT ![m] = FALSE]
  /\ GoTo(m, "save")
  /\ UNCHANGED <<origin, behind, root, work, wedged, files, records, count, history>>

(* HasChanges looks at the working tree only: nothing new to commit means  *)
(* nothing is pushed.                                                      *)
Commit(m) ==
  /\ At(m, "commit")
  /\ head' = [head EXCEPT ![m] = work[m]]
  /\ staged' = [staged EXCEPT ![m] = FALSE]
  /\ GoTo(m, IF work[m] # head[m] THEN "push" ELSE "save")
  /\ UNCHANGED <<origin, behind, root, work, wedged, files, records, count, history>>

(* Mutant: a forced push. *)
ForcePublish(m) ==
  /\ origin' = head[m]
  /\ behind' = Machine \ {m}
  /\ history' = [history EXCEPT
       !.published = [p \in Path |-> @[p] \cup ({head[m].files[p]} \ {None})],
       !.opened = @ \cup head[m].bundles]

(* origin takes a push only from a clone that has its last commit. *)
Publish(m) ==
  /\ m \notin behind
  /\ origin' = head[m]
  /\ behind' = Machine \ {m}
  /\ history' = [history EXCEPT
       !.published = [p \in Path |-> @[p] \cup ({head[m].files[p]} \ {None})],
       !.opened = @ \cup head[m].bundles]

PushAccepted(m) ==
  /\ At(m, "push")
  /\ Publish(m)
  /\ root' = [root EXCEPT ![m] = head[m]]
  /\ GoTo(m, "save")
  /\ UNCHANGED <<head, work, staged, wedged, files, records, count>>

(* Mutant: no retry. *)
GiveUpAtOnce(m) == Abort(m)

Retries(m) == pass[m].attempt > 1
GiveUp(m) == IF Retries(m) THEN GoTo(m, "fetch") ELSE Abort(m)
Strand(m) == history' = [history EXCEPT !.stranded = @ \cup {m}]

(* Rejected, or no network; without attempts left the commit just stays. *)
PushFails(m) ==
  /\ At(m, "push")
  /\ \/ m \in behind /\ UNCHANGED count
     \/ m \notin behind /\ Spend("offline")
  /\ GiveUp(m)
  /\ IF Retries(m) THEN UNCHANGED history ELSE Strand(m)
  /\ UNCHANGED <<origin, behind, clone, files, records>>

(* The push arrived but its acknowledgement did not. *)
PushUnacknowledged(m) ==
  /\ At(m, "push")
  /\ Publish(m)
  /\ Spend("offline")
  /\ GiveUp(m)
  /\ root' = [root EXCEPT ![m] = head[m]]
  /\ UNCHANGED <<head, work, staged, wedged, files, records>>

(* FetchOrigin, ResetKeepUpstream, and syncOnce again. *)
FetchAndReset(m) ==
  /\ At(m, "fetch") /\ Retries(m)
  /\ root' = [root EXCEPT ![m] = origin]
  /\ head' = [head EXCEPT ![m] = origin]
  /\ work' = [work EXCEPT ![m] = origin]
  /\ behind' = behind \ {m}
  /\ pass' = [pass EXCEPT ![m] = [NoPass EXCEPT !.step = "retry",
                                                !.attempt = pass[m].attempt - 1]]
  /\ UNCHANGED <<origin, staged, wedged, files, records, count, history>>

FetchFails(m) ==
  /\ At(m, "fetch")
  /\ Spend("offline")
  /\ Abort(m)
  /\ Strand(m)
  /\ UNCHANGED <<origin, behind, clone, files, records>>

-----------------------------------------------------------------------------
(***************************************************************************)
(* The next base: state.json first, the base store after it.  The answer a *)
(* path adopted as its base is in neither record before the pass saves     *)
(* them: when the path is preserved, state.json takes it and the base      *)
(* store keeps what it has.                                                *)
(***************************************************************************)
Preserved(m) == pass[m].keep \cup ConflictPaths(m)

Save(m) ==
  /\ At(m, "save")
  /\ state' = [state EXCEPT ![m] =
       PreserveSnapshot(BaseOwned(m), work[m].files, Preserved(m))]
  /\ pass' = [pass EXCEPT ![m].step = "capture", ![m].loaded = state[m]]
  /\ history' = [history EXCEPT !.apart = @ \cup
       {<<m, p>> : p \in {q \in Preserved(m) : pass[m].base[q] # state[m][q]}}]
  /\ UNCHANGED <<origin, behind, clone, files, store, mirror, pending, failed, first, count>>

(* Mutant: every path is captured. *)
CaptureAll(m) ==
  /\ At(m, "capture")
  /\ store' = [store EXCEPT ![m] = work[m].files]
  /\ GoTo(m, "mark")
  /\ UNCHANGED <<origin, behind, clone, files, state, mirror, pending, failed, first, count, history>>

Capture(m) ==
  /\ At(m, "capture")
  /\ store' = [store EXCEPT ![m] =
       PreserveSnapshot(store[m], work[m].files, Preserved(m))]
  /\ GoTo(m, "mark")
  /\ history' = [history EXCEPT !.apart = @ \ {<<m, p>> : p \in Path \ Preserved(m)}]
  /\ UNCHANGED <<origin, behind, clone, files, state, mirror, pending, failed, first, count>>

(* The base store cannot be written: state.json is put back. *)
CaptureFails(m) ==
  /\ At(m, "capture")
  /\ Spend("troubles")
  /\ state' = [state EXCEPT ![m] = pass[m].loaded]
  /\ Abort(m)
  /\ UNCHANGED <<origin, behind, clone, files, store, mirror, pending, failed, first, history>>

(* RunSync marks the first synchronization completed in the configuration. *)
MarkFirstSync(m) ==
  /\ At(m, "mark")
  /\ first' = first \ {m}
  /\ Abort(m)
  /\ UNCHANGED <<origin, behind, clone, files, state, store, mirror, pending, failed, count, history>>

-----------------------------------------------------------------------------
Init ==
  /\ origin = EmptyTree
  /\ behind = {}
  /\ root = [m \in Machine |-> EmptyTree]
  /\ head = [m \in Machine |-> EmptyTree]
  /\ work = [m \in Machine |-> EmptyTree]
  /\ staged = [m \in Machine |-> FALSE]
  /\ wedged = [m \in Machine |-> FALSE]
  /\ local = [m \in Machine |-> [p \in Path |-> None]]
  /\ access = [m \in Machine |-> [p \in Path |-> "ok"]]
  /\ state = [m \in Machine |-> [p \in Path |-> None]]
  /\ store = [m \in Machine |-> [p \in Path |-> None]]
  /\ mirror = [m \in Machine |-> {}]
  /\ pending = [m \in Machine |-> {}]
  /\ failed = [m \in Machine |-> {}]
  /\ first = Machine
  /\ pass = [m \in Machine |-> NoPass]
  /\ count = [kind \in Bounded |-> 0]
  /\ history = [published |-> [p \in Path |-> {}], opened |-> {}, resolved |-> {},
                deleted |-> {}, stranded |-> {}, apart |-> {},
                tombs |-> [m \in Machine |-> [p \in Path |-> None]]]

(* Answers a user can give to the visible conflicts: one per bundle. *)
Answers(m) ==
  {{[bundle |-> b, choice |-> answer[b][1], content |-> answer[b][2]] : b \in mirror[m]} :
     answer \in [mirror[m] -> Variant \X Content]}

UserStep(m) ==
  \/ \E p \in Path, file \in File : Edit(m, p, file)
  \/ \E p \in Path, a \in Access : ChangeAccess(m, p, a)
  \/ \E selections \in Answers(m) : QueueBatch(m, selections)

BatchStep(m) ==
  \/ HoldBatch(m) \/ FailBatch(m) \/ ApplyBatch(m)
  \/ \E broken \in SUBSET Path : Restore(m, broken)

ApplyStep(m) ==
  \E p \in Path :
    \/ PushToRemote(m, p) \/ PullToLocal(m, p) \/ DeleteLocal(m, p)
    \/ LocalWriteFails(m, p) \/ DeleteRemote(m, p) \/ RemoveRemote(m, p)
    \/ MergeBoth(m, p) \/ MergeStops(m, p)

PublishStep(m) ==
  \/ AddAll(m) \/ Commit(m) \/ GitFails(m)
  \/ PushAccepted(m) \/ PushFails(m) \/ PushUnacknowledged(m)
  \/ FetchAndReset(m) \/ FetchFails(m)

FinishStep(m) == Save(m) \/ Capture(m) \/ CaptureFails(m) \/ MarkFirstSync(m)

(* What the program does by itself, the scheduler starting passes forever. *)
SyncStep(m) ==
  \/ Pull(m) \/ PullFails(m) \/ PullWedges(m)
  \/ BatchStep(m) \/ Plan(m) \/ ApplyStep(m)
  \/ PublishStep(m) \/ FinishStep(m)

Next == \E m \in Machine : UserStep(m) \/ Crash(m) \/ SyncStep(m)

Spec == Init /\ [][Next]_vars

(* The scheduler runs passes on every machine; users owe nothing. *)
FairSpec == Spec /\ \A m \in Machine : WF_vars(SyncStep(m))

-----------------------------------------------------------------------------
HistoryType ==
  [published: [Path -> SUBSET Content], opened: SUBSET Bundle, resolved: SUBSET Bundle,
   deleted: SUBSET Path, stranded: SUBSET Machine, apart: SUBSET (Machine \X Path),
   tombs: [Machine -> [Path -> File]]]

(* Every variable has its type. *)
TypeOK ==
  /\ origin \in Tree
  /\ behind \subseteq Machine
  /\ root \in [Machine -> Tree]
  /\ head \in [Machine -> Tree]
  /\ work \in [Machine -> Tree]
  /\ staged \in [Machine -> BOOLEAN]
  /\ wedged \in [Machine -> BOOLEAN]
  /\ local \in [Machine -> [Path -> File]]
  /\ access \in [Machine -> [Path -> Access]]
  /\ state \in [Machine -> [Path -> File]]
  /\ store \in [Machine -> [Path -> File]]
  /\ mirror \in [Machine -> SUBSET Bundle]
  /\ pending \in [Machine -> SUBSET Selection]
  /\ failed \in [Machine -> SUBSET Selection]
  /\ first \subseteq Machine
  /\ pass \in [Machine -> Pass]
  /\ count \in [Bounded -> Nat]
  /\ history \in HistoryType
=============================================================================
