---------------------------- MODULE InstallPlan ----------------------------
(***************************************************************************)
(* Plugins and Skill dependencies (internal/installplan, and the branches  *)
(* of internal/syncengine/engine.go for install manifests).  What is       *)
(* shared is not the plugins but a manifest that lists them: every pass    *)
(* collects the installed plugins as a file, reconciles it like any other  *)
(* file, and turns what the manifest then wants and what is installed into *)
(* a plan of commands.  A command runs once its source was approved.       *)
(***************************************************************************)
EXTENDS Naturals, FiniteSets

CONSTANTS
  Machine,     (* the user's computers *)
  Plugin,      (* plugin sources, numbered in their order *)
  MaxVersion,  (* bound on the versions of a plugin and of the lock file *)
  Budgets      (* bounds on every kind of environment step, one taken per behaviour *)

(* What the user does with plugins; approvals; commands and backups that   *)
(* fail, passes that die and inventories that cannot be taken.             *)
Bounded == {"user", "clicks", "troubles"}

(* The strategies of a first synchronization (config.go).                  *)
Direction == {"merge-cloud-local", "use-cloud", "use-local"}

ASSUME InstallAssumption ==
  /\ Plugin \subseteq Nat \ {0}
  /\ MaxVersion \in Nat \ {0}
  /\ \A b \in Budgets : b \in [Bounded -> Nat]

None == [none |-> TRUE]

(* Declarations by source.  A plugin may be installed and disabled.  An    *)
(* inventory without plugins yields no file.                               *)
Absent == [version |-> 0, enabled |-> FALSE]
Declaration == {Absent} \cup [version: 1..MaxVersion, enabled: BOOLEAN]
Manifest == [Plugin -> Declaration]
NoFile == [p \in Plugin |-> Absent]

(* The manifest asks a computer without plugins to install something.      *)
Wanted(manifest) == \E p \in Plugin : manifest[p].enabled

(* The repository: the manifest, the lock file of a shared Skill (0 if it  *)
(* has none), and whether a conflict on the manifest is open.              *)
Tree == [plugins: Manifest, lock: 0..MaxVersion, contested: BOOLEAN]

(* The Skill with the lock file is one more source, of another adapter.    *)
Skill == 0
Source == Plugin \cup {Skill}
Kind == {"install", "uninstall", "update", "dependencies"}
Operation == [kind: Kind, source: Source, version: 1..MaxVersion]

(* A plan is identified by the declarations and operations it was made of. *)
Plan == [declared: Manifest, lock: 0..MaxVersion, all: SUBSET Operation,
         left: SUBSET Operation, errors: SUBSET Operation]
ID(plan) == <<plan.declared, plan.lock, plan.all>>

Step == {"idle", "collected", "run", "mark", "publish", "save", "complete"}
Pass == [step: Step, root: Tree, repo: Tree, current: Manifest,
         skipped: BOOLEAN, keep: BOOLEAN, plan: Plan, todo: SUBSET Operation,
         left: SUBSET Operation, errors: SUBSET Operation,
         running: SUBSET Operation]

VARIABLES
  origin,     (* the shared repository *)
  installed,  (* each machine's plugins *)
  base,       (* the manifest in each machine's state.json *)
  first,      (* the strategy of a first synchronization not yet completed, or "done" *)
  approvals,  (* approvals.json: sources *)
  applied,    (* applied.json: operations *)
  pending,    (* pending.json: a plan or None *)
  pass,       (* each machine's running pass *)
  shown,      (* the plan on the screen *)
  granting,   (* operations that ApproveInstallPlan has read and not yet approved *)
  budget,     (* environment steps left, by kind *)
  reviewed,   (* history: sources of the plans the user approved as displayed *)
  latest,     (* history: the last plan each machine has saved *)
  touched,    (* history: machines that ever had a plugin *)
  forgotten,  (* history: machines that saw a manifest that wants nothing and *)
              (* have not saved a base since *)
  owed        (* history: commands that failed since a manifest last changed *)

store == <<approvals, applied, pending>>
window == <<shown, granting>>
past == <<reviewed, latest, touched, forgotten, owed>>
vars == <<origin, installed, base, first, store, pass, window, budget, past>>

-----------------------------------------------------------------------------
EmptyTree == [plugins |-> NoFile, lock |-> 0, contested |-> FALSE]
EmptyPlan == [declared |-> NoFile, lock |-> 0, all |-> {}, left |-> {}, errors |-> {}]
Idle == [step |-> "idle", root |-> EmptyTree, repo |-> EmptyTree,
         current |-> NoFile, skipped |-> FALSE, keep |-> FALSE,
         plan |-> EmptyPlan, todo |-> {}, left |-> {}, errors |-> {},
         running |-> {}]

At(m, step) == pass[m].step = step
Spend(kind) ==
  /\ budget[kind] > 0
  /\ budget' = [budget EXCEPT ![kind] = @ - 1]

(***************************************************************************)
(* The operations that turn what is installed into what is desired.  A     *)
(* plugin that is declared disabled is left as it is.                      *)
(***************************************************************************)
PluginKind(desired, current, p) ==
  IF desired[p] = Absent THEN IF current[p] = Absent THEN "none" ELSE "uninstall"
  ELSE IF ~desired[p].enabled THEN "none"
  ELSE IF current[p] = Absent THEN "install"
  ELSE IF desired[p].version # current[p].version THEN "update" ELSE "none"

PluginOperations(desired, current) ==
  {[kind    |-> PluginKind(desired, current, p),
    source  |-> p,
    version |-> IF desired[p] = Absent THEN current[p].version ELSE desired[p].version] :
     p \in {q \in Plugin : PluginKind(desired, current, q) # "none"}}

SkillOperations(lock) ==
  IF lock = 0 THEN {}
  ELSE {[kind |-> "dependencies", source |-> Skill, version |-> lock]}

NewPlan(repo, current) ==
  LET operations == PluginOperations(repo.plugins, current) \cup SkillOperations(repo.lock)
  IN  [declared |-> repo.plugins, lock |-> repo.lock,
       all |-> operations, left |-> operations, errors |-> {}]

(* Operations run in the order of their identity: adapter, kind, source.   *)
KindRank == [install |-> 1, uninstall |-> 2, update |-> 3, dependencies |-> 4]
Before(a, b) == \/ KindRank[a.kind] < KindRank[b.kind]
                \/ KindRank[a.kind] = KindRank[b.kind] /\ a.source < b.source
NextOperation(m, op) ==
  /\ op \in pass[m].todo
  /\ \A other \in pass[m].todo \ {op} : Before(op, other)

(* Mutant: a missing inventory is taken for uninstalled plugins. *)
NeverPending(m) == FALSE

(* The pending plan has an install or update of the manifest's adapter.    *)
PendingInstall(m) ==
  /\ pending[m] # None
  /\ \E op \in pending[m].left : op.kind \in {"install", "update"}

-----------------------------------------------------------------------------
(***************************************************************************)
(* The pass.  Collect pulls and takes the inventory; when a plugin command *)
(* line tool fails, the manifest is skipped and no current plugin is known.*)
(***************************************************************************)
Collect(m) ==
  /\ At(m, "idle")
  /\ \/ /\ pass' = [pass EXCEPT ![m] = [Idle EXCEPT
                      !.step = "collected", !.root = origin, !.repo = origin,
                      !.current = installed[m]]]
        /\ UNCHANGED budget
     \/ /\ Spend("troubles")
        /\ pass' = [pass EXCEPT ![m] = [Idle EXCEPT
                      !.step = "collected", !.root = origin, !.repo = origin,
                      !.skipped = TRUE]]
  /\ UNCHANGED <<origin, installed, base, first, store, window, past>>

(***************************************************************************)
(* What reconciliation does to the manifest in the working tree, and       *)
(* whether the path keeps its base.  A first synchronization turns actions *)
(* the way that was chosen.  A pull or a deletion of the manifest changes  *)
(* nothing here: Reconcile acts on what the repository wants.              *)
(***************************************************************************)
Planned(local, there, known) ==
  CASE local = known /\ there = known -> "none"
    [] local # known /\ there = known -> IF local = NoFile THEN "DeleteRemote" ELSE "PushToRemote"
    [] local = known /\ there # known -> IF there = NoFile THEN "DeleteLocal" ELSE "PullToLocal"
    [] OTHER -> IF local = there THEN "none" ELSE "MergeBoth"

Directed(direction, action, local) ==
  CASE direction = "use-cloud" /\ action \in {"PushToRemote", "MergeBoth"} -> "none"
    [] direction = "use-local" /\ action = "PullToLocal" -> "DeleteRemote"
    [] direction = "use-local" /\ action = "MergeBoth" ->
         IF local = NoFile THEN "DeleteRemote" ELSE "PushToRemote"
    [] OTHER -> action

Reconciled(m) ==
  LET local == pass[m].current
      repo == pass[m].repo
      action == Directed(first[m], Planned(local, repo.plugins, base[m]), local)
  IN  IF pass[m].skipped \/ repo.contested THEN <<repo, TRUE>>
      ELSE CASE action = "MergeBoth" -> <<[repo EXCEPT !.contested = TRUE], TRUE>>
             [] action = "DeleteRemote" ->
                  IF PendingInstall(m) THEN <<repo, TRUE>>
                  ELSE <<[repo EXCEPT !.plugins = NoFile], FALSE>>
             [] action = "PushToRemote" -> <<[repo EXCEPT !.plugins = local], FALSE>>
             [] OTHER -> <<repo, FALSE>>

(***************************************************************************)
(* The manifest's action and then Manager.Reconcile up to Execute: a plan  *)
(* without operations clears whatever is pending, any other is saved first.*)
(***************************************************************************)
Reconcile(m) ==
  /\ At(m, "collected")
  /\ LET result == Reconciled(m)
         plan == NewPlan(result[1], pass[m].current)
         empty == plan.all = {}
     IN  /\ pass' = [pass EXCEPT ![m] = [@ EXCEPT
                       !.repo = result[1], !.keep = result[2], !.plan = plan,
                       !.todo = plan.all, !.step = IF empty THEN "publish" ELSE "run"]]
         /\ pending' = [pending EXCEPT ![m] = IF empty THEN None ELSE plan]
         /\ latest' = [latest EXCEPT ![m] = plan]
  /\ forgotten' = IF Wanted(pass[m].repo.plugins) THEN forgotten ELSE forgotten \cup {m}
  /\ UNCHANGED <<origin, installed, base, first, approvals, applied, window, budget,
                 reviewed, touched, owed>>

(***************************************************************************)
(* Executor.Execute, one operation at a time.                              *)
(***************************************************************************)
Skip(m, op) ==
  /\ At(m, "run") /\ NextOperation(m, op)
  /\ op \in applied[m]
  /\ pass' = [pass EXCEPT ![m].todo = @ \ {op}]
  /\ UNCHANGED <<origin, installed, base, first, store, window, budget, past>>

Hold(m, op) ==
  /\ At(m, "run") /\ NextOperation(m, op)
  /\ op \notin applied[m] /\ op.source \notin approvals[m]
  /\ pass' = [pass EXCEPT ![m].todo = @ \ {op}, ![m].left = @ \cup {op}]
  /\ UNCHANGED <<origin, installed, base, first, store, window, budget, past>>

Runnable(m, op) ==
  /\ At(m, "run") /\ NextOperation(m, op)
  /\ op \notin applied[m] /\ op.source \in approvals[m]

Effect(op, plugins) ==
  IF op.kind = "dependencies" THEN plugins
  ELSE [plugins EXCEPT ![op.source] =
          CASE op.kind = "uninstall" -> Absent
            [] op.kind = "install" -> [version |-> op.version, enabled |-> TRUE]
            [] op.kind = "update" /\ @ # Absent -> [@ EXCEPT !.version = op.version]
            [] OTHER -> @]

Run(m, op) ==
  /\ Runnable(m, op)
  /\ installed' = [installed EXCEPT ![m] = Effect(op, @)]
  /\ touched' = IF op.kind = "dependencies" THEN touched ELSE touched \cup {m}
  /\ pass' = [pass EXCEPT ![m].step = "mark", ![m].todo = @ \ {op},
                ![m].running = {op}]
  /\ UNCHANGED <<origin, base, first, store, window, budget, reviewed, latest, forgotten, owed>>

(* Nobody else has anything to publish: the inventory of this pass is still *)
(* true, origin has not moved, and the other machines agree with it.  The  *)
(* first synchronization is over.                                          *)
Settled(m) ==
  /\ first[m] = "done"
  /\ installed[m] = pass[m].current
  /\ origin = pass[m].root
  /\ \A n \in Machine \ {m} :
       At(n, "idle") /\ installed[n] = origin.plugins /\ base[n] = origin.plugins

(* The command fails without effect and the operation stays pending.       *)
RunFails(m, op) ==
  /\ Runnable(m, op)
  /\ Spend("troubles")
  /\ pass' = [pass EXCEPT ![m].todo = @ \ {op}, ![m].left = @ \cup {op},
                ![m].errors = @ \cup {op}]
  /\ owed' = [owed EXCEPT ![m] = @ \cup {o \in {op} : Settled(m)}]
  /\ UNCHANGED <<origin, installed, base, first, store, window, reviewed, latest, touched, forgotten>>

(* backupPlugin fails before an uninstallation and ends the pass.          *)
BackupFails(m, op) ==
  /\ Runnable(m, op) /\ op.kind = "uninstall"
  /\ Spend("troubles")
  /\ pass' = [pass EXCEPT ![m] = Idle]
  /\ UNCHANGED <<origin, installed, base, first, store, window, past>>

MarkApplied(m) ==
  /\ At(m, "mark")
  /\ applied' = [applied EXCEPT ![m] = @ \cup pass[m].running]
  /\ owed' = [owed EXCEPT ![m] = @ \ pass[m].running]
  /\ pass' = [pass EXCEPT ![m].step = "run", ![m].running = {}]
  /\ UNCHANGED <<origin, installed, base, first, approvals, pending, window, budget,
                 reviewed, latest, touched, forgotten>>

(* Mutant: only failures are kept, not what waits for approval. *)
FinishClears(m) ==
  /\ At(m, "run") /\ pass[m].todo = {}
  /\ pending' = [pending EXCEPT ![m] =
                   IF pass[m].errors # {} THEN [pass[m].plan EXCEPT !.left = pass[m].errors]
                   ELSE None]
  /\ pass' = [pass EXCEPT ![m].step = "publish"]
  /\ UNCHANGED <<origin, installed, base, first, approvals, applied, window, budget, past>>

(* The end of Execute: the plan is cleared, or saved with what is left.    *)
Finish(m) ==
  /\ At(m, "run") /\ pass[m].todo = {}
  /\ LET plan == [pass[m].plan EXCEPT !.left = pass[m].left, !.errors = pass[m].errors]
         same == pending[m] # None /\ ID(pending[m]) = ID(plan)
     IN  pending' = [pending EXCEPT ![m] =
                       IF plan.left # {} THEN plan ELSE IF same THEN None ELSE @]
  /\ pass' = [pass EXCEPT ![m].step = "publish"]
  /\ UNCHANGED <<origin, installed, base, first, approvals, applied, window, budget, past>>

(***************************************************************************)
(* Commit and push.  A push that is rejected because origin has moved ends *)
(* in another attempt on the new origin.                                   *)
(***************************************************************************)
Publish(m) ==
  /\ At(m, "publish")
  /\ \/ /\ pass[m].repo = pass[m].root \/ origin = pass[m].root
        /\ origin' = IF pass[m].repo = pass[m].root THEN origin ELSE pass[m].repo
        /\ pass' = [pass EXCEPT ![m].step = "save"]
     \/ /\ pass[m].repo # pass[m].root /\ origin # pass[m].root
        /\ pass' = [pass EXCEPT ![m] = Idle]
        /\ UNCHANGED origin
  /\ UNCHANGED <<installed, base, first, store, window, budget, past>>

(* state.json: the manifest of the repository, unless the path keeps its   *)
(* base.  A manifest whose inventory was skipped is taken out of the base  *)
(* before the plan is made, so it has none to keep.                        *)
Save(m) ==
  /\ At(m, "save")
  /\ base' = [base EXCEPT ![m] = IF pass[m].skipped THEN NoFile
                                ELSE IF pass[m].keep THEN @ ELSE pass[m].repo.plugins]
  /\ pass' = [pass EXCEPT ![m] = IF first[m] = "done" THEN Idle ELSE [@ EXCEPT !.step = "complete"]]
  /\ forgotten' = IF pass[m].keep /\ ~pass[m].skipped THEN forgotten ELSE forgotten \ {m}
  /\ UNCHANGED <<origin, installed, first, store, window, budget, reviewed, latest, touched, owed>>

(* RunSync marks the first synchronization completed.                      *)
MarkFirstSync(m) ==
  /\ At(m, "complete")
  /\ first' = [first EXCEPT ![m] = "done"]
  /\ pass' = [pass EXCEPT ![m] = Idle]
  /\ UNCHANGED <<origin, installed, base, store, window, budget, past>>

Crash(m) ==
  /\ ~At(m, "idle")
  /\ Spend("troubles")
  /\ pass' = [pass EXCEPT ![m] = Idle]
  /\ granting' = [granting EXCEPT ![m] = {}]
  /\ shown' = [shown EXCEPT ![m] = None]
  /\ UNCHANGED <<origin, installed, base, first, store, past>>

-----------------------------------------------------------------------------
(***************************************************************************)
(* The window: it shows pending.json as it is now and then.  Approve and   *)
(* retry name the plan displayed by its identifier; approve goes through   *)
(* the operations it has read one after the other, while a pass may run.   *)
(***************************************************************************)
Refresh(m) ==
  /\ budget["clicks"] > 0
  /\ pending[m] \notin {None, shown[m]}
  /\ shown' = [shown EXCEPT ![m] = pending[m]]
  /\ UNCHANGED <<origin, installed, base, first, store, pass, granting, budget, past>>

(* Mutant: the identifier of the plan displayed is not compared. *)
ApproveAnyPlan(m) ==
  /\ shown[m] # None /\ granting[m] = {} /\ pending[m] # None
  /\ Spend("clicks")
  /\ shown' = [shown EXCEPT ![m] = None]
  /\ granting' = [granting EXCEPT ![m] = pending[m].left]
  /\ reviewed' = [reviewed EXCEPT ![m] = @ \cup {op.source : op \in shown[m].left}]
  /\ UNCHANGED <<origin, installed, base, first, store, pass, latest, touched, forgotten, owed>>

ApproveInstallPlan(m) ==
  /\ shown[m] # None /\ granting[m] = {}
  /\ pending[m] # None /\ ID(pending[m]) = ID(shown[m])
  /\ Spend("clicks")
  /\ shown' = [shown EXCEPT ![m] = None]
  /\ granting' = [granting EXCEPT ![m] = pending[m].left]
  /\ reviewed' = [reviewed EXCEPT ![m] = @ \cup {op.source : op \in shown[m].left}]
  /\ UNCHANGED <<origin, installed, base, first, store, pass, latest, touched, forgotten, owed>>

Approve(m) ==
  \E op \in granting[m] :
    /\ approvals' = [approvals EXCEPT ![m] = @ \cup {op.source}]
    /\ granting' = [granting EXCEPT ![m] = @ \ {op}]
    /\ UNCHANGED <<origin, installed, base, first, applied, pending, pass, shown, budget, past>>

(* The user adds, upgrades, disables or removes a plugin with the agent's  *)
(* own tools.                                                              *)
UserChanges(m, p, declaration) ==
  /\ declaration # installed[m][p]
  /\ Spend("user")
  /\ installed' = [installed EXCEPT ![m][p] = declaration]
  /\ touched' = touched \cup {m}
  /\ owed' = [n \in Machine |-> {}]
  /\ UNCHANGED <<origin, base, first, store, pass, window, reviewed, latest, forgotten>>

(* Another pass publishes a changed lock file of the shared Skill.         *)
SkillChanges ==
  /\ origin.lock < MaxVersion
  /\ Spend("user")
  /\ origin' = [origin EXCEPT !.lock = @ + 1]
  /\ owed' = [n \in Machine |-> {}]
  /\ UNCHANGED <<installed, base, first, store, pass, window, reviewed, latest, touched, forgotten>>

-----------------------------------------------------------------------------
Init ==
  /\ origin = EmptyTree
  /\ installed = [m \in Machine |-> NoFile]
  /\ base = [m \in Machine |-> NoFile]
  /\ first \in [Machine -> Direction]
  /\ approvals = [m \in Machine |-> {}]
  /\ applied = [m \in Machine |-> {}]
  /\ pending = [m \in Machine |-> None]
  /\ pass = [m \in Machine |-> Idle]
  /\ shown = [m \in Machine |-> None]
  /\ granting = [m \in Machine |-> {}]
  /\ budget \in Budgets
  /\ reviewed = [m \in Machine |-> {}]
  /\ latest = [m \in Machine |-> EmptyPlan]
  /\ touched = {} /\ forgotten = {}
  /\ owed = [m \in Machine |-> {}]

ExecutorStep(m) ==
  \E op \in pass[m].todo :
    Skip(m, op) \/ Hold(m, op) \/ Run(m, op) \/ RunFails(m, op) \/ BackupFails(m, op)

Next ==
  \/ \E m \in Machine :
       \/ Collect(m) \/ Reconcile(m) \/ ExecutorStep(m) \/ MarkApplied(m)
       \/ Finish(m) \/ Publish(m) \/ Save(m) \/ MarkFirstSync(m) \/ Crash(m)
       \/ Refresh(m) \/ ApproveInstallPlan(m) \/ Approve(m)
       \/ \E p \in Plugin, d \in Declaration : UserChanges(m, p, d)
  \/ SkillChanges

Spec == Init /\ [][Next]_vars

-----------------------------------------------------------------------------
(* Every variable has its type. *)
TypeOK ==
  /\ origin \in Tree
  /\ installed \in [Machine -> Manifest] /\ base \in [Machine -> Manifest]
  /\ first \in [Machine -> Direction \cup {"done"}]
  /\ approvals \in [Machine -> SUBSET Source]
  /\ applied \in [Machine -> SUBSET Operation]
  /\ pending \in [Machine -> Plan \cup {None}]
  /\ pass \in [Machine -> Pass]
  /\ shown \in [Machine -> Plan \cup {None}]
  /\ granting \in [Machine -> SUBSET Operation]
  /\ budget \in [Bounded -> Nat]
  /\ reviewed \in [Machine -> SUBSET Source]
  /\ latest \in [Machine -> Plan]
  /\ touched \subseteq Machine /\ forgotten \subseteq Machine
  /\ owed \in [Machine -> SUBSET Operation]

(***************************************************************************)
(* A machine runs a command only for a source the user has approved there  *)
(* on a plan that displayed it, although passes replace the plan while it  *)
(* is on the screen and while the approval is being written.               *)
(* (desktop/resources.go ApproveInstallPlan, executor.go Execute)          *)
(***************************************************************************)
ReviewedOnly ==
  \A m \in Machine :
    \A op \in pass[m].running \cup pass[m].errors \cup applied[m] :
      op.source \in reviewed[m]

(***************************************************************************)
(* Whatever cut the last pass short, each operation it planned has been    *)
(* recorded as applied or is in pending.json, where the user can see,      *)
(* approve or retry it.  (manager.go Reconcile, executor.go Execute)       *)
(***************************************************************************)
UnfinishedStaysPending ==
  \A m \in Machine :
    \/ latest[m].all \subseteq applied[m]
    \/ pending[m] # None /\ latest[m].all \ applied[m] \subseteq pending[m].left

(***************************************************************************)
(* A computer that never had a plugin takes none from the shared manifest, *)
(* however long its own installations wait for approval, fail, or are cut  *)
(* short by its death (engine.go pendingInstallForAdapter).  Except: in a  *)
(* first synchronization that the user told to use this computer's state;  *)
(* and after a pass of it found a manifest that enables no plugin, which   *)
(* clears the pending plan, until a pass of it has saved a base again: the *)
(* empty inventory then looks like a removal of whatever the old base has. *)
(* That pass may itself have adopted a manifest of disabled plugins, which *)
(* is not protected at all: see ManifestIsKept.                            *)
(***************************************************************************)
Chosen(m) == first[m] = "use-local"

NewcomerTakesNothing ==
  [][\A m \in Machine :
       Publish(m) /\ m \notin touched \cup forgotten /\ ~Chosen(m) =>
         \A p \in Plugin : origin.plugins[p] # Absent => origin'.plugins[p] # Absent]_vars

(***************************************************************************)
(* The same without regard to what the manifest asks for, which the code   *)
(* does not keep: when every plugin declared is disabled there is nothing  *)
(* to install, so nothing is pending; the pass adopts the manifest as its  *)
(* base and the next one publishes the empty inventory as a removal.       *)
(***************************************************************************)
ManifestIsKept ==
  [][\A m \in Machine :
       Publish(m) /\ m \notin touched /\ ~Chosen(m) =>
         \A p \in Plugin : origin.plugins[p] # Absent => origin'.plugins[p] # Absent]_vars

(***************************************************************************)
(* docs/portable-resources.md: "Failed commands remain pending."           *)
(* As long as the computers agree on everything else, nobody changes a     *)
(* plugin or a lock file, and after the first synchronization.             *)
(***************************************************************************)
FailedRemains ==
  \A m \in Machine :
    At(m, "idle") /\ owed[m] # {} => pending[m] # None /\ owed[m] \subseteq pending[m].left
=============================================================================
