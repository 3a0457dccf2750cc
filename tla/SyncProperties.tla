--------------------------- MODULE SyncProperties ---------------------------
(***************************************************************************)
(* What the synchronization engine promises, and what its documents say of *)
(* it that it does not do.                                                 *)
(***************************************************************************)
EXTENDS SyncEngine

Conflicted(p) == \E b \in origin.bundles : b.path = p

(***************************************************************************)
(* A conflict that reached the shared repository stays there until some    *)
(* user answers it: no pass, retry, rebase, crash or push of another       *)
(* machine makes a bundle disappear (Store.Create, reset --keep, rebase).  *)
(***************************************************************************)
NoConflictLost == history.opened \subseteq origin.bundles \cup history.resolved

(* Why: a clone drops a bundle on the way origin -> root -> HEAD -> working *)
(* tree only by an answer, and origin accepts only clones up to date.      *)
ConflictInv ==
  /\ NoConflictLost
  /\ \A m \in Machine \ behind : root[m] = origin
  /\ \A m \in Machine : root[m].bundles \subseteq head[m].bundles \cup history.resolved
  /\ \A m \in Machine : head[m].bundles \subseteq work[m].bundles \cup history.resolved

(***************************************************************************)
(* A file vanishes from the shared repository only if a user deleted it    *)
(* (or put a secret in it), or a machine started with use-local: a file    *)
(* that could not be read, a path that could not be written, a rolled back *)
(* state.json or an interrupted pass is never taken for a deletion.  Not   *)
(* promised where an answered conflict decided (see AnswerIsPublished),    *)
(* where a push was abandoned (its content comes and goes again), and with *)
(* use-cloud, which may delete a local file whose shared copy then counts  *)
(* as deleted here (see CloudIsAuthority).                                 *)
(***************************************************************************)
NoPhantomDeletion ==
  \A p \in Path :
    history.published[p] # {} /\ origin.files[p] = None =>
      \/ p \in history.deleted
      \/ \E m \in Machine : FirstMode[m] # "merge"
      \/ \E b \in history.resolved : b.path = p
      \/ history.stranded # {}

(***************************************************************************)
(* The base a machine compares with was really shared: state.json is saved *)
(* only after the push, so it never names content that lives on one        *)
(* machine only (which the next pull would overwrite as "unchanged").  An  *)
(* answer is adopted before it is shared; a path that keeps such a base    *)
(* while its file is withdrawn again is apart.                             *)
(***************************************************************************)
BaseWasShared ==
  \A m \in Machine \ history.stranded, p \in Path :
    <<m, p>> \notin history.apart /\ state[m][p] # None
      => state[m][p] \in history.published[p]

(***************************************************************************)
(* The two records of the base agree once a pass is over: the base store   *)
(* holds the contents whose hashes state.json holds, or a three-way merge  *)
(* would start from another version than the plan that asked for it.  The  *)
(* exception is a death between the two writes, until a later pass writes  *)
(* both again for that path.                                               *)
(***************************************************************************)
BasesAgree ==
  \A m \in Machine : At(m, "apply") => \A p \in pass[m].todo :
     Planned(m, p) = "merge" /\ pass[m].base[p] # None /\ <<m, p>> \notin history.apart
        => store[m][p] = pass[m].base[p]

(***************************************************************************)
(* When no pass is cut short a path has at most one open conflict, however *)
(* many machines meet it at once: who loses the push adopts the winner's   *)
(* bundle instead of opening its own (conflictExists after the retry).     *)
(***************************************************************************)
NothingCutShort == count["cuts"] = 0 /\ history.stranded = {}
OneOfEach(bundles) == \A b, c \in bundles : b.path = c.path => b = c

OneBundlePerPath == NothingCutShort => OneOfEach(origin.bundles)

(***************************************************************************)
(* While a conflict is open on this machine its canonical file is not      *)
(* removed, whatever happens to the local one, unless it must not be       *)
(* shared at all ("Deletion of an unresolved conflicted file is suspended" *)
(* ).                                                                      *)
(***************************************************************************)
ConflictedFileStays ==
  [][\A m \in Machine : \A p \in ConflictPaths(m) :
       At(m, "apply") /\ pass[m].seen[p] # "blocked" /\ work[m].files[p] # None
         => work'[m].files[p] # None]_vars

(***************************************************************************)
(* An answer whose agent file could not be written is published all the    *)
(* same: the old local file does not win it back within the pass.  (When   *)
(* two bundles of one path were answered, it is one of the two answers.)   *)
(***************************************************************************)
AnswersTo(m, p) == {s.content : s \in {t \in pass[m].applied : t.bundle.path = p}}

HeldAnswerSurvives ==
  \A m \in Machine : At(m, "save") => \A p \in pass[m].held :
    AnswersTo(m, p) # {} => head[m].files[p] \in AnswersTo(m, p)

(***************************************************************************)
(* What a blocked path held is gone from the commit a finished pass leaves *)
(* behind, conflicts and first-sync direction notwithstanding.  Except: a  *)
(* path held back because the answer to its conflict is still queued or    *)
(* was applied in this pass and could not be written out.  The engine      *)
(* leaves held paths out before it looks at what is planned for them       *)
(* (engine.go:323), so that there a blocked file stays published as long   *)
(* as its answer waits: see BlockedAlwaysLeaves.                           *)
(***************************************************************************)
AnswerWaits(m, p) == p \in Selected(m) \/ AnswersTo(m, p) # {}

BlockedLeaves ==
  \A m \in Machine : At(m, "save") =>
    \A p \in Path : pass[m].seen[p] = "blocked" =>
      \/ head[m].files[p] = None
      \/ p \in pass[m].held /\ AnswerWaits(m, p)

(***************************************************************************)
(* The same without the exception, which the code does not keep: while a   *)
(* batch waits for a blocked file, the file's content stays published.     *)
(***************************************************************************)
BlockedAlwaysLeaves ==
  \A m \in Machine : At(m, "save") =>
    \A p \in Path : pass[m].seen[p] = "blocked" => head[m].files[p] = None

(***************************************************************************)
(* A step of the engine replaces or deletes an agent file only if          *)
(*   - its content is in the shared repository's history, or               *)
(*   - every field its user changed survives in the new content, or        *)
(*   - the user asked for it: a resolution or a first-sync direction, or   *)
(*   - the user changed the file after it was collected (the window the    *)
(*     engine leaves open), or                                             *)
(*   - a push of this machine was cut short, or the two records of its     *)
(*     base came apart: it then compares with a version of its own, or     *)
(*     merges from another one than it compared with.                      *)
(* What the user changed is told from the version recorded last: what      *)
(* state.json names or, when it has forgotten a skipped path, what the     *)
(* base store still holds.                                                 *)
(***************************************************************************)
EngineStep == count'["edits"] = count["edits"]

Shared(p, file) == file \in history.published[p]

KeepsChanges(base, old, new) ==
  new # None /\ \A f \in Field : old[f] # AsBytes(base)[f] => new[f] = old[f]

Excused(m, p) ==
  \/ At(m, "restore")
  \/ m \in first /\ FirstMode[m] # "merge"
  \/ local[m][p] # pass[m].scan[p]
  \/ m \in history.stranded
  \/ <<m, p>> \in history.apart

Recorded(m, p) == IF state[m][p] # None THEN state[m][p] ELSE store[m][p]

Loses(m, p) ==
  /\ local[m][p] # None /\ local'[m][p] # local[m][p]
  /\ ~Shared(p, local[m][p])
  /\ ~KeepsChanges(Recorded(m, p), local[m][p], local'[m][p])

NoSilentOverwrite ==
  [][EngineStep => \A m \in Machine, p \in Path :
       Loses(m, p) => Excused(m, p)]_vars

(***************************************************************************)
(* A machine that starts with use-cloud takes the repository as it is: its *)
(* first pass puts nothing of its own into a file of it, and takes none    *)
(* away but blocked content and what a first pass that was not marked      *)
(* completed had recorded as the base (see CloudIsAuthority).              *)
(***************************************************************************)
UseCloudTrustsCloud ==
  [][\A m \in first, p \in Path : FirstMode[m] = "use-cloud" /\ At(m, "apply") =>
       \/ work'[m].files[p] = work[m].files[p]
       \/ /\ work'[m].files[p] = None
          /\ pass[m].seen[p] = "blocked" \/ pass[m].base[p] # None]_vars

(***************************************************************************)
(* When users leave their files alone and the network works, every machine *)
(* ends up with the shared content of every path without open conflict.    *)
(***************************************************************************)
InAgreement ==
  \A m \in Machine, p \in Path : ~Conflicted(p) => local[m][p] = origin.files[p]

Converges == <>[]InAgreement

-----------------------------------------------------------------------------
(***************************************************************************)
(* Statements of the documents that the runs refute.                       *)
(***************************************************************************)

(* Design of 2026-08-21: "Use cloud: remote snapshot becomes authority."   *)
(* So only users who delete files, or start with use-local, remove files   *)
(* from the repository.                                                    *)
CloudIsAuthority ==
  \A p \in Path :
    history.published[p] # {} /\ origin.files[p] = None =>
      \/ p \in history.deleted
      \/ \E m \in Machine : FirstMode[m] = "use-local"
      \/ \E b \in history.resolved : b.path = p
      \/ history.stranded # {}

(* docs/portable-resources.md: "A deletion is synchronized to other        *)
(* computers after the next successful cycle."  So no pull brings back, on *)
(* the machine that deleted it, the very version that was deleted.         *)
NoResurrection ==
  [][\A m \in Machine, p \in Path :
       history.tombs[m][p] # None /\ local[m][p] = None /\ EngineStep
         => local'[m][p] # history.tombs[m][p]]_vars

(* restoreResolution "makes the local agent files match a resolved         *)
(* conflict"; "a local choice already matches the local files".  So what   *)
(* the pass that applies an answer leaves in the repository is the answer. *)
AnswerIsPublished ==
  \A m \in Machine : At(m, "save") => \A s \in pass[m].applied :
    s.bundle.path \notin pass[m].held => head[m].files[s.bundle.path] = s.content

(* docs/portable-resources.md: "Conflicting edits to the same value create *)
(* a conflict bundle while unrelated files continue synchronizing."        *)
EveryConflictOpened ==
  [][\A m \in Machine, p \in Path :
       /\ At(m, "apply") /\ pass'[m].step = "apply"
       /\ p \in pass[m].todo /\ p \notin pass'[m].todo
       /\ Planned(m, p) = "merge" /\ MergeResult(m, p).outcome # "clean"
       => \E b \in mirror'[m] : b.path = p]_vars

(* Design of 2026-08-13: "Retryable network failures preserve the current  *)
(* local state and retry on the next schedule".                            *)
NetworkFailuresPreserve ==
  [][EngineStep => \A m \in Machine, p \in Path :
       Loses(m, p) => local[m][p] # pass[m].scan[p]]_vars

=============================================================================
