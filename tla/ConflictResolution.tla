------------------------- MODULE ConflictResolution -------------------------
(***************************************************************************)
(* The queued batch of conflict answers on one machine                     *)
(* (internal/conflict/resolution.go and store.go), file by file.           *)
(*                                                                         *)
(* SyncEngine takes ApplyPendingBatch as one step; here each file it       *)
(* writes or removes is a step, and between two of them the process may    *)
(* die.  The pass around it keeps the order of engine.go: recovery, pull,  *)
(* mirror, batch, new conflicts, commit.  The desktop queues batches and   *)
(* resolves single conflicts meanwhile, under the locks of the store.      *)
(***************************************************************************)
EXTENDS Integers, FiniteSets, Sequences

CONSTANTS
  Conflict,   (* bundle identifiers, numbered in sort order *)
  Path,       (* canonical repository files *)
  PathOf,     (* Conflict -> Path: record.RepoRel *)
  Choice,     (* local, remote, merged *)
  Initial,    (* Path -> File: the canonical files at the start *)
  Limit       (* bound on every kind of environment step *)

(* Answers queued or given one by one; deaths of the process; failing file *)
(* operations and answers the scanner refuses; changes pulled from others. *)
Bounded == {"answers", "crashes", "faults", "pulls"}

(* What a canonical file holds: an answer to a conflict, or something else. *)
None == <<0, "none">>
Original == <<0, "original">>
Elsewhere == <<0, "elsewhere">>
File == {None, Original, Elsewhere} \cup (Conflict \X Choice)

ASSUME ResolutionAssumption ==
  /\ Conflict \subseteq Nat \ {0}
  /\ PathOf \in [Conflict -> Path]
  /\ Initial \in [Path -> {None, Original}]
  /\ Limit \in [Bounded -> Nat]

(* The selections of a batch; a batch is identified by them (its ID is     *)
(* their hash).  No selections: the metadata file does not exist.          *)
Answers == UNION {[chosen -> Choice] : chosen \in SUBSET Conflict}
NoAnswers == <<>>

Entry == [path: Path, file: File]
Status == {"queued", "applying"}
NoJournal == [answers |-> NoAnswers, entries |-> <<>>]

(* The steps of a pass; metadata files waiting to be removed. *)
Step == {"idle", "pull", "mirror", "batch", "mark", "journal", "write", "remove-local",
         "remove-repo", "finish", "rollback", "settle", "clear", "engine", "open", "commit"}
Metadata == {"pending", "failed", "view", "journal"}

Pass == [step: Step,
         next: {"idle", "pull", "engine", "recover"},  (* where "clear" leads *)
         answers: Answers,          (* the batch in memory *)
         todo: SUBSET Conflict,     (* selections the phase still has to do *)
         entries: Seq(Entry),       (* the journal in memory *)
         clear: Seq(Metadata)]

NoPass == [step |-> "idle", next |-> "idle", answers |-> NoAnswers, todo |-> {},
           entries |-> <<>>, clear |-> <<>>]

(* The single conflict the desktop is resolving. *)
Resolving == [step: {"idle", "remove-local", "remove-repo"}, conflict: Conflict \cup {0}]
NotResolving == [step |-> "idle", conflict |-> 0]

VARIABLES
  (* the clone *)
  canonical,  (* the canonical files of the working tree *)
  repo,       (* the bundles of the working tree *)
  committed,  (* HEAD: files and bundles *)
  (* <home>/conflicts and <home>/conflict-resolution *)
  mirror,     (* the local bundles *)
  pending,    (* pending.json *)
  failed,     (* failed.json *)
  view,       (* whether applying-view.json exists *)
  journal,    (* transaction.json *)
  (* the process *)
  pass,       (* the synchronization goroutine *)
  desktop,    (* the resolution of a single conflict *)
  (* bounds and history *)
  count,
  opened,     (* conflicts opened so far *)
  before      (* the batch being applied: the files and bundles it found, *)
              (* whether it wrote its journal, whether all writing back worked, *)
              (* whether failed.json could be written                           *)

clone == <<canonical, repo, committed>>
metadata == <<pending, failed, view, journal>>
vars == <<clone, mirror, metadata, pass, desktop, count, opened, before>>

-----------------------------------------------------------------------------
Spend(kind) ==
  /\ count[kind] < Limit[kind]
  /\ count' = [count EXCEPT ![kind] = @ + 1]

At(step) == pass.step = step
GoTo(step) == pass' = [pass EXCEPT !.step = step]
Abort == pass' = NoPass

NoPending == [status |-> "queued", answers |-> NoAnswers]
Queued == pending.answers # NoAnswers

(* The transaction lock: a pass holds it in recovery, in a batch and while *)
(* it publishes a bundle, the desktop while it resolves one.               *)
Locked ==
  \/ pass.step \notin {"idle", "pull", "mirror", "batch", "engine", "commit"}
  \/ desktop.step # "idle"

First(conflicts) == CHOOSE c \in conflicts : \A d \in conflicts : c <= d

-----------------------------------------------------------------------------
(***************************************************************************)
(* The desktop.                                                            *)
(***************************************************************************)
(* QueueBatch: all visible conflicts, no active batch; then failed.json    *)
(* goes.  (RetryConflictBatch queues the failed selections the same way.)  *)
QueueBatch(answers) ==
  /\ ~Locked /\ ~Queued
  /\ mirror # {} /\ DOMAIN answers = mirror
  /\ Spend("answers")
  /\ pending' = [status |-> "queued", answers |-> answers]
  /\ failed' = NoAnswers
  /\ UNCHANGED <<clone, mirror, view, journal, pass, desktop, opened, before>>

(* Resolve, ResolveVariant: the canonical file, then the two bundles. *)
ResolveOne(c, choice) ==
  /\ ~Locked /\ c \in mirror
  /\ Spend("answers")
  /\ canonical' = [canonical EXCEPT ![PathOf[c]] = <<c, choice>>]
  /\ desktop' = [step |-> "remove-local", conflict |-> c]
  /\ UNCHANGED <<repo, committed, mirror, metadata, pass, opened, before>>

ResolveRemovesLocal ==
  /\ desktop.step = "remove-local"
  /\ mirror' = mirror \ {desktop.conflict}
  /\ desktop' = [desktop EXCEPT !.step = "remove-repo"]
  /\ UNCHANGED <<clone, metadata, pass, count, opened, before>>

ResolveRemovesRepo ==
  /\ desktop.step = "remove-repo"
  /\ repo' = repo \ {desktop.conflict}
  /\ desktop' = NotResolving
  /\ UNCHANGED <<canonical, committed, mirror, metadata, pass, count, opened, before>>

Crash ==
  /\ ~At("idle") \/ desktop.step # "idle"
  /\ Spend("crashes")
  /\ Abort
  /\ desktop' = NotResolving
  /\ UNCHANGED <<clone, mirror, metadata, opened, before>>

-----------------------------------------------------------------------------
(***************************************************************************)
(* RecoverTransactions, at the start of a pass.                            *)
(***************************************************************************)
(* What clearResolutionMetadata removes, in its order. *)
AfterSettling == <<"pending", "view", "journal">>

StartPass ==
  /\ At("idle") /\ desktop.step = "idle"
  /\ ~(Queued /\ pending.status = "applying")
  /\ GoTo("pull")
  /\ UNCHANGED <<clone, mirror, metadata, desktop, count, opened, before>>

(* Mutant: roll back from the first entry on. *)
RecoverForward ==
  /\ At("idle") /\ desktop.step = "idle"
  /\ Queued /\ pending.status = "applying" /\ journal # NoJournal
  /\ pass' = [pass EXCEPT !.step = "rollback", !.next = "pull",
                !.answers = pending.answers,
                !.entries = [i \in 1..Len(journal.entries) |->
                               journal.entries[Len(journal.entries) + 1 - i]]]
  /\ UNCHANGED <<clone, mirror, metadata, desktop, count, opened, before>>

Recover ==
  /\ At("idle") /\ desktop.step = "idle"
  /\ Queued /\ pending.status = "applying" /\ journal # NoJournal
  /\ pass' = [pass EXCEPT !.step = "rollback", !.next = "pull",
                          !.answers = pending.answers, !.entries = journal.entries]
  /\ UNCHANGED <<clone, mirror, metadata, desktop, count, opened, before>>

(* No journal to read: the batch fails, and the pass with it. *)
RecoverWithoutJournal ==
  /\ At("idle") /\ desktop.step = "idle"
  /\ Queued /\ pending.status = "applying" /\ journal = NoJournal
  /\ pass' = [pass EXCEPT !.step = "settle", !.next = "idle", !.answers = pending.answers]
  /\ UNCHANGED <<clone, mirror, metadata, desktop, count, opened, before>>

-----------------------------------------------------------------------------
(***************************************************************************)
(* Pull and MirrorFromRepo.                                                *)
(***************************************************************************)
Clean ==
  /\ \A p \in Path : committed.files[p] # None => canonical[p] = committed.files[p]
  /\ committed.bundles \subseteq repo

PullNothing ==
  /\ At("pull") /\ Clean
  /\ GoTo("mirror")
  /\ UNCHANGED <<clone, mirror, metadata, desktop, count, opened, before>>

(* Another machine answered c. *)
PullAnswer(c) ==
  /\ At("pull") /\ Clean /\ desktop.step = "idle"
  /\ c \in committed.bundles /\ canonical[PathOf[c]] = committed.files[PathOf[c]]
  /\ Spend("pulls")
  /\ canonical' = [canonical EXCEPT ![PathOf[c]] = Elsewhere]
  /\ repo' = repo \ {c}
  /\ committed' = [files |-> [committed.files EXCEPT ![PathOf[c]] = Elsewhere],
                   bundles |-> committed.bundles \ {c}]
  /\ GoTo("mirror")
  /\ UNCHANGED <<mirror, metadata, desktop, opened, before>>

(* Another machine opened c. *)
PullConflict(c) ==
  /\ At("pull") /\ Clean /\ desktop.step = "idle"
  /\ c \notin opened
  /\ Spend("pulls")
  /\ opened' = opened \cup {c}
  /\ repo' = repo \cup {c}
  /\ committed' = [committed EXCEPT !.bundles = @ \cup {c}]
  /\ GoTo("mirror")
  /\ UNCHANGED <<canonical, mirror, metadata, desktop, before>>

PullRefused ==
  /\ At("pull") /\ ~Clean
  /\ Abort
  /\ UNCHANGED <<clone, mirror, metadata, desktop, count, opened, before>>

Mirror ==
  /\ At("mirror") /\ desktop.step = "idle"
  /\ mirror' = repo
  /\ GoTo("batch")
  /\ UNCHANGED <<clone, metadata, desktop, count, opened, before>>

-----------------------------------------------------------------------------
(***************************************************************************)
(* ApplyPendingBatch.                                                      *)
(***************************************************************************)
(* No batch, or the preflight of the engine holds it. *)
SkipBatch ==
  /\ At("batch")
  /\ IF Queued THEN Spend("faults") ELSE UNCHANGED count
  /\ GoTo("engine")
  /\ UNCHANGED <<clone, mirror, metadata, desktop, opened, before>>

(* Mutant: the batch is marked without a view. *)
PublishNothing ==
  /\ At("batch") /\ Queued /\ ~Locked
  /\ pass' = [pass EXCEPT !.step = "mark", !.answers = pending.answers]
  /\ UNCHANGED <<clone, mirror, metadata, desktop, count, opened, before>>

PublishView ==
  /\ At("batch") /\ Queued /\ ~Locked
  /\ view' = TRUE
  /\ pass' = [pass EXCEPT !.step = "mark", !.answers = pending.answers]
  /\ UNCHANGED <<clone, mirror, pending, failed, journal, desktop, count, opened, before>>

MarkApplying ==
  /\ At("mark")
  /\ pending' = [pending EXCEPT !.status = "applying"]
  /\ pass' = [pass EXCEPT !.step = "journal", !.todo = DOMAIN pass.answers]
  /\ before' = [files |-> canonical, bundles |-> repo, journaled |-> FALSE,
                intact |-> TRUE, recorded |-> TRUE]
  /\ UNCHANGED <<clone, mirror, failed, view, journal, desktop, count, opened>>

(* A step fails that has nothing to undo: git, a listing, the view or the  *)
(* mark cannot be written.  The pass ends and the next one starts afresh.  *)
PassFails ==
  /\ pass.step \in {"pull", "mirror", "batch", "mark", "engine"}
  /\ Spend("faults")
  /\ Abort
  /\ UNCHANGED <<clone, mirror, metadata, desktop, opened, before>>

(* Mutant: the pass goes on after a failed batch. *)
FailAndGoOn(entries) ==
  pass' = [pass EXCEPT !.step = "rollback", !.next = "engine", !.entries = entries]

(* The fail path: roll back what the journal in memory names. *)
Fail(entries) ==
  pass' = [pass EXCEPT !.step = "rollback", !.next = "idle", !.entries = entries]

Remaining == pass.todo # {}
Current == First(pass.todo)

(* Mutant: a missing file is journaled as an empty one. *)
EntryOfBytes ==
  [path |-> PathOf[Current],
   file |-> IF canonical[PathOf[Current]] = None THEN <<0, "empty">>
            ELSE canonical[PathOf[Current]]]

(* The canonical file as it is before the answer is written, absent or not. *)
CurrentEntry == [path |-> PathOf[Current], file |-> canonical[PathOf[Current]]]

(* The selection is still open and passes the scanner: its old content is  *)
(* journaled,                                                              *)
Journal ==
  LET entries == Append(pass.entries, CurrentEntry)
  IN  /\ At("journal") /\ Remaining /\ Current \in mirror
      /\ journal' = [answers |-> pass.answers, entries |-> entries]
      /\ pass' = [pass EXCEPT !.step = "write", !.entries = entries]
      /\ before' = [before EXCEPT !.journaled = TRUE]
      /\ UNCHANGED <<clone, mirror, pending, failed, view, desktop, count, opened>>

(* ... then the answer is written. *)
WriteAnswer ==
  /\ At("write")
  /\ canonical' = [canonical EXCEPT ![PathOf[Current]] = <<Current, pass.answers[Current]>>]
  /\ pass' = [pass EXCEPT !.step = "journal", !.todo = @ \ {Current}]
  /\ UNCHANGED <<repo, committed, mirror, metadata, desktop, count, opened, before>>

(* The conflict is gone; or it cannot be read, scanned, journaled, written. *)
SelectionFails ==
  /\ \/ At("journal") /\ Remaining /\ Current \notin mirror
        /\ Fail(pass.entries) /\ UNCHANGED count
     \/ At("journal") /\ Remaining /\ Current \in mirror
        /\ Spend("faults")
        /\ \E entries \in {pass.entries, Append(pass.entries, CurrentEntry)} : Fail(entries)
     \/ At("write") /\ Spend("faults") /\ Fail(pass.entries)
  /\ UNCHANGED <<clone, mirror, metadata, desktop, opened, before>>

AllWritten ==
  /\ At("journal") /\ ~Remaining
  /\ pass' = [pass EXCEPT !.step = "remove-local", !.todo = DOMAIN pass.answers]
  /\ UNCHANGED <<clone, mirror, metadata, desktop, count, opened, before>>

RemoveLocal ==
  /\ At("remove-local") /\ Remaining
  /\ mirror' = mirror \ {Current}
  /\ GoTo("remove-repo")
  /\ UNCHANGED <<clone, metadata, desktop, count, opened, before>>

RemoveRepo ==
  /\ At("remove-repo")
  /\ repo' = repo \ {Current}
  /\ pass' = [pass EXCEPT !.step = "remove-local", !.todo = @ \ {Current}]
  /\ UNCHANGED <<canonical, committed, mirror, metadata, desktop, count, opened, before>>

(* Removing a bundle or pending.json fails. *)
RemoveFails ==
  /\ At("remove-local") \/ At("remove-repo")
  /\ Spend("faults")
  /\ Fail(pass.entries)
  /\ UNCHANGED <<clone, mirror, metadata, desktop, opened, before>>

(* The removal of pending.json commits the batch. *)
CommitBatch ==
  /\ At("remove-local") /\ ~Remaining
  /\ pending' = NoPending
  /\ pass' = [pass EXCEPT !.step = "clear", !.next = "engine",
                          !.clear = <<"failed", "view", "journal">>]
  /\ UNCHANGED <<clone, mirror, failed, view, journal, desktop, count, opened, before>>

-----------------------------------------------------------------------------
(***************************************************************************)
(* rollbackEntries from the last entry on, then failed.json, then          *)
(* clearResolutionMetadata.                                                *)
(***************************************************************************)
Rollback ==
  LET last == pass.entries[Len(pass.entries)]
  IN  /\ At("rollback") /\ pass.entries # <<>>
      /\ canonical' = [canonical EXCEPT ![last.path] = last.file]
      /\ pass' = [pass EXCEPT !.entries = SubSeq(@, 1, Len(@) - 1)]
      /\ UNCHANGED <<repo, committed, mirror, metadata, desktop, count, opened, before>>

(* Writing a file back fails: the others are written, a recovery will be   *)
(* repeated by the next pass, a failing batch goes on.                     *)
RollbackFails ==
  /\ At("rollback") /\ pass.entries # <<>>
  /\ Spend("faults")
  /\ pass' = [pass EXCEPT !.entries = SubSeq(@, 1, Len(@) - 1),
                          !.next = IF @ = "idle" THEN "idle" ELSE "recover"]
  /\ before' = [before EXCEPT !.intact = pass.next # "idle"]
  /\ UNCHANGED <<clone, mirror, metadata, desktop, opened>>

RolledBack ==
  /\ At("rollback") /\ pass.entries = <<>>
  /\ IF pass.next = "recover" THEN Abort ELSE GoTo("settle")
  /\ UNCHANGED <<clone, mirror, metadata, desktop, count, opened, before>>

(* Mutant: the metadata goes, the failed batch is not kept. *)
SettleForgetting ==
  /\ At("settle")
  /\ pass' = [pass EXCEPT !.step = "clear", !.clear = AfterSettling]
  /\ UNCHANGED <<clone, mirror, metadata, desktop, count, opened, before>>

Settle ==
  /\ At("settle")
  /\ failed' = pass.answers
  /\ before' = [before EXCEPT !.recorded = TRUE]
  /\ pass' = [pass EXCEPT !.step = "clear", !.clear = AfterSettling]
  /\ UNCHANGED <<clone, mirror, pending, view, journal, desktop, count, opened>>

(* failed.json cannot be written: a recovery that read its journal leaves  *)
(* all as it is for the next pass, a failing batch (and a recovery without *)
(* journal) clears the metadata all the same.                              *)
SettleFails ==
  /\ At("settle")
  /\ Spend("faults")
  /\ \/ /\ pass.next = "pull"
        /\ Abort
        /\ UNCHANGED before
     \/ /\ pass.next = "idle"
        /\ pass' = [pass EXCEPT !.step = "clear", !.clear = AfterSettling]
        /\ before' = [before EXCEPT !.recorded = FALSE]
  /\ UNCHANGED <<clone, mirror, metadata, desktop, opened>>

(* The first of the files to clear is removed, or stays: then the pass ends *)
(* with an error once the others are gone.                                  *)
ClearOne ==
  LET name == Head(pass.clear)
  IN  /\ At("clear") /\ pass.clear # <<>>
      /\ pending' = IF name = "pending" THEN NoPending ELSE pending
      /\ failed' = IF name = "failed" THEN NoAnswers ELSE failed
      /\ view' = (view /\ name # "view")
      /\ journal' = IF name = "journal" THEN NoJournal ELSE journal
      /\ pass' = [pass EXCEPT !.clear = Tail(@)]
      /\ UNCHANGED <<clone, mirror, desktop, count, opened, before>>

ClearFails ==
  /\ At("clear") /\ pass.clear # <<>>
  /\ Spend("faults")
  /\ pass' = [pass EXCEPT !.clear = Tail(@), !.next = "idle"]
  /\ UNCHANGED <<clone, mirror, metadata, desktop, opened, before>>

Cleared ==
  /\ At("clear") /\ pass.clear = <<>>
  /\ pass' = [NoPass EXCEPT !.step = pass.next]
  /\ UNCHANGED <<clone, mirror, metadata, desktop, count, opened, before>>

-----------------------------------------------------------------------------
(***************************************************************************)
(* The rest of the pass: a merge may open a conflict (Store.Create, local  *)
(* bundle first), then everything is committed.                            *)
(***************************************************************************)
OpenLocal(c) ==
  /\ At("engine") /\ ~Locked
  /\ c \notin opened /\ PathOf[c] \notin {PathOf[d] : d \in mirror}
  /\ mirror' = mirror \cup {c}
  /\ opened' = opened \cup {c}
  /\ pass' = [pass EXCEPT !.step = "open", !.todo = {c}]
  /\ UNCHANGED <<clone, metadata, desktop, count, before>>

OpenRepo ==
  /\ At("open")
  /\ repo' = repo \cup pass.todo
  /\ pass' = [pass EXCEPT !.step = "engine", !.todo = {}]
  /\ UNCHANGED <<canonical, committed, mirror, metadata, desktop, count, opened, before>>

(* The second rename fails: the local bundle is taken back. *)
OpenFails ==
  /\ At("open")
  /\ Spend("faults")
  /\ mirror' = mirror \ pass.todo
  /\ opened' = opened \ pass.todo
  /\ pass' = [pass EXCEPT !.step = "engine", !.todo = {}]
  /\ UNCHANGED <<clone, metadata, desktop, before>>

Commit ==
  /\ At("engine")
  /\ committed' = [files |-> canonical, bundles |-> repo]
  /\ Abort
  /\ UNCHANGED <<canonical, repo, mirror, metadata, desktop, count, opened, before>>

-----------------------------------------------------------------------------
Init ==
  /\ canonical = Initial
  /\ repo = {} /\ mirror = {} /\ opened = {}
  /\ committed = [files |-> Initial, bundles |-> {}]
  /\ pending = NoPending
  /\ failed = NoAnswers
  /\ view = FALSE
  /\ journal = NoJournal
  /\ pass = NoPass
  /\ desktop = NotResolving
  /\ count = [kind \in Bounded |-> 0]
  /\ before = [files |-> Initial, bundles |-> {}, journaled |-> FALSE,
                intact |-> TRUE, recorded |-> TRUE]

DesktopStep ==
  \/ \E answers \in [mirror -> Choice] : QueueBatch(answers)
  \/ \E c \in Conflict, choice \in Choice : ResolveOne(c, choice)
  \/ ResolveRemovesLocal \/ ResolveRemovesRepo

PullStep ==
  \/ StartPass \/ Recover \/ RecoverWithoutJournal
  \/ PullNothing \/ PullRefused \/ Mirror
  \/ \E c \in Conflict : PullAnswer(c) \/ PullConflict(c)

BatchStep ==
  \/ SkipBatch \/ PublishView \/ MarkApplying \/ PassFails
  \/ Journal \/ WriteAnswer \/ SelectionFails \/ AllWritten
  \/ RemoveLocal \/ RemoveRepo \/ RemoveFails \/ CommitBatch
  \/ Rollback \/ RollbackFails \/ RolledBack \/ Settle \/ SettleFails
  \/ ClearOne \/ ClearFails \/ Cleared

EngineStep == (\E c \in Conflict : OpenLocal(c)) \/ OpenRepo \/ OpenFails \/ Commit

Next == DesktopStep \/ Crash \/ PullStep \/ BatchStep \/ EngineStep

Spec == Init /\ [][Next]_vars

-----------------------------------------------------------------------------
(* Every variable has its type. *)
TypeOK ==
  /\ canonical \in [Path -> File]
  /\ repo \subseteq Conflict /\ mirror \subseteq Conflict /\ opened \subseteq Conflict
  /\ committed \in [files: [Path -> File], bundles: SUBSET Conflict]
  /\ pending \in [status: Status, answers: Answers]
  /\ failed \in Answers
  /\ view \in BOOLEAN
  /\ journal \in [answers: Answers, entries: Seq(Entry)]
  /\ pass \in Pass
  /\ desktop \in Resolving
  /\ count \in [Bounded -> Nat]
  /\ before \in [files: [Path -> File], bundles: SUBSET Conflict,
                 journaled: BOOLEAN, intact: BOOLEAN, recorded: BOOLEAN]

(***************************************************************************)
(* When a batch is declared failed, after an error or in the recovery of a *)
(* dead process, every canonical file in its journal holds again what the  *)
(* batch found, also when two answers were for the same file (the journal  *)
(* is undone from its end).  Writing back must have worked, and the        *)
(* journal must be this batch's: RecoverTransactions does not compare.     *)
(***************************************************************************)
RollbackRestores ==
  At("settle") /\ before.journaled /\ before.intact =>
    \A i \in 1..Len(journal.entries) :
      LET path == journal.entries[i].path IN canonical[path] = before.files[path]

(***************************************************************************)
(* The user's answers are never lost: pending.json disappears only once    *)
(* failed.json holds the same selections, or all their bundles are gone;   *)
(* or when failed.json itself could not be written, which fail() and the   *)
(* recovery without a journal report but do not wait for.                  *)
(***************************************************************************)
AnswersSurvive ==
  [][Queued /\ pending'.answers # pending.answers =>
       \/ failed'  = pending.answers
       \/ DOMAIN pending.answers \cap (mirror' \cup repo') = {}
       \/ ~before.recorded]_vars

(***************************************************************************)
(* HEAD loses a bundle only together with an answer: no crash, rollback or *)
(* failing removal makes a commit drop a conflict whose file was not       *)
(* resolved, here or on another machine.                                   *)
(***************************************************************************)
NoBundleDropped ==
  [][\A c \in committed.bundles \ committed'.bundles :
       LET file == committed'.files[PathOf[c]]
       IN  file = Elsewhere \/ file[1] \in {d \in Conflict : PathOf[d] = PathOf[c]}]_vars

(***************************************************************************)
(* Whoever finds pending.json in status applying finds the view of the     *)
(* conflicts as well (VisibleConflicts reads it instead of the bundles),   *)
(* unless the batch has failed already and its pending.json could not be   *)
(* removed (nor, perhaps, its failed.json be written).                     *)
(***************************************************************************)
ViewBehindApplying ==
  Queued /\ pending.status = "applying" =>
    view \/ failed = pending.answers \/ ~before.recorded

(* Design of 2026-08-18: "A failed or stale batch transitions to a         *)
(* terminal failed record, releases the active-batch slot, and leaves the  *)
(* original conflicts unresolved."                                         *)
FailedBatchLeavesConflicts ==
  At("settle") => before.bundles \cap DOMAIN pass.answers \subseteq repo
=============================================================================
