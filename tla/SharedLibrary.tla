--------------------------- MODULE SharedLibrary ---------------------------
(***************************************************************************)
(* The shared library (internal/sharedlibrary): one skill, its canonical   *)
(* source, and the copies of it that harnesses read.  A copy is adopted,   *)
(* put back, given up or taken into the library by a plan the user saw and *)
(* approved (Preview, Apply); a synchronization pass brings new sources    *)
(* and then refreshes the adopted copies (Refresh).  Ownership is recorded *)
(* in library-ownership.json before the first file of a copy is touched.   *)
(*                                                                         *)
(* The library lock admits one operation or one pass at a time; the user   *)
(* edits files whenever they like.  A file's content is a number, new for  *)
(* every edit, and 0 where there is no file.  A file is written under a    *)
(* temporary name beside it and then renamed, so a copy may hold, for a    *)
(* while or for good, a file that is not of the skill.                     *)
(***************************************************************************)
EXTENDS Naturals, FiniteSets

CONSTANTS
  File,        (* paths inside the skill *)
  Main,        (* SKILL.md *)
  Temp,        (* those of them that atomicWrite makes up: .library-* *)
  Unlimited,
  Budgets      (* set of functions [Bounded -> Nat], one taken per behaviour *)

ASSUME LibraryFiles == Main \in File /\ Temp \subseteq File \ {Main}

(* What is bounded: edits by the user, files brought by passes, passes,    *)
(* previews, and troubles (failed writes, the death of a process).         *)
Bounded == {"edits", "arrivals", "passes", "previews", "troubles"}

ASSUME LibraryBudgets == \A b \in Budgets : b \in [Bounded -> Nat \cup {Unlimited}]

(* The places of the skill, in the order of their first contents.  Copilot *)
(* is read from and never written to.                                      *)
Managed == {"claude", "common"}
Harness == Managed \cup {"copilot"}
Place == Harness \cup {"library"}

Absent == 0
Tree == [File -> Nat]
NoFiles == [f \in File |-> Absent]

VARIABLES
  budget,
  made,      (* the last content made *)
  tree,      (* Place -> what is on disk there *)
  records,   (* Managed -> its ownership record on disk, or NotOwned *)
  shown,     (* the last plan the user was shown *)
  op,        (* the operation that holds the lock, NoOp when none does *)
  pass,      (* the pass that holds the lock: how far, what it may not write *)
  unseen,    (* history: what the user typed in a place and no approved plan showed *)
  late,      (* history: files the user touched since the operation read them *)
  touched,   (* history: copies the user touched since the last operation there *)
  adopted,   (* history: what was in a copy when it was adopted *)
  litter     (* history: temporary files of the operations there, not yet renamed or removed *)

history == <<unseen, late, touched, adopted, litter>>
vars == <<budget, made, tree, records, shown, op, pass, history>>

NotOwned == [owned |-> FALSE, original |-> NoFiles, applied |-> NoFiles,
             previous |-> NoFiles, pending |-> FALSE]
NoOp == [step |-> "none", kind |-> "none", on |-> "library", before |-> NoFiles,
         after |-> NoFiles, todo |-> {}, temp |-> {}]
NoPlan == [kind |-> "none", on |-> "library", before |-> NoFiles, after |-> NoFiles,
           records |-> [h \in Managed |-> NotOwned]]
NoPass == [step |-> "none", reserved |-> FALSE, todo |-> {}]

Spend(kind) ==
  \/ budget[kind] = Unlimited /\ UNCHANGED budget
  \/ budget[kind] # Unlimited /\ budget[kind] > 0
     /\ budget' = [budget EXCEPT ![kind] = @ - 1]

Owned(h) == records[h].owned
Contents(t) == {t[f] : f \in File} \ {Absent}
Differing(before, after) == {f \in File : before[f] # after[f]}
Without(t, names) == [f \in File |-> IF f \in names THEN Absent ELSE t[f]]

-----------------------------------------------------------------------------
(***************************************************************************)
(* Plans.  What prepare reads, what it refuses, what it proposes.  The ID  *)
(* of a plan is a digest of the request, both trees and all ownership, so  *)
(* a plan stands here for its ID.                                          *)
(***************************************************************************)
Recoverable(current, rec) ==
  IF ~rec.pending THEN current = rec.applied
  ELSE \A f \in File :
         IF current[f] # Absent THEN current[f] \in {rec.applied[f], rec.previous[f]}
         ELSE rec.applied[f] = Absent \/ rec.previous[f] = Absent

Written(kind, h) == IF kind = "import" THEN "library" ELSE h

(* Mutant: an adopted copy is written over without a look at what is in it. *)
AllowedBlindly(kind, h) ==
  \/ kind = "import" /\ tree[h][Main] # Absent
  \/ kind = "apply" /\ h \in Managed /\ tree["library"][Main] # Absent
  \/ kind = "restore" /\ h \in Managed /\ Owned(h) /\ Recoverable(tree[h], records[h])
  \/ kind = "detach" /\ h \in Managed /\ Owned(h)

Allowed(kind, h) ==
  \/ kind = "import" /\ tree[h][Main] # Absent
  \/ /\ kind = "apply" /\ h \in Managed
     /\ h = "common" => tree["copilot"] = NoFiles
     /\ Owned(h) => ~records[h].pending /\ tree[h] = records[h].applied
     /\ tree["library"][Main] # Absent
  \/ kind = "restore" /\ h \in Managed /\ Owned(h) /\ Recoverable(tree[h], records[h])
  \/ kind = "detach" /\ h \in Managed /\ Owned(h)

Plan(kind, h) ==
  [kind |-> kind, on |-> h,
   before |-> IF kind = "detach" THEN NoFiles ELSE tree[Written(kind, h)],
   after |-> CASE kind = "import" -> tree[h]
               [] kind = "apply" -> tree["library"]
               [] kind = "restore" -> records[h].original
               [] kind = "detach" -> NoFiles,
   records |-> records]

LockFree == op = NoOp /\ pass = NoPass

Preview(kind, h) ==
  /\ LockFree /\ Allowed(kind, h) /\ Spend("previews")
  /\ shown' = Plan(kind, h)
  /\ UNCHANGED <<made, tree, records, op, pass, history>>

-----------------------------------------------------------------------------
(***************************************************************************)
(* Apply.  A plan is carried out when it is still the plan that would be   *)
(* made; a plan of Refresh is made on the spot and shown to nobody.        *)
(***************************************************************************)
Begin(plan) ==
  /\ op' = [step |-> "saving", kind |-> plan.kind, on |-> plan.on, before |-> plan.before,
            after |-> plan.after, todo |-> Differing(plan.before, plan.after), temp |-> {}]
  /\ touched' = touched \ (IF plan.kind \in {"apply", "restore"} THEN {plan.on} ELSE {})
  /\ adopted' = IF plan.kind = "apply" /\ ~Owned(plan.on)
                THEN [adopted EXCEPT ![plan.on] = plan.before] ELSE adopted
  /\ litter' = IF plan.kind \in {"apply", "restore"} THEN [litter EXCEPT ![plan.on] = {}] ELSE litter
  /\ late' = {}

Approve ==
  /\ LockFree /\ shown # NoPlan
  /\ Allowed(shown.kind, shown.on) /\ shown = Plan(shown.kind, shown.on)
  /\ Begin(shown)
  /\ unseen' = [p \in Place |-> unseen[p] \ (Contents(shown.before) \cup Contents(shown.after))]
  /\ UNCHANGED <<budget, made, tree, records, shown, pass>>

(* Mutant: the record of an operation forgets what it is about to replace. *)
SavedWithoutPrevious ==
  /\ op.step = "saving" /\ op.kind \in {"apply", "restore"}
  /\ records' = [records EXCEPT ![op.on] =
       [owned |-> TRUE, original |-> IF Owned(op.on) THEN @.original ELSE op.before,
        applied |-> op.after, previous |-> NoFiles, pending |-> TRUE]]
  /\ op' = [op EXCEPT !.step = "writing"]
  /\ UNCHANGED <<budget, made, tree, shown, pass, history>>

(* Mutant: every update of a copy counts as its adoption. *)
SavedAsNew ==
  /\ op.step = "saving" /\ op.kind \in {"apply", "restore"}
  /\ records' = [records EXCEPT ![op.on] =
       [owned |-> TRUE, original |-> IF op.kind = "restore" THEN @.original ELSE op.before,
        applied |-> op.after, previous |-> op.before, pending |-> TRUE]]
  /\ op' = [op EXCEPT !.step = "writing"]
  /\ UNCHANGED <<budget, made, tree, shown, pass, history>>

(* The record is saved before the first file is written. *)
Saved ==
  /\ op.step = "saving" /\ op.kind \in {"apply", "restore"}
  /\ records' = [records EXCEPT ![op.on] =
       [owned |-> TRUE, original |-> IF Owned(op.on) THEN @.original ELSE op.before,
        applied |-> op.after, previous |-> op.before, pending |-> TRUE]]
  /\ op' = [op EXCEPT !.step = "writing"]
  /\ UNCHANGED <<budget, made, tree, shown, pass, history>>

(* An import saves a backup of the library and records no ownership. *)
BackedUp ==
  /\ op.step = "saving" /\ op.kind = "import"
  /\ op' = [op EXCEPT !.step = "writing"]
  /\ UNCHANGED <<budget, made, tree, records, shown, pass, history>>

Detached ==
  /\ op.step = "saving" /\ op.kind = "detach"
  /\ records' = [records EXCEPT ![op.on] = NotOwned]
  /\ op' = NoOp
  /\ UNCHANGED <<budget, made, tree, shown, pass, history>>

(* writeTree: what differs is written, in no certain order, and then what  *)
(* is not in the new tree is removed; to remove what is gone is an error.  *)
(* atomicWrite fills a file of a name nobody uses, beside the one that it  *)
(* then becomes: until the rename it counts as a file of the skill.        *)
Where == Written(op.kind, op.on)
Writing == op.step \in {"writing", "undoing"}

CreateTemp(t) ==
  /\ Writing /\ op.temp = {} /\ \E f \in op.todo : op.after[f] # Absent
  /\ Absent = tree[Where][t] /\ Absent = op.before[t] /\ Absent = op.after[t]
  /\ made' = made + 1
  /\ tree' = [tree EXCEPT ![Where][t] = made']
  /\ op' = [op EXCEPT !.temp = {t}]
  /\ litter' = [litter EXCEPT ![Where] = @ \cup {t}]
  /\ UNCHANGED <<budget, records, shown, pass, unseen, late, touched, adopted>>

Rename(f) ==
  /\ Writing /\ op.temp # {} /\ \A t \in op.temp : tree[Where][t] # Absent
  /\ f \in op.todo /\ op.after[f] # Absent
  /\ tree' = [tree EXCEPT ![Where] = [Without(@, op.temp) EXCEPT ![f] = op.after[f]]]
  /\ op' = [op EXCEPT !.todo = @ \ {f}, !.temp = {}]
  /\ litter' = [litter EXCEPT ![Where] = @ \ op.temp]
  /\ UNCHANGED <<budget, made, records, shown, pass, unseen, late, touched, adopted>>

RemoveFile(f) ==
  /\ Writing /\ f \in op.todo /\ \A g \in op.todo : op.after[g] = Absent
  /\ tree[Where][f] # Absent
  /\ tree' = [tree EXCEPT ![Where][f] = Absent]
  /\ op' = [op EXCEPT !.todo = @ \ {f}]
  /\ UNCHANGED <<budget, made, records, shown, pass, history>>

Finish ==
  /\ Writing /\ op.todo = {} /\ op.temp = {}
  /\ records' =
       IF op.kind = "import" THEN records
       ELSE [records EXCEPT ![op.on] =
               IF op.kind = "restore" THEN NotOwned
               ELSE [@ EXCEPT !.pending = FALSE, !.previous = NoFiles]]
  /\ op' = NoOp
  /\ UNCHANGED <<budget, made, tree, shown, pass, history>>

(* A removal or a rename that finds nothing fails; any other write may.    *)
(* The temporary file is removed, unless that fails too.  An import puts   *)
(* the library back; every other operation leaves its pending record.      *)
Gone == /\ Writing
        /\ \/ /\ \A f \in op.todo : op.after[f] = Absent
              /\ \E f \in op.todo : tree[Where][f] = Absent
           \/ \E t \in op.temp : tree[Where][t] = Absent

Fail ==
  /\ op # NoOp
  /\ \/ Gone /\ UNCHANGED budget
     \/ Spend("troubles")
  /\ \/ UNCHANGED <<tree, litter>>
     \/ /\ tree' = [tree EXCEPT ![Where] = Without(@, op.temp)]
        /\ litter' = [litter EXCEPT ![Where] = @ \ op.temp]
  /\ op' = IF op.kind = "import" /\ op.step = "writing"
           THEN [op EXCEPT !.step = "undoing", !.before = tree'["library"], !.after = op.before,
                           !.todo = Differing(tree'["library"], op.before), !.temp = {}]
           ELSE NoOp
  /\ UNCHANGED <<made, records, shown, pass, unseen, late, touched, adopted>>

-----------------------------------------------------------------------------
(***************************************************************************)
(* A synchronization pass, under the same lock.  The names of the library  *)
(* and of the owned copies are taken out of what the pass may write, but   *)
(* for the library itself; a pass that ends well refreshes what is owned.  *)
(***************************************************************************)
Reserved == tree["library"] # NoFiles \/ \E h \in Managed : Owned(h)

PassBegins ==
  /\ LockFree /\ Spend("passes")
  /\ pass' = [step |-> "syncing", reserved |-> Reserved, todo |-> {}]
  /\ UNCHANGED <<made, tree, records, shown, op, history>>

(* The pass brings or removes a file of a place it may write. *)
PassWrites(p, f, present) ==
  /\ pass.step = "syncing" /\ Spend("arrivals")
  /\ p = "library" \/ ~pass.reserved
  /\ present \/ tree[p][f] # Absent
  /\ made' = made + 1
  /\ tree' = [tree EXCEPT ![p][f] = IF present THEN made' ELSE Absent]
  /\ UNCHANGED <<records, shown, op, pass, history>>

(* Refresh takes the records of the categories that are on. *)
RefreshBegins ==
  /\ pass.step = "syncing"
  /\ pass' = [pass EXCEPT !.step = "refreshing", !.todo = {h \in Managed : Owned(h)}]
  /\ UNCHANGED <<budget, made, tree, records, shown, op, history>>

RefreshNext(h) ==
  /\ op = NoOp /\ h \in pass.todo
  /\ pass' = [pass EXCEPT !.todo = @ \ {h}]
  /\ IF Allowed("apply", h) THEN Begin(Plan("apply", h))
     ELSE UNCHANGED <<op, late, touched, adopted, litter>>
  /\ UNCHANGED <<budget, made, tree, records, shown, unseen>>

(* A pass ends refreshed, or before: failed, in need of attention, or with *)
(* the category off.                                                       *)
PassEnds ==
  /\ op = NoOp /\ pass # NoPass /\ pass.todo = {}
  /\ pass' = NoPass
  /\ UNCHANGED <<budget, made, tree, records, shown, op, history>>

-----------------------------------------------------------------------------
(***************************************************************************)
(* The user edits and deletes files, and writes in no temporary one; the   *)
(* process dies and frees the lock, and what it was writing stays.         *)
(***************************************************************************)
UserEdits(p, f, present) ==
  /\ Spend("edits")
  /\ IF present THEN f \notin Temp ELSE tree[p][f] # Absent
  /\ made' = made + 1
  /\ tree' = [tree EXCEPT ![p][f] = IF present THEN made' ELSE Absent]
  /\ unseen' = IF present THEN [unseen EXCEPT ![p] = @ \cup {made'}] ELSE unseen
  /\ late' = IF op # NoOp THEN late \cup {<<p, f>>} ELSE late
  /\ touched' = touched \cup ({p} \cap Managed)
  /\ UNCHANGED <<records, shown, op, pass, adopted, litter>>

Crash ==
  /\ ~LockFree /\ Spend("troubles")
  /\ op' = NoOp /\ pass' = NoPass /\ shown' = NoPlan
  /\ UNCHANGED <<made, tree, records, history>>

Number(p) == CASE p = "library" -> 1 [] p = "claude" -> 2 [] p = "common" -> 3 [] p = "copilot" -> 4

Init ==
  /\ budget \in Budgets
  /\ made = 4
  /\ \E there \in SUBSET Place :
       tree = [p \in Place |-> IF p \notin there THEN NoFiles
                 ELSE IF p = "library" THEN [NoFiles EXCEPT ![Main] = Number(p)]
                 ELSE [f \in File |-> IF f \in Temp THEN Absent ELSE Number(p)]]
  /\ records = [h \in Managed |-> NotOwned]
  /\ shown = NoPlan /\ op = NoOp /\ pass = NoPass
  /\ unseen = [p \in Place |-> Contents(tree[p])]
  /\ late = {} /\ touched = {}
  /\ adopted = [h \in Managed |-> NoFiles] /\ litter = [p \in Place |-> {}]

Operation ==
  \/ \E kind \in {"import", "apply", "restore", "detach"}, h \in Harness : Preview(kind, h)
  \/ Approve \/ Saved \/ BackedUp \/ Detached
  \/ \E t \in Temp : CreateTemp(t)
  \/ \E f \in File : Rename(f) \/ RemoveFile(f)
  \/ Finish \/ Fail

Pass ==
  \/ PassBegins
  \/ \E p \in Place, f \in File, present \in BOOLEAN : PassWrites(p, f, present)
  \/ RefreshBegins \/ (\E h \in Managed : RefreshNext(h)) \/ PassEnds

Next ==
  \/ Operation
  \/ Pass
  \/ \E p \in Place, f \in File, present \in BOOLEAN : UserEdits(p, f, present)
  \/ Crash

Spec == Init /\ [][Next]_vars

-----------------------------------------------------------------------------
(***************************************************************************)
(* Correctness.                                                            *)
(***************************************************************************)
Record == [owned : BOOLEAN, original : Tree, applied : Tree, previous : Tree, pending : BOOLEAN]
Kind == {"none", "import", "apply", "restore", "detach"}

(* Type correctness of the state. *)
TypeOK ==
  /\ budget \in [Bounded -> Nat \cup {Unlimited}]
  /\ made \in Nat /\ tree \in [Place -> Tree]
  /\ records \in [Managed -> Record]
  /\ shown \in [kind : Kind, on : Place, before : Tree, after : Tree, records : [Managed -> Record]]
  /\ op \in [step : {"none", "saving", "writing", "undoing"}, kind : Kind, on : Place,
             before : Tree, after : Tree, todo : SUBSET File, temp : SUBSET Temp]
  /\ pass \in [step : {"none", "syncing", "refreshing"}, reserved : BOOLEAN, todo : SUBSET Managed]
  /\ unseen \in [Place -> SUBSET Nat] /\ late \subseteq Place \X File
  /\ touched \subseteq Managed /\ adopted \in [Managed -> Tree]
  /\ litter \in [Place -> SUBSET Temp]

(* Whatever was interrupted and wherever (a write that failed, a process   *)
(* that died, a pass after the source was removed), nothing stands in the  *)
(* way of restoring a copy the user has not touched since but temporary    *)
(* files that the operations themselves left in it: without those, the     *)
(* check of the target (recoverable) passes.                               *)
UntouchedIsRecoverable ==
  \A h \in Managed :
    Owned(h) /\ h \notin touched => Recoverable(Without(tree[h], litter[h]), records[h])

(* What the documentation promises (docs/shared-library.md:221: "Original  *)
(* files are restored after ordinary and interrupted operations") and the  *)
(* code does not: a process that dies between the creation and the rename  *)
(* of a temporary file leaves a file that recoverable takes for the user's *)
(* own, and the restore is refused until it has been deleted by hand.      *)
InterruptedIsRestored ==
  \A h \in Managed :
    LockFree /\ Owned(h) /\ h \notin touched => Allowed("restore", h)

(* A restore that ends puts back what was there when the copy was adopted, *)
(* however many refreshes, interruptions and attempts lie between, but for *)
(* the files the user touched while the restore was writing them.          *)
RestoreIsExact ==
  [][\A h \in Managed :
       op.kind = "restore" /\ op.on = h /\ Owned(h) /\ ~records'[h].owned =>
         \A f \in File : <<h, f>> \in late \/ tree'[h][f] = adopted[h][f]]_vars

(* No operation replaces what the user typed in a copy, or in the library, *)
(* before an approved plan has shown it: edits of adopted copies stop      *)
(* Refresh and apply, stale plans are refused, and half-written copies are *)
(* restored only when nothing else is in them.  Edits made between the     *)
(* reading and the writing of one operation are not protected.             *)
OnlyReviewedReplaced ==
  [][op' # op =>
       \A p \in Place, f \in File :
         \/ tree'[p][f] = tree[p][f]
         \/ tree[p][f] \notin unseen[p]
         \/ <<p, f>> \in late]_vars
=============================================================================
