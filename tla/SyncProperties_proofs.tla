------------------------- MODULE SyncProperties_proofs -------------------------
(***************************************************************************)
(* Theorems about the properties of the synchronization engine, for every  *)
(* set of machines, paths and contents and every number of faults.         *)
(***************************************************************************)
EXTENDS SyncEngine_proofs

-----------------------------------------------------------------------------
(* The inductive invariants.                                               *)

StepOf(m) == pass[m].step
AnswerPaths(m) == {s.bundle.path : s \in pass[m].applied}

(* What a machine that never abandoned a push has: HEAD is a commit of     *)
(* origin but while a commit waits to be pushed, so what it records is     *)
(* published.                                                              *)
Published(p, file) == file # None => file \in history.published[p]

SharedAt(m) ==
  /\ \A p \in Path : Published(p, root[m].files[p])
  /\ StepOf(m) \in {"push", "save"} => work[m] = head[m]
  /\ m \notin history.stranded =>
       /\ StepOf(m) \notin {"push", "fetch"} => head[m] = root[m]
       /\ At(m, "capture") =>
            \A p \in Path \ Preserved(m) : Published(p, state[m][p])
       /\ \A p \in Path : <<m, p>> \notin history.apart =>
            /\ Published(p, state[m][p])
            /\ At(m, "capture") => Published(p, pass[m].loaded[p])

SharedInv ==
  /\ \A p \in Path : Published(p, origin.files[p])
  /\ \A m \in Machine : SharedAt(m)

(* The base of a pass is the saved one, or the answer adopted for a path,  *)
(* which is then what the repository holds until the path is acted upon.   *)
BaseAt(m) ==
  \A p \in Path :
    /\ StepOf(m) \in {"collected", "restore"} => pass[m].base[p] = state[m][p]
    /\ StepOf(m) \in {"plan", "apply", "commit", "push", "save"} =>
         pass[m].base[p] = state[m][p] \/ p \in AnswerPaths(m)
    /\ At(m, "plan") \/ (At(m, "apply") /\ p \in pass[m].todo) =>
         pass[m].base[p] = state[m][p] \/ pass[m].base[p] = work[m].files[p]

BaseInv == \A m \in Machine : BaseAt(m)

(* What the base store holds where state.json names a version.             *)
StoreAt(m) ==
  \A p \in Path :
    /\ At(m, "capture") /\ p \notin Preserved(m) => state[m][p] = work[m].files[p]
    /\ <<m, p>> \notin history.apart =>
         /\ ~At(m, "capture") /\ state[m][p] # None => store[m][p] = state[m][p]
         /\ At(m, "capture") /\ pass[m].loaded[p] # None => store[m][p] = pass[m].loaded[p]
         /\ At(m, "capture") /\ p \in Preserved(m) /\ state[m][p] # None =>
              store[m][p] = state[m][p]

StoreInv == \A m \in Machine : StoreAt(m)

(* Blocked content leaves the working tree in its turn, HEAD with the      *)
(* commit.                                                                 *)
BlockedAt(m) ==
  \A p \in Path \ pass[m].held : pass[m].seen[p] = "blocked" =>
    /\ At(m, "apply") => p \in pass[m].todo \/ work[m].files[p] = None
    /\ At(m, "commit") => work[m].files[p] = None
    /\ StepOf(m) \in {"push", "save"} => head[m].files[p] = None

BlockedInv == \A m \in Machine : BlockedAt(m)

(* A path is held back for its answer only: the answered bundle is open    *)
(* and the batch queued, or the answer was applied in this pass.           *)
WaitsAt(m) ==
  /\ At(m, "collected") => pass[m].held = {}
  /\ \A p \in pass[m].held : AnswerWaits(m, p)

WaitsInv == \A m \in Machine : WaitsAt(m)

(* A held path is not planned, so the answer stays where it was put.       *)
HeldAt(m) ==
  /\ At(m, "collected") => pass[m].applied = {}
  /\ At(m, "apply") => pass[m].todo \cap pass[m].held = {}
  /\ \A p \in Path : AnswersTo(m, p) # {} =>
       /\ At(m, "restore") => work[m].files[p] \in AnswersTo(m, p)
       /\ p \in pass[m].held /\ StepOf(m) \in {"plan", "apply", "commit"} =>
            work[m].files[p] \in AnswersTo(m, p)
       /\ p \in pass[m].held /\ StepOf(m) \in {"push", "save"} =>
            head[m].files[p] \in AnswersTo(m, p)

HeldInv == \A m \in Machine : HeldAt(m)

(* What is left to do on a path with an open conflict keeps its file.      *)
SuspendedAt(m) ==
  At(m, "apply") => \A p \in pass[m].todo \cap ConflictPaths(m) :
                      Planned(m, p) \in {"merge", "remove-remote"}

SuspendedInv == \A m \in Machine : SuspendedAt(m)

(* As long as nothing is cut short a clone outside a pass is clean, and in *)
(* a pass the mirror shows what the working tree holds.                    *)
TidyAt(m) ==
  /\ OneOfEach(work[m].bundles)
  /\ StepOf(m) \in {"idle", "retry", "collected", "save", "capture", "mark"} =>
       work[m] = head[m] /\ head[m] = root[m]
  /\ StepOf(m) \in {"collected", "restore", "plan", "apply"} =>
       mirror[m] = work[m].bundles

OneBundleInv ==
  NothingCutShort => OneOfEach(origin.bundles) /\ \A m \in Machine : TidyAt(m)

(* A path nobody deleted, answered or directed.                            *)
Untouched(p) ==
  /\ p \notin history.deleted
  /\ \A m \in Machine : FirstMode[m] = "merge"
  /\ \A b \in history.resolved : b.path # p
  /\ history.stranded = {}

(* Once published such a path stays, in origin, in every clone that had it *)
(* and on every machine that recorded it.                                  *)
KeptAt(m, p) ==
  /\ root[m].files[p] # None => work[m].files[p] # None
  /\ state[m][p] # None => root[m].files[p] # None /\ local[m][p] # None
  /\ At(m, "capture") /\ pass[m].loaded[p] # None =>
       root[m].files[p] # None /\ local[m][p] # None
  /\ access[m][p] # "blocked" /\ pass[m].seen[p] # "blocked"
  /\ StepOf(m) \in {"collected", "restore", "plan", "apply"} =>
       /\ pass[m].scan[p] # None => local[m][p] # None
       /\ pass[m].seen[p] = "ok" /\ state[m][p] # None => pass[m].scan[p] # None
  /\ StepOf(m) \in {"apply", "commit", "push", "save"} /\ p \notin pass[m].keep
       /\ (At(m, "apply") => p \notin pass[m].todo) /\ work[m].files[p] # None
       => local[m][p] # None

AnswersResolve(m) == \A s \in pass[m].applied : s.bundle \in history.resolved

KeptInv ==
  /\ \A m \in Machine : AnswersResolve(m)
  /\ \A p \in Path : Untouched(p) =>
       /\ history.published[p] # {} => origin.files[p] # None
       /\ \A m \in Machine : KeptAt(m, p)

-----------------------------------------------------------------------------
(* What one step does, action by action.                                   *)

(* The record of a pass after the updates the actions share.               *)
LEMMA PassEffects ==
  ASSUME TypeOK, NEW m \in Machine
  PROVE  /\ \A step : GoTo(m, step) => pass'[m] = [pass[m] EXCEPT !.step = step]
         /\ Abort(m) => pass'[m] = NoPass
         /\ \A p : Done(m, p) => pass'[m] = [pass[m] EXCEPT !.todo = @ \ {p}]
         /\ \A p : DoneKeeping(m, p) =>
              pass'[m] = [pass[m] EXCEPT !.todo = @ \ {p}, !.keep = @ \cup {p}]
BY DEF TypeOK, GoTo, Abort, Done, DoneKeeping

(* Steps of one machine leave the others alone.                            *)
Mine(n) == <<pass[n], work[n], head[n], root[n], local[n], access[n], state[n],
             store[n], mirror[n]>>

LEMMA OthersKeep ==
  ASSUME TypeOK, NEW m \in Machine, UserStep(m) \/ Crash(m) \/ SyncStep(m),
         NEW n \in Machine \ {m}
  PROVE  UNCHANGED Mine(n)
<1> USE DEF Mine, clone, files, records, TypeOK
<1>1. CASE UserStep(m)
  BY <1>1 DEF UserStep, Edit, ChangeAccess, QueueBatch
<1>2. CASE Crash(m)
  BY <1>2 DEF Crash, Abort
<1>3. CASE Pull(m) \/ PullFails(m) \/ PullWedges(m)
  BY <1>3 DEF Pull, PullFails, PullWedges, Abort
<1>4. CASE BatchStep(m)
  <2>1. CASE HoldBatch(m) \/ FailBatch(m)
    BY <2>1 DEF HoldBatch, FailBatch, Abort
  <2>2. CASE ApplyBatch(m)
    BY <2>2 DEF ApplyBatch
  <2>3. ASSUME NEW broken \in SUBSET Path, Restore(m, broken) PROVE UNCHANGED Mine(n)
    BY <2>3 DEF Restore
  <2> QED  BY <1>4, <2>1, <2>2, <2>3 DEF BatchStep
<1>5. CASE Plan(m)
  BY <1>5 DEF Plan
<1>6. CASE ApplyStep(m)
  BY <1>6 DEF ApplyStep, PushToRemote, PullToLocal, DeleteLocal, LocalWriteFails, DeleteRemote,
              RemoveRemote, MergeBoth, MergeStops, Done, DoneKeeping
<1>7. CASE PublishStep(m)
  BY <1>7 DEF PublishStep, AddAll, Commit, GitFails, PushAccepted, PushFails, PushUnacknowledged,
              FetchAndReset, FetchFails, GoTo, Abort, GiveUp
<1>8. CASE FinishStep(m)
  BY <1>8 DEF FinishStep, Save, Capture, CaptureFails, MarkFirstSync, GoTo, Abort
<1> QED  BY <1>1, <1>2, <1>3, <1>4, <1>5, <1>6, <1>7, <1>8 DEF SyncStep

(* What the properties know of the past.                                   *)
PastGrows ==
  /\ \A p \in Path : history.published[p] \subseteq history'.published[p]
  /\ history.resolved \subseteq history'.resolved
  /\ history.deleted \subseteq history'.deleted
  /\ history.stranded \subseteq history'.stranded

(* Records of a base that came apart are one again only when captured.     *)
ApartGrows == history.apart \subseteq history'.apart
ApartElsewhere(m) ==
  \A n \in Machine \ {m}, p \in Path :
    <<n, p>> \in history.apart => <<n, p>> \in history'.apart

(* Users change their files and their answers; a file that goes, or starts *)
(* to hold a secret, counts as deleted.                                    *)
LEMMA UserEffect ==
  ASSUME TypeOK, NEW m \in Machine, UserStep(m)
  PROVE  /\ UNCHANGED <<origin, behind, root, head, work, state, store, mirror, first, pass>>
         /\ history'.published = history.published /\ history'.resolved = history.resolved
         /\ history'.stranded = history.stranded /\ history'.apart = history.apart
         /\ history.deleted \subseteq history'.deleted
         /\ count'["cuts"] = count["cuts"]
         /\ \A p \in Path :
              /\ local'[m][p] = None => local[m][p] = None \/ p \in history'.deleted
              /\ access'[m][p] = "blocked" => access[m][p] = "blocked" \/ p \in history'.deleted
         /\ local' = local \/ count'["edits"] # count["edits"]
<1> USE DEF clone, files, records
<1>h. history \in HistoryType /\ count \in [Bounded -> Nat]
  BY DEF TypeOK
<1>1. ASSUME NEW q \in Path, NEW file \in File, Edit(m, q, file)
      PROVE  /\ UNCHANGED <<origin, behind, root, head, work, state, store, mirror, first, pass>>
             /\ history'.published = history.published /\ history'.resolved = history.resolved
             /\ history'.stranded = history.stranded /\ history'.apart = history.apart
             /\ history.deleted \subseteq history'.deleted
             /\ count'["cuts"] = count["cuts"]
             /\ \A p \in Path :
                  /\ local'[m][p] = None => local[m][p] = None \/ p \in history'.deleted
                  /\ access'[m][p] = access[m][p]
             /\ count'["edits"] # count["edits"]
  <2>1. UNCHANGED <<origin, behind, root, head, work, state, store, mirror, first, pass, access>>
    BY <1>1 DEF Edit
  <2>2. count'["cuts"] = count["cuts"] /\ count'["edits"] # count["edits"]
    BY <1>1, <1>h DEF Edit, Spend, Bounded
  <2>3. /\ history'.published = history.published /\ history'.resolved = history.resolved
        /\ history'.stranded = history.stranded /\ history'.apart = history.apart
        /\ history.deleted \subseteq history'.deleted
        /\ file = None => q \in history'.deleted
    <3>1. CASE file # None
      BY <1>1, <1>h, <3>1 DEF Edit, HistoryType
    <3>2. CASE file = None
      BY <1>1, <1>h, <3>2 DEF Edit, HistoryType
    <3> QED  BY <3>1, <3>2
  <2>4. \A p \in Path : local'[m][p] = IF p = q THEN file ELSE local[m][p]
    BY <1>1 DEF Edit, TypeOK
  <2> QED  BY <2>1, <2>2, <2>3, <2>4
<1>2. ASSUME NEW q \in Path, NEW a \in Access, ChangeAccess(m, q, a)
      PROVE  /\ UNCHANGED <<origin, behind, root, head, work, state, store, mirror, first, pass>>
             /\ history'.published = history.published /\ history'.resolved = history.resolved
             /\ history'.stranded = history.stranded /\ history'.apart = history.apart
             /\ history.deleted \subseteq history'.deleted
             /\ count'["cuts"] = count["cuts"] /\ local' = local
             /\ \A p \in Path :
                  access'[m][p] = "blocked" => access[m][p] = "blocked" \/ p \in history'.deleted
  <2>1. UNCHANGED <<origin, behind, root, head, work, local, state, store, mirror, first, pass>>
    BY <1>2 DEF ChangeAccess
  <2>2. count'["cuts"] = count["cuts"]
    BY <1>2, <1>h DEF ChangeAccess, Spend, Bounded
  <2>3. /\ history'.published = history.published /\ history'.resolved = history.resolved
        /\ history'.stranded = history.stranded /\ history'.apart = history.apart
        /\ history.deleted \subseteq history'.deleted
        /\ a = "blocked" => q \in history'.deleted
    BY <1>2, <1>h DEF ChangeAccess, HistoryType
  <2>4. \A p \in Path : access'[m][p] = IF p = q THEN a ELSE access[m][p]
    BY <1>2 DEF ChangeAccess, TypeOK
  <2> QED  BY <2>1, <2>2, <2>3, <2>4
<1>3. ASSUME NEW selections \in Answers(m), QueueBatch(m, selections)
      PROVE  /\ UNCHANGED <<origin, behind, root, head, work, local, access, state, store,
                            mirror, first, pass, history>>
             /\ count'["cuts"] = count["cuts"]
  BY <1>3, <1>h DEF QueueBatch, Spend, Bounded
<1> QED  BY <1>1, <1>2, <1>3 DEF UserStep

(* A death leaves everything on disk; two situations are remembered.       *)
LEMMA CrashEffect ==
  ASSUME TypeOK, NEW m \in Machine, Crash(m)
  PROVE  /\ UNCHANGED <<origin, behind, root, head, work, local, access, state, store, mirror,
                        first, history.published, history.resolved, history.deleted>>
         /\ pass'[m] = NoPass
         /\ count'["cuts"] = count["cuts"] + 1 /\ count'["edits"] = count["edits"]
         /\ history.stranded \subseteq history'.stranded
         /\ StepOf(m) \in {"push", "fetch"} => m \in history'.stranded
         /\ history.apart \subseteq history'.apart
         /\ At(m, "capture") => \A p \in Path :
              state[m][p] # store[m][p] => <<m, p>> \in history'.apart
<1> DEFINE torn == {<<m, p>> : p \in {q \in Path : state[m][q] # store[m][q]}}
<1>h. history \in HistoryType /\ count \in [Bounded -> Nat]
  BY DEF TypeOK
<1>1. UNCHANGED <<origin, behind, root, head, work, local, access, state, store, mirror, first>>
  BY DEF Crash, clone, files, records
<1>2. pass'[m] = NoPass
  BY PassEffects DEF Crash
<1>3. count'["cuts"] = count["cuts"] + 1 /\ count'["edits"] = count["edits"]
  BY <1>h DEF Crash, Spend, Bounded
<1>4. CASE StepOf(m) \in {"push", "fetch"}
  <2>1. history' = [history EXCEPT !.stranded = @ \cup {m}]
    BY <1>4 DEF Crash, At, StepOf
  <2> QED  BY <1>1, <1>2, <1>3, <1>4, <1>h, <2>1 DEF HistoryType, At, StepOf
<1>5. CASE At(m, "capture")
  <2>1. history' = [history EXCEPT !.apart = @ \cup torn]
    BY <1>5 DEF Crash, At
  <2>2. \A p \in Path : state[m][p] # store[m][p] => <<m, p>> \in torn
    OBVIOUS
  <2> HIDE DEF torn
  <2> QED  BY <1>1, <1>2, <1>3, <1>5, <1>h, <2>1, <2>2 DEF HistoryType, At, StepOf
<1>6. CASE ~At(m, "capture") /\ StepOf(m) \notin {"push", "fetch"}
  <2>1. history' = history
    BY <1>6 DEF Crash, At, StepOf
  <2> QED  BY <1>1, <1>2, <1>3, <1>6, <2>1 DEF At, StepOf
<1> QED  BY <1>4, <1>5, <1>6

(* A pass ends before it has done anything.                                *)
GivesUpEarly(m) == PullFails(m) \/ PullWedges(m) \/ FailBatch(m)

LEMMA EarlyEffect ==
  ASSUME TypeOK, NEW m \in Machine, GivesUpEarly(m)
  PROVE  /\ UNCHANGED <<origin, behind, root, head, work, local, access, state, store, mirror,
                        first, history>>
         /\ StepOf(m) \in {"idle", "retry", "collected"} /\ pass'[m] = NoPass
         /\ count'["cuts"] = count["cuts"] /\ count'["edits"] = count["edits"]
<1> USE DEF clone, files, records
<1>1. count \in [Bounded -> Nat]
  BY DEF TypeOK
<1>2. pass'[m] = NoPass
  BY PassEffects DEF GivesUpEarly, PullFails, PullWedges, FailBatch
<1>3. StepOf(m) \in {"idle", "retry", "collected"}
  BY DEF GivesUpEarly, PullFails, PullWedges, PullReady, Pulling, FailBatch, BatchPasses, At, StepOf
<1>4. count'["cuts"] = count["cuts"] /\ count'["edits"] = count["edits"]
  BY <1>1 DEF GivesUpEarly, PullFails, PullWedges, FailBatch, Spend, Bounded
<1> QED  BY <1>2, <1>3, <1>4 DEF GivesUpEarly, PullFails, PullWedges, FailBatch

(* A pull: the clone moves on to origin, and the pass collects.            *)
LEMMA PullEffect ==
  ASSUME TypeOK, NEW m \in Machine, Pull(m)
  PROVE  LET rebased == Rebase(root[m], head[m], origin)
             tree == CarryUntracked(m, rebased)
         IN  /\ UNCHANGED <<origin, local, access, state, store, first, count, history>>
             /\ behind' = behind \ {m}
             /\ root'[m] = origin /\ head'[m] = rebased /\ work'[m] = tree
             /\ mirror'[m] = tree.bundles
             /\ StepOf(m) \in {"idle", "retry"} /\ StepOf(m)' = "collected"
             /\ pass'[m].scan = [p \in Path |-> IF access[m][p] = "ok" THEN local[m][p] ELSE None]
             /\ pass'[m].seen = access[m] /\ pass'[m].base = state[m]
             /\ pass'[m].applied = {} /\ pass'[m].held = {}
<1> DEFINE rebased == Rebase(root[m], head[m], origin)
           tree == CarryUntracked(m, rebased)
           scan == [p \in Path |-> IF access[m][p] = "ok" THEN local[m][p] ELSE None]
           attempt == IF At(m, "idle") THEN PushRetries ELSE pass[m].attempt
           begun == [NoPass EXCEPT !.step = "collected", !.attempt = attempt,
                       !.scan = scan, !.seen = access[m], !.base = state[m]]
<1>1. /\ root' = [root EXCEPT ![m] = origin] /\ head' = [head EXCEPT ![m] = rebased]
      /\ work' = [work EXCEPT ![m] = tree] /\ mirror' = [mirror EXCEPT ![m] = tree.bundles]
      /\ behind' = behind \ {m} /\ pass' = [pass EXCEPT ![m] = begun]
      /\ UNCHANGED <<origin, local, access, state, store, first, count, history>>
  BY DEF Pull, files
<1>2. /\ begun.step = "collected" /\ begun.scan = scan /\ begun.seen = access[m]
      /\ begun.base = state[m] /\ begun.applied = {} /\ begun.held = {}
  <2> HIDE DEF scan, attempt
  <2> QED  BY DEF NoPass
<1>3. StepOf(m) \in {"idle", "retry"}
  BY DEF Pull, PullReady, Pulling, At, StepOf
<1> HIDE DEF rebased, tree, begun
<1>4. /\ root'[m] = origin /\ head'[m] = rebased /\ work'[m] = tree
      /\ mirror'[m] = tree.bundles /\ pass'[m] = begun
  BY <1>1 DEF TypeOK
<1> QED  BY <1>1, <1>2, <1>3, <1>4 DEF rebased, tree, StepOf

(* The batch waits: its paths are held.                                    *)
LEMMA HoldEffect ==
  ASSUME TypeOK, NEW m \in Machine, HoldBatch(m)
  PROVE  /\ UNCHANGED <<origin, behind, root, head, work, local, access, state, store, mirror,
                        first, count, history>>
         /\ At(m, "collected")
         /\ \E held : pass'[m] = [pass[m] EXCEPT !.step = "plan", !.held = held]
         /\ pass'[m].step = "plan"
         /\ pass'[m].seen = pass[m].seen /\ pass'[m].scan = pass[m].scan
         /\ pass'[m].base = pass[m].base /\ pass'[m].applied = pass[m].applied
<1>1. pass[m] \in Pass
  BY DEF TypeOK
<1>2. pass'[m] = [pass[m] EXCEPT !.step = "plan", !.held = Selected(m)]
  BY DEF HoldBatch, TypeOK
<1>3. /\ pass'[m].step = "plan"
      /\ pass'[m].seen = pass[m].seen /\ pass'[m].scan = pass[m].scan
      /\ pass'[m].base = pass[m].base /\ pass'[m].applied = pass[m].applied
  BY <1>1, <1>2 DEF Pass
<1>4. /\ UNCHANGED <<origin, behind, root, head, work, local, access, state, store, mirror,
                      first, count, history>>
      /\ At(m, "collected")
  BY DEF HoldBatch, clone, files, records
<1> QED  BY <1>2, <1>3, <1>4

(* The answers become the canonical files.                                 *)
LEMMA AnswerEffect ==
  ASSUME TypeOK, NEW m \in Machine, ApplyBatch(m)
  PROVE  /\ UNCHANGED <<origin, behind, root, head, local, access, state, store, first, count,
                        history.published, history.deleted, history.stranded, history.apart>>
         /\ At(m, "collected")
         /\ pass'[m] = [pass[m] EXCEPT !.step = "restore", !.applied = pending[m]]
         /\ history.resolved \subseteq history'.resolved
         /\ \A s \in pending[m] : s.bundle \in history'.resolved
         /\ \E gone : /\ work'[m].bundles = work[m].bundles \ gone
                      /\ mirror'[m] = mirror[m] \ gone
         /\ \A p \in Path :
              LET answers == {s.content : s \in {t \in pending[m] : t.bundle.path = p}}
              IN  IF answers = {} THEN work'[m].files[p] = work[m].files[p]
                                  ELSE work'[m].files[p] \in answers
<1> DEFINE gone == {s.bundle : s \in pending[m]}
           answers(p) == {s.content : s \in {t \in pending[m] : t.bundle.path = p}}
<1>1. PICK content \in [Path -> File] :
        /\ \A p \in Path : IF answers(p) = {} THEN content[p] = work[m].files[p]
                                              ELSE content[p] \in answers(p)
        /\ work' = [work EXCEPT ![m].files = content, ![m].bundles = @ \ gone]
  BY DEF ApplyBatch
<1>2. work'[m].files = content /\ work'[m].bundles = work[m].bundles \ gone
  <2> HIDE DEF gone
  <2> QED  BY <1>1 DEF TypeOK, Tree
<1>3. mirror'[m] = mirror[m] \ gone
  BY DEF ApplyBatch, TypeOK
<1>4. pass'[m] = [pass[m] EXCEPT !.step = "restore", !.applied = pending[m]]
  BY DEF ApplyBatch, TypeOK
<1>5. /\ history'.resolved = history.resolved \cup gone
      /\ UNCHANGED <<history.published, history.deleted, history.stranded, history.apart>>
  BY DEF ApplyBatch, TypeOK, HistoryType
<1>6. At(m, "collected") /\ UNCHANGED <<origin, behind, root, head, local, access, state, store,
                                        first, count>>
  BY DEF ApplyBatch, BatchPasses, files
<1>7. \A s \in pending[m] : s.bundle \in gone
  OBVIOUS
<1>8. \A p \in Path : IF answers(p) = {} THEN work'[m].files[p] = work[m].files[p]
                                         ELSE work'[m].files[p] \in answers(p)
  BY <1>1, <1>2
<1> HIDE DEF gone
<1> QED  BY <1>2, <1>3, <1>4, <1>5, <1>6, <1>7, <1>8

(* The chosen contents are written out and adopted as bases.               *)
LEMMA RestoreEffect ==
  ASSUME TypeOK, NEW m \in Machine, NEW broken \in SUBSET Path, Restore(m, broken)
  PROVE  LET written == {s.bundle.path : s \in {t \in pass[m].applied : t.choice # "local"}}
         IN  /\ UNCHANGED <<origin, behind, root, head, work, access, state, store, mirror,
                            first, history>>
             /\ count'["cuts"] = count["cuts"]
             /\ At(m, "restore") /\ StepOf(m)' = "plan"
             /\ broken \subseteq written /\ written \subseteq AnswerPaths(m)
             /\ pass'[m].held = broken /\ pass'[m].applied = pass[m].applied
             /\ pass'[m].seen = access[m]
             /\ \A p \in Path :
                  /\ p \notin written => local'[m][p] = local[m][p]
                  /\ pass'[m].scan[p] = IF access[m][p] = "ok" THEN local'[m][p] ELSE None
                  /\ pass'[m].base[p] = IF p \in AnswerPaths(m) \ broken
                                          THEN work[m].files[p] ELSE pass[m].base[p]
<1> DEFINE written == {s.bundle.path : s \in {t \in pass[m].applied : t.choice # "local"}}
           restored == [p \in Path |-> IF p \in written \ broken
                                         THEN work[m].files[p] ELSE local[m][p]]
           base == [p \in Path |-> IF p \in AnswerPaths(m) \ broken
                                     THEN work[m].files[p] ELSE pass[m].base[p]]
           scan == [p \in Path |-> IF access[m][p] = "ok" THEN restored[p] ELSE None]
<1>1. count'["cuts"] = count["cuts"]
  BY DEF Restore, Spend, TypeOK, Bounded
<1>2. /\ At(m, "restore") /\ broken \subseteq written
      /\ local' = [local EXCEPT ![m] = restored]
      /\ pass' = [pass EXCEPT ![m].step = "plan", ![m].base = base, ![m].held = broken,
                              ![m].seen = access[m], ![m].scan = scan]
      /\ UNCHANGED <<origin, behind, root, head, work, access, state, store, mirror, first, history>>
  BY DEF Restore, AnswerPaths, clone, records
<1>3. written \subseteq AnswerPaths(m)
  BY DEF AnswerPaths
<1>4. local'[m] = restored
  BY <1>2 DEF TypeOK
<1>5. \A p \in Path : /\ p \notin written => restored[p] = local[m][p]
                      /\ scan[p] = IF access[m][p] = "ok" THEN restored[p] ELSE None
                      /\ base[p] = IF p \in AnswerPaths(m) \ broken
                                     THEN work[m].files[p] ELSE pass[m].base[p]
  OBVIOUS
<1> HIDE DEF restored, base, scan
<1>6. /\ pass'[m].step = "plan" /\ pass'[m].base = base /\ pass'[m].held = broken
      /\ pass'[m].seen = access[m] /\ pass'[m].scan = scan
      /\ pass'[m].applied = pass[m].applied
  BY <1>2 DEF TypeOK, Pass
<1> QED  BY <1>1, <1>2, <1>3, <1>4, <1>5, <1>6 DEF StepOf

(* The plan.                                                               *)
LEMMA PlanEffect ==
  ASSUME TypeOK, NEW m \in Machine, Plan(m)
  PROVE  LET todo == {p \in Path \ pass[m].held : Planned(m, p) # "none" /\ ~Suspended(m, p)}
         IN  /\ UNCHANGED <<origin, behind, root, head, work, local, access, state, store, mirror,
                            first, count, history>>
             /\ StepOf(m) \in {"plan", "collected"}
             /\ pass'[m] = [pass[m] EXCEPT !.step = "apply", !.todo = todo, !.keep = Kept(m)]
<1> DEFINE todo == {p \in Path \ pass[m].held : Planned(m, p) # "none" /\ ~Suspended(m, p)}
<1>1. todo = {p \in {q \in Path \ pass[m].held : Planned(m, q) # "none"} : ~Suspended(m, p)}
  OBVIOUS
<1>2. pass' = [pass EXCEPT ![m].step = "apply", ![m].todo = todo, ![m].keep = Kept(m)]
  BY <1>1 DEF Plan
<1> HIDE DEF todo
<1>3. pass'[m] = [pass[m] EXCEPT !.step = "apply", !.todo = todo, !.keep = Kept(m)]
  BY <1>2 DEF TypeOK
<1> QED  BY <1>3 DEF Plan, At, StepOf, clone, files, records, todo

(* One action of the plan: the path is done, everything else stays.        *)
ActsOn(m, p) ==
  /\ UNCHANGED <<origin, behind, root, head, access, state, store, first, history>>
  /\ count'["cuts"] = count["cuts"] /\ count'["edits"] = count["edits"]
  /\ At(m, "apply") /\ At(m, "apply")' /\ p \in pass[m].todo
  /\ pass'[m].todo = pass[m].todo \ {p}
  /\ pass[m].keep \subseteq pass'[m].keep
  /\ pass'[m].scan = pass[m].scan /\ pass'[m].seen = pass[m].seen
  /\ pass'[m].base = pass[m].base /\ pass'[m].held = pass[m].held
  /\ pass'[m].applied = pass[m].applied
  /\ \A q \in Path \ {p} : /\ work'[m].files[q] = work[m].files[q]
                           /\ local'[m][q] = local[m][q]

Unwritten(m, p) == p \in pass'[m].keep /\ local'[m][p] = local[m][p]

(* What becomes of its file in the repository and on the machine.          *)
ActedAs(m, p) ==
  \/ /\ Planned(m, p) = "push"
     /\ work'[m].files[p] = pass[m].scan[p] /\ local'[m][p] = local[m][p]
  \/ /\ Planned(m, p) = "pull"
     /\ work'[m].files[p] = work[m].files[p] /\ local'[m][p] = work[m].files[p]
  \/ /\ Planned(m, p) = "delete-local"
     /\ work'[m].files[p] = work[m].files[p] /\ local'[m][p] = None
  \/ /\ Planned(m, p) \in {"pull", "delete-local"}
     /\ work'[m].files[p] = work[m].files[p] /\ Unwritten(m, p)
  \/ /\ Planned(m, p) = "delete-remote"
     /\ work'[m].files[p] = None /\ (local'[m][p] = None \/ Unwritten(m, p))
  \/ /\ Planned(m, p) = "remove-remote"
     /\ work'[m].files[p] = None /\ local'[m][p] = local[m][p]
  \/ /\ Planned(m, p) = "merge" /\ MergeResult(m, p).outcome = "clean"
     /\ work'[m].files[p] = MergeResult(m, p).data
     /\ local'[m][p] = MergeResult(m, p).data \/ Unwritten(m, p)
  \/ /\ Planned(m, p) = "merge" /\ MergeResult(m, p).outcome # "clean"
     /\ work'[m].files[p] = work[m].files[p] /\ Unwritten(m, p)

(* Only a merge that stops may open a conflict, and only the first one.    *)
OpensOnly(m, p) ==
  \/ work'[m].bundles = work[m].bundles /\ mirror'[m] = mirror[m]
  \/ /\ p \notin ConflictPaths(m)
     /\ work'[m].bundles = work[m].bundles \cup {NewBundle(m, p)}
     /\ mirror'[m] = mirror[m] \cup {NewBundle(m, p)}

LEMMA ApplyEffect ==
  ASSUME TypeOK, NEW m \in Machine, ApplyStep(m)
  PROVE  \E p \in Path : ActsOn(m, p) /\ ActedAs(m, p) /\ OpensOnly(m, p)
<1> USE DEF clone, files, records
<1>p. PICK p \in Path :
        \/ PushToRemote(m, p) \/ PullToLocal(m, p) \/ DeleteLocal(m, p)
        \/ LocalWriteFails(m, p) \/ DeleteRemote(m, p) \/ RemoveRemote(m, p)
        \/ MergeBoth(m, p) \/ MergeStops(m, p)
  BY DEF ApplyStep
<1>1. UNCHANGED <<origin, behind, root, head, access, state, store, first, history>>
  BY <1>p DEF PushToRemote, PullToLocal, DeleteLocal, LocalWriteFails, DeleteRemote, RemoveRemote,
              MergeBoth, MergeStops
<1>2. count'["cuts"] = count["cuts"] /\ count'["edits"] = count["edits"]
  <2>1. count \in [Bounded -> Nat]
    BY DEF TypeOK
  <2> QED  BY <2>1, <1>p DEF PushToRemote, PullToLocal, DeleteLocal, LocalWriteFails, DeleteRemote,
                             RemoveRemote, MergeBoth, MergeStops, Spend, Bounded
<1>3. At(m, "apply") /\ p \in pass[m].todo
  BY <1>p DEF PushToRemote, PullToLocal, DeleteLocal, LocalWriteFails, DeleteRemote, RemoveRemote,
              MergeBoth, MergeStops, Turn
<1>4. Done(m, p) \/ DoneKeeping(m, p)
  BY <1>p DEF PushToRemote, PullToLocal, DeleteLocal, LocalWriteFails, DeleteRemote, RemoveRemote,
              MergeBoth, MergeStops
<1>5. DoneKeeping(m, p) => p \in pass'[m].keep
  BY DEF DoneKeeping, TypeOK, Pass
<1>6. /\ At(m, "apply")' /\ pass'[m].todo = pass[m].todo \ {p}
      /\ pass[m].keep \subseteq pass'[m].keep
      /\ pass'[m].scan = pass[m].scan /\ pass'[m].seen = pass[m].seen
      /\ pass'[m].base = pass[m].base /\ pass'[m].held = pass[m].held
      /\ pass'[m].applied = pass[m].applied
  <2>1. CASE Done(m, p)
    BY <1>3, <2>1 DEF Done, TypeOK, Pass, At
  <2>2. CASE DoneKeeping(m, p)
    BY <1>3, <2>2 DEF DoneKeeping, TypeOK, Pass, At
  <2> QED  BY <1>4, <2>1, <2>2
<1>w. /\ work \in [Machine -> Tree] /\ local \in [Machine -> [Path -> File]]
      /\ mirror \in [Machine -> SUBSET Bundle]
  BY DEF TypeOK
<1> DEFINE Goal == /\ \A q \in Path \ {p} : /\ work'[m].files[q] = work[m].files[q]
                                            /\ local'[m][q] = local[m][q]
                   /\ ActedAs(m, p) /\ OpensOnly(m, p)
<1>11. ASSUME PushToRemote(m, p) PROVE Goal
  BY <1>11, <1>w DEF PushToRemote, Turn, Tree, ActedAs, OpensOnly
<1>12. ASSUME PullToLocal(m, p) PROVE Goal
  BY <1>12, <1>w DEF PullToLocal, Turn, ActedAs, OpensOnly
<1>13. ASSUME DeleteLocal(m, p) PROVE Goal
  BY <1>13, <1>w DEF DeleteLocal, Turn, ActedAs, OpensOnly
<1>14. ASSUME LocalWriteFails(m, p) PROVE Goal
  BY <1>14, <1>5 DEF LocalWriteFails, Turn, ActedAs, OpensOnly, Unwritten
<1>15. ASSUME DeleteRemote(m, p) PROVE Goal
  <2>1. /\ \A q \in Path \ {p} : work'[m].files[q] = work[m].files[q]
        /\ work'[m].files[p] = None /\ work'[m].bundles = work[m].bundles
    BY <1>15, <1>w DEF DeleteRemote, Tree
  <2>2. CASE local' = [local EXCEPT ![m][p] = None]
    BY <1>15, <1>w, <2>1, <2>2 DEF DeleteRemote, Turn, ActedAs, OpensOnly
  <2>3. CASE DoneKeeping(m, p) /\ UNCHANGED local
    BY <1>15, <1>5, <2>1, <2>3 DEF DeleteRemote, Turn, ActedAs, OpensOnly, Unwritten
  <2> QED  BY <1>15, <2>2, <2>3 DEF DeleteRemote
<1>16. ASSUME RemoveRemote(m, p) PROVE Goal
  BY <1>16, <1>w DEF RemoveRemote, Turn, Tree, ActedAs, OpensOnly
<1>17. ASSUME MergeBoth(m, p) PROVE Goal
  <2> DEFINE merge == MergeResult(m, p)
  <2>1. /\ Turn(m, p, "merge") /\ merge.outcome = "clean"
        /\ work' = [work EXCEPT ![m].files[p] = merge.data]
        /\ \/ local' = [local EXCEPT ![m][p] = merge.data]
           \/ DoneKeeping(m, p) /\ UNCHANGED local
        /\ UNCHANGED mirror
    BY <1>17 DEF MergeBoth
  <2> HIDE DEF merge
  <2>2. /\ \A q \in Path \ {p} : work'[m].files[q] = work[m].files[q]
        /\ work'[m].files[p] = merge.data /\ work'[m].bundles = work[m].bundles
    BY <2>1, <1>w DEF Tree
  <2>3. CASE local' = [local EXCEPT ![m][p] = merge.data]
    BY <2>1, <1>w, <2>2, <2>3 DEF Turn, ActedAs, OpensOnly, merge
  <2>4. CASE DoneKeeping(m, p) /\ UNCHANGED local
    BY <2>1, <1>5, <2>2, <2>4 DEF Turn, ActedAs, OpensOnly, Unwritten, merge
  <2> QED  BY <2>1, <2>3, <2>4
<1>18. ASSUME MergeStops(m, p) PROVE Goal
  <2>1. PICK bundle :
          /\ bundle = {} \/ (p \notin ConflictPaths(m) /\ bundle = {NewBundle(m, p)})
          /\ work' = [work EXCEPT ![m].bundles = @ \cup bundle]
          /\ mirror' = [mirror EXCEPT ![m] = @ \cup bundle]
    BY <1>18 DEF MergeStops
  <2>2. /\ work'[m].files = work[m].files
        /\ work'[m].bundles = work[m].bundles \cup bundle /\ mirror'[m] = mirror[m] \cup bundle
    BY <2>1, <1>w DEF Tree
  <2>3. OpensOnly(m, p)
    <3> HIDE DEF NewBundle
    <3> QED  BY <2>1, <2>2 DEF OpensOnly
  <2>4. /\ Planned(m, p) = "merge" /\ MergeResult(m, p).outcome # "clean"
        /\ DoneKeeping(m, p) /\ UNCHANGED local
    BY <1>18 DEF MergeStops, Turn
  <2> QED  BY <2>2, <2>3, <2>4, <1>5 DEF ActedAs, Unwritten
<1>19. Goal
  BY <1>p, <1>11, <1>12, <1>13, <1>14, <1>15, <1>16, <1>17, <1>18
<1> QED  BY <1>1, <1>2, <1>3, <1>6, <1>19 DEF ActsOn

(* git add: the plan is done.                                              *)
LEMMA AddEffect ==
  ASSUME TypeOK, NEW m \in Machine, AddAll(m)
  PROVE  /\ UNCHANGED <<origin, behind, root, head, work, local, access, state, store, mirror,
                        first, count, history>>
         /\ At(m, "apply") /\ pass[m].todo = {}
         /\ pass'[m] = [pass[m] EXCEPT !.step = "commit"]
BY PassEffects DEF AddAll, files, records

LEMMA GitFailsEffect ==
  ASSUME TypeOK, NEW m \in Machine, GitFails(m)
  PROVE  /\ UNCHANGED <<origin, behind, root, head, work, local, access, state, store, mirror,
                        first, history>>
         /\ StepOf(m) \in {"apply", "commit"} /\ pass'[m] = NoPass
         /\ count'["cuts"] = count["cuts"] + 1 /\ count'["edits"] = count["edits"]
<1>1. count'["cuts"] = count["cuts"] + 1 /\ count'["edits"] = count["edits"]
  BY DEF GitFails, Spend, TypeOK, Bounded
<1> QED  BY <1>1, PassEffects DEF GitFails, At, StepOf, clone, files, records

LEMMA CommitEffect ==
  ASSUME TypeOK, NEW m \in Machine, Commit(m)
  PROVE  /\ UNCHANGED <<origin, behind, root, work, local, access, state, store, mirror, first,
                        count, history>>
         /\ At(m, "commit") /\ head'[m] = work[m]
         /\ pass'[m] = [pass[m] EXCEPT !.step = IF work[m] # head[m] THEN "push" ELSE "save"]
BY PassEffects DEF Commit, files, records, TypeOK

(* The push arrives, acknowledged or not.                                  *)
LEMMA PushEffect ==
  ASSUME TypeOK, NEW m \in Machine, PushAccepted(m) \/ PushUnacknowledged(m)
  PROVE  /\ UNCHANGED <<head, work, local, access, state, store, mirror, first,
                        history.resolved, history.deleted, history.stranded, history.apart>>
         /\ count'["cuts"] = count["cuts"] /\ count'["edits"] = count["edits"]
         /\ At(m, "push") /\ m \notin behind
         /\ origin' = head[m] /\ root'[m] = head[m]
         /\ \A p \in Path : history'.published[p] =
              history.published[p] \cup ({head[m].files[p]} \ {None})
         /\ \/ \E step \in {"save", "fetch"} : pass'[m] = [pass[m] EXCEPT !.step = step]
            \/ pass'[m] = NoPass
<1> USE DEF clone, files, records
<1>1. UNCHANGED <<head, work, local, access, state, store, mirror, first>>
  BY DEF PushAccepted, PushUnacknowledged
<1>2. count'["cuts"] = count["cuts"] /\ count'["edits"] = count["edits"]
  BY DEF PushAccepted, PushUnacknowledged, Spend, TypeOK, Bounded
<1>3. /\ m \notin behind /\ origin' = head[m]
      /\ \A p \in Path : history'.published[p] =
           history.published[p] \cup ({head[m].files[p]} \ {None})
      /\ UNCHANGED <<history.resolved, history.deleted, history.stranded, history.apart>>
  <2> DEFINE shared == [p \in Path |-> history.published[p] \cup ({head[m].files[p]} \ {None})]
  <2>1. Publish(m) /\ history \in HistoryType
    BY DEF PushAccepted, PushUnacknowledged, TypeOK
  <2>2. history' = [history EXCEPT !.published = shared, !.opened = @ \cup head[m].bundles]
    BY <2>1 DEF Publish
  <2>3. \A p \in Path : shared[p] = history.published[p] \cup ({head[m].files[p]} \ {None})
    OBVIOUS
  <2> HIDE DEF shared
  <2>4. /\ history'.published = shared
        /\ UNCHANGED <<history.resolved, history.deleted, history.stranded, history.apart>>
    BY <2>1, <2>2 DEF HistoryType
  <2> QED  BY <2>1, <2>3, <2>4 DEF Publish
<1>4. At(m, "push") /\ root'[m] = head[m]
  BY DEF PushAccepted, PushUnacknowledged, TypeOK
<1>5. \/ \E step \in {"save", "fetch"} : pass'[m] = [pass[m] EXCEPT !.step = step]
      \/ pass'[m] = NoPass
  BY PassEffects DEF PushAccepted, PushUnacknowledged, GiveUp
<1> QED  BY <1>1, <1>2, <1>3, <1>4, <1>5

(* It does not: the pass tries again, or leaves its commit behind.         *)
LEMMA RejectEffect ==
  ASSUME TypeOK, NEW m \in Machine, PushFails(m) \/ FetchFails(m)
  PROVE  /\ UNCHANGED <<origin, behind, root, head, work, local, access, state, store, mirror,
                        first, history.published, history.resolved, history.deleted,
                        history.apart>>
         /\ count'["cuts"] = count["cuts"] /\ count'["edits"] = count["edits"]
         /\ StepOf(m) \in {"push", "fetch"}
         /\ history.stranded \subseteq history'.stranded
         /\ \/ pass'[m] = [pass[m] EXCEPT !.step = "fetch"]
            \/ pass'[m] = NoPass /\ m \in history'.stranded
<1> USE DEF clone, files, records
<1>1. UNCHANGED <<origin, behind, root, head, work, local, access, state, store, mirror, first>>
  BY DEF PushFails, FetchFails
<1>2. count'["cuts"] = count["cuts"] /\ count'["edits"] = count["edits"]
  BY DEF PushFails, FetchFails, Spend, TypeOK, Bounded
<1>3. StepOf(m) \in {"push", "fetch"}
  BY DEF PushFails, FetchFails, At, StepOf
<1>4. Strand(m) => /\ UNCHANGED <<history.published, history.resolved, history.deleted,
                                  history.apart>>
                   /\ history'.stranded = history.stranded \cup {m}
  BY DEF Strand, TypeOK, HistoryType
<1>5. \/ GoTo(m, "fetch") /\ UNCHANGED history
      \/ Abort(m) /\ Strand(m)
  BY DEF PushFails, FetchFails, GiveUp
<1>6. CASE GoTo(m, "fetch") /\ UNCHANGED history
  BY <1>1, <1>2, <1>3, <1>6, PassEffects
<1>7. CASE Abort(m) /\ Strand(m)
  BY <1>1, <1>2, <1>3, <1>4, <1>7, PassEffects
<1> QED  BY <1>5, <1>6, <1>7

(* The clone is reset to origin.                                           *)
LEMMA ResetEffect ==
  ASSUME TypeOK, NEW m \in Machine, FetchAndReset(m)
  PROVE  /\ UNCHANGED <<origin, local, access, state, store, mirror, first, count, history>>
         /\ At(m, "fetch") /\ behind' = behind \ {m}
         /\ root'[m] = origin /\ head'[m] = origin /\ work'[m] = origin
         /\ \E attempt : pass'[m] = [NoPass EXCEPT !.step = "retry", !.attempt = attempt]
BY DEF FetchAndReset, files, records, TypeOK

(* state.json, the base store after it, and the first synchronization.     *)
LEMMA SaveEffect ==
  ASSUME TypeOK, NEW m \in Machine, Save(m)
  PROVE  /\ UNCHANGED <<origin, behind, root, head, work, local, access, store, mirror, first,
                        count, history.published, history.resolved, history.deleted,
                        history.stranded>>
         /\ At(m, "save")
         /\ pass'[m] = [pass[m] EXCEPT !.step = "capture", !.loaded = state[m]]
         /\ history.apart \subseteq history'.apart
         /\ \A p \in Path :
              /\ state'[m][p] = IF p \notin Preserved(m) THEN work[m].files[p]
                                ELSE IF p \in Skipped(m) THEN None ELSE pass[m].base[p]
              /\ p \in Preserved(m) /\ pass[m].base[p] # state[m][p]
                   => <<m, p>> \in history'.apart
<1> DEFINE torn == {<<m, p>> : p \in {q \in Preserved(m) : pass[m].base[q] # state[m][q]}}
<1>1. /\ UNCHANGED <<origin, behind, root, head, work, local, access, store, mirror, first, count>>
      /\ At(m, "save")
  BY DEF Save, clone, files
<1>2. pass'[m] = [pass[m] EXCEPT !.step = "capture", !.loaded = state[m]]
  BY DEF Save, TypeOK
<1>3. history' = [history EXCEPT !.apart = @ \cup torn]
  BY DEF Save
<1>4. \A p \in Path : p \in Preserved(m) /\ pass[m].base[p] # state[m][p] => <<m, p>> \in torn
  OBVIOUS
<1>5. \A p \in Path :
        state'[m][p] = IF p \notin Preserved(m) THEN work[m].files[p]
                       ELSE IF p \in Skipped(m) THEN None ELSE pass[m].base[p]
  <2>1. DOMAIN work[m].files = Path
    BY DEF TypeOK, Tree
  <2>2. state'[m] = PreserveSnapshot(BaseOwned(m), work[m].files, Preserved(m))
    BY DEF Save, TypeOK
  <2> QED  BY <2>1, <2>2 DEF PreserveSnapshot, BaseOwned
<1> HIDE DEF torn
<1>6. /\ history'.apart = history.apart \cup torn
      /\ UNCHANGED <<history.published, history.resolved, history.deleted, history.stranded>>
  BY <1>3 DEF TypeOK, HistoryType
<1> QED  BY <1>1, <1>2, <1>4, <1>5, <1>6

LEMMA CaptureEffect ==
  ASSUME TypeOK, NEW m \in Machine, Capture(m)
  PROVE  /\ UNCHANGED <<origin, behind, root, head, work, local, access, state, mirror, first,
                        count, history.published, history.opened, history.resolved,
                        history.deleted, history.stranded>>
         /\ At(m, "capture") /\ pass'[m] = [pass[m] EXCEPT !.step = "mark"]
         /\ ApartElsewhere(m)
         /\ \A p \in Path : <<m, p>> \in history.apart /\ p \in Preserved(m)
                             => <<m, p>> \in history'.apart
         /\ \A p \in Path : store'[m][p] = IF p \in Preserved(m) THEN store[m][p]
                                                                ELSE work[m].files[p]
<1>1. DOMAIN work[m].files = Path
  BY DEF TypeOK, Tree
<1>2. store'[m] = PreserveSnapshot(store[m], work[m].files, Preserved(m))
  BY DEF Capture, TypeOK
<1>3. \A p \in Path : store'[m][p] = IF p \in Preserved(m) THEN store[m][p] ELSE work[m].files[p]
  BY <1>1, <1>2 DEF PreserveSnapshot
<1> DEFINE joined == {<<m, p>> : p \in Path \ Preserved(m)}
<1>4. \A n \in Machine, p \in Path : <<n, p>> \in joined => n = m /\ p \notin Preserved(m)
  OBVIOUS
<1>5. history' = [history EXCEPT !.apart = @ \ joined]
  BY DEF Capture
<1> HIDE DEF joined
<1>6. /\ history'.apart = history.apart \ joined
      /\ UNCHANGED <<history.published, history.opened, history.resolved, history.deleted,
                     history.stranded>>
  BY <1>5 DEF TypeOK, HistoryType
<1>7. /\ UNCHANGED <<origin, behind, root, head, work, local, access, state, mirror, first, count>>
      /\ At(m, "capture") /\ pass'[m] = [pass[m] EXCEPT !.step = "mark"]
  BY PassEffects DEF Capture, clone, files
<1>8. /\ ApartElsewhere(m)
      /\ \A p \in Path : <<m, p>> \in history.apart /\ p \in Preserved(m)
                          => <<m, p>> \in history'.apart
  BY <1>4, <1>6 DEF ApartElsewhere
<1> QED  BY <1>3, <1>6, <1>7, <1>8

LEMMA CaptureFailsEffect ==
  ASSUME TypeOK, NEW m \in Machine, CaptureFails(m)
  PROVE  /\ UNCHANGED <<origin, behind, root, head, work, local, access, store, mirror, first,
                        history>>
         /\ count'["cuts"] = count["cuts"] /\ count'["edits"] = count["edits"]
         /\ At(m, "capture") /\ pass'[m] = NoPass /\ state'[m] = pass[m].loaded
<1>1. count'["cuts"] = count["cuts"] /\ count'["edits"] = count["edits"]
  BY DEF CaptureFails, Spend, TypeOK, Bounded
<1>2. state'[m] = pass[m].loaded
  BY DEF CaptureFails, TypeOK
<1> QED  BY <1>1, <1>2, PassEffects DEF CaptureFails, clone, files

LEMMA MarkEffect ==
  ASSUME TypeOK, NEW m \in Machine, MarkFirstSync(m)
  PROVE  /\ UNCHANGED <<origin, behind, root, head, work, local, access, state, store, mirror,
                        count, history>>
         /\ At(m, "mark") /\ pass'[m] = NoPass
BY PassEffects DEF MarkFirstSync, clone, files

(* A step of the program is one of these.                                  *)
LEMMA StepCases ==
  ASSUME NEW m \in Machine, SyncStep(m)
  PROVE  \/ Pull(m) \/ GivesUpEarly(m) \/ HoldBatch(m) \/ ApplyBatch(m)
         \/ (\E broken \in SUBSET Path : Restore(m, broken))
         \/ Plan(m) \/ ApplyStep(m) \/ AddAll(m) \/ GitFails(m) \/ Commit(m)
         \/ (PushAccepted(m) \/ PushUnacknowledged(m)) \/ (PushFails(m) \/ FetchFails(m))
         \/ FetchAndReset(m) \/ Save(m) \/ Capture(m) \/ CaptureFails(m) \/ MarkFirstSync(m)
BY DEF SyncStep, GivesUpEarly, BatchStep, PublishStep, FinishStep

-----------------------------------------------------------------------------
(* What the plan of a path says of its base, its local and its remote file.*)

(* A blocked path is never pulled, pushed or merged, first synchronization *)
(* or not.                                                                 *)
LEMMA PlanOfBlocked ==
  ASSUME NEW m \in Machine, NEW p \in Path, pass[m].seen[p] = "blocked"
  PROVE  Planned(m, p) = IF work[m].files[p] # None THEN "remove-remote" ELSE "none"
<1>1. p \notin Skipped(m)
  BY DEF Skipped
<1> QED  BY <1>1 DEF Planned, Decide, Directed

LEMMA SkippedIsNotPlanned ==
  ASSUME NEW m \in Machine, NEW p \in Path, Planned(m, p) # "none"
  PROVE  pass[m].seen[p] # "skipped"
BY DEF Planned, Skipped

(* Once merging, a machine follows the three-way decision.                 *)
LEMMA PlanOfMerging ==
  ASSUME NEW m \in Machine, NEW p \in Path, m \in first => FirstMode[m] = "merge",
         pass[m].seen[p] # "skipped"
  PROVE  LET base == pass[m].base[p]
             mine == pass[m].scan[p]
             theirs == work[m].files[p]
         IN  /\ Planned(m, p) = Decide(base, mine, theirs, pass[m].seen[p] = "blocked")
             /\ Planned(m, p) = "push" => mine # None /\ base = theirs
             /\ Planned(m, p) = "pull" => theirs # None /\ base = mine /\ base # theirs
             /\ Planned(m, p) = "delete-local" => theirs = None /\ base = mine /\ base # None
             /\ Planned(m, p) = "delete-remote" => mine = None /\ base = theirs /\ base # None
             /\ Planned(m, p) = "remove-remote" => pass[m].seen[p] = "blocked"
             /\ Planned(m, p) = "merge" => base # mine /\ base # theirs
             /\ Planned(m, p) = "none" => pass[m].seen[p] = "blocked" \/ mine = theirs
<1>1. Planned(m, p) = Decide(pass[m].base[p], pass[m].scan[p], work[m].files[p],
                             pass[m].seen[p] = "blocked")
  BY DEF Planned, Skipped, Directed
<1>2. CASE pass[m].seen[p] = "blocked"
  BY <1>1, <1>2 DEF Decide
<1>3. CASE pass[m].seen[p] # "blocked"
  BY <1>1, <1>3 DEF Decide, SideChanged
<1> QED  BY <1>1, <1>2, <1>3

(* Whatever the direction, what is merged differs from the base.           *)
LEMMA MergeDiffers ==
  ASSUME NEW m \in Machine, NEW p \in Path, Planned(m, p) = "merge"
  PROVE  /\ pass[m].base[p] # pass[m].scan[p]
         /\ pass[m].base[p] # work[m].files[p]
BY DEF Planned, Skipped, Directed, Decide, SideChanged

-----------------------------------------------------------------------------
(* Blocked content leaves.                                                 *)

LEMMA BlockedOwn ==
  ASSUME TypeOK, NEW m \in Machine, BlockedAt(m), UserStep(m) \/ Crash(m) \/ SyncStep(m)
  PROVE  BlockedAt(m)'
<1> USE DEF At, StepOf
<1>r. pass[m] \in Pass
  BY DEF TypeOK
<1>0. ASSUME pass'[m].step \in {"idle", "retry", "collected", "restore", "plan", "fetch",
                                "capture", "mark"}
      PROVE  BlockedAt(m)'
  BY <1>0 DEF BlockedAt
<1>1. CASE UserStep(m)
  BY <1>1, UserEffect DEF BlockedAt
<1>2. CASE Crash(m) \/ GivesUpEarly(m) \/ GitFails(m) \/ CaptureFails(m) \/ MarkFirstSync(m)
  BY <1>0, <1>2, CrashEffect, EarlyEffect, GitFailsEffect, CaptureFailsEffect, MarkEffect
     DEF NoPass
<1>3. CASE Pull(m)
  BY <1>0, <1>3, PullEffect
<1>4. CASE HoldBatch(m) \/ ApplyBatch(m)
  <2>1. CASE HoldBatch(m)
    BY <1>0, <2>1, HoldEffect
  <2>2. CASE ApplyBatch(m)
    BY <1>0, <2>2, <1>r, AnswerEffect DEF Pass
  <2> QED  BY <1>4, <2>1, <2>2
<1>5. ASSUME NEW broken \in SUBSET Path, Restore(m, broken) PROVE BlockedAt(m)'
  BY <1>0, <1>5, RestoreEffect
<1>6. CASE Plan(m)
  <2>1. /\ At(m, "apply")' /\ UNCHANGED work
        /\ pass'[m].held = pass[m].held /\ pass'[m].seen = pass[m].seen
        /\ pass'[m].todo = {p \in Path \ pass[m].held :
                              Planned(m, p) # "none" /\ ~Suspended(m, p)}
    BY <1>6, <1>r, PlanEffect DEF Pass
  <2>2. ASSUME NEW p \in Path \ pass[m].held, pass[m].seen[p] = "blocked",
               work[m].files[p] # None
        PROVE  p \in pass'[m].todo
    BY <2>1, <2>2, PlanOfBlocked DEF Suspended
  <2> QED  BY <2>1, <2>2 DEF BlockedAt
<1>7. CASE ApplyStep(m)
  <2>1. PICK p \in Path : ActsOn(m, p) /\ ActedAs(m, p)
    BY <1>7, ApplyEffect
  <2>2. pass[m].seen[p] = "blocked" => work'[m].files[p] = None
    <3> HIDE DEF At, StepOf
    <3> QED  BY <2>1, PlanOfBlocked DEF ActedAs
  <2> QED  BY <2>1, <2>2 DEF ActsOn, BlockedAt
<1>8. CASE AddAll(m)
  BY <1>8, <1>r, AddEffect DEF BlockedAt, Pass
<1>9. CASE Commit(m)
  BY <1>9, <1>r, CommitEffect DEF BlockedAt, Pass
<1>10. CASE PushAccepted(m) \/ PushUnacknowledged(m)
  <2>1. \/ pass'[m] = NoPass
        \/ /\ pass'[m].held = pass[m].held /\ pass'[m].seen = pass[m].seen
           /\ pass'[m].step \in {"save", "fetch"}
    BY <1>10, <1>r, PushEffect DEF Pass
  <2>2. At(m, "push") /\ UNCHANGED head
    BY <1>10, PushEffect
  <2>3. CASE pass'[m] = NoPass
    BY <1>0, <2>3 DEF NoPass
  <2> QED  BY <2>1, <2>2, <2>3 DEF BlockedAt
<1>11. CASE PushFails(m) \/ FetchFails(m)
  <2>1. pass'[m] = [pass[m] EXCEPT !.step = "fetch"] \/ pass'[m] = NoPass
    BY <1>11, RejectEffect
  <2>2. pass'[m].step \in {"idle", "fetch"}
    BY <2>1, <1>r DEF Pass, NoPass
  <2> QED  BY <1>0, <2>2
<1>12. CASE FetchAndReset(m)
  BY <1>0, <1>12, ResetEffect DEF NoPass
<1>13. CASE Save(m) \/ Capture(m)
  <2>1. \/ pass'[m] = [pass[m] EXCEPT !.step = "capture", !.loaded = state[m]]
        \/ pass'[m] = [pass[m] EXCEPT !.step = "mark"]
    BY <1>13, SaveEffect, CaptureEffect
  <2>2. pass'[m].step \in {"capture", "mark"}
    BY <2>1, <1>r DEF Pass
  <2> QED  BY <1>0, <2>2
<1> HIDE DEF At, StepOf
<1> QED  BY <1>1, <1>2, <1>3, <1>4, <1>5, <1>6, <1>7, <1>8, <1>9, <1>10, <1>11, <1>12, <1>13,
            StepCases

LEMMA BlockedNext == TypeOK /\ BlockedInv /\ [Next]_vars => BlockedInv'
<1> SUFFICES ASSUME TypeOK, BlockedInv, [Next]_vars, NEW n \in Machine PROVE BlockedAt(n)'
  BY DEF BlockedInv
<1>1. ASSUME NEW m \in Machine, UserStep(m) \/ Crash(m) \/ SyncStep(m), m # n
      PROVE  BlockedAt(n)'
  BY <1>1, OthersKeep DEF Mine, BlockedInv, BlockedAt, At, StepOf
<1>2. ASSUME UserStep(n) \/ Crash(n) \/ SyncStep(n) PROVE BlockedAt(n)'
  BY <1>2, BlockedOwn DEF BlockedInv
<1>3. CASE UNCHANGED vars
  BY <1>3 DEF vars, clone, BlockedInv, BlockedAt, At, StepOf
<1> QED  BY <1>1, <1>2, <1>3 DEF Next

(* From the plan on a pass changes neither its held paths nor the queue,   *)
(* and closes no bundle.                                                   *)
LEMMA WaitingKept ==
  ASSUME TypeOK, NEW m \in Machine, Plan(m) \/ ApplyStep(m) \/ PublishStep(m) \/ FinishStep(m)
  PROVE  /\ pending' = pending /\ mirror[m] \subseteq mirror'[m]
         /\ pass'[m].step # "collected"
         /\ \/ pass'[m].held = pass[m].held /\ pass'[m].applied = pass[m].applied
            \/ pass'[m].held = {}
<1>r. pass[m] \in Pass /\ pass \in [Machine -> Pass]
  BY DEF TypeOK
<1>n. NoPass.held = {} /\ NoPass.step = "idle"
  BY DEF NoPass
<1>1. CASE Plan(m)
  BY <1>1, <1>r DEF Plan, records, Pass
<1>2. CASE ApplyStep(m)
  <2>1. PICK p \in Path :
          \/ PushToRemote(m, p) \/ PullToLocal(m, p) \/ DeleteLocal(m, p)
          \/ LocalWriteFails(m, p) \/ DeleteRemote(m, p) \/ RemoveRemote(m, p)
          \/ MergeBoth(m, p) \/ MergeStops(m, p)
    BY <1>2 DEF ApplyStep
  <2>2. pending' = pending /\ mirror[m] \subseteq mirror'[m]
    BY <2>1 DEF PushToRemote, PullToLocal, DeleteLocal, LocalWriteFails, DeleteRemote,
                RemoveRemote, MergeBoth, MergeStops, records, TypeOK
  <2>3. Done(m, p) \/ DoneKeeping(m, p)
    BY <2>1 DEF PushToRemote, PullToLocal, DeleteLocal, LocalWriteFails, DeleteRemote,
                RemoveRemote, MergeBoth, MergeStops
  <2>4. At(m, "apply")
    BY <2>1 DEF PushToRemote, PullToLocal, DeleteLocal, LocalWriteFails, DeleteRemote,
                RemoveRemote, MergeBoth, MergeStops, Turn
  <2>5. /\ pass'[m].step = "apply" /\ pass'[m].held = pass[m].held
        /\ pass'[m].applied = pass[m].applied
    BY <1>r, <2>3, <2>4 DEF Done, DoneKeeping, At, Pass
  <2> QED  BY <2>2, <2>5
<1>3. CASE PublishStep(m) /\ ~FetchAndReset(m)
  <2>1. \/ \E step \in {"commit", "push", "save", "fetch"} : GoTo(m, step)
        \/ Abort(m)
    BY <1>3 DEF PublishStep, AddAll, GitFails, Commit, PushAccepted, PushFails, PushUnacknowledged,
                FetchFails, GiveUp
  <2>2. UNCHANGED <<pending, mirror>>
    BY <1>3 DEF PublishStep, AddAll, GitFails, Commit, PushAccepted, PushFails, PushUnacknowledged,
                FetchFails, records
  <2>3. CASE Abort(m)
    BY <1>n, <2>2, <2>3, PassEffects
  <2>4. ASSUME NEW step \in {"commit", "push", "save", "fetch"}, GoTo(m, step)
        PROVE  /\ pass'[m].step = step /\ pass'[m].held = pass[m].held
               /\ pass'[m].applied = pass[m].applied
    <3>1. pass'[m] = [pass[m] EXCEPT !.step = step]
      BY <2>4, PassEffects
    <3> QED  BY <1>r, <3>1 DEF Pass
  <2>5. CASE \E step \in {"commit", "push", "save", "fetch"} : GoTo(m, step)
    BY <2>2, <2>4, <2>5
  <2> QED  BY <2>1, <2>3, <2>5
<1>4. CASE FetchAndReset(m)
  <2>1. \E attempt : pass'[m] = [NoPass EXCEPT !.step = "retry", !.attempt = attempt]
    BY <1>4, ResetEffect
  <2>2. pass'[m].held = {} /\ pass'[m].step = "retry"
    BY <2>1 DEF NoPass
  <2> QED  BY <1>4, <2>2 DEF FetchAndReset, records
<1>5. CASE FinishStep(m)
  <2>1. UNCHANGED <<pending, mirror>>
    BY <1>5 DEF FinishStep, Save, Capture, CaptureFails, MarkFirstSync
  <2>2. CASE Save(m)
    BY <1>r, <2>1, <2>2 DEF Save, Pass
  <2>3. CASE ~Save(m)
    <3>1. GoTo(m, "mark") \/ Abort(m)
      BY <1>5, <2>3 DEF FinishStep, Capture, CaptureFails, MarkFirstSync
    <3>2. pass'[m] = [pass[m] EXCEPT !.step = "mark"] \/ pass'[m] = NoPass
      BY <3>1, PassEffects
    <3> QED  BY <1>n, <1>r, <2>1, <3>2 DEF Pass
  <2> QED  BY <2>2, <2>3
<1> QED  BY <1>1, <1>2, <1>3, <1>4, <1>5

LEMMA WaitsOwn ==
  ASSUME TypeOK, NEW m \in Machine, WaitsAt(m), UserStep(m) \/ Crash(m) \/ SyncStep(m)
  PROVE  WaitsAt(m)'
<1>r. pass[m] \in Pass
  BY DEF TypeOK
<1>e. ASSUME pass'[m].held = {} PROVE WaitsAt(m)'
  BY <1>e DEF WaitsAt
<1>k. ASSUME pass'[m].held = pass[m].held, pass'[m].applied = pass[m].applied,
             pass'[m].step # "collected" \/ pass'[m].step = pass[m].step,
             Selected(m) \subseteq Selected(m)'
      PROVE  WaitsAt(m)'
  BY <1>k DEF WaitsAt, AnswerWaits, AnswersTo, At
<1>s. ASSUME pending'[m] = pending[m], mirror[m] \subseteq mirror'[m]
      PROVE  Selected(m) \subseteq Selected(m)'
  BY <1>s DEF Selected
<1>1. CASE UserStep(m)
  <2>1. Selected(m) = {} \/ pending'[m] = pending[m]
    BY <1>1 DEF UserStep, Edit, ChangeAccess, QueueBatch, Selected, records
  <2>2. UNCHANGED <<mirror, pass>>
    BY <1>1, UserEffect
  <2>3. Selected(m) \subseteq Selected(m)'
    BY <1>s, <2>1, <2>2
  <2> QED  BY <1>k, <2>2, <2>3
<1>2. CASE Crash(m) \/ GivesUpEarly(m)
  BY <1>e, <1>2, CrashEffect, EarlyEffect DEF NoPass
<1>3. CASE Pull(m)
  BY <1>e, <1>3, PullEffect
<1>4. CASE HoldBatch(m)
  <2>1. /\ pass'[m].held = Selected(m) /\ pass'[m].step = "plan"
        /\ UNCHANGED <<pending, mirror>>
    BY <1>4, <1>r DEF HoldBatch, records, TypeOK, Pass
  <2>2. Selected(m)' = Selected(m)
    BY <2>1 DEF Selected
  <2> QED  BY <2>1, <2>2 DEF WaitsAt, AnswerWaits, At
<1>5. CASE ApplyBatch(m)
  BY <1>e, <1>5, <1>r, AnswerEffect DEF WaitsAt, Pass
<1>6. ASSUME NEW broken \in SUBSET Path, Restore(m, broken) PROVE WaitsAt(m)'
  <2>1. /\ pass'[m].held \subseteq AnswerPaths(m) /\ pass'[m].applied = pass[m].applied
        /\ pass'[m].step = "plan"
    BY <1>6, RestoreEffect DEF StepOf
  <2>2. \A p \in AnswerPaths(m) : AnswersTo(m, p)' # {}
    BY <2>1 DEF AnswerPaths, AnswersTo
  <2> QED  BY <2>1, <2>2 DEF WaitsAt, AnswerWaits, At
<1>7. CASE Plan(m) \/ ApplyStep(m) \/ PublishStep(m) \/ FinishStep(m)
  BY <1>e, <1>k, <1>s, <1>7, WaitingKept
<1> QED  BY <1>1, <1>2, <1>3, <1>4, <1>5, <1>6, <1>7 DEF SyncStep, BatchStep, GivesUpEarly

LEMMA WaitsNext == TypeOK /\ WaitsInv /\ [Next]_vars => WaitsInv'
<1> SUFFICES ASSUME TypeOK, WaitsInv, [Next]_vars, NEW n \in Machine PROVE WaitsAt(n)'
  BY DEF WaitsInv
<1>0. ASSUME UNCHANGED <<pass[n], mirror[n], pending[n]>> PROVE WaitsAt(n)'
  BY <1>0 DEF WaitsInv, WaitsAt, AnswerWaits, AnswersTo, Selected, At
<1>1. ASSUME NEW m \in Machine, UserStep(m) \/ Crash(m) \/ SyncStep(m), m # n
      PROVE  WaitsAt(n)'
  <2>1. UNCHANGED <<pass[n], mirror[n]>>
    BY <1>1, OthersKeep DEF Mine
  <2>2. pending'[n] = pending[n]
    <3>1. pending \in [Machine -> SUBSET Selection]
      BY DEF TypeOK
    <3>2. CASE UserStep(m) \/ Crash(m)
      BY <1>1, <3>1, <3>2 DEF UserStep, Edit, ChangeAccess, QueueBatch, Crash, records
    <3>3. CASE Pull(m) \/ PullFails(m) \/ PullWedges(m)
      BY <3>3 DEF Pull, PullFails, PullWedges, records
    <3>4. CASE BatchStep(m)
      BY <1>1, <3>1, <3>4 DEF BatchStep, HoldBatch, FailBatch, ApplyBatch, Restore, records
    <3>5. CASE Plan(m) \/ ApplyStep(m) \/ PublishStep(m) \/ FinishStep(m)
      BY <3>5, WaitingKept
    <3> QED  BY <1>1, <3>2, <3>3, <3>4, <3>5 DEF SyncStep
  <2> QED  BY <1>0, <2>1, <2>2
<1>2. ASSUME UserStep(n) \/ Crash(n) \/ SyncStep(n) PROVE WaitsAt(n)'
  BY <1>2, WaitsOwn DEF WaitsInv
<1>3. CASE UNCHANGED vars
  BY <1>0, <1>3 DEF vars, records
<1> QED  BY <1>1, <1>2, <1>3 DEF Next

(***************************************************************************)
(* What a blocked path held is gone from the commit a finished pass leaves *)
(* behind, whatever conflicts are open and whatever was chosen for the     *)
(* first synchronization (removals of blocked content are not suspended);  *)
(* unless the path was held back, and then the answer to its conflict is   *)
(* still queued or was applied in this pass.  On held paths blocked        *)
(* content may stay published.                                             *)
(***************************************************************************)
THEOREM SecretsLeave == Spec => []BlockedLeaves
<1>1. Init => BlockedInv /\ WaitsInv
  BY DEF Init, BlockedInv, BlockedAt, WaitsInv, WaitsAt, NoPass, At, StepOf
<1>2. BlockedInv /\ WaitsInv => BlockedLeaves
  <2> SUFFICES ASSUME BlockedInv, WaitsInv, NEW m \in Machine, At(m, "save"), NEW p \in Path,
                      pass[m].seen[p] = "blocked", p \notin pass[m].held
               PROVE  head[m].files[p] = None
    BY DEF BlockedLeaves, WaitsInv, WaitsAt
  <2> QED  BY DEF BlockedInv, BlockedAt, At, StepOf
<1> QED  BY <1>1, <1>2, TypeCorrect, BlockedNext, WaitsNext, PTL DEF Spec

-----------------------------------------------------------------------------
(* Answers that could not be written out are published.                    *)

(* A pass that goes on to its next step, and nothing else.                 *)
Proceeds(m, step) ==
  /\ pass'[m].step = step
  /\ pass'[m].scan = pass[m].scan /\ pass'[m].seen = pass[m].seen
  /\ pass'[m].base = pass[m].base /\ pass'[m].loaded = pass[m].loaded
  /\ pass'[m].todo = pass[m].todo /\ pass'[m].keep = pass[m].keep
  /\ pass'[m].held = pass[m].held /\ pass'[m].applied = pass[m].applied

LEMMA ProceedsBy ==
  ASSUME TypeOK, NEW m \in Machine, NEW step, pass'[m] = [pass[m] EXCEPT !.step = step]
  PROVE  Proceeds(m, step)
BY DEF TypeOK, Pass, Proceeds

(* The steps that end a pass, or that only move it on.                     *)
Ends(m) ==
  \/ Crash(m) \/ GivesUpEarly(m) \/ GitFails(m) \/ CaptureFails(m) \/ MarkFirstSync(m)

LEMMA EndsEffect ==
  ASSUME TypeOK, NEW m \in Machine, Ends(m)
  PROVE  /\ UNCHANGED <<origin, behind, root, head, work, local, access, store, mirror,
                        history.published, history.resolved, history.deleted>>
         /\ pass'[m] = NoPass
         /\ history.stranded \subseteq history'.stranded
         /\ history.apart \subseteq history'.apart
         /\ StepOf(m) \in {"push", "fetch"} => m \in history'.stranded
         /\ state'[m] = state[m] \/ (At(m, "capture") /\ state'[m] = pass[m].loaded)
<1> USE DEF At, StepOf
<1>1. ASSUME GivesUpEarly(m) \/ GitFails(m) \/ CaptureFails(m) \/ MarkFirstSync(m)
      PROVE  StepOf(m) \notin {"push", "fetch"}
  BY <1>1, EarlyEffect, GitFailsEffect, CaptureFailsEffect, MarkEffect
<1> QED
BY <1>1, CrashEffect, EarlyEffect, GitFailsEffect, CaptureFailsEffect, MarkEffect DEF Ends

LEMMA SaveFields ==
  ASSUME TypeOK, NEW m \in Machine, Save(m)
  PROVE  /\ pass'[m].step = "capture" /\ pass'[m].loaded = state[m]
         /\ pass'[m].keep = pass[m].keep /\ pass'[m].applied = pass[m].applied
         /\ pass'[m].seen = pass[m].seen
<1>1. pass'[m] = [pass[m] EXCEPT !.step = "capture", !.loaded = state[m]]
  BY SaveEffect
<1> QED  BY <1>1 DEF TypeOK, Pass

(* A plan says which paths to act upon and which keep their base.          *)
LEMMA PlanFields ==
  ASSUME TypeOK, NEW m \in Machine, Plan(m)
  PROVE  /\ pass'[m].step = "apply"
         /\ pass'[m].scan = pass[m].scan /\ pass'[m].seen = pass[m].seen
         /\ pass'[m].base = pass[m].base /\ pass'[m].held = pass[m].held
         /\ pass'[m].applied = pass[m].applied /\ pass'[m].keep = Kept(m)
         /\ pass'[m].todo \subseteq Path \ pass[m].held
         /\ \A p \in Path : p \in pass'[m].todo <=>
              p \notin pass[m].held /\ Planned(m, p) # "none" /\ ~Suspended(m, p)
<1> DEFINE todo == {p \in Path \ pass[m].held : Planned(m, p) # "none" /\ ~Suspended(m, p)}
<1>1. pass'[m] = [pass[m] EXCEPT !.step = "apply", !.todo = todo, !.keep = Kept(m)]
  BY PlanEffect
<1>2. /\ todo \subseteq Path \ pass[m].held
      /\ \A p \in Path : p \in todo <=>
           p \notin pass[m].held /\ Planned(m, p) # "none" /\ ~Suspended(m, p)
  OBVIOUS
<1> HIDE DEF todo
<1> QED  BY <1>1, <1>2 DEF TypeOK, Pass

LEMMA OwnCases ==
  ASSUME NEW m \in Machine, UserStep(m) \/ Crash(m) \/ SyncStep(m)
  PROVE  \/ UserStep(m) \/ Ends(m) \/ Pull(m) \/ HoldBatch(m) \/ ApplyBatch(m)
         \/ (\E broken \in SUBSET Path : Restore(m, broken))
         \/ Plan(m) \/ ApplyStep(m) \/ AddAll(m) \/ Commit(m)
         \/ (PushAccepted(m) \/ PushUnacknowledged(m)) \/ (PushFails(m) \/ FetchFails(m))
         \/ FetchAndReset(m) \/ Save(m) \/ Capture(m)
BY StepCases DEF Ends

LEMMA HeldOwn ==
  ASSUME TypeOK, NEW m \in Machine, HeldAt(m), UserStep(m) \/ Crash(m) \/ SyncStep(m)
  PROVE  HeldAt(m)'
<1> USE DEF At, StepOf
<1>r. pass[m] \in Pass
  BY DEF TypeOK
<1>0. ASSUME pass'[m].step \in {"idle", "retry", "fetch", "capture", "mark"}
      PROVE  HeldAt(m)'
  BY <1>0 DEF HeldAt
<1>n. ASSUME pass'[m].applied = {}, pass'[m].step # "apply" PROVE HeldAt(m)'
  BY <1>n DEF HeldAt, AnswersTo
<1>1. CASE UserStep(m)
  BY <1>1, UserEffect DEF HeldAt, AnswersTo
<1>2. CASE Ends(m)
  BY <1>0, <1>2, EndsEffect DEF NoPass
<1>3. CASE Pull(m)
  BY <1>n, <1>3, PullEffect
<1>4. CASE HoldBatch(m)
  <2>1. pass'[m].step = "plan" /\ pass'[m].applied = pass[m].applied
    BY <1>4, HoldEffect
  <2>2. pass[m].applied = {}
    BY <1>4, HoldEffect DEF HeldAt
  <2> QED  BY <1>n, <2>1, <2>2
<1>5. CASE ApplyBatch(m)
  <2>1. pass'[m].step = "restore" /\ pass'[m].applied = pending[m]
    BY <1>5, <1>r, AnswerEffect DEF Pass
  <2>2. \A p \in Path : AnswersTo(m, p)' # {} => work'[m].files[p] \in AnswersTo(m, p)'
    BY <1>5, <2>1, AnswerEffect DEF AnswersTo
  <2> QED  BY <2>1, <2>2 DEF HeldAt
<1>6. ASSUME NEW broken \in SUBSET Path, Restore(m, broken) PROVE HeldAt(m)'
  <2>1. /\ At(m, "restore") /\ pass'[m].step = "plan"
        /\ pass'[m].applied = pass[m].applied /\ UNCHANGED work
    BY <1>6, RestoreEffect
  <2> QED  BY <2>1 DEF HeldAt, AnswersTo
<1>7. CASE Plan(m)
  <2>1. /\ pass'[m].step = "apply" /\ UNCHANGED work /\ pass[m].step \in {"plan", "collected"}
        /\ pass'[m].held = pass[m].held /\ pass'[m].applied = pass[m].applied
        /\ pass'[m].todo \subseteq Path \ pass[m].held
    BY <1>7, PlanEffect, PlanFields
  <2> QED  BY <2>1 DEF HeldAt, AnswersTo
<1>8. CASE ApplyStep(m)
  <2>1. PICK p \in Path : ActsOn(m, p)
    BY <1>8, ApplyEffect
  <2> QED  BY <2>1 DEF ActsOn, HeldAt, AnswersTo
<1>9. CASE AddAll(m)
  <2>1. At(m, "apply") /\ UNCHANGED work /\ Proceeds(m, "commit")
    BY <1>9, AddEffect, ProceedsBy
  <2> QED  BY <2>1 DEF Proceeds, HeldAt, AnswersTo
<1>10. CASE Commit(m)
  <2>1. /\ At(m, "commit") /\ head'[m] = work[m]
        /\ Proceeds(m, "push") \/ Proceeds(m, "save")
    BY <1>10, CommitEffect, ProceedsBy
  <2> QED  BY <2>1 DEF Proceeds, HeldAt, AnswersTo
<1>11. CASE PushAccepted(m) \/ PushUnacknowledged(m)
  <2>1. /\ At(m, "push") /\ UNCHANGED head
        /\ \/ \E step \in {"save", "fetch"} : Proceeds(m, step)
           \/ pass'[m] = NoPass
    <3>1. ASSUME NEW step \in {"save", "fetch"}, pass'[m] = [pass[m] EXCEPT !.step = step]
          PROVE  Proceeds(m, step)
      BY <3>1, ProceedsBy
    <3> QED  BY <1>11, <3>1, PushEffect
  <2>2. CASE Proceeds(m, "save")
    BY <2>1, <2>2 DEF Proceeds, HeldAt, AnswersTo
  <2> QED  BY <1>0, <2>1, <2>2 DEF Proceeds, NoPass
<1>12. CASE PushFails(m) \/ FetchFails(m)
  <2>1. Proceeds(m, "fetch") \/ pass'[m] = NoPass
    BY <1>12, RejectEffect, ProceedsBy
  <2> QED  BY <1>0, <2>1 DEF Proceeds, NoPass
<1>13. CASE FetchAndReset(m)
  BY <1>0, <1>13, ResetEffect DEF NoPass
<1>14. CASE Save(m)
  BY <1>0, <1>14, <1>r, SaveEffect DEF Pass
<1>15. CASE Capture(m)
  BY <1>0, <1>15, <1>r, CaptureEffect DEF Pass
<1> HIDE DEF At, StepOf
<1> QED  BY <1>1, <1>2, <1>3, <1>4, <1>5, <1>6, <1>7, <1>8, <1>9, <1>10, <1>11, <1>12, <1>13,
            <1>14, <1>15, OwnCases

LEMMA HeldNext == TypeOK /\ HeldInv /\ [Next]_vars => HeldInv'
<1> SUFFICES ASSUME TypeOK, HeldInv, [Next]_vars, NEW n \in Machine PROVE HeldAt(n)'
  BY DEF HeldInv
<1>1. ASSUME NEW m \in Machine, UserStep(m) \/ Crash(m) \/ SyncStep(m), m # n
      PROVE  HeldAt(n)'
  BY <1>1, OthersKeep DEF Mine, HeldInv, HeldAt, AnswersTo, At, StepOf
<1>2. ASSUME UserStep(n) \/ Crash(n) \/ SyncStep(n) PROVE HeldAt(n)'
  BY <1>2, HeldOwn DEF HeldInv
<1>3. CASE UNCHANGED vars
  BY <1>3 DEF vars, clone, HeldInv, HeldAt, AnswersTo, At, StepOf
<1> QED  BY <1>1, <1>2, <1>3 DEF Next

(***************************************************************************)
(* An answer whose agent file could not be written is published all the    *)
(* same: the old local file does not win it back within the pass (a path   *)
(* whose restore failed is held out of the plan).                          *)
(***************************************************************************)
THEOREM HeldAnswersStay == Spec => []HeldAnswerSurvives
<1>1. Init => HeldInv
  BY DEF Init, HeldInv, HeldAt, AnswersTo, NoPass, At, StepOf
<1>2. TypeOK /\ HeldInv => HeldAnswerSurvives
  <2> SUFFICES ASSUME TypeOK, HeldInv, NEW m \in Machine, At(m, "save"),
                      NEW p \in pass[m].held, AnswersTo(m, p) # {}
               PROVE  head[m].files[p] \in AnswersTo(m, p)
    BY DEF HeldAnswerSurvives
  <2>1. p \in Path
    BY DEF TypeOK, Pass
  <2> QED  BY <2>1 DEF HeldInv, HeldAt, At, StepOf
<1> QED  BY <1>1, <1>2, TypeCorrect, HeldNext, PTL DEF Spec

-----------------------------------------------------------------------------
(* What is recorded was shared.                                            *)

(* Nothing that happened is forgotten.                                     *)
LEMMA PastStays ==
  ASSUME TypeOK, NEW m \in Machine, UserStep(m) \/ Crash(m) \/ SyncStep(m)
  PROVE  PastGrows /\ ApartElsewhere(m) /\ (ApartGrows \/ Capture(m))
<1> USE DEF ApartElsewhere, ApartGrows
<1>1. CASE UserStep(m)
  BY <1>1, UserEffect DEF PastGrows
<1>2. CASE Ends(m)
  BY <1>2, EndsEffect DEF PastGrows
<1>3. CASE Pull(m) \/ HoldBatch(m) \/ Plan(m) \/ AddAll(m) \/ Commit(m) \/ FetchAndReset(m)
  BY <1>3, PullEffect, HoldEffect, PlanEffect, AddEffect, CommitEffect, ResetEffect
     DEF PastGrows
<1>4. CASE ApplyBatch(m)
  BY <1>4, AnswerEffect DEF PastGrows
<1>5. ASSUME NEW broken \in SUBSET Path, Restore(m, broken)
      PROVE  PastGrows /\ ApartGrows
  BY <1>5, RestoreEffect DEF PastGrows
<1>6. CASE ApplyStep(m)
  BY <1>6, ApplyEffect DEF ActsOn, PastGrows
<1>7. CASE PushAccepted(m) \/ PushUnacknowledged(m)
  BY <1>7, PushEffect DEF PastGrows
<1>8. CASE PushFails(m) \/ FetchFails(m)
  BY <1>8, RejectEffect DEF PastGrows
<1>9. CASE Save(m)
  BY <1>9, SaveEffect DEF PastGrows
<1>10. CASE Capture(m)
  BY <1>10, CaptureEffect DEF PastGrows
<1> QED  BY <1>1, <1>2, <1>3, <1>4, <1>5, <1>6, <1>7, <1>8, <1>9, <1>10, OwnCases

(* Rebasing nothing is moving on.                                          *)
LEMMA RebaseOfNothing ==
  ASSUME NEW from \in Tree, NEW onto \in Tree
  PROVE  Rebase(from, from, onto) = onto
<1> DEFINE rebased == Rebase(from, from, onto)
<1>1. \A p \in Path : ~Moved(from, from, p)
  BY DEF Moved
<1>2. \A p \in Path : Moved(from, onto, p) =>
        onto.files[p] = None /\ from.files[p] # None /\ onto.trash[p] = from.files[p]
  BY DEF Moved
<1>3. rebased.files = onto.files
  <2>1. rebased.files = [p \in Path |->
          IF Moved(from, from, p) \/ Moved(from, onto, p) THEN None ELSE onto.files[p]]
    BY DEF Rebase, Replay
  <2>2. onto.files = [p \in Path |-> onto.files[p]]
    BY DEF Tree
  <2> QED  BY <1>1, <1>2, <2>1, <2>2
<1>4. rebased.trash = onto.trash
  <2>1. rebased.trash = [p \in Path |->
          CASE Moved(from, from, p) /\ onto.files[p] # None -> onto.files[p]
            [] Moved(from, onto, p) /\ from.files[p] # None -> from.files[p]
            [] OTHER -> onto.trash[p]]
    BY DEF Rebase, Replay
  <2>2. onto.trash = [p \in Path |-> onto.trash[p]]
    BY DEF Tree
  <2> QED  BY <1>1, <1>2, <2>1, <2>2
<1>5. rebased.bundles = onto.bundles
  BY DEF Rebase
<1>6. /\ rebased = [files |-> rebased.files, bundles |-> rebased.bundles, trash |-> rebased.trash]
      /\ onto = [files |-> onto.files, bundles |-> onto.bundles, trash |-> onto.trash]
  BY DEF Rebase, Tree
<1> HIDE DEF rebased
<1>7. rebased = onto
  BY <1>3, <1>4, <1>5, <1>6
<1> QED  BY <1>7 DEF rebased

LEMMA SharedKeeps ==
  ASSUME NEW m \in Machine, SharedAt(m), PastGrows,
         \A p \in Path : <<m, p>> \in history.apart => <<m, p>> \in history'.apart,
         UNCHANGED <<pass[m], work[m], head[m], root[m], mirror[m], state[m]>>
  PROVE  SharedAt(m)'
BY DEF SharedAt, Published, PastGrows, Preserved, ConflictPaths, At, StepOf

LEMMA SharedOwn ==
  ASSUME TypeOK, SharedInv, NEW m \in Machine, UserStep(m) \/ Crash(m) \/ SyncStep(m)
  PROVE  SharedAt(m)'
<1> USE DEF At, StepOf
<1>14. CASE Capture(m)
  <2>1. /\ UNCHANGED <<root, head, work, state, history.published, history.stranded>>
        /\ At(m, "capture") /\ Proceeds(m, "mark")
        /\ \A p \in Preserved(m) : p \in Path =>
             (<<m, p>> \in history.apart => <<m, p>> \in history'.apart)
    BY <1>14, CaptureEffect, ProceedsBy
  <2>2. SharedAt(m)
    BY DEF SharedInv
  <2> QED  BY <2>1, <2>2 DEF Proceeds, SharedAt, Published
<1> SUFFICES ASSUME ~Capture(m) PROVE SharedAt(m)'
  BY <1>14
<1>r. /\ pass[m] \in Pass /\ root[m] \in Tree /\ origin \in Tree
      /\ SharedAt(m) /\ PastGrows /\ ApartGrows
      /\ \A p \in Path : Published(p, origin.files[p])
  BY PastStays DEF TypeOK, SharedInv
<1> USE DEF ApartGrows
(* A step between those that push, that leaves the clone's commits alone. *)
<1>0. ASSUME UNCHANGED <<root, head, state>>, pass[m].step \notin {"push", "fetch"},
             pass'[m].step \notin {"push", "fetch", "save", "capture"}
      PROVE  SharedAt(m)'
  BY <1>0, <1>r DEF SharedAt, Published, PastGrows
<1>1. CASE UserStep(m)
  BY <1>1, <1>r, UserEffect, SharedKeeps
<1>2. CASE Ends(m)
  BY <1>2, <1>r, EndsEffect DEF SharedAt, Published, PastGrows, NoPass
<1>3. CASE Pull(m)
  <2>1. /\ root'[m] = origin /\ pass'[m].step = "collected" /\ UNCHANGED <<state, history>>
        /\ pass[m].step \in {"idle", "retry"} /\ head'[m] = Rebase(root[m], head[m], origin)
    BY <1>3, PullEffect
  <2>2. m \notin history.stranded => head'[m] = origin
    BY <1>r, <2>1, RebaseOfNothing DEF SharedAt
  <2> QED  BY <1>r, <2>1, <2>2 DEF SharedAt, Published
<1>4. CASE HoldBatch(m) \/ ApplyBatch(m)
  <2>1. CASE HoldBatch(m)
    BY <1>0, <2>1, HoldEffect
  <2>2. CASE ApplyBatch(m)
    BY <1>0, <2>2, <1>r, AnswerEffect DEF Pass
  <2> QED  BY <1>4, <2>1, <2>2
<1>5. ASSUME NEW broken \in SUBSET Path, Restore(m, broken) PROVE SharedAt(m)'
  BY <1>0, <1>5, RestoreEffect
<1>6. CASE Plan(m)
  BY <1>0, <1>6, PlanEffect, PlanFields
<1>7. CASE ApplyStep(m)
  <2>1. PICK p \in Path : ActsOn(m, p)
    BY <1>7, ApplyEffect
  <2> QED  BY <1>0, <2>1 DEF ActsOn
<1>8. CASE AddAll(m)
  <2>1. UNCHANGED <<root, head, state>> /\ At(m, "apply") /\ Proceeds(m, "commit")
    BY <1>8, AddEffect, ProceedsBy
  <2> QED  BY <1>0, <2>1 DEF Proceeds
<1>9. CASE Commit(m)
  <2>1. /\ UNCHANGED <<root, work, state, history>> /\ At(m, "commit") /\ head'[m] = work[m]
        /\ \/ Proceeds(m, "push")
           \/ Proceeds(m, "save") /\ head'[m] = head[m]
    BY <1>9, CommitEffect, ProceedsBy
  <2> QED  BY <1>r, <2>1 DEF Proceeds, SharedAt, Published
<1>10. CASE PushAccepted(m) \/ PushUnacknowledged(m)
  <2>1. /\ UNCHANGED <<head, work, state, history.stranded, history.apart>> /\ At(m, "push")
        /\ root'[m] = head[m]
        /\ \A p \in Path : Published(p, root[m].files[p])'
    BY <1>10, PushEffect DEF Published
  <2>2. pass'[m].step \in {"save", "fetch", "idle"}
    <3>1. ASSUME NEW step \in {"save", "fetch"}, pass'[m] = [pass[m] EXCEPT !.step = step]
          PROVE  pass'[m].step = step
      BY <3>1, ProceedsBy DEF Proceeds
    <3> QED  BY <1>10, <3>1, PushEffect DEF NoPass
  <2> QED  BY <1>r, <2>1, <2>2 DEF SharedAt, Published, PastGrows
<1>11. CASE PushFails(m) \/ FetchFails(m)
  <2>1. /\ UNCHANGED <<root, head, work, state>>
        /\ Proceeds(m, "fetch") \/ (pass'[m] = NoPass /\ m \in history'.stranded)
    BY <1>11, RejectEffect, ProceedsBy
  <2> QED  BY <1>r, <2>1 DEF Proceeds, NoPass, SharedAt, Published, PastGrows
<1>12. CASE FetchAndReset(m)
  <2>1. /\ root'[m] = origin /\ head'[m] = origin /\ UNCHANGED <<state, history>>
        /\ pass'[m].step = "retry"
    BY <1>12, ResetEffect DEF NoPass
  <2> QED  BY <1>r, <2>1 DEF SharedAt, Published
<1>13. CASE Save(m)
  <2>1. /\ UNCHANGED <<root, head, work, history.published, history.stranded>> /\ At(m, "save")
        /\ pass'[m].step = "capture" /\ pass'[m].loaded = state[m]
    BY <1>13, <1>r, SaveEffect DEF Pass
  <2>2. ASSUME NEW p \in Path, m \notin history.stranded, <<m, p>> \notin history'.apart
        PROVE  Published(p, state'[m][p])
    <3>1. Published(p, work[m].files[p]) /\ Published(p, state[m][p])
      BY <1>r, <2>1, <2>2 DEF SharedAt, PastGrows
    <3>2. \/ state'[m][p] = work[m].files[p] \/ state'[m][p] = None
          \/ state'[m][p] = state[m][p]
      BY <1>13, <2>2, SaveEffect
    <3> QED  BY <3>1, <3>2 DEF Published
  <2>3. Preserved(m)' = Preserved(m)
    BY <1>13, SaveEffect, SaveFields DEF Preserved, ConflictPaths
  <2>4. ASSUME NEW p \in Path \ Preserved(m), m \notin history.stranded
        PROVE  Published(p, state'[m][p])
    <3>1. state'[m][p] = work[m].files[p]
      BY <1>13, <2>4, SaveEffect
    <3>2. Published(p, root[m].files[p]) /\ work[m] = root[m]
      BY <1>r, <2>1, <2>4 DEF SharedAt
    <3> QED  BY <3>1, <3>2
  <2> QED  BY <1>r, <2>1, <2>2, <2>3, <2>4 DEF SharedAt, Published, PastGrows
<1> HIDE DEF At, StepOf, ApartGrows
<1> QED  BY <1>1, <1>2, <1>3, <1>4, <1>5, <1>6, <1>7, <1>8, <1>9, <1>10, <1>11, <1>12, <1>13,
            OwnCases

(* Only a push changes origin.                                             *)
LEMMA OriginMoves ==
  ASSUME TypeOK, NEW m \in Machine, UserStep(m) \/ Crash(m) \/ SyncStep(m)
  PROVE  \/ UNCHANGED <<origin, history.published>>
         \/ /\ At(m, "push") /\ m \notin behind
            /\ origin' = head[m] /\ root'[m] = head[m]
            /\ \A p \in Path : history'.published[p] =
                 history.published[p] \cup ({head[m].files[p]} \ {None})
<1>1. CASE UserStep(m)
  BY <1>1, UserEffect
<1>2. CASE Ends(m)
  BY <1>2, EndsEffect
<1>3. CASE Pull(m) \/ HoldBatch(m) \/ ApplyBatch(m) \/ Plan(m) \/ AddAll(m) \/ Commit(m)
           \/ FetchAndReset(m) \/ Save(m) \/ Capture(m)
  BY <1>3, PullEffect, HoldEffect, AnswerEffect, PlanEffect, AddEffect, CommitEffect,
     ResetEffect, SaveEffect, CaptureEffect
<1>5. ASSUME NEW broken \in SUBSET Path, Restore(m, broken)
      PROVE  UNCHANGED <<origin, history.published>>
  BY <1>5, RestoreEffect
<1>6. CASE ApplyStep(m)
  BY <1>6, ApplyEffect DEF ActsOn
<1>7. CASE PushAccepted(m) \/ PushUnacknowledged(m)
  BY <1>7, PushEffect
<1>8. CASE PushFails(m) \/ FetchFails(m)
  BY <1>8, RejectEffect
<1> QED  BY <1>1, <1>2, <1>3, <1>5, <1>6, <1>7, <1>8, OwnCases

LEMMA SharedNext == TypeOK /\ SharedInv /\ [Next]_vars => SharedInv'
<1> SUFFICES ASSUME TypeOK, SharedInv, [Next]_vars PROVE SharedInv'
  OBVIOUS
<1>1. ASSUME NEW m \in Machine, UserStep(m) \/ Crash(m) \/ SyncStep(m)
      PROVE  SharedInv'
  <2>1. PastGrows
    BY <1>1, PastStays
  <2>2. ASSUME NEW p \in Path PROVE Published(p, origin.files[p])'
    BY <1>1, <2>1, OriginMoves DEF SharedInv, Published, PastGrows
  <2>3. ASSUME NEW n \in Machine PROVE SharedAt(n)'
    <3>1. CASE n = m
      BY <1>1, <3>1, SharedOwn
    <3>2. CASE n # m
      BY <1>1, <2>1, <3>2, OthersKeep, PastStays, SharedKeeps DEF Mine, SharedInv, ApartElsewhere
    <3> QED  BY <3>1, <3>2
  <2> QED  BY <2>2, <2>3 DEF SharedInv
<1>2. CASE UNCHANGED vars
  BY <1>2 DEF vars, clone, records, SharedInv, SharedAt, Published, Preserved, ConflictPaths,
              At, StepOf
<1> QED  BY <1>1, <1>2 DEF Next

LEMMA SharedInit == Init => SharedInv
BY DEF Init, SharedInv, SharedAt, Published, EmptyTree, NoPass, At, StepOf

(***************************************************************************)
(* The base a machine compares with was really shared: state.json is saved *)
(* after the push, and what it is put back to was saved before.            *)
(***************************************************************************)
THEOREM BasesAreShared == Spec => []BaseWasShared
<1>1. SharedInv => BaseWasShared
  BY DEF SharedInv, SharedAt, Published, BaseWasShared
<1> QED  BY <1>1, SharedInit, TypeCorrect, SharedNext, PTL DEF Spec

-----------------------------------------------------------------------------
(* The two records of the base agree.                                      *)

LEMMA BaseOwn ==
  ASSUME TypeOK, NEW m \in Machine, BaseAt(m), UserStep(m) \/ Crash(m) \/ SyncStep(m)
  PROVE  BaseAt(m)'
<1> USE DEF At, StepOf
<1>r. pass[m] \in Pass
  BY DEF TypeOK
<1>0. ASSUME pass'[m].step \in {"idle", "retry", "fetch", "capture", "mark"}
      PROVE  BaseAt(m)'
  BY <1>0 DEF BaseAt
(* The step goes on with the answers and the base it has. *)
<1>p. ASSUME UNCHANGED state, pass'[m].base = pass[m].base, pass'[m].applied = pass[m].applied,
             \/ /\ pass[m].step \in {"apply", "commit", "push"}
                /\ pass'[m].step \in {"commit", "push", "save"}
             \/ /\ pass[m].step = "apply" /\ pass'[m].step = "apply"
                /\ \A p \in Path : p \in pass'[m].todo =>
                     p \in pass[m].todo /\ work'[m].files[p] = work[m].files[p]
      PROVE  BaseAt(m)'
  BY <1>p DEF BaseAt, AnswerPaths
<1>1. CASE UserStep(m)
  BY <1>1, UserEffect DEF BaseAt, AnswerPaths
<1>2. CASE Ends(m)
  BY <1>0, <1>2, EndsEffect DEF NoPass
<1>3. CASE Pull(m)
  BY <1>3, PullEffect DEF BaseAt
<1>4. CASE HoldBatch(m) \/ ApplyBatch(m)
  <2>1. /\ At(m, "collected") /\ UNCHANGED state /\ pass'[m].base = pass[m].base
        /\ pass'[m].step \in {"plan", "restore"}
    <3>1. CASE HoldBatch(m)
      BY <3>1, HoldEffect
    <3>2. CASE ApplyBatch(m)
      BY <3>2, <1>r, AnswerEffect DEF Pass
    <3> QED  BY <1>4, <3>1, <3>2
  <2> QED  BY <2>1 DEF BaseAt
<1>5. ASSUME NEW broken \in SUBSET Path, Restore(m, broken) PROVE BaseAt(m)'
  <2>1. /\ At(m, "restore") /\ pass'[m].step = "plan" /\ UNCHANGED <<work, state>>
        /\ pass'[m].applied = pass[m].applied
        /\ \A p \in Path : pass'[m].base[p] = IF p \in AnswerPaths(m) \ broken
                                                THEN work[m].files[p] ELSE pass[m].base[p]
    BY <1>5, RestoreEffect
  <2> QED  BY <2>1 DEF BaseAt, AnswerPaths
<1>6. CASE Plan(m)
  <2>1. /\ pass'[m].step = "apply" /\ UNCHANGED <<work, state>>
        /\ pass[m].step \in {"plan", "collected"}
        /\ pass'[m].base = pass[m].base /\ pass'[m].applied = pass[m].applied
    BY <1>6, PlanEffect, PlanFields
  <2> QED  BY <2>1 DEF BaseAt, AnswerPaths
<1>7. CASE ApplyStep(m)
  <2>1. PICK p \in Path : ActsOn(m, p)
    BY <1>7, ApplyEffect
  <2> QED  BY <1>p, <2>1 DEF ActsOn
<1>8. CASE AddAll(m)
  <2>1. UNCHANGED state /\ At(m, "apply") /\ Proceeds(m, "commit")
    BY <1>8, AddEffect, ProceedsBy
  <2> QED  BY <1>p, <2>1 DEF Proceeds
<1>9. CASE Commit(m)
  <2>1. UNCHANGED state /\ At(m, "commit") /\ (Proceeds(m, "push") \/ Proceeds(m, "save"))
    BY <1>9, CommitEffect, ProceedsBy
  <2> QED  BY <1>p, <2>1 DEF Proceeds
<1>10. CASE PushAccepted(m) \/ PushUnacknowledged(m)
  <2>1. /\ At(m, "push") /\ UNCHANGED state
        /\ Proceeds(m, "save") \/ pass'[m].step \in {"fetch", "idle"}
    <3>1. ASSUME NEW step \in {"save", "fetch"}, pass'[m] = [pass[m] EXCEPT !.step = step]
          PROVE  Proceeds(m, step)
      BY <3>1, ProceedsBy
    <3> QED  BY <1>10, <3>1, PushEffect DEF Proceeds, NoPass
  <2> QED  BY <1>0, <1>p, <2>1 DEF Proceeds
<1>11. CASE PushFails(m) \/ FetchFails(m)
  <2>1. Proceeds(m, "fetch") \/ pass'[m] = NoPass
    BY <1>11, RejectEffect, ProceedsBy
  <2> QED  BY <1>0, <2>1 DEF Proceeds, NoPass
<1>12. CASE FetchAndReset(m)
  BY <1>0, <1>12, ResetEffect DEF NoPass
<1>13. CASE Save(m)
  BY <1>0, <1>13, <1>r, SaveEffect DEF Pass
<1>14. CASE Capture(m)
  BY <1>0, <1>14, CaptureEffect, ProceedsBy DEF Proceeds
<1> HIDE DEF At, StepOf
<1> QED  BY <1>1, <1>2, <1>3, <1>4, <1>5, <1>6, <1>7, <1>8, <1>9, <1>10, <1>11, <1>12, <1>13,
            <1>14, OwnCases

LEMMA BaseNext == TypeOK /\ BaseInv /\ [Next]_vars => BaseInv'
<1> SUFFICES ASSUME TypeOK, BaseInv, [Next]_vars, NEW n \in Machine PROVE BaseAt(n)'
  BY DEF BaseInv
<1>1. ASSUME NEW m \in Machine, UserStep(m) \/ Crash(m) \/ SyncStep(m), m # n
      PROVE  BaseAt(n)'
  BY <1>1, OthersKeep DEF Mine, BaseInv, BaseAt, AnswerPaths, At, StepOf
<1>2. ASSUME UserStep(n) \/ Crash(n) \/ SyncStep(n) PROVE BaseAt(n)'
  BY <1>2, BaseOwn DEF BaseInv
<1>3. CASE UNCHANGED vars
  BY <1>3 DEF vars, clone, records, BaseInv, BaseAt, AnswerPaths, At, StepOf
<1> QED  BY <1>1, <1>2, <1>3 DEF Next

(* Only the last steps of a pass write the two records.                    *)
LEMMA RecordsStay ==
  ASSUME TypeOK, NEW m \in Machine, UserStep(m) \/ Crash(m) \/ SyncStep(m)
  PROVE  \/ Crash(m) \/ CaptureFails(m) \/ Save(m) \/ Capture(m)
         \/ /\ UNCHANGED <<pass, work, mirror, state, store>>
         \/ /\ UNCHANGED <<state, store>> /\ ~At(m, "capture") /\ ~At(m, "capture")'
<1> USE DEF At, StepOf
<1> DEFINE Elsewhere == UNCHANGED <<state, store>> /\ ~At(m, "capture") /\ ~At(m, "capture")'
<1>1. CASE UserStep(m)
  BY <1>1, UserEffect
<1>2. CASE GivesUpEarly(m) \/ GitFails(m) \/ MarkFirstSync(m)
  BY <1>2, EarlyEffect, GitFailsEffect, MarkEffect DEF NoPass
<1>3. CASE Pull(m) \/ FetchAndReset(m)
  BY <1>3, PullEffect, ResetEffect DEF NoPass
<1>4. CASE HoldBatch(m) \/ ApplyBatch(m)
  <2>1. pass[m] \in Pass
    BY DEF TypeOK
  <2>2. UNCHANGED <<state, store>> /\ At(m, "collected")
    BY <1>4, HoldEffect, AnswerEffect
  <2>3. CASE HoldBatch(m)
    BY <2>1, <2>2, <2>3, HoldEffect DEF Pass
  <2>4. CASE ApplyBatch(m)
    BY <2>1, <2>2, <2>4, AnswerEffect DEF Pass
  <2> QED  BY <1>4, <2>3, <2>4
<1>5. ASSUME NEW broken \in SUBSET Path, Restore(m, broken) PROVE Elsewhere
  BY <1>5, RestoreEffect
<1>6. CASE Plan(m)
  BY <1>6, PlanEffect, PlanFields
<1>7. CASE ApplyStep(m)
  BY <1>7, ApplyEffect DEF ActsOn
<1>8. CASE AddAll(m)
  <2>1. UNCHANGED <<state, store>> /\ At(m, "apply") /\ Proceeds(m, "commit")
    BY <1>8, AddEffect, ProceedsBy
  <2> QED  BY <2>1 DEF Proceeds
<1>9. CASE Commit(m)
  <2>1. /\ UNCHANGED <<state, store>> /\ At(m, "commit")
        /\ Proceeds(m, "push") \/ Proceeds(m, "save")
    BY <1>9, CommitEffect, ProceedsBy
  <2> QED  BY <2>1 DEF Proceeds
<1>10. CASE PushAccepted(m) \/ PushUnacknowledged(m)
  <2>1. ASSUME NEW step \in {"save", "fetch"}, pass'[m] = [pass[m] EXCEPT !.step = step]
        PROVE  pass'[m].step = step
    BY <2>1, ProceedsBy DEF Proceeds
  <2>2. pass'[m].step # "capture"
    BY <1>10, <2>1, PushEffect DEF NoPass
  <2> QED  BY <1>10, <2>2, PushEffect
<1>11. CASE PushFails(m) \/ FetchFails(m)
  <2>1. /\ UNCHANGED <<state, store>> /\ StepOf(m) \in {"push", "fetch"}
        /\ Proceeds(m, "fetch") \/ pass'[m] = NoPass
    BY <1>11, RejectEffect, ProceedsBy
  <2> QED  BY <2>1 DEF Proceeds, NoPass
<1> HIDE DEF At, StepOf
<1> QED  BY <1>1, <1>2, <1>3, <1>4, <1>5, <1>6, <1>7, <1>8, <1>9, <1>10, <1>11, StepCases

LEMMA StoreOwn ==
  ASSUME TypeOK, NEW m \in Machine, StoreAt(m), UserStep(m) \/ Crash(m) \/ SyncStep(m)
  PROVE  StoreAt(m)'
<1>4. CASE Capture(m)
  <2>1. /\ UNCHANGED <<state, work>> /\ At(m, "capture") /\ ~At(m, "capture")'
        /\ \A p \in Path :
             /\ store'[m][p] = IF p \in Preserved(m) THEN store[m][p] ELSE work[m].files[p]
             /\ <<m, p>> \in history.apart /\ p \in Preserved(m) => <<m, p>> \in history'.apart
    <3>1. Proceeds(m, "mark")
      BY <1>4, CaptureEffect, ProceedsBy
    <3> QED  BY <1>4, <3>1, CaptureEffect DEF Proceeds, At
  <2> QED  BY <2>1 DEF StoreAt
<1> SUFFICES ASSUME ~Capture(m) PROVE StoreAt(m)'
  BY <1>4
<1>r. ApartGrows /\ pass[m] \in Pass
  BY PastStays DEF TypeOK
<1>1. CASE Crash(m)
  <2>1. ~At(m, "capture")'
    BY <1>1, CrashEffect DEF NoPass, At
  <2> QED  BY <1>1, <1>r, <2>1, CrashEffect DEF StoreAt, ApartGrows
<1>2. CASE CaptureFails(m)
  BY <1>2, <1>r, CaptureFailsEffect DEF StoreAt, ApartGrows, NoPass, At
<1>3. CASE Save(m)
  <2>1. /\ UNCHANGED <<store, work, mirror>> /\ At(m, "save") /\ At(m, "capture")'
        /\ pass'[m].loaded = state[m] /\ pass'[m].keep = pass[m].keep
    BY <1>3, SaveEffect, SaveFields DEF At
  <2>2. Preserved(m)' = Preserved(m)
    BY <2>1 DEF Preserved, ConflictPaths
  <2>3. \A p \in Path :
          /\ state'[m][p] = IF p \notin Preserved(m) THEN work[m].files[p]
                            ELSE IF p \in Skipped(m) THEN None ELSE pass[m].base[p]
          /\ p \in Preserved(m) /\ pass[m].base[p] # state[m][p] => <<m, p>> \in history'.apart
    BY <1>3, SaveEffect
  <2>4. \A p \in Path : <<m, p>> \notin history'.apart =>
          <<m, p>> \notin history.apart
          /\ (state[m][p] # None => store[m][p] = state[m][p])
    BY <1>r, <2>1 DEF StoreAt, ApartGrows, At
  <2> QED  BY <2>1, <2>2, <2>3, <2>4 DEF StoreAt, At
<1>5. CASE UNCHANGED <<pass, work, mirror, state, store>>
  BY <1>5, <1>r DEF StoreAt, ApartGrows, Preserved, ConflictPaths, At
<1>6. CASE UNCHANGED <<state, store>> /\ ~At(m, "capture") /\ ~At(m, "capture")'
  BY <1>6, <1>r DEF StoreAt, ApartGrows
<1> QED  BY <1>1, <1>2, <1>3, <1>5, <1>6, RecordsStay

LEMMA StoreNext == TypeOK /\ StoreInv /\ [Next]_vars => StoreInv'
<1> SUFFICES ASSUME TypeOK, StoreInv, [Next]_vars, NEW n \in Machine PROVE StoreAt(n)'
  BY DEF StoreInv
<1>1. ASSUME NEW m \in Machine, UserStep(m) \/ Crash(m) \/ SyncStep(m), m # n
      PROVE  StoreAt(n)'
  BY <1>1, OthersKeep, PastStays DEF ApartElsewhere, Mine, StoreInv, StoreAt, Preserved,
                                     ConflictPaths, At
<1>2. ASSUME UserStep(n) \/ Crash(n) \/ SyncStep(n) PROVE StoreAt(n)'
  BY <1>2, StoreOwn DEF StoreInv
<1>3. CASE UNCHANGED vars
  BY <1>3 DEF vars, clone, records, StoreInv, StoreAt, Preserved, ConflictPaths, At
<1> QED  BY <1>1, <1>2, <1>3 DEF Next

LEMMA BaseInit == Init => BaseInv /\ StoreInv
BY DEF Init, BaseInv, BaseAt, StoreInv, StoreAt, NoPass, At, StepOf

(***************************************************************************)
(* A three-way merge starts from the version the plan compared with: the   *)
(* base store holds the contents whose hashes state.json holds, whichever  *)
(* paths were preserved, rolled back or answered, unless a process died    *)
(* between the two writes.                                                 *)
(***************************************************************************)
THEOREM MergesStartFromTheBase == Spec => []BasesAgree
<1>1. TypeOK /\ BaseInv /\ StoreInv => BasesAgree
  <2> SUFFICES ASSUME TypeOK, BaseInv, StoreInv, NEW m \in Machine, At(m, "apply"),
                      NEW p \in pass[m].todo, Planned(m, p) = "merge",
                      pass[m].base[p] # None, <<m, p>> \notin history.apart
               PROVE  store[m][p] = pass[m].base[p]
    BY DEF BasesAgree
  <2>1. p \in Path
    BY DEF TypeOK, Pass
  <2>2. pass[m].base[p] # work[m].files[p]
    BY <2>1, MergeDiffers
  <2>3. pass[m].base[p] = state[m][p]
    BY <2>1, <2>2 DEF BaseInv, BaseAt
  <2> QED  BY <2>1, <2>3 DEF StoreInv, StoreAt, At
<1> QED  BY <1>1, BaseInit, TypeCorrect, BaseNext, StoreNext, PTL DEF Spec

-----------------------------------------------------------------------------
(* No silent overwrite.                                                    *)

(***************************************************************************)
(* A clean merge, whichever strategy the file has (structured document,    *)
(* git merge-file, binary), keeps every field that either side changed     *)
(* since the base it starts from.                                          *)
(***************************************************************************)
THEOREM CleanMergesKeep ==
  ASSUME NEW strategy \in Strategies, NEW base \in File, NEW mine \in File, NEW theirs \in File,
         MergeOutcome(strategy, base, mine, theirs).outcome = "clean"
  PROVE  LET data == MergeOutcome(strategy, base, mine, theirs).data
         IN  KeepsChanges(base, mine, data) /\ KeepsChanges(base, theirs, data)
<1> DEFINE merge == MergeOutcome(strategy, base, mine, theirs)
           from == AsBytes(base)
           Keeps == KeepsChanges(base, mine, merge.data) /\ KeepsChanges(base, theirs, merge.data)
<1> USE DEF Merged
<1>1. mine \in Content /\ theirs \in Content /\ mine # None /\ theirs # None
  BY DEF MergeOutcome, File
<1>2. from \in Content
  BY AsBytesType
<1>3. ASSUME merge.data = Combine(from, mine, theirs), Clashes(from, mine, theirs) = {}
      PROVE  Keeps
  <2>1. Combine(from, mine, theirs) \in Content
    BY <1>1, <1>2 DEF Combine, Content
  <2>2. \A f \in Field :
          /\ mine[f] # from[f] => Combine(from, mine, theirs)[f] = mine[f]
          /\ theirs[f] # from[f] => Combine(from, mine, theirs)[f] = theirs[f]
    BY <1>3 DEF Combine, Clashes
  <2> QED  BY <1>3, <2>1, <2>2, ContentAssumption DEF KeepsChanges, Content
<1>4. CASE strategy = "structured"
  <2>1. merge = StructuredMerge(from, mine, theirs)
    BY <1>1, <1>4 DEF MergeOutcome
  <2>2. merge.data = Combine(from, mine, theirs) /\ Clashes(from, mine, theirs) = {}
    <3>1. merge.outcome = "clean"
      OBVIOUS
    <3> QED  BY <2>1, <3>1 DEF StructuredMerge
  <2> QED  BY <1>3, <2>2
<1>5. ASSUME strategy # "structured" PROVE base # None /\ from = base
  <2>1. base # None
    BY <1>1, <1>5 DEF MergeOutcome
  <2> QED  BY <2>1 DEF AsBytes
<1>6. CASE strategy = "text"
  <2>1. merge = TextMerge(base, mine, theirs)
    BY <1>1, <1>5, <1>6 DEF MergeOutcome
  <2>2. merge.data = Combine(from, mine, theirs) /\ Clashes(from, mine, theirs) = {}
    <3> HIDE DEF from, merge
    <3>1. merge.outcome = "clean"
      BY DEF merge
    <3> QED  BY <2>1, <3>1, <1>5, <1>6 DEF TextMerge
  <2> QED  BY <1>3, <2>2
<1>7. CASE strategy = "binary"
  <2>1. merge = BinaryMerge(base, mine, theirs)
    BY <1>1, <1>5, <1>7 DEF MergeOutcome
  <2>2. \/ merge.data = mine /\ (theirs = mine \/ theirs = base)
        \/ merge.data = theirs /\ mine = base
    BY <2>1 DEF BinaryMerge
  <2> QED  BY <1>1, <1>5, <1>7, <2>2 DEF KeepsChanges
<1> QED  BY <1>4, <1>6, <1>7 DEF Strategies

(* What an action of the plan replaces was shared, or survives in it.      *)
LEMMA ActionKeeps ==
  ASSUME TypeOK, SharedInv, BaseInv, StoreInv, NEW m \in Machine, NEW p \in Path,
         ActsOn(m, p), ActedAs(m, p), Loses(m, p)
  PROVE  Excused(m, p)
<1> SUFFICES ASSUME ~Excused(m, p) PROVE FALSE
  OBVIOUS
<1>1. /\ m \in first => FirstMode[m] = "merge"
      /\ local[m][p] = pass[m].scan[p]
      /\ m \notin history.stranded /\ <<m, p>> \notin history.apart
  BY DEF Excused
<1>2. /\ local[m][p] # None /\ local'[m][p] # local[m][p]
      /\ local[m][p] \notin history.published[p]
      /\ ~KeepsChanges(Recorded(m, p), local[m][p], local'[m][p])
  BY DEF Loses, Shared
<1>3. At(m, "apply") /\ p \in pass[m].todo
  BY DEF ActsOn
<1>4. \/ pass[m].base[p] = state[m][p]
      \/ pass[m].base[p] = work[m].files[p]
  BY <1>3 DEF BaseInv, BaseAt
<1>5. pass[m].seen[p] # "skipped"
  <2>1. Planned(m, p) # "none"
    BY DEF ActedAs
  <2> QED  BY <2>1, SkippedIsNotPlanned
<1>6. state[m][p] # local[m][p]
  BY <1>1, <1>2 DEF SharedInv, SharedAt, Published
<1>7. CASE Planned(m, p) = "pull"
  <2>1. pass[m].base[p] = pass[m].scan[p] /\ pass[m].base[p] # work[m].files[p]
    BY <1>1, <1>5, <1>7, PlanOfMerging
  <2> QED  BY <1>1, <1>4, <1>6, <2>1
<1>8. CASE Planned(m, p) = "delete-local"
  <2>1. /\ work[m].files[p] = None
        /\ pass[m].base[p] = pass[m].scan[p] /\ pass[m].base[p] # None
    BY <1>1, <1>5, <1>8, PlanOfMerging
  <2> QED  BY <1>1, <1>4, <1>6, <2>1
<1>9. CASE Planned(m, p) = "delete-remote"
  <2>1. pass[m].scan[p] = None
    BY <1>1, <1>5, <1>9, PlanOfMerging
  <2> QED  BY <1>1, <1>2, <2>1
<1>10. CASE Planned(m, p) = "merge" /\ MergeResult(m, p).outcome = "clean"
             /\ local'[m][p] = MergeResult(m, p).data
  <2>1. pass[m].base[p] = state[m][p]
    BY <1>4, <1>10, MergeDiffers
  <2>2. Recorded(m, p) = store[m][p]
    BY <1>1, <1>3 DEF Recorded, StoreInv, StoreAt, At
  <2>3. /\ Strategy[p] \in Strategies /\ store[m][p] \in File
        /\ pass[m].scan[p] \in Content /\ work[m].files[p] \in File
    BY <1>1, <1>2, EngineAssumption DEF TypeOK, Pass, Tree, File
  <2>4. KeepsChanges(store[m][p], pass[m].scan[p], MergeResult(m, p).data)
    BY <1>10, <2>3, CleanMergesKeep DEF MergeResult, File
  <2> QED  BY <1>1, <1>2, <1>10, <2>2, <2>4
<1> QED  BY <1>2, <1>7, <1>8, <1>9, <1>10 DEF ActedAs, Unwritten

(* Only users, resolutions and the plan's actions write agent files.       *)
LEMMA FilesStay ==
  ASSUME TypeOK, NEW m \in Machine, SyncStep(m) \/ Crash(m), NEW p \in Path,
         local'[m][p] # local[m][p]
  PROVE  At(m, "restore") \/ (ActsOn(m, p) /\ ActedAs(m, p))
<1>1. CASE Ends(m)
  BY <1>1, EndsEffect
<1>2. CASE Pull(m) \/ HoldBatch(m) \/ ApplyBatch(m) \/ Plan(m) \/ AddAll(m) \/ Commit(m)
           \/ FetchAndReset(m) \/ Save(m) \/ Capture(m)
  BY <1>2, PullEffect, HoldEffect, AnswerEffect, PlanEffect, AddEffect, CommitEffect,
     ResetEffect, SaveEffect, CaptureEffect
<1>3. ASSUME NEW broken \in SUBSET Path, Restore(m, broken) PROVE At(m, "restore")
  BY <1>3, RestoreEffect
<1>4. CASE ApplyStep(m)
  <2>1. PICK q \in Path : ActsOn(m, q) /\ ActedAs(m, q)
    BY <1>4, ApplyEffect
  <2>2. q = p
    BY <2>1 DEF ActsOn
  <2> QED  BY <2>1, <2>2
<1>5. CASE (PushAccepted(m) \/ PushUnacknowledged(m)) \/ (PushFails(m) \/ FetchFails(m))
  BY <1>5, PushEffect, RejectEffect
<1> QED  BY <1>1, <1>2, <1>3, <1>4, <1>5, StepCases DEF Ends

(***************************************************************************)
(* No step of the engine replaces or deletes an agent file whose content   *)
(* is not in the shared history and of which a field its user changed is   *)
(* lost, unless a user asked for it, edited the file after its collection, *)
(* or a cut pass took the machine's records apart.                         *)
(***************************************************************************)
THEOREM NothingIsOverwritten == Spec => NoSilentOverwrite
<1>1. ASSUME TypeOK, SharedInv, BaseInv, StoreInv, [Next]_vars, EngineStep,
             NEW n \in Machine, NEW p \in Path, Loses(n, p)
      PROVE  Excused(n, p)
  <2>1. local'[n][p] # local[n][p]
    BY <1>1 DEF Loses
  <2>2. PICK m \in Machine : UserStep(m) \/ Crash(m) \/ SyncStep(m)
    BY <1>1, <2>1 DEF Next, vars, files
  <2>3. n = m
    BY <1>1, <2>1, <2>2, OthersKeep DEF Mine
  <2>4. ~UserStep(m)
    BY <1>1, <2>1, UserEffect DEF EngineStep
  <2>5. At(n, "restore") \/ (ActsOn(n, p) /\ ActedAs(n, p))
    BY <1>1, <2>1, <2>2, <2>3, <2>4, FilesStay
  <2> QED  BY <1>1, <2>5, ActionKeeps DEF Excused
<1>2. TypeOK /\ SharedInv /\ BaseInv /\ StoreInv /\ [Next]_vars
        => (EngineStep => \A m \in Machine, p \in Path : Loses(m, p) => Excused(m, p))
  BY <1>1
<1> QED  BY <1>2, TypeCorrect, SharedInit, BaseInit, SharedNext, BaseNext, StoreNext,
            PTL DEF Spec, NoSilentOverwrite

-----------------------------------------------------------------------------
(* One bundle per path.                                                    *)

LEMMA CutsStay ==
  ASSUME TypeOK, NEW m \in Machine, UserStep(m) \/ Crash(m) \/ SyncStep(m), NothingCutShort'
  PROVE  NothingCutShort /\ ~Crash(m) /\ ~GitFails(m)
<1>1. count["cuts"] \in Nat /\ count'["cuts"] = 0 /\ history'.stranded = {}
  BY DEF TypeOK, Bounded, NothingCutShort
<1>2. ~Crash(m) /\ ~GitFails(m)
  BY <1>1, CrashEffect, GitFailsEffect
<1>3. count["cuts"] = 0
  <2>1. CASE UserStep(m)
    BY <1>1, <2>1, UserEffect
  <2>2. CASE GivesUpEarly(m) \/ CaptureFails(m) \/ MarkFirstSync(m)
    BY <1>1, <2>2, EarlyEffect, CaptureFailsEffect, MarkEffect
  <2>3. CASE Pull(m) \/ HoldBatch(m) \/ ApplyBatch(m) \/ Plan(m) \/ AddAll(m) \/ Commit(m)
             \/ FetchAndReset(m) \/ Save(m) \/ Capture(m)
    BY <1>1, <2>3, PullEffect, HoldEffect, AnswerEffect, PlanEffect, AddEffect, CommitEffect,
       ResetEffect, SaveEffect, CaptureEffect
  <2>4. ASSUME NEW broken \in SUBSET Path, Restore(m, broken) PROVE count["cuts"] = 0
    BY <1>1, <2>4, RestoreEffect
  <2>5. CASE ApplyStep(m)
    BY <1>1, <2>5, ApplyEffect DEF ActsOn
  <2>6. CASE (PushAccepted(m) \/ PushUnacknowledged(m)) \/ (PushFails(m) \/ FetchFails(m))
    BY <1>1, <2>6, PushEffect, RejectEffect
  <2> QED  BY <1>2, <2>1, <2>2, <2>3, <2>4, <2>5, <2>6, StepCases
<1> QED  BY <1>1, <1>2, <1>3, PastStays DEF NothingCutShort, PastGrows

(* A clean clone pulls what origin holds, no more.                         *)
LEMMA CleanCarry ==
  ASSUME NEW m \in Machine, work[m] = head[m], NEW tree \in Tree
  PROVE  CarryUntracked(m, tree) = tree
<1> DEFINE carried == CarryUntracked(m, tree)
<1>1. carried.files = tree.files
  <2>1. carried.files = [p \in Path |-> IF ~Tracked(m, p) /\ work[m].files[p] # None
                                          THEN work[m].files[p] ELSE tree.files[p]]
    BY DEF CarryUntracked
  <2>2. \A p \in Path : ~(~Tracked(m, p) /\ work[m].files[p] # None)
    BY DEF Tracked
  <2>3. tree.files = [p \in Path |-> tree.files[p]]
    BY DEF Tree
  <2> QED  BY <2>1, <2>2, <2>3
<1>2. carried.bundles = tree.bundles /\ carried.trash = tree.trash
  BY DEF CarryUntracked
<1>3. /\ carried = [files |-> carried.files, bundles |-> carried.bundles, trash |-> carried.trash]
      /\ tree = [files |-> tree.files, bundles |-> tree.bundles, trash |-> tree.trash]
  BY DEF CarryUntracked, Tree
<1> HIDE DEF carried
<1>4. carried = tree
  BY <1>1, <1>2, <1>3
<1> QED  BY <1>4 DEF carried

LEMMA OneBundleOwn ==
  ASSUME TypeOK, SharedInv, NEW m \in Machine, UserStep(m) \/ Crash(m) \/ SyncStep(m),
         NothingCutShort, NothingCutShort', ~Crash(m), ~GitFails(m),
         TidyAt(m), OneOfEach(origin.bundles)
  PROVE  TidyAt(m)'
<1> USE DEF At, StepOf
<1>r. /\ pass[m] \in Pass /\ root[m] \in Tree /\ origin \in Tree
      /\ SharedAt(m) /\ m \notin history.stranded /\ m \notin history'.stranded
  BY DEF TypeOK, SharedInv, NothingCutShort
(* Between the collection and the push. *)
<1>0. ASSUME OneOfEach(work'[m].bundles),
             pass'[m].step \in {"restore", "plan", "apply"} => mirror'[m] = work'[m].bundles,
             pass'[m].step \in {"restore", "plan", "apply", "commit", "push", "fetch"}
      PROVE  TidyAt(m)'
  BY <1>0 DEF TidyAt
<1>1. CASE UserStep(m)
  BY <1>1, UserEffect DEF TidyAt
<1>2. CASE GivesUpEarly(m) \/ CaptureFails(m) \/ MarkFirstSync(m)
  BY <1>2, EarlyEffect, CaptureFailsEffect, MarkEffect DEF TidyAt, NoPass
<1>3. CASE Pull(m)
  <2>1. /\ root'[m] = origin /\ pass'[m].step = "collected" /\ pass[m].step \in {"idle", "retry"}
        /\ head'[m] = Rebase(root[m], head[m], origin)
        /\ work'[m] = CarryUntracked(m, Rebase(root[m], head[m], origin))
        /\ mirror'[m] = work'[m].bundles
    BY <1>3, PullEffect
  <2>2. Rebase(root[m], head[m], origin) = origin
    BY <1>r, <2>1, RebaseOfNothing DEF TidyAt
  <2>3. CarryUntracked(m, origin) = origin
    BY <1>r, <2>1, CleanCarry DEF TidyAt
  <2> QED  BY <2>1, <2>2, <2>3 DEF TidyAt
<1>4. CASE HoldBatch(m)
  <2>1. /\ At(m, "collected") /\ UNCHANGED <<work, mirror>> /\ pass'[m].step = "plan"
    BY <1>4, HoldEffect
  <2> QED  BY <1>0, <2>1 DEF TidyAt
<1>5. CASE ApplyBatch(m)
  <2>1. /\ At(m, "collected")
        /\ \E gone : /\ work'[m].bundles = work[m].bundles \ gone
                     /\ mirror'[m] = mirror[m] \ gone
    BY <1>5, AnswerEffect
  <2>2. pass'[m].step = "restore"
    BY <1>5, <1>r, AnswerEffect DEF Pass
  <2> QED  BY <1>0, <2>1, <2>2 DEF TidyAt, OneOfEach
<1>6. ASSUME NEW broken \in SUBSET Path, Restore(m, broken) PROVE TidyAt(m)'
  BY <1>0, <1>6, RestoreEffect DEF TidyAt
<1>7. CASE Plan(m)
  BY <1>0, <1>7, PlanEffect, PlanFields DEF TidyAt
<1>8. CASE ApplyStep(m)
  <2>1. PICK p \in Path : ActsOn(m, p) /\ OpensOnly(m, p)
    BY <1>8, ApplyEffect
  <2>2. /\ At(m, "apply") /\ At(m, "apply")'
        /\ OneOfEach(work[m].bundles) /\ mirror[m] = work[m].bundles
    BY <2>1 DEF ActsOn, TidyAt
  <2>3. CASE work'[m].bundles = work[m].bundles /\ mirror'[m] = mirror[m]
    BY <1>0, <2>2, <2>3
  <2>4. CASE /\ p \notin ConflictPaths(m)
             /\ work'[m].bundles = work[m].bundles \cup {NewBundle(m, p)}
             /\ mirror'[m] = mirror[m] \cup {NewBundle(m, p)}
    <3>1. NewBundle(m, p).path = p
      BY DEF NewBundle
    <3>2. \A b \in work[m].bundles : b.path # p
      BY <2>2, <2>4 DEF ConflictPaths
    <3>3. OneOfEach(work'[m].bundles)
      <4> HIDE DEF NewBundle
      <4> QED  BY <2>2, <2>4, <3>1, <3>2 DEF OneOfEach
    <3> QED  BY <1>0, <2>2, <2>4, <3>3
  <2> QED  BY <2>1, <2>3, <2>4 DEF OpensOnly
<1>9. CASE AddAll(m)
  <2>1. UNCHANGED work /\ Proceeds(m, "commit")
    BY <1>9, AddEffect, ProceedsBy
  <2> QED  BY <1>0, <2>1 DEF Proceeds, TidyAt
<1>10. CASE Commit(m)
  <2>1. /\ UNCHANGED <<root, work>> /\ At(m, "commit") /\ head'[m] = work[m]
        /\ \/ Proceeds(m, "push")
           \/ Proceeds(m, "save") /\ work[m] = head[m]
    BY <1>10, CommitEffect, ProceedsBy
  <2>2. head[m] = root[m]
    BY <1>r, <2>1 DEF SharedAt
  <2> QED  BY <2>1, <2>2 DEF Proceeds, TidyAt
<1>11. CASE PushAccepted(m) \/ PushUnacknowledged(m)
  <2>1. /\ UNCHANGED <<head, work>> /\ At(m, "push") /\ root'[m] = head[m]
    BY <1>11, PushEffect
  <2>2. work[m] = head[m]
    BY <1>r, <2>1 DEF SharedAt
  <2>3. pass'[m].step \in {"save", "fetch", "idle"}
    <3>1. ASSUME NEW step \in {"save", "fetch"}, pass'[m] = [pass[m] EXCEPT !.step = step]
          PROVE  pass'[m].step = step
      BY <3>1, ProceedsBy DEF Proceeds
    <3> QED  BY <1>11, <3>1, PushEffect DEF NoPass
  <2> QED  BY <2>1, <2>2, <2>3 DEF TidyAt
<1>12. CASE PushFails(m) \/ FetchFails(m)
  <2>1. UNCHANGED work /\ (Proceeds(m, "fetch") \/ m \in history'.stranded)
    BY <1>12, RejectEffect, ProceedsBy
  <2> QED  BY <1>0, <1>r, <2>1 DEF Proceeds, TidyAt
<1>13. CASE FetchAndReset(m)
  <2>1. /\ root'[m] = origin /\ head'[m] = origin /\ work'[m] = origin
        /\ pass'[m].step = "retry"
    BY <1>13, ResetEffect DEF NoPass
  <2> QED  BY <2>1 DEF TidyAt
<1>14. CASE Save(m)
  BY <1>14, SaveEffect, SaveFields DEF TidyAt
<1>15. CASE Capture(m)
  <2>1. UNCHANGED <<root, head, work>> /\ At(m, "capture") /\ Proceeds(m, "mark")
    BY <1>15, CaptureEffect, ProceedsBy
  <2> QED  BY <2>1 DEF Proceeds, TidyAt
<1> HIDE DEF At, StepOf
<1> QED  BY <1>1, <1>2, <1>3, <1>4, <1>5, <1>6, <1>7, <1>8, <1>9, <1>10, <1>11, <1>12, <1>13,
            <1>14, <1>15, StepCases

LEMMA OneBundleNext == TypeOK /\ SharedInv /\ OneBundleInv /\ [Next]_vars => OneBundleInv'
<1> SUFFICES ASSUME TypeOK, SharedInv, OneBundleInv, [Next]_vars, NothingCutShort'
             PROVE  OneOfEach(origin.bundles)' /\ \A m \in Machine : TidyAt(m)'
  BY DEF OneBundleInv
<1>1. ASSUME NEW m \in Machine, UserStep(m) \/ Crash(m) \/ SyncStep(m)
      PROVE  OneOfEach(origin.bundles)' /\ \A n \in Machine : TidyAt(n)'
  <2>1. NothingCutShort /\ ~Crash(m) /\ ~GitFails(m)
    BY <1>1, CutsStay
  <2>2. OneOfEach(origin.bundles) /\ \A n \in Machine : TidyAt(n)
    BY <2>1 DEF OneBundleInv
  <2>3. OneOfEach(origin.bundles)'
    <3>1. At(m, "push") => work[m] = head[m]
      BY DEF SharedInv, SharedAt, At, StepOf
    <3> QED  BY <1>1, <2>2, <3>1, OriginMoves DEF OneOfEach, TidyAt
  <2>4. TidyAt(m)'
    BY <1>1, <2>1, <2>2, OneBundleOwn
  <2>5. ASSUME NEW n \in Machine \ {m} PROVE TidyAt(n)'
    BY <1>1, <2>2, <2>5, OthersKeep DEF Mine, TidyAt, StepOf
  <2> QED  BY <2>3, <2>4, <2>5
<1>2. CASE UNCHANGED vars
  BY <1>2 DEF vars, clone, records, NothingCutShort, OneBundleInv, TidyAt, OneOfEach, StepOf
<1> QED  BY <1>1, <1>2 DEF Next

(***************************************************************************)
(* As long as no pass is cut short a path has one open conflict at most,   *)
(* however many machines meet it at once: who loses the push meets the     *)
(* winner's bundle in the retry.                                           *)
(***************************************************************************)
THEOREM OneBundleForEach == Spec => []OneBundlePerPath
<1>1. Init => OneBundleInv
  BY DEF Init, OneBundleInv, TidyAt, OneOfEach, EmptyTree, NoPass, StepOf
<1>2. OneBundleInv => OneBundlePerPath
  BY DEF OneBundleInv, OneBundlePerPath
<1> QED  BY <1>1, <1>2, TypeCorrect, SharedInit, SharedNext, OneBundleNext, PTL DEF Spec

-----------------------------------------------------------------------------
(* No phantom deletions.                                                   *)

LEMMA UntouchedBefore ==
  ASSUME NEW p \in Path, PastGrows, Untouched(p)'
  PROVE  Untouched(p)
BY DEF PastGrows, Untouched

LEMMA ResolvedOwn ==
  ASSUME TypeOK, NEW m \in Machine, AnswersResolve(m), UserStep(m) \/ Crash(m) \/ SyncStep(m)
  PROVE  AnswersResolve(m)'
<1>r. PastGrows /\ pass[m] \in Pass
  BY PastStays DEF TypeOK
<1>0. ASSUME pass'[m].applied = pass[m].applied \/ pass'[m].applied = {}
      PROVE  AnswersResolve(m)'
  BY <1>0, <1>r DEF AnswersResolve, PastGrows
<1>1. CASE UserStep(m)
  BY <1>0, <1>1, UserEffect
<1>2. CASE Ends(m)
  BY <1>0, <1>2, EndsEffect DEF NoPass
<1>3. CASE Pull(m)
  BY <1>0, <1>3, PullEffect
<1>4. CASE HoldBatch(m)
  BY <1>0, <1>4, <1>r, HoldEffect DEF Pass
<1>5. CASE ApplyBatch(m)
  <2>1. pass'[m].applied = pending[m]
    BY <1>5, <1>r, AnswerEffect DEF Pass
  <2> QED  BY <1>5, <2>1, AnswerEffect DEF AnswersResolve
<1>6. ASSUME NEW broken \in SUBSET Path, Restore(m, broken) PROVE AnswersResolve(m)'
  BY <1>0, <1>6, RestoreEffect
<1>7. CASE Plan(m)
  BY <1>0, <1>7, PlanFields
<1>8. CASE ApplyStep(m)
  BY <1>0, <1>8, ApplyEffect DEF ActsOn
<1>9. CASE AddAll(m)
  BY <1>0, <1>9, AddEffect, ProceedsBy DEF Proceeds
<1>10. CASE Commit(m)
  BY <1>0, <1>10, CommitEffect, ProceedsBy DEF Proceeds
<1>11. CASE PushAccepted(m) \/ PushUnacknowledged(m)
  <2>1. ASSUME NEW step \in {"save", "fetch"}, pass'[m] = [pass[m] EXCEPT !.step = step]
        PROVE  pass'[m].applied = pass[m].applied
    BY <2>1, ProceedsBy DEF Proceeds
  <2> QED  BY <1>0, <1>11, <2>1, PushEffect DEF NoPass
<1>12. CASE PushFails(m) \/ FetchFails(m)
  <2>1. Proceeds(m, "fetch") \/ pass'[m] = NoPass
    BY <1>12, RejectEffect, ProceedsBy
  <2> QED  BY <1>0, <2>1 DEF Proceeds, NoPass
<1>13. CASE FetchAndReset(m)
  BY <1>0, <1>13, ResetEffect DEF NoPass
<1>14. CASE Save(m)
  BY <1>0, <1>14, SaveFields
<1>15. CASE Capture(m)
  BY <1>0, <1>15, CaptureEffect, ProceedsBy DEF Proceeds
<1> QED  BY <1>1, <1>2, <1>3, <1>4, <1>5, <1>6, <1>7, <1>8, <1>9, <1>10, <1>11, <1>12, <1>13,
            <1>14, <1>15, OwnCases

(* A clean merge leaves a file.                                            *)
LEMMA MergeLeaves ==
  ASSUME TypeOK, NEW m \in Machine, NEW p \in Path, MergeResult(m, p).outcome = "clean"
  PROVE  MergeResult(m, p).data # None
<1>1. pass[m].scan[p] # None
  BY DEF MergeResult, MergeOutcome, Merged
<1>2. /\ Strategy[p] \in Strategies /\ store[m][p] \in File
      /\ pass[m].scan[p] \in Content /\ work[m].files[p] \in File
  BY <1>1, EngineAssumption DEF TypeOK, Pass, Tree, File
<1>3. KeepsChanges(store[m][p], pass[m].scan[p], MergeResult(m, p).data)
  BY <1>2, CleanMergesKeep DEF MergeResult, File
<1> QED  BY <1>3 DEF KeepsChanges

(* On an untouched path the plan's action removes nothing.                 *)
LEMMA KeptAction ==
  ASSUME TypeOK, BaseInv, KeptInv, NEW m \in Machine, NEW p \in Path, Untouched(p),
         ActsOn(m, p), ActedAs(m, p)
  PROVE  /\ work[m].files[p] # None => work'[m].files[p] # None
         /\ local[m][p] # None => local'[m][p] # None
         /\ p \notin pass'[m].keep /\ work'[m].files[p] # None => local'[m][p] # None
<1>1. KeptAt(m, p) /\ AnswersResolve(m)
  BY DEF KeptInv
<1>2. At(m, "apply") /\ p \in pass[m].todo
  BY DEF ActsOn
<1>3. p \notin AnswerPaths(m)
  BY <1>1 DEF AnswersResolve, AnswerPaths, Untouched
<1>4. pass[m].base[p] = state[m][p]
  BY <1>2, <1>3 DEF BaseInv, BaseAt, At, StepOf
<1>5. m \in first => FirstMode[m] = "merge"
  BY DEF Untouched
<1>6. pass[m].seen[p] = "ok"
  <2>1. pass[m].seen[p] # "skipped"
    <3>1. Planned(m, p) # "none"
      BY DEF ActedAs
    <3> QED  BY <3>1, SkippedIsNotPlanned
  <2>2. pass[m].seen[p] \in Access
    BY DEF TypeOK, Pass
  <2> QED  BY <1>1, <2>1, <2>2 DEF KeptAt, Access
<1>7. /\ pass[m].scan[p] # None => local[m][p] # None
      /\ state[m][p] # None => pass[m].scan[p] # None /\ work[m].files[p] # None
  BY <1>1, <1>2, <1>6 DEF KeptAt, At, StepOf
<1>8. CASE Planned(m, p) = "push" /\ work'[m].files[p] = pass[m].scan[p]
            /\ local'[m][p] = local[m][p]
  <2>1. pass[m].scan[p] # None
    BY <1>5, <1>6, <1>8, PlanOfMerging
  <2> QED  BY <1>7, <1>8, <2>1
<1>9. CASE Planned(m, p) = "pull"
  <2>1. work[m].files[p] # None
    BY <1>5, <1>6, <1>9, PlanOfMerging
  <2> QED  BY <1>9, <2>1 DEF ActedAs, Unwritten
<1>10. CASE Planned(m, p) = "delete-local"
  <2>1. work[m].files[p] = None /\ pass[m].base[p] # None
    BY <1>5, <1>6, <1>10, PlanOfMerging
  <2> QED  BY <1>4, <1>7, <2>1
<1>11. CASE Planned(m, p) = "delete-remote"
  <2>1. pass[m].scan[p] = None /\ pass[m].base[p] # None
    BY <1>5, <1>6, <1>11, PlanOfMerging
  <2> QED  BY <1>4, <1>7, <2>1
<1>12. CASE Planned(m, p) = "remove-remote"
  <2>1. pass[m].seen[p] = "blocked"
    BY <1>5, <1>6, <1>12, PlanOfMerging
  <2> QED  BY <1>6, <2>1
<1>13. CASE /\ Planned(m, p) = "merge" /\ MergeResult(m, p).outcome = "clean"
            /\ work'[m].files[p] = MergeResult(m, p).data
            /\ local'[m][p] = MergeResult(m, p).data \/ Unwritten(m, p)
  BY <1>13, MergeLeaves DEF Unwritten
<1>14. CASE work'[m].files[p] = work[m].files[p] /\ Unwritten(m, p)
  BY <1>14 DEF Unwritten
<1> QED  BY <1>8, <1>9, <1>10, <1>11, <1>12, <1>13, <1>14 DEF ActedAs

(* What a clone had is in origin.                                          *)
LEMMA RootIsShared ==
  ASSUME SharedInv, KeptInv, NEW m \in Machine, NEW p \in Path, Untouched(p),
         root[m].files[p] # None
  PROVE  origin.files[p] # None
BY DEF SharedInv, SharedAt, Published, KeptInv

LEMMA KeptOwn ==
  ASSUME TypeOK, SharedInv, BaseInv, KeptInv, NEW m \in Machine, NEW p \in Path,
         UserStep(m) \/ Crash(m) \/ SyncStep(m), Untouched(p), Untouched(p)'
  PROVE  KeptAt(m, p)'
<1> USE DEF At, StepOf
<1>r. /\ pass[m] \in Pass /\ root[m] \in Tree /\ origin \in Tree
      /\ SharedAt(m) /\ m \notin history.stranded /\ m \notin history'.stranded
      /\ KeptAt(m, p) /\ AnswersResolve(m) /\ p \notin AnswerPaths(m)
  BY DEF TypeOK, SharedInv, KeptInv, Untouched, AnswersResolve, AnswerPaths
(* Before the plan the files and the collection stay. *)
<1>0. ASSUME UNCHANGED <<root, local, access, state>>,
             work'[m].files[p] = work[m].files[p],
             pass'[m].seen = pass[m].seen, pass'[m].scan = pass[m].scan,
             pass[m].step = "collected", pass'[m].step \in {"restore", "plan"}
      PROVE  KeptAt(m, p)'
  BY <1>0, <1>r DEF KeptAt
(* After it everything does. *)
<1>p. ASSUME UNCHANGED <<root, work, local, access, state>>,
             pass'[m].seen = pass[m].seen, pass'[m].keep = pass[m].keep,
             \/ pass[m].step = "apply" /\ pass[m].todo = {} /\ pass'[m].step = "commit"
             \/ pass[m].step = "commit" /\ pass'[m].step \in {"push", "save"}
             \/ pass'[m].step \in {"fetch", "mark"}
      PROVE  KeptAt(m, p)'
  BY <1>p, <1>r DEF KeptAt
<1>1. CASE UserStep(m)
  <2>1. /\ UNCHANGED <<root, work, state, pass>>
        /\ local'[m][p] = None => local[m][p] = None
        /\ access'[m][p] = "blocked" => access[m][p] = "blocked"
    BY <1>1, UserEffect DEF Untouched
  <2> QED  BY <1>r, <2>1 DEF KeptAt
<1>2. CASE Ends(m)
  <2>1. /\ UNCHANGED <<root, work, local, access>> /\ pass'[m] = NoPass
        /\ state'[m] = state[m] \/ (At(m, "capture") /\ state'[m] = pass[m].loaded)
    BY <1>2, EndsEffect
  <2> QED  BY <1>r, <2>1 DEF KeptAt, NoPass
<1>3. CASE Pull(m)
  <2>1. /\ root'[m] = origin /\ pass'[m].step = "collected" /\ pass[m].step \in {"idle", "retry"}
        /\ UNCHANGED <<local, access, state>>
        /\ work'[m] = CarryUntracked(m, Rebase(root[m], head[m], origin))
        /\ pass'[m].seen = access[m]
    BY <1>3, PullEffect
  <2>5. pass'[m].scan[p] = IF access[m][p] = "ok" THEN local[m][p] ELSE None
    <3>1. pass'[m].scan = [q \in Path |-> IF access[m][q] = "ok" THEN local[m][q] ELSE None]
      BY <1>3, PullEffect
    <3> QED  BY <3>1
  <2>2. Rebase(root[m], head[m], origin) = origin
    BY <1>r, <2>1, RebaseOfNothing DEF SharedAt
  <2>3. origin.files[p] # None => work'[m].files[p] # None
    BY <2>1, <2>2 DEF CarryUntracked
  <2>4. state[m][p] # None => origin.files[p] # None
    BY <1>r, RootIsShared DEF KeptAt
  <2> QED  BY <1>r, <2>1, <2>3, <2>4, <2>5 DEF KeptAt
<1>4. CASE HoldBatch(m)
  <2>1. pass'[m].step = "plan" /\ pass'[m].seen = pass[m].seen /\ pass'[m].scan = pass[m].scan
    BY <1>4, HoldEffect
  <2> QED  BY <1>0, <1>4, <2>1, HoldEffect
<1>5. CASE ApplyBatch(m)
  <2>1. /\ pass'[m].step = "restore" /\ pass'[m].seen = pass[m].seen
        /\ pass'[m].scan = pass[m].scan
    <3>1. pass'[m] = [pass[m] EXCEPT !.step = "restore", !.applied = pending[m]]
      BY <1>5, AnswerEffect
    <3> QED  BY <3>1, <1>r DEF Pass
  <2>2. \A s \in pending[m] : s.bundle.path # p
    BY <1>5, AnswerEffect DEF Untouched
  <2>3. work'[m].files[p] = work[m].files[p]
    <3> DEFINE answers == {s.content : s \in {t \in pending[m] : t.bundle.path = p}}
    <3>1. answers = {}
      BY <2>2
    <3>2. IF answers = {} THEN work'[m].files[p] = work[m].files[p]
                          ELSE work'[m].files[p] \in answers
      BY <1>5, AnswerEffect
    <3> QED  BY <3>1, <3>2
  <2> QED  BY <1>0, <1>5, <2>1, <2>3, AnswerEffect
<1>6. ASSUME NEW broken \in SUBSET Path, Restore(m, broken) PROVE KeptAt(m, p)'
  <2>1. /\ UNCHANGED <<root, work, access, state>> /\ pass[m].step = "restore"
        /\ pass'[m].step = "plan" /\ pass'[m].seen = access[m]
        /\ local'[m][p] = local[m][p]
        /\ pass'[m].scan[p] = IF access[m][p] = "ok" THEN local'[m][p] ELSE None
    BY <1>6, <1>r, RestoreEffect
  <2> QED  BY <1>r, <2>1 DEF KeptAt
<1>7. CASE Plan(m)
  <2>1. /\ UNCHANGED <<root, work, local, access, state>> /\ pass[m].step \in {"plan", "collected"}
        /\ pass'[m].step = "apply" /\ pass'[m].keep = Kept(m)
        /\ pass'[m].seen = pass[m].seen /\ pass'[m].scan = pass[m].scan
        /\ p \in pass'[m].todo <=>
             p \notin pass[m].held /\ Planned(m, p) # "none" /\ ~Suspended(m, p)
    BY <1>7, PlanEffect, PlanFields
  <2>2. ASSUME p \notin Kept(m), p \notin pass'[m].todo, work[m].files[p] # None
        PROVE  local[m][p] # None
    <3>1. p \notin ConflictPaths(m) /\ p \notin Skipped(m) /\ p \notin pass[m].held
      BY <2>2 DEF Kept
    <3>2. Planned(m, p) = "none" /\ pass[m].seen[p] # "skipped"
      BY <2>1, <2>2, <3>1 DEF Suspended, Skipped
    <3>3. pass[m].scan[p] = work[m].files[p]
      <4>1. m \in first => FirstMode[m] = "merge"
        BY DEF Untouched
      <4> QED  BY <1>r, <3>2, <4>1, PlanOfMerging DEF KeptAt
    <3> QED  BY <1>r, <2>1, <2>2, <3>3 DEF KeptAt
  <2> QED  BY <1>r, <2>1, <2>2 DEF KeptAt
<1>8. CASE ApplyStep(m)
  <2>1. PICK q \in Path : ActsOn(m, q) /\ ActedAs(m, q)
    BY <1>8, ApplyEffect
  <2>2. /\ UNCHANGED <<root, access, state>> /\ pass[m].step = "apply" /\ pass'[m].step = "apply"
        /\ pass'[m].todo = pass[m].todo \ {q} /\ pass[m].keep \subseteq pass'[m].keep
        /\ pass'[m].scan = pass[m].scan /\ pass'[m].seen = pass[m].seen
    BY <2>1 DEF ActsOn
  <2>3. CASE q # p
    <3>1. work'[m].files[p] = work[m].files[p] /\ local'[m][p] = local[m][p]
      BY <2>1, <2>3 DEF ActsOn
    <3> QED  BY <1>r, <2>2, <2>3, <3>1 DEF KeptAt
  <2>4. CASE q = p
    <3>1. /\ work[m].files[p] # None => work'[m].files[p] # None
          /\ local[m][p] # None => local'[m][p] # None
          /\ p \notin pass'[m].keep /\ work'[m].files[p] # None => local'[m][p] # None
      BY <2>1, <2>4, KeptAction
    <3> QED  BY <1>r, <2>2, <2>4, <3>1 DEF KeptAt
  <2> QED  BY <2>3, <2>4
<1>9. CASE AddAll(m)
  <2>1. /\ UNCHANGED <<root, work, local, access, state>> /\ pass[m].step = "apply"
        /\ pass[m].todo = {} /\ Proceeds(m, "commit")
    BY <1>9, AddEffect, ProceedsBy
  <2> QED  BY <1>p, <2>1 DEF Proceeds
<1>10. CASE Commit(m)
  <2>1. /\ UNCHANGED <<root, work, local, access, state>> /\ pass[m].step = "commit"
        /\ Proceeds(m, "push") \/ Proceeds(m, "save")
    BY <1>10, CommitEffect, ProceedsBy
  <2> QED  BY <1>p, <2>1 DEF Proceeds
<1>11. CASE PushAccepted(m) \/ PushUnacknowledged(m)
  <2>1. /\ UNCHANGED <<work, local, access, state>> /\ At(m, "push") /\ root'[m] = head[m]
    BY <1>11, PushEffect
  <2>2. work[m] = head[m]
    BY <1>r, <2>1 DEF SharedAt
  <2>3. \/ /\ pass'[m].step \in {"save", "fetch"}
           /\ pass'[m].keep = pass[m].keep /\ pass'[m].seen = pass[m].seen
        \/ pass'[m] = NoPass
    <3>1. ASSUME NEW step \in {"save", "fetch"}, pass'[m] = [pass[m] EXCEPT !.step = step]
          PROVE  Proceeds(m, step)
      BY <3>1, ProceedsBy
    <3> QED  BY <1>11, <3>1, PushEffect DEF Proceeds
  <2> QED  BY <1>r, <2>1, <2>2, <2>3 DEF KeptAt, NoPass
<1>12. CASE PushFails(m) \/ FetchFails(m)
  <2>1. /\ UNCHANGED <<root, work, local, access, state>>
        /\ Proceeds(m, "fetch") \/ m \in history'.stranded
    BY <1>12, RejectEffect, ProceedsBy
  <2> QED  BY <1>p, <1>r, <2>1 DEF Proceeds
<1>13. CASE FetchAndReset(m)
  <2>1. /\ root'[m] = origin /\ work'[m] = origin /\ UNCHANGED <<local, access, state>>
        /\ pass'[m].step = "retry" /\ pass'[m].seen[p] = "ok"
    <3>1. /\ root'[m] = origin /\ work'[m] = origin /\ UNCHANGED <<local, access, state>>
          /\ \E attempt : pass'[m] = [NoPass EXCEPT !.step = "retry", !.attempt = attempt]
      BY <1>13, ResetEffect
    <3>2. pass'[m].step = "retry" /\ pass'[m].seen = NoPass.seen
      BY <3>1 DEF NoPass
    <3>3. NoPass.seen[p] = "ok"
      BY DEF NoPass
    <3> QED  BY <3>1, <3>2, <3>3
  <2>2. state[m][p] # None => origin.files[p] # None
    BY <1>r, RootIsShared DEF KeptAt
  <2> QED  BY <1>r, <2>1, <2>2 DEF KeptAt
<1>14. CASE Save(m)
  <2>1. /\ UNCHANGED <<root, work, local, access>> /\ At(m, "save")
        /\ pass'[m].step = "capture" /\ pass'[m].loaded = state[m]
        /\ pass'[m].seen = pass[m].seen
    BY <1>14, SaveEffect, SaveFields
  <2>2. work[m] = root[m]
    BY <1>r, <2>1 DEF SharedAt
  <2>3. pass[m].base[p] = state[m][p]
    BY <1>r, <2>1 DEF BaseInv, BaseAt
  <2>4. state'[m][p] # None => root[m].files[p] # None /\ local[m][p] # None
    <3>1. CASE p \notin Preserved(m)
      <4>1. state'[m][p] = work[m].files[p]
        BY <1>14, <3>1, SaveEffect
      <4> QED  BY <1>r, <2>1, <2>2, <3>1, <4>1 DEF KeptAt, Preserved
    <3>2. CASE p \in Preserved(m)
      <4>1. state'[m][p] = None \/ state'[m][p] = state[m][p]
        BY <1>14, <2>3, <3>2, SaveEffect
      <4> QED  BY <1>r, <4>1 DEF KeptAt
    <3> QED  BY <3>1, <3>2
  <2> QED  BY <1>r, <2>1, <2>4 DEF KeptAt
<1>15. CASE Capture(m)
  <2>1. UNCHANGED <<root, work, local, access, state>> /\ Proceeds(m, "mark")
    BY <1>15, CaptureEffect, ProceedsBy
  <2> QED  BY <1>p, <2>1 DEF Proceeds
<1> HIDE DEF At, StepOf
<1> QED  BY <1>1, <1>2, <1>3, <1>4, <1>5, <1>6, <1>7, <1>8, <1>9, <1>10, <1>11, <1>12, <1>13,
            <1>14, <1>15, OwnCases

LEMMA KeptNext ==
  TypeOK /\ ConflictInv /\ SharedInv /\ BaseInv /\ KeptInv /\ [Next]_vars => KeptInv'
<1> SUFFICES ASSUME TypeOK, ConflictInv, SharedInv, BaseInv, KeptInv, [Next]_vars
             PROVE  KeptInv'
  OBVIOUS
<1>1. ASSUME NEW m \in Machine, UserStep(m) \/ Crash(m) \/ SyncStep(m)
      PROVE  KeptInv'
  <2>1. PastGrows
    BY <1>1, PastStays
  <2>2. ASSUME NEW n \in Machine PROVE AnswersResolve(n)'
    <3>1. CASE n = m
      BY <1>1, <3>1, ResolvedOwn DEF KeptInv
    <3>2. CASE n # m
      BY <1>1, <2>1, <3>2, OthersKeep DEF Mine, KeptInv, AnswersResolve, PastGrows
    <3> QED  BY <3>1, <3>2
  <2>3. ASSUME NEW p \in Path, Untouched(p)', NEW n \in Machine PROVE KeptAt(n, p)'
    <3>1. Untouched(p)
      BY <2>1, <2>3, UntouchedBefore
    <3>2. CASE n = m
      BY <1>1, <2>3, <3>1, <3>2, KeptOwn
    <3>3. CASE n # m
      BY <1>1, <3>1, <3>3, OthersKeep DEF Mine, KeptInv, KeptAt, At, StepOf
    <3> QED  BY <3>2, <3>3
  <2>4. ASSUME NEW p \in Path, Untouched(p)', history'.published[p] # {}
        PROVE  origin'.files[p] # None
    <3>1. Untouched(p)
      BY <2>1, <2>4, UntouchedBefore
    <3>2. history.published[p] # {} => origin.files[p] # None
      BY <3>1 DEF KeptInv
    <3>3. CASE UNCHANGED <<origin, history.published>>
      BY <2>4, <3>2, <3>3
    <3>4. CASE /\ At(m, "push") /\ m \notin behind /\ origin' = head[m]
               /\ history'.published[p] = history.published[p] \cup ({head[m].files[p]} \ {None})
      <4>1. work[m] = head[m] /\ root[m] = origin
        BY <3>4 DEF SharedInv, SharedAt, ConflictInv, At, StepOf
      <4>2. origin.files[p] # None => head[m].files[p] # None
        BY <3>1, <4>1 DEF KeptInv, KeptAt
      <4> QED  BY <2>4, <3>2, <3>4, <4>2
    <3> QED  BY <1>1, <3>3, <3>4, OriginMoves
  <2> QED  BY <2>2, <2>3, <2>4 DEF KeptInv
<1>2. CASE UNCHANGED vars
  BY <1>2 DEF vars, clone, files, records, KeptInv, KeptAt, AnswersResolve, Untouched, At, StepOf
<1> QED  BY <1>1, <1>2 DEF Next

LEMMA KeptInit == Init => KeptInv
BY DEF Init, KeptInv, KeptAt, AnswersResolve, NoPass, EmptyTree, At, StepOf

(***************************************************************************)
(* A file that could not be read, a path that could not be written, a      *)
(* rolled back state.json or an interrupted pass is never taken for a      *)
(* deletion: what was published stays in the repository until a user       *)
(* deletes it, puts a secret in it, answers a conflict about it or starts  *)
(* a machine in a direction, as long as no push is abandoned.              *)
(***************************************************************************)
THEOREM NothingVanishes == Spec => []NoPhantomDeletion
<1>1. KeptInv => NoPhantomDeletion
  BY DEF KeptInv, Untouched, NoPhantomDeletion
<1> QED  BY <1>1, TypeCorrect, ConflictInit, ConflictNext, SharedInit, SharedNext, BaseInit,
            BaseNext, KeptInit, KeptNext, PTL DEF Spec

-----------------------------------------------------------------------------
(* Conflicted files, and the first pass with use-cloud.                    *)

(* The machines whose first synchronization is pending: one is marked      *)
(* completed at the end of its own pass.                                   *)
LEMMA FirstStays ==
  ASSUME TypeOK, NEW m \in Machine, UserStep(m) \/ Crash(m) \/ SyncStep(m)
  PROVE  \/ UNCHANGED first
         \/ first' = first \ {m} /\ ~At(m, "apply")'
<1>1. CASE MarkFirstSync(m)
  BY <1>1, MarkEffect DEF MarkFirstSync, NoPass, At
<1>2. CASE UserStep(m)
  BY <1>2, UserEffect
<1>3. CASE Crash(m) \/ GivesUpEarly(m) \/ GitFails(m) \/ CaptureFails(m)
  BY <1>3, CrashEffect, EarlyEffect, GitFailsEffect, CaptureFailsEffect
<1>4. CASE Pull(m) \/ HoldBatch(m) \/ ApplyBatch(m) \/ Plan(m) \/ AddAll(m) \/ Commit(m)
           \/ FetchAndReset(m) \/ Save(m) \/ Capture(m)
  BY <1>4, PullEffect, HoldEffect, AnswerEffect, PlanEffect, AddEffect, CommitEffect,
     ResetEffect, SaveEffect, CaptureEffect
<1>5. ASSUME NEW broken \in SUBSET Path, Restore(m, broken) PROVE UNCHANGED first
  BY <1>5, RestoreEffect
<1>6. CASE ApplyStep(m)
  BY <1>6, ApplyEffect DEF ActsOn
<1>7. CASE (PushAccepted(m) \/ PushUnacknowledged(m)) \/ (PushFails(m) \/ FetchFails(m))
  BY <1>7, PushEffect, RejectEffect
<1> QED  BY <1>1, <1>2, <1>3, <1>4, <1>5, <1>6, <1>7, StepCases

(* During the apply step only the plan's actions change anything.          *)
LEMMA ApplyCases ==
  ASSUME TypeOK, NEW m \in Machine, UserStep(m) \/ Crash(m) \/ SyncStep(m),
         At(m, "apply") \/ At(m, "apply")'
  PROVE  \/ Plan(m)
         \/ \E p \in Path : ActsOn(m, p) /\ ActedAs(m, p) /\ OpensOnly(m, p)
         \/ UNCHANGED <<pass, work, mirror, first>>
         \/ UNCHANGED <<work, mirror>> /\ ~At(m, "apply")'
<1> USE DEF At, StepOf
<1>r. pass[m] \in Pass
  BY DEF TypeOK
<1>1. CASE UserStep(m)
  BY <1>1, UserEffect
<1>2. CASE Ends(m)
  BY <1>2, EndsEffect DEF NoPass
<1>3. CASE ApplyStep(m)
  BY <1>3, ApplyEffect
<1>4. CASE AddAll(m)
  <2>1. UNCHANGED <<work, mirror>> /\ Proceeds(m, "commit")
    BY <1>4, AddEffect, ProceedsBy
  <2> QED  BY <2>1 DEF Proceeds
<1>5. ~Pull(m) /\ ~HoldBatch(m) /\ ~ApplyBatch(m)
  <2>1. ~Pull(m)
    BY PullEffect
  <2>2. ~HoldBatch(m)
    BY <1>r, HoldEffect DEF Pass
  <2>3. ~ApplyBatch(m)
    BY <1>r, AnswerEffect DEF Pass
  <2> QED  BY <2>1, <2>2, <2>3
<1>6. ASSUME NEW broken \in SUBSET Path PROVE ~Restore(m, broken)
  BY RestoreEffect
<1>7. ~Commit(m)
  <2> SUFFICES ASSUME Commit(m) PROVE FALSE
    OBVIOUS
  <2>1. At(m, "commit") /\ (Proceeds(m, "push") \/ Proceeds(m, "save"))
    BY CommitEffect, ProceedsBy
  <2> QED  BY <2>1 DEF Proceeds
<1>8. ~(PushAccepted(m) \/ PushUnacknowledged(m))
  <2>1. ASSUME NEW step \in {"save", "fetch"}, pass'[m] = [pass[m] EXCEPT !.step = step]
        PROVE  pass'[m].step = step
    BY <2>1, ProceedsBy DEF Proceeds
  <2> QED  BY <2>1, PushEffect DEF NoPass
<1>9. ~(PushFails(m) \/ FetchFails(m))
  <2> SUFFICES ASSUME PushFails(m) \/ FetchFails(m) PROVE FALSE
    OBVIOUS
  <2>1. /\ StepOf(m) \in {"push", "fetch"}
        /\ Proceeds(m, "fetch") \/ pass'[m] = NoPass
    BY RejectEffect, ProceedsBy
  <2> QED  BY <2>1 DEF Proceeds, NoPass
<1>10. ~FetchAndReset(m)
  BY ResetEffect DEF NoPass
<1>11. ~Save(m)
  BY SaveEffect, SaveFields
<1>12. ~Capture(m)
  <2> SUFFICES ASSUME Capture(m) PROVE FALSE
    OBVIOUS
  <2>1. At(m, "capture") /\ Proceeds(m, "mark")
    BY CaptureEffect, ProceedsBy
  <2> QED  BY <2>1 DEF Proceeds
<1> HIDE DEF At, StepOf
<1> QED  BY <1>1, <1>2, <1>3, <1>4, <1>5, <1>6, <1>7, <1>8, <1>9, <1>10, <1>11, <1>12, OwnCases

LEMMA SuspendedOwn ==
  ASSUME TypeOK, NEW m \in Machine, SuspendedAt(m), UserStep(m) \/ Crash(m) \/ SyncStep(m)
  PROVE  SuspendedAt(m)'
<1> SUFFICES ASSUME At(m, "apply")', NEW p \in pass'[m].todo \cap ConflictPaths(m)'
             PROVE  Planned(m, p)' \in {"merge", "remove-remote"}
  BY DEF SuspendedAt
<1>f. first' = first
  BY FirstStays
<1>1. CASE Plan(m)
  <2>1. /\ UNCHANGED <<work, mirror>> /\ pass'[m].todo \subseteq Path \ pass[m].held
        /\ pass'[m].scan = pass[m].scan /\ pass'[m].seen = pass[m].seen
        /\ pass'[m].base = pass[m].base
    BY <1>1, PlanEffect, PlanFields
  <2>2. Planned(m, p)' = Planned(m, p)
    BY <1>f, <2>1 DEF Planned, Skipped
  <2>3. ~Suspended(m, p) /\ p \in ConflictPaths(m)
    BY <1>1, <2>1, PlanFields DEF ConflictPaths
  <2> QED  BY <2>2, <2>3 DEF Suspended
<1>2. ASSUME NEW q \in Path, ActsOn(m, q), OpensOnly(m, q)
      PROVE  Planned(m, p)' \in {"merge", "remove-remote"}
  <2>1. /\ At(m, "apply") /\ p \in pass[m].todo /\ p # q
        /\ pass'[m].scan = pass[m].scan /\ pass'[m].seen = pass[m].seen
        /\ pass'[m].base = pass[m].base
    BY <1>2 DEF ActsOn
  <2>2. p \in Path /\ work'[m].files[p] = work[m].files[p]
    <3>1. p \in Path
      BY <2>1 DEF TypeOK, Pass
    <3> QED  BY <1>2, <2>1, <3>1 DEF ActsOn
  <2>3. Planned(m, p)' = Planned(m, p)
    BY <1>f, <2>1, <2>2 DEF Planned, Skipped
  <2>4. p \in ConflictPaths(m)
    <3>1. NewBundle(m, q).path = q
      BY DEF NewBundle
    <3> HIDE DEF NewBundle
    <3> QED  BY <1>2, <2>1, <3>1 DEF OpensOnly, ConflictPaths
  <2> QED  BY <2>1, <2>3, <2>4 DEF SuspendedAt
<1>3. CASE UNCHANGED <<pass, work, mirror, first>>
  BY <1>3 DEF SuspendedAt, ConflictPaths, Planned, Skipped, At
<1> QED  BY <1>1, <1>2, <1>3, ApplyCases

LEMMA SuspendedNext == TypeOK /\ SuspendedInv /\ [Next]_vars => SuspendedInv'
<1> SUFFICES ASSUME TypeOK, SuspendedInv, [Next]_vars, NEW n \in Machine PROVE SuspendedAt(n)'
  BY DEF SuspendedInv
<1>1. ASSUME NEW m \in Machine, UserStep(m) \/ Crash(m) \/ SyncStep(m), m # n
      PROVE  SuspendedAt(n)'
  <2>1. n \in first' <=> n \in first
    BY <1>1, FirstStays
  <2>2. UNCHANGED Mine(n)
    BY <1>1, OthersKeep
  <2> QED  BY <2>1, <2>2 DEF Mine, SuspendedInv, SuspendedAt, ConflictPaths, Planned, Skipped, At
<1>2. ASSUME UserStep(n) \/ Crash(n) \/ SyncStep(n) PROVE SuspendedAt(n)'
  BY <1>2, SuspendedOwn DEF SuspendedInv
<1>3. CASE UNCHANGED vars
  BY <1>3 DEF vars, clone, records, SuspendedInv, SuspendedAt, ConflictPaths, Planned, Skipped, At
<1> QED  BY <1>1, <1>2, <1>3 DEF Next

(* Only blocked content is removed as such.                                *)
LEMMA RemovedIsBlocked ==
  ASSUME NEW m \in Machine, NEW p \in Path, Planned(m, p) = "remove-remote"
  PROVE  pass[m].seen[p] = "blocked"
BY DEF Planned, Skipped, Directed, Decide

(* With use-cloud nothing is pushed or merged, and only what was recorded  *)
(* is deleted.                                                             *)
LEMMA PlanOfCloud ==
  ASSUME NEW m \in first, NEW p \in Path, FirstMode[m] = "use-cloud"
  PROVE  /\ Planned(m, p) \notin {"push", "merge"}
         /\ Planned(m, p) = "delete-remote" => pass[m].base[p] # None
<1>1. CASE pass[m].seen[p] = "blocked"
  BY <1>1 DEF Planned, Skipped, Directed, Decide
<1>2. CASE pass[m].seen[p] # "blocked"
  BY <1>2 DEF Planned, Skipped, Directed, Decide, SideChanged
<1> QED  BY <1>1, <1>2

(* Where the working tree of an applying machine changes, an action did it.*)
LEMMA WorkMoves ==
  ASSUME TypeOK, [Next]_vars, NEW n \in Machine, NEW p \in Path, At(n, "apply"),
         work'[n].files[p] # work[n].files[p]
  PROVE  ActsOn(n, p) /\ ActedAs(n, p)
<1>1. PICK m \in Machine : UserStep(m) \/ Crash(m) \/ SyncStep(m)
  BY DEF Next, vars, clone
<1>2. n = m
  BY <1>1, OthersKeep DEF Mine
<1>3. ~Plan(n)
  BY PlanEffect
<1>4. PICK q \in Path : ActsOn(n, q) /\ ActedAs(n, q)
  BY <1>1, <1>2, <1>3, ApplyCases
<1> QED  BY <1>4 DEF ActsOn

(***************************************************************************)
(* While a conflict is open on a machine its canonical file is not removed,*)
(* whatever happens to the local one, unless it must not be shared at all. *)
(***************************************************************************)
THEOREM ConflictsKeepTheirFile == Spec => ConflictedFileStays
<1>1. ASSUME TypeOK, SuspendedInv, [Next]_vars, NEW m \in Machine, NEW p \in ConflictPaths(m),
             At(m, "apply"), pass[m].seen[p] # "blocked", work[m].files[p] # None,
             work'[m].files[p] = None
      PROVE  FALSE
  <2>1. p \in Path
    BY <1>1 DEF ConflictPaths, TypeOK, Bundle
  <2>2. ActsOn(m, p) /\ ActedAs(m, p)
    BY <1>1, <2>1, WorkMoves
  <2>3. Planned(m, p) = "merge"
    BY <1>1, <2>1, <2>2, RemovedIsBlocked DEF SuspendedInv, SuspendedAt, ActsOn
  <2> QED  BY <1>1, <2>1, <2>2, <2>3, MergeLeaves DEF ActedAs
<1>2. Init => SuspendedInv
  BY DEF Init, SuspendedInv, SuspendedAt, NoPass, At
<1>3. TypeOK /\ SuspendedInv /\ [Next]_vars =>
        \A m \in Machine : \A p \in ConflictPaths(m) :
          At(m, "apply") /\ pass[m].seen[p] # "blocked" /\ work[m].files[p] # None
            => work'[m].files[p] # None
  BY <1>1
<1> QED  BY <1>2, <1>3, TypeCorrect, SuspendedNext, PTL DEF Spec, ConflictedFileStays

(***************************************************************************)
(* The first pass of a machine that starts with use-cloud puts nothing of  *)
(* its own into the repository, and removes only what it had recorded.     *)
(***************************************************************************)
THEOREM CloudIsTrusted == Spec => UseCloudTrustsCloud
<1>1. ASSUME TypeOK, [Next]_vars, NEW m \in first, NEW p \in Path, FirstMode[m] = "use-cloud",
             At(m, "apply"), work'[m].files[p] # work[m].files[p]
      PROVE  /\ work'[m].files[p] = None
             /\ pass[m].seen[p] = "blocked" \/ pass[m].base[p] # None
  <2>1. m \in Machine
    BY <1>1 DEF TypeOK
  <2>2. ActsOn(m, p) /\ ActedAs(m, p)
    BY <1>1, <2>1, WorkMoves
  <2>3. Planned(m, p) \notin {"push", "merge"}
    BY <1>1, PlanOfCloud
  <2>4. work'[m].files[p] = None /\ Planned(m, p) \in {"delete-remote", "remove-remote"}
    BY <1>1, <2>2, <2>3 DEF ActedAs
  <2> QED  BY <1>1, <2>1, <2>4, PlanOfCloud, RemovedIsBlocked
<1>2. TypeOK /\ [Next]_vars =>
        \A m \in first, p \in Path : FirstMode[m] = "use-cloud" /\ At(m, "apply") =>
          \/ work'[m].files[p] = work[m].files[p]
          \/ /\ work'[m].files[p] = None
             /\ pass[m].seen[p] = "blocked" \/ pass[m].base[p] # None
  BY <1>1
<1> QED  BY <1>2, TypeCorrect, PTL DEF Spec, UseCloudTrustsCloud
=============================================================================
