-------------------------- MODULE SyncEngine_proofs --------------------------
(***************************************************************************)
(* Theorems about the synchronization engine, for every set of machines,   *)
(* paths and contents and every number of faults.                          *)
(***************************************************************************)
EXTENDS SyncProperties, TLAPS

-----------------------------------------------------------------------------
(* What the pure decisions return. *)

(* The bytes of a file, present or absent, are a content. *)
LEMMA AsBytesType ==
  ASSUME NEW file \in File
  PROVE  AsBytes(file) \in Content
BY ContentAssumption DEF AsBytes, Empty, File, Content

(* A clean merge yields a content. *)
LEMMA MergeOutcomeType ==
  ASSUME NEW strategy \in Strategies,
         NEW base \in File, NEW mine \in File, NEW theirs \in File,
         MergeOutcome(strategy, base, mine, theirs).outcome = "clean"
  PROVE  MergeOutcome(strategy, base, mine, theirs).data \in Content
<1> DEFINE merge == MergeOutcome(strategy, base, mine, theirs)
<1>1. CASE mine = None \/ theirs = None
  BY <1>1 DEF MergeOutcome, Merged
<1>2. CASE mine # None /\ theirs # None
  <2>1. mine \in Content /\ theirs \in Content
    BY <1>2 DEF File
  <2>2. \A b : Combine(b, mine, theirs) \in Content
    BY <2>1 DEF Combine, Content
  <2>3. Empty \in Content
    BY ContentAssumption DEF Empty, Content
  <2>4. \A b : StructuredMerge(b, mine, theirs).data \in Content
    BY <2>2, <2>3 DEF StructuredMerge, Merged
  <2>5. \A b : TextMerge(b, mine, theirs).data \in Content
    BY <2>2, <2>3 DEF TextMerge, Merged
  <2>6. \A b : BinaryMerge(b, mine, theirs).data \in Content
    BY <2>1, <2>3 DEF BinaryMerge, Merged
  <2>7. CASE strategy = "structured"
    <3>1. merge = StructuredMerge(AsBytes(base), mine, theirs)
      BY <1>2, <2>7 DEF MergeOutcome
    <3> QED  BY <3>1, <2>4
  <2>8. CASE strategy # "structured" /\ base = None
    BY <1>2, <2>3, <2>8 DEF MergeOutcome, Merged
  <2>9. CASE strategy = "text" /\ base # None
    <3>1. merge = TextMerge(base, mine, theirs)
      BY <1>2, <2>9 DEF MergeOutcome
    <3> QED  BY <3>1, <2>5
  <2>10. CASE strategy = "binary" /\ base # None
    <3>1. merge = BinaryMerge(base, mine, theirs)
      BY <1>2, <2>10 DEF MergeOutcome
    <3> QED  BY <3>1, <2>6
  <2> QED  BY <2>7, <2>8, <2>9, <2>10 DEF Strategies
<1> QED  BY <1>1, <1>2

-----------------------------------------------------------------------------
(* How the updates of one variable keep its type. *)

(* Every step a pass can be told to take, and the end of a pass. *)
LEMMA PassUpdates ==
  ASSUME pass \in [Machine -> Pass], NEW m \in Machine
  PROVE  /\ NoPass \in Pass
         /\ pass[m] \in Pass
         /\ \A step \in Step : GoTo(m, step) => pass' \in [Machine -> Pass]
         /\ Abort(m) => pass' \in [Machine -> Pass]
         /\ GiveUp(m) => pass' \in [Machine -> Pass]
         /\ \A p \in Path : Done(m, p) => pass' \in [Machine -> Pass]
         /\ \A p \in Path : DoneKeeping(m, p) => pass' \in [Machine -> Pass]
<1>1. NoPass \in Pass
  BY EngineAssumption DEF NoPass, Pass, Step, File, Access
<1>2. pass[m] \in Pass
  OBVIOUS
<1>3. ASSUME NEW step \in Step, GoTo(m, step) PROVE pass' \in [Machine -> Pass]
  BY <1>2, <1>3 DEF GoTo, Pass
<1>4. ASSUME Abort(m) PROVE pass' \in [Machine -> Pass]
  BY <1>1, <1>4 DEF Abort
<1>5. ASSUME GiveUp(m) PROVE pass' \in [Machine -> Pass]
  BY <1>3, <1>4, <1>5 DEF GiveUp, Step
<1>6. ASSUME NEW p \in Path, Done(m, p) PROVE pass' \in [Machine -> Pass]
  BY <1>2, <1>6 DEF Done, Pass
<1>7. ASSUME NEW p \in Path, DoneKeeping(m, p) PROVE pass' \in [Machine -> Pass]
  BY <1>2, <1>7 DEF DoneKeeping, Pass
<1> QED  BY <1>1, <1>2, <1>3, <1>4, <1>5, <1>6, <1>7

(* Counting an environment step. *)
LEMMA SpendType ==
  ASSUME count \in [Bounded -> Nat], NEW kind \in Bounded, Spend(kind)
  PROVE  count' \in [Bounded -> Nat]
BY DEF Spend

(* Writing one file of a working tree, or of a machine. *)
LEMMA FileUpdates ==
  ASSUME NEW trees \in [Machine -> Tree], NEW snapshots \in [Machine -> [Path -> File]],
         NEW m \in Machine, NEW p \in Path, NEW file \in File
  PROVE  /\ [trees EXCEPT ![m].files[p] = file] \in [Machine -> Tree]
         /\ [snapshots EXCEPT ![m][p] = file] \in [Machine -> [Path -> File]]
BY DEF Tree

(* Replaying a commit, and keeping what git does not track. *)
LEMMA RebaseType ==
  ASSUME NEW from \in Tree, NEW mine \in Tree, NEW onto \in Tree
  PROVE  Rebase(from, mine, onto) \in Tree
<1>1. None \in File
  BY DEF File
<1>2. Rebase(from, mine, onto).files \in [Path -> File]
  BY <1>1 DEF Rebase, Replay, Tree
<1>3. Rebase(from, mine, onto).bundles \in SUBSET Bundle
  BY DEF Rebase, Tree
<1>4. ASSUME NEW p \in Path PROVE Rebase(from, mine, onto).trash[p] \in File
  BY <1>1 DEF Rebase, Replay, Tree
<1>5. Rebase(from, mine, onto).trash \in [Path -> File]
  BY <1>4 DEF Rebase
<1> QED  BY <1>2, <1>3, <1>5 DEF Rebase, Tree

LEMMA CarryType ==
  ASSUME TypeOK, NEW m \in Machine, NEW tree \in Tree
  PROVE  CarryUntracked(m, tree) \in Tree
<1>1. work[m] \in Tree /\ head[m] \in Tree
  BY DEF TypeOK
<1> QED  BY <1>1 DEF CarryUntracked, Tree

-----------------------------------------------------------------------------
(* Type correctness, action by action. *)

LEMMA TypeInit == Init => TypeOK
<1> SUFFICES ASSUME Init PROVE TypeOK
  OBVIOUS
<1>1. None \in File
  BY DEF File
<1>2. EmptyTree \in Tree
  BY <1>1 DEF EmptyTree, Tree
<1>3. NoPass \in Pass
  BY <1>1, EngineAssumption DEF NoPass, Pass, Step, Access
<1>4. history \in HistoryType
  BY <1>1 DEF Init, HistoryType
<1> QED  BY <1>1, <1>2, <1>3, <1>4 DEF Init, TypeOK, Access

LEMMA TypeUserStep ==
  ASSUME TypeOK, NEW m \in Machine, UserStep(m)
  PROVE  TypeOK'
<1> USE DEF clone, files, records
<1>1. ASSUME NEW p \in Path, NEW file \in File, Edit(m, p, file)
      PROVE  TypeOK'
  <2>1. count' \in [Bounded -> Nat]
    BY <1>1, SpendType DEF Edit, TypeOK, Bounded
  <2>2. local' \in [Machine -> [Path -> File]]
    BY <1>1, FileUpdates DEF Edit, TypeOK
  <2>3. history' \in HistoryType
    <3>1. None \in File /\ local[m][p] \in File
      BY DEF File, TypeOK
    <3>2. history \in HistoryType
      BY DEF TypeOK
    <3>3. CASE file # None
      BY <1>1, <3>1, <3>2, <3>3 DEF Edit, HistoryType
    <3>4. CASE file = None
      BY <1>1, <3>1, <3>2, <3>4 DEF Edit, HistoryType
    <3> QED  BY <3>3, <3>4
  <2> QED  BY <1>1, <2>1, <2>2, <2>3 DEF Edit, TypeOK
<1>2. ASSUME NEW p \in Path, NEW a \in Access, ChangeAccess(m, p, a)
      PROVE  TypeOK'
  <2>1. count' \in [Bounded -> Nat]
    BY <1>2, SpendType DEF ChangeAccess, TypeOK, Bounded
  <2>2. access' \in [Machine -> [Path -> Access]]
    BY <1>2 DEF ChangeAccess, TypeOK
  <2>3. history' \in HistoryType
    BY <1>2 DEF ChangeAccess, TypeOK, HistoryType
  <2> QED  BY <1>2, <2>1, <2>2, <2>3 DEF ChangeAccess, TypeOK
<1>3. ASSUME NEW selections \in Answers(m), QueueBatch(m, selections)
      PROVE  TypeOK'
  <2>1. count' \in [Bounded -> Nat]
    BY <1>3, SpendType DEF QueueBatch, TypeOK, Bounded
  <2>2. selections \in SUBSET Selection
    BY DEF Answers, Selection, TypeOK
  <2> QED  BY <1>3, <2>1, <2>2 DEF QueueBatch, TypeOK
<1> QED  BY <1>1, <1>2, <1>3 DEF UserStep

LEMMA TypeCrash ==
  ASSUME TypeOK, NEW m \in Machine, Crash(m)
  PROVE  TypeOK'
<1>1. count' \in [Bounded -> Nat]
  BY SpendType DEF Crash, TypeOK, Bounded
<1>2. pass' \in [Machine -> Pass]
  BY PassUpdates DEF Crash, TypeOK
<1>3. history' \in HistoryType
  <2> DEFINE torn == {<<m, p>> : p \in {q \in Path : state[m][q] # store[m][q]}}
  <2>1. history \in HistoryType /\ torn \subseteq Machine \X Path
    BY DEF TypeOK
  <2>2. \/ history' = [history EXCEPT !.stranded = @ \cup {m}]
        \/ history' = [history EXCEPT !.apart = @ \cup torn]
        \/ history' = history
    BY DEF Crash
  <2> HIDE DEF torn
  <2> QED  BY <2>1, <2>2 DEF HistoryType
<1> QED  BY <1>1, <1>2, <1>3 DEF Crash, TypeOK, clone, files, records

LEMMA TypePull ==
  ASSUME TypeOK, NEW m \in Machine, Pull(m) \/ PullFails(m) \/ PullWedges(m)
  PROVE  TypeOK'
<1> USE DEF clone, files, records
<1>1. CASE Pull(m)
  <2> DEFINE rebased == Rebase(root[m], head[m], origin)
             tree == CarryUntracked(m, rebased)
             scan == [p \in Path |-> IF access[m][p] = "ok" THEN local[m][p] ELSE None]
             attempt == IF At(m, "idle") THEN PushRetries ELSE pass[m].attempt
             begun == [NoPass EXCEPT !.step = "collected", !.attempt = attempt,
                         !.scan = scan, !.seen = access[m], !.base = state[m]]
  <2>1. rebased \in Tree
    BY RebaseType DEF TypeOK
  <2>2. tree \in Tree
    BY <2>1, CarryType
  <2>3. begun \in Pass
    <3>1. NoPass \in Pass /\ pass[m] \in Pass
      BY PassUpdates DEF TypeOK
    <3>2. scan \in [Path -> File]
      BY DEF TypeOK, File
    <3>3. attempt \in 0..PushRetries
      BY <3>1, EngineAssumption DEF Pass
    <3>4. access[m] \in [Path -> Access] /\ state[m] \in [Path -> File]
      BY DEF TypeOK
    <3> HIDE DEF scan, attempt
    <3> QED  BY <3>1, <3>2, <3>3, <3>4 DEF Pass, Step
  <2>4. pass' = [pass EXCEPT ![m] = begun]
    BY <1>1 DEF Pull
  <2>5. pass' \in [Machine -> Pass]
    <3> HIDE DEF begun
    <3> QED  BY <2>3, <2>4 DEF TypeOK
  <2>6. tree.bundles \in SUBSET Bundle
    BY <2>2 DEF Tree
  <2>7. /\ root' = [root EXCEPT ![m] = origin]
        /\ head' = [head EXCEPT ![m] = rebased]
        /\ work' = [work EXCEPT ![m] = tree]
        /\ mirror' = [mirror EXCEPT ![m] = tree.bundles]
    BY <1>1 DEF Pull
  <2> HIDE DEF rebased, tree, begun
  <2> QED  BY <1>1, <2>1, <2>2, <2>5, <2>6, <2>7 DEF Pull, TypeOK
<1>2. CASE PullFails(m)
  <2>1. count' \in [Bounded -> Nat]
    BY <1>2, SpendType DEF PullFails, TypeOK, Bounded
  <2>2. pass' \in [Machine -> Pass]
    BY <1>2, PassUpdates DEF PullFails, TypeOK
  <2> QED  BY <1>2, <2>1, <2>2 DEF PullFails, TypeOK
<1>3. CASE PullWedges(m)
  <2>1. pass' \in [Machine -> Pass]
    BY <1>3, PassUpdates DEF PullWedges, TypeOK
  <2> QED  BY <1>3, <2>1 DEF PullWedges, TypeOK
<1> QED  BY <1>1, <1>2, <1>3

LEMMA TypeBatchStep ==
  ASSUME TypeOK, NEW m \in Machine, BatchStep(m)
  PROVE  TypeOK'
<1> USE DEF clone, files, records
<1>p. pass[m] \in Pass
  BY PassUpdates DEF TypeOK
<1>1. CASE HoldBatch(m)
  <2>1. \A s \in pending[m] : s.bundle.path \in Path
    BY DEF TypeOK, Selection, Bundle
  <2>2. Selected(m) \in SUBSET Path
    BY <2>1 DEF Selected
  <2>3. pass' \in [Machine -> Pass]
    BY <1>1, <1>p, <2>2 DEF HoldBatch, TypeOK, Pass, Step
  <2> QED  BY <1>1, <2>3 DEF HoldBatch, TypeOK
<1>2. CASE FailBatch(m)
  <2>1. pass' \in [Machine -> Pass]
    BY <1>2, PassUpdates DEF FailBatch, TypeOK
  <2> QED  BY <1>2, <2>1 DEF FailBatch, TypeOK
<1>3. CASE ApplyBatch(m)
  <2> DEFINE gone == {s.bundle : s \in pending[m]}
  <2>1. gone \subseteq mirror[m] /\ gone \in SUBSET Bundle
    BY <1>3 DEF ApplyBatch, TypeOK
  <2>2. PICK content \in [Path -> File] :
          work' = [work EXCEPT ![m].files = content, ![m].bundles = @ \ gone]
    BY <1>3 DEF ApplyBatch
  <2>3. work[m] \in Tree
    BY DEF TypeOK
  <2>4. work' \in [Machine -> Tree]
    BY <2>2, <2>3 DEF TypeOK, Tree
  <2>5. pass' \in [Machine -> Pass]
    BY <1>3, <1>p DEF ApplyBatch, TypeOK, Pass, Step
  <2>6. history' \in HistoryType
    BY <1>3, <2>1 DEF ApplyBatch, TypeOK, HistoryType
  <2> QED  BY <1>3, <2>1, <2>4, <2>5, <2>6 DEF ApplyBatch, TypeOK
<1>4. ASSUME NEW broken \in SUBSET Path, Restore(m, broken)
      PROVE  TypeOK'
  <2> DEFINE applied == {s.bundle.path : s \in pass[m].applied}
             written == {s.bundle.path : s \in {t \in pass[m].applied : t.choice # "local"}}
             restored == [p \in Path |-> IF p \in written \ broken
                                           THEN work[m].files[p] ELSE local[m][p]]
             base == [p \in Path |-> IF p \in applied \ broken
                                       THEN work[m].files[p] ELSE pass[m].base[p]]
             scan == [p \in Path |-> IF access[m][p] = "ok" THEN restored[p] ELSE None]
  <2>1. count' \in [Bounded -> Nat]
    BY <1>4, SpendType DEF Restore, TypeOK, Bounded
  <2>2. work[m] \in Tree /\ local[m] \in [Path -> File] /\ access[m] \in [Path -> Access]
    BY DEF TypeOK
  <2>3. restored \in [Path -> File]
    BY <2>2 DEF Tree
  <2>4. base \in [Path -> File]
    BY <2>2, <1>p DEF Tree, Pass
  <2>5. scan \in [Path -> File]
    BY <2>3 DEF File
  <2>6. /\ local' = [local EXCEPT ![m] = restored]
        /\ pass' = [pass EXCEPT ![m].step = "plan", ![m].base = base, ![m].held = broken,
                                ![m].seen = access[m], ![m].scan = scan]
    BY <1>4 DEF Restore
  <2> HIDE DEF restored, base, scan
  <2>7. pass' \in [Machine -> Pass]
    BY <1>p, <2>2, <2>4, <2>5, <2>6 DEF TypeOK, Pass, Step
  <2>8. local' \in [Machine -> [Path -> File]]
    BY <2>3, <2>6 DEF TypeOK
  <2>9. UNCHANGED <<origin, behind, clone, access, records, history>>
    BY <1>4 DEF Restore
  <2> QED  BY <2>1, <2>7, <2>8, <2>9 DEF TypeOK
<1> QED  BY <1>1, <1>2, <1>3, <1>4 DEF BatchStep

LEMMA TypePlan ==
  ASSUME TypeOK, NEW m \in Machine, Plan(m)
  PROVE  TypeOK'
<1>1. pass[m] \in Pass
  BY PassUpdates DEF TypeOK
<1>2. ConflictPaths(m) \subseteq Path
  BY DEF ConflictPaths, TypeOK, Bundle
<1>3. pass' \in [Machine -> Pass]
  BY <1>1, <1>2 DEF Plan, TypeOK, Pass, Step, Kept, Skipped
<1> QED  BY <1>3 DEF Plan, TypeOK, clone, files, records

LEMMA TypeApplyStep ==
  ASSUME TypeOK, NEW m \in Machine, ApplyStep(m)
  PROVE  TypeOK'
<1> USE DEF clone, files, records
<1> PICK p \in Path :
      \/ PushToRemote(m, p) \/ PullToLocal(m, p) \/ DeleteLocal(m, p)
      \/ LocalWriteFails(m, p) \/ DeleteRemote(m, p) \/ RemoveRemote(m, p)
      \/ MergeBoth(m, p) \/ MergeStops(m, p)
  BY DEF ApplyStep
<1>p. pass[m] \in Pass /\ None \in File
  BY PassUpdates DEF TypeOK, File
<1>f. /\ pass[m].scan[p] \in File /\ work[m].files[p] \in File /\ store[m][p] \in File
      /\ work[m] \in Tree
  BY <1>p DEF Pass, TypeOK, Tree
<1>1. CASE PushToRemote(m, p)
  <2>1. pass' \in [Machine -> Pass]
    BY <1>1, PassUpdates DEF PushToRemote, TypeOK
  <2>2. work' \in [Machine -> Tree]
    BY <1>1, <1>f, FileUpdates DEF PushToRemote, TypeOK
  <2> QED  BY <1>1, <2>1, <2>2 DEF PushToRemote, TypeOK
<1>2. CASE PullToLocal(m, p)
  <2>1. pass' \in [Machine -> Pass]
    BY <1>2, PassUpdates DEF PullToLocal, TypeOK
  <2>2. local' \in [Machine -> [Path -> File]]
    BY <1>2, <1>f, FileUpdates DEF PullToLocal, TypeOK
  <2> QED  BY <1>2, <2>1, <2>2 DEF PullToLocal, TypeOK
<1>3. CASE DeleteLocal(m, p)
  <2>1. pass' \in [Machine -> Pass]
    BY <1>3, PassUpdates DEF DeleteLocal, TypeOK
  <2>2. local' \in [Machine -> [Path -> File]]
    BY <1>3, <1>p, FileUpdates DEF DeleteLocal, TypeOK
  <2> QED  BY <1>3, <2>1, <2>2 DEF DeleteLocal, TypeOK
<1>4. CASE LocalWriteFails(m, p)
  <2>1. pass' \in [Machine -> Pass]
    BY <1>4, PassUpdates DEF LocalWriteFails, TypeOK
  <2>2. count' \in [Bounded -> Nat]
    BY <1>4, SpendType DEF LocalWriteFails, TypeOK, Bounded
  <2> QED  BY <1>4, <2>1, <2>2 DEF LocalWriteFails, TypeOK
<1>5. CASE DeleteRemote(m, p)
  <2>1. pass' \in [Machine -> Pass]
    BY <1>5, PassUpdates DEF DeleteRemote, TypeOK
  <2>2. count' \in [Bounded -> Nat]
    BY <1>5, SpendType DEF DeleteRemote, TypeOK, Bounded
  <2>3. local' \in [Machine -> [Path -> File]]
    <3>1. CASE local' = [local EXCEPT ![m][p] = None]
      BY <1>p, <3>1, FileUpdates DEF TypeOK
    <3>2. CASE local' = local
      BY <3>2 DEF TypeOK
    <3> QED  BY <1>5, <3>1, <3>2 DEF DeleteRemote
  <2>4. work' \in [Machine -> Tree]
    BY <1>5, <1>p, <1>f DEF DeleteRemote, TypeOK, Tree
  <2> QED  BY <1>5, <2>1, <2>2, <2>3, <2>4 DEF DeleteRemote, TypeOK
<1>6. CASE RemoveRemote(m, p)
  <2>1. pass' \in [Machine -> Pass]
    BY <1>6, PassUpdates DEF RemoveRemote, TypeOK
  <2>2. work' \in [Machine -> Tree]
    BY <1>6, <1>p, FileUpdates DEF RemoveRemote, TypeOK
  <2> QED  BY <1>6, <2>1, <2>2 DEF RemoveRemote, TypeOK
<1>7. CASE MergeBoth(m, p)
  <2>1. pass' \in [Machine -> Pass]
    BY <1>7, PassUpdates DEF MergeBoth, TypeOK
  <2>2. count' \in [Bounded -> Nat]
    BY <1>7, SpendType DEF MergeBoth, TypeOK, Bounded
  <2>3. Strategy[p] \in Strategies
    BY EngineAssumption
  <2>4. MergeResult(m, p).data \in File
    BY <1>7, <1>f, <2>3, MergeOutcomeType DEF MergeBoth, MergeResult, File
  <2>5. local' \in [Machine -> [Path -> File]]
    <3>1. CASE local' = [local EXCEPT ![m][p] = MergeResult(m, p).data]
      BY <2>4, <3>1, FileUpdates DEF TypeOK
    <3>2. CASE local' = local
      BY <3>2 DEF TypeOK
    <3> QED  BY <1>7, <3>1, <3>2 DEF MergeBoth
  <2>6. work' \in [Machine -> Tree]
    BY <1>7, <2>4, FileUpdates DEF MergeBoth, TypeOK
  <2> QED  BY <1>7, <2>1, <2>2, <2>5, <2>6 DEF MergeBoth, TypeOK
<1>8. CASE MergeStops(m, p)
  <2>1. pass' \in [Machine -> Pass]
    BY <1>8, PassUpdates DEF MergeStops, TypeOK
  <2>2. NewBundle(m, p) \in Bundle
    BY <1>f, AsBytesType DEF NewBundle, Bundle
  <2>3. PICK bundle \in SUBSET Bundle :
          /\ work' = [work EXCEPT ![m].bundles = @ \cup bundle]
          /\ mirror' = [mirror EXCEPT ![m] = @ \cup bundle]
    BY <1>8, <2>2 DEF MergeStops
  <2>4. work' \in [Machine -> Tree]
    BY <1>f, <2>3 DEF TypeOK, Tree
  <2>5. mirror' \in [Machine -> SUBSET Bundle]
    BY <2>3 DEF TypeOK
  <2> QED  BY <1>8, <2>1, <2>4, <2>5 DEF MergeStops, TypeOK
<1> QED  BY <1>1, <1>2, <1>3, <1>4, <1>5, <1>6, <1>7, <1>8

LEMMA TypePublishStep ==
  ASSUME TypeOK, NEW m \in Machine, PublishStep(m)
  PROVE  TypeOK'
<1> USE DEF clone, files, records
<1>p. pass[m] \in Pass /\ NoPass \in Pass
  BY PassUpdates DEF TypeOK
<1>h. ASSUME Publish(m)
      PROVE  /\ origin' \in Tree /\ behind' \in SUBSET Machine
             /\ history' \in HistoryType
  <2>1. head[m] \in Tree
    BY DEF TypeOK
  <2>2. \A p \in Path : history.published[p] \cup ({head[m].files[p]} \ {None}) \in SUBSET Content
    BY <2>1 DEF TypeOK, HistoryType, Tree, File
  <2> QED  BY <1>h, <2>1, <2>2 DEF Publish, TypeOK, HistoryType, Tree
<1>s. ASSUME Strand(m) PROVE history' \in HistoryType
  <2>1. history.stranded \cup {m} \in SUBSET Machine /\ history \in HistoryType
    BY DEF TypeOK, HistoryType
  <2> QED  BY <1>s, <2>1 DEF Strand, HistoryType
<1>1. CASE AddAll(m)
  <2>1. pass' \in [Machine -> Pass]
    BY <1>1, PassUpdates DEF AddAll, TypeOK, Step
  <2> QED  BY <1>1, <2>1 DEF AddAll, TypeOK
<1>2. CASE Commit(m)
  <2>1. pass' \in [Machine -> Pass]
    BY <1>2, PassUpdates DEF Commit, TypeOK, Step
  <2> QED  BY <1>2, <2>1 DEF Commit, TypeOK
<1>3. CASE GitFails(m)
  <2>1. pass' \in [Machine -> Pass]
    BY <1>3, PassUpdates DEF GitFails, TypeOK
  <2>2. count' \in [Bounded -> Nat]
    BY <1>3, SpendType DEF GitFails, TypeOK, Bounded
  <2> QED  BY <1>3, <2>1, <2>2 DEF GitFails, TypeOK
<1>4. CASE PushAccepted(m)
  <2>1. pass' \in [Machine -> Pass]
    BY <1>4, PassUpdates DEF PushAccepted, TypeOK, Step
  <2> QED  BY <1>4, <1>h, <2>1 DEF PushAccepted, TypeOK
<1>5. CASE PushFails(m)
  <2>1. pass' \in [Machine -> Pass]
    BY <1>5, PassUpdates DEF PushFails, TypeOK
  <2>2. count' \in [Bounded -> Nat]
    BY <1>5, SpendType DEF PushFails, TypeOK, Bounded
  <2>3. history' \in HistoryType
    BY <1>5, <1>s DEF PushFails, TypeOK
  <2> QED  BY <1>5, <2>1, <2>2, <2>3 DEF PushFails, TypeOK
<1>6. CASE PushUnacknowledged(m)
  <2>1. pass' \in [Machine -> Pass]
    BY <1>6, PassUpdates DEF PushUnacknowledged, TypeOK
  <2>2. count' \in [Bounded -> Nat]
    BY <1>6, SpendType DEF PushUnacknowledged, TypeOK, Bounded
  <2> QED  BY <1>6, <1>h, <2>1, <2>2 DEF PushUnacknowledged, TypeOK
<1>7. CASE FetchAndReset(m)
  <2> DEFINE retried == [NoPass EXCEPT !.step = "retry", !.attempt = pass[m].attempt - 1]
  <2>1. retried \in Pass
    <3>1. pass[m].attempt - 1 \in 0..PushRetries
      BY <1>7, <1>p, EngineAssumption DEF FetchAndReset, Retries, Pass
    <3> QED  BY <1>p, <3>1 DEF Pass, Step
  <2>2. pass' \in [Machine -> Pass]
    BY <1>7, <2>1 DEF FetchAndReset, TypeOK
  <2> QED  BY <1>7, <2>2 DEF FetchAndReset, TypeOK
<1>8. CASE FetchFails(m)
  <2>1. pass' \in [Machine -> Pass]
    BY <1>8, PassUpdates DEF FetchFails, TypeOK
  <2>2. count' \in [Bounded -> Nat]
    BY <1>8, SpendType DEF FetchFails, TypeOK, Bounded
  <2> QED  BY <1>8, <1>s, <2>1, <2>2 DEF FetchFails, TypeOK
<1> QED  BY <1>1, <1>2, <1>3, <1>4, <1>5, <1>6, <1>7, <1>8 DEF PublishStep

LEMMA TypeFinishStep ==
  ASSUME TypeOK, NEW m \in Machine, FinishStep(m)
  PROVE  TypeOK'
<1> USE DEF clone, files, records
<1>p. pass[m] \in Pass /\ None \in File /\ work[m] \in Tree
  BY PassUpdates DEF TypeOK, File
<1>1. CASE Save(m)
  <2>1. pass' \in [Machine -> Pass]
    BY <1>1, <1>p DEF Save, TypeOK, Pass, Step
  <2>2. PreserveSnapshot(BaseOwned(m), work[m].files, Preserved(m)) \in [Path -> File]
    BY <1>p DEF PreserveSnapshot, BaseOwned, Pass, Tree
  <2>3. history' \in HistoryType
    <3> DEFINE torn == {<<m, p>> : p \in {q \in Preserved(m) : pass[m].base[q] # state[m][q]}}
    <3>1. Preserved(m) \subseteq Path
      BY <1>p DEF Preserved, ConflictPaths, Pass, TypeOK, Bundle
    <3>2. history \in HistoryType /\ torn \subseteq Machine \X Path
      BY <3>1 DEF TypeOK
    <3>3. history' = [history EXCEPT !.apart = @ \cup torn]
      BY <1>1 DEF Save
    <3> HIDE DEF torn
    <3> QED  BY <3>2, <3>3 DEF HistoryType
  <2> QED  BY <1>1, <2>1, <2>2, <2>3 DEF Save, TypeOK
<1>2. CASE Capture(m)
  <2>1. pass' \in [Machine -> Pass]
    BY <1>2, PassUpdates DEF Capture, TypeOK, Step
  <2>2. PreserveSnapshot(store[m], work[m].files, Preserved(m)) \in [Path -> File]
    BY <1>p DEF PreserveSnapshot, TypeOK, Tree
  <2>3. history' \in HistoryType
    <3> DEFINE joined == {<<m, p>> : p \in Path \ Preserved(m)}
    <3>1. history \in HistoryType /\ history' = [history EXCEPT !.apart = @ \ joined]
      BY <1>2 DEF Capture, TypeOK
    <3> HIDE DEF joined
    <3> QED  BY <3>1 DEF HistoryType
  <2> QED  BY <1>2, <2>1, <2>2, <2>3 DEF Capture, TypeOK
<1>3. CASE CaptureFails(m)
  <2>1. pass' \in [Machine -> Pass]
    BY <1>3, PassUpdates DEF CaptureFails, TypeOK
  <2>2. count' \in [Bounded -> Nat]
    BY <1>3, SpendType DEF CaptureFails, TypeOK, Bounded
  <2>3. pass[m].loaded \in [Path -> File]
    BY <1>p DEF Pass
  <2> QED  BY <1>3, <2>1, <2>2, <2>3 DEF CaptureFails, TypeOK
<1>4. CASE MarkFirstSync(m)
  <2>1. pass' \in [Machine -> Pass]
    BY <1>4, PassUpdates DEF MarkFirstSync, TypeOK
  <2> QED  BY <1>4, <2>1 DEF MarkFirstSync, TypeOK
<1> QED  BY <1>1, <1>2, <1>3, <1>4 DEF FinishStep

LEMMA TypeNext == TypeOK /\ [Next]_vars => TypeOK'
<1> SUFFICES ASSUME TypeOK, [Next]_vars PROVE TypeOK'
  OBVIOUS
<1>1. ASSUME NEW m \in Machine, UserStep(m) \/ Crash(m) \/ SyncStep(m)
      PROVE  TypeOK'
  BY <1>1, TypeUserStep, TypeCrash, TypePull, TypeBatchStep, TypePlan, TypeApplyStep,
     TypePublishStep, TypeFinishStep DEF SyncStep
<1>2. CASE UNCHANGED vars
  BY <1>2 DEF TypeOK, vars, clone, files, records
<1> QED  BY <1>1, <1>2 DEF Next

(***************************************************************************)
(* Every variable keeps its type, whatever the users, the network and the  *)
(* file systems do (state.json, the base store, the bundles and the pass). *)
(***************************************************************************)
THEOREM TypeCorrect == Spec => []TypeOK
BY TypeInit, TypeNext, PTL DEF Spec

-----------------------------------------------------------------------------
(* No conflict is lost: ConflictInv is inductive.                          *)

LEMMA ConflictInit == Init => ConflictInv
BY DEF Init, ConflictInv, NoConflictLost, EmptyTree

(* A rebase and a pull drop only the bundles the replayed commits dropped. *)
LEMMA RebaseKeeps ==
  ASSUME NEW from \in Tree, NEW mine \in Tree, NEW onto \in Tree, NEW dropped,
         from.bundles \subseteq mine.bundles \cup dropped
  PROVE  onto.bundles \subseteq Rebase(from, mine, onto).bundles \cup dropped
BY DEF Rebase

(* Steps that touch neither a clone, nor origin, nor what the invariant    *)
(* remembers.                                                              *)
LEMMA ConflictElsewhere ==
  ASSUME ConflictInv, UNCHANGED <<origin, behind, root, head>>,
         \A m \in Machine : work'[m].bundles = work[m].bundles,
         history'.opened = history.opened, history'.resolved = history.resolved
  PROVE  ConflictInv'
BY DEF ConflictInv, NoConflictLost

(* A push: origin takes the bundles of a clone that had all of origin's.   *)
LEMMA ConflictPublish ==
  ASSUME TypeOK, ConflictInv, NEW m \in Machine, Publish(m),
         root' = [root EXCEPT ![m] = head[m]], UNCHANGED <<head, work>>
  PROVE  ConflictInv'
<1>1. /\ origin' = head[m] /\ behind' = Machine \ {m}
      /\ history'.opened = history.opened \cup head[m].bundles
      /\ history'.resolved = history.resolved
  BY DEF Publish, TypeOK, HistoryType
<1>2. origin.bundles \subseteq head[m].bundles \cup history.resolved
  BY DEF Publish, ConflictInv
<1>3. NoConflictLost'
  BY <1>1, <1>2 DEF ConflictInv, NoConflictLost
<1>4. root'[m] = head[m] /\ \A n \in Machine \ {m} : root'[n] = root[n]
  BY DEF TypeOK
<1> QED  BY <1>1, <1>3, <1>4 DEF ConflictInv

LEMMA ConflictNext == TypeOK /\ ConflictInv /\ [Next]_vars => ConflictInv'
<1> SUFFICES ASSUME TypeOK, ConflictInv, [Next]_vars PROVE ConflictInv'
  OBVIOUS
<1> USE DEF clone, files, records
<1>1. ASSUME NEW m \in Machine, UserStep(m) \/ Crash(m) PROVE ConflictInv'
  <2>1. UNCHANGED <<origin, behind, root, head, work>>
    BY <1>1 DEF UserStep, Edit, ChangeAccess, QueueBatch, Crash
  <2>2. history'.opened = history.opened /\ history'.resolved = history.resolved
    <3>1. history \in HistoryType
      BY DEF TypeOK
    <3>2. CASE Crash(m)
      BY <3>1, <3>2 DEF Crash, HistoryType
    <3>3. ASSUME NEW p \in Path, NEW file \in File, Edit(m, p, file)
          PROVE  history'.opened = history.opened /\ history'.resolved = history.resolved
      BY <3>1, <3>3 DEF Edit, HistoryType
    <3>4. ASSUME NEW p \in Path, NEW a \in Access, ChangeAccess(m, p, a)
          PROVE  history'.opened = history.opened /\ history'.resolved = history.resolved
      BY <3>1, <3>4 DEF ChangeAccess, HistoryType
    <3>5. ASSUME NEW selections, QueueBatch(m, selections)
          PROVE  history' = history
      BY <3>5 DEF QueueBatch
    <3> QED  BY <1>1, <3>2, <3>3, <3>4, <3>5 DEF UserStep
  <2> QED  BY <2>1, <2>2, ConflictElsewhere
<1>2. ASSUME NEW m \in Machine, Pull(m) PROVE ConflictInv'
  <2> DEFINE rebased == Rebase(root[m], head[m], origin)
  <2>1. origin.bundles \subseteq rebased.bundles \cup history.resolved
    BY RebaseKeeps DEF ConflictInv, TypeOK
  <2>2. rebased.bundles \subseteq CarryUntracked(m, rebased).bundles
    BY DEF CarryUntracked
  <2>3. /\ root' = [root EXCEPT ![m] = origin]
        /\ head' = [head EXCEPT ![m] = rebased]
        /\ work' = [work EXCEPT ![m] = CarryUntracked(m, rebased)]
        /\ behind' = behind \ {m} /\ UNCHANGED <<origin, history>>
    BY <1>2 DEF Pull
  <2> HIDE DEF rebased
  <2> QED  BY <2>1, <2>2, <2>3 DEF ConflictInv, NoConflictLost, TypeOK
<1>3. ASSUME NEW m \in Machine, PullFails(m) \/ PullWedges(m) \/ Plan(m) \/ FinishStep(m)
      PROVE  ConflictInv'
  <2>1. UNCHANGED <<origin, behind, root, head, work>>
    BY <1>3 DEF PullFails, PullWedges, Plan, FinishStep, Save, Capture, CaptureFails, MarkFirstSync
  <2>2. history'.opened = history.opened /\ history'.resolved = history.resolved
    <3>1. CASE Save(m) \/ Capture(m)
      BY <3>1 DEF Save, Capture, TypeOK, HistoryType
    <3>2. CASE PullFails(m) \/ PullWedges(m) \/ Plan(m) \/ CaptureFails(m) \/ MarkFirstSync(m)
      BY <3>2 DEF PullFails, PullWedges, Plan, CaptureFails, MarkFirstSync
    <3> QED  BY <1>3, <3>1, <3>2 DEF FinishStep
  <2> QED  BY <2>1, <2>2, ConflictElsewhere
<1>4. ASSUME NEW m \in Machine, BatchStep(m) PROVE ConflictInv'
  <2>1. CASE ApplyBatch(m)
    <3> DEFINE gone == {s.bundle : s \in pending[m]}
    <3>1. PICK content \in [Path -> File] :
            work' = [work EXCEPT ![m].files = content, ![m].bundles = @ \ gone]
      BY <2>1 DEF ApplyBatch
    <3>2. /\ work'[m].bundles = work[m].bundles \ gone
          /\ \A n \in Machine \ {m} : work'[n] = work[n]
      BY <3>1 DEF TypeOK, Tree
    <3>3. /\ history'.resolved = history.resolved \cup gone
          /\ history'.opened = history.opened
          /\ UNCHANGED <<origin, behind, root, head>>
      BY <2>1 DEF ApplyBatch, TypeOK, HistoryType
    <3> HIDE DEF gone
    <3> QED  BY <3>2, <3>3 DEF ConflictInv, NoConflictLost
  <2>2. CASE HoldBatch(m) \/ FailBatch(m) \/ \E broken \in SUBSET Path : Restore(m, broken)
    <3>1. UNCHANGED <<origin, behind, root, head, work, history>>
      BY <2>2 DEF HoldBatch, FailBatch, Restore
    <3> QED  BY <3>1, ConflictElsewhere
  <2> QED  BY <1>4, <2>1, <2>2 DEF BatchStep
<1>5. ASSUME NEW m \in Machine, ApplyStep(m) PROVE ConflictInv'
  <2>1. UNCHANGED <<origin, behind, root, head, history>>
    BY <1>5 DEF ApplyStep, PushToRemote, PullToLocal, DeleteLocal, LocalWriteFails,
                DeleteRemote, RemoveRemote, MergeBoth, MergeStops
  <2>2. PICK p \in Path :
          \/ PushToRemote(m, p) \/ PullToLocal(m, p) \/ DeleteLocal(m, p)
          \/ LocalWriteFails(m, p) \/ DeleteRemote(m, p) \/ RemoveRemote(m, p)
          \/ MergeBoth(m, p) \/ MergeStops(m, p)
    BY <1>5 DEF ApplyStep
  <2>3. work \in [Machine -> Tree]
    BY DEF TypeOK
  <2>4. CASE PullToLocal(m, p) \/ DeleteLocal(m, p) \/ LocalWriteFails(m, p)
    <3>1. UNCHANGED work
      BY <2>4 DEF PullToLocal, DeleteLocal, LocalWriteFails
    <3> QED  BY <2>1, <3>1, ConflictElsewhere
  <2>5. CASE PushToRemote(m, p) \/ DeleteRemote(m, p) \/ RemoveRemote(m, p) \/ MergeBoth(m, p)
    <3>1. \A n \in Machine : work'[n].bundles = work[n].bundles
      <4>1. CASE PushToRemote(m, p)
        BY <2>3, <4>1 DEF PushToRemote, Tree
      <4>2. CASE DeleteRemote(m, p)
        BY <2>3, <4>2 DEF DeleteRemote, Tree
      <4>3. CASE RemoveRemote(m, p)
        BY <2>3, <4>3 DEF RemoveRemote, Tree
      <4>4. CASE MergeBoth(m, p)
        BY <2>3, <4>4 DEF MergeBoth, Tree
      <4> QED  BY <2>5, <4>1, <4>2, <4>3, <4>4
    <3> QED  BY <2>1, <3>1, ConflictElsewhere
  <2>6. CASE MergeStops(m, p)
    <3>1. PICK bundle : work' = [work EXCEPT ![m].bundles = @ \cup bundle]
      BY <2>6 DEF MergeStops
    <3>2. \A n \in Machine : work[n].bundles \subseteq work'[n].bundles
      BY <2>3, <3>1 DEF Tree
    <3> QED  BY <2>1, <3>2 DEF ConflictInv, NoConflictLost
  <2> QED  BY <2>2, <2>4, <2>5, <2>6
<1>6. ASSUME NEW m \in Machine, PublishStep(m) PROVE ConflictInv'
  <2>1. CASE PushAccepted(m) \/ PushUnacknowledged(m)
    BY <2>1, ConflictPublish DEF PushAccepted, PushUnacknowledged
  <2>2. CASE Commit(m)
    <3>1. /\ head' = [head EXCEPT ![m] = work[m]]
          /\ UNCHANGED <<origin, behind, root, work, history>>
      BY <2>2 DEF Commit
    <3>2. root[m].bundles \subseteq work[m].bundles \cup history.resolved
      BY DEF ConflictInv
    <3> QED  BY <3>1, <3>2 DEF ConflictInv, NoConflictLost, TypeOK
  <2>3. CASE FetchAndReset(m)
    BY <2>3 DEF FetchAndReset, ConflictInv, NoConflictLost, TypeOK
  <2>4. CASE AddAll(m) \/ GitFails(m) \/ PushFails(m) \/ FetchFails(m)
    <3>1. UNCHANGED <<origin, behind, root, head, work>>
      BY <2>4 DEF AddAll, GitFails, PushFails, FetchFails
    <3>2. history'.opened = history.opened /\ history'.resolved = history.resolved
      BY <2>4 DEF AddAll, GitFails, PushFails, FetchFails, Strand, TypeOK, HistoryType
    <3> QED  BY <3>1, <3>2, ConflictElsewhere
  <2> QED  BY <1>6, <2>1, <2>2, <2>3, <2>4 DEF PublishStep
<1>7. CASE UNCHANGED vars
  BY <1>7, ConflictElsewhere DEF vars
<1> QED  BY <1>1, <1>2, <1>3, <1>4, <1>5, <1>6, <1>7 DEF Next, SyncStep

(***************************************************************************)
(* A conflict that reached the shared repository stays there until some    *)
(* user answers it: neither retries, rebases, crashes, lost                *)
(* acknowledgements nor the passes of other machines drop a bundle.        *)
(***************************************************************************)
THEOREM NoConflictIsLost == Spec => []NoConflictLost
<1>1. ConflictInv => NoConflictLost
  BY DEF ConflictInv
<1> QED  BY <1>1, TypeCorrect, ConflictInit, ConflictNext, PTL DEF Spec
=============================================================================
