------------------------ MODULE SharedLibrary_proofs ------------------------
(***************************************************************************)
(* Theorems about the shared library, for every set of files and however   *)
(* many edits, passes, previews and troubles there are.                    *)
(***************************************************************************)
EXTENDS SharedLibrary, TLAPS

USE LibraryFiles

PlanRecord ==
  [kind : Kind, on : Place, before : Tree, after : Tree, records : [Managed -> Record]]
OpRecord ==
  [step : {"none", "saving", "writing", "undoing"}, kind : Kind, on : Place,
   before : Tree, after : Tree, todo : SUBSET File, temp : SUBSET Temp]
PassRecord ==
  [step : {"none", "syncing", "refreshing"}, reserved : BOOLEAN, todo : SUBSET Managed]

-----------------------------------------------------------------------------
(***************************************************************************)
(* Types.                                                                  *)
(***************************************************************************)
LEMMA Places ==
  /\ Managed \subseteq Harness /\ Harness \subseteq Place /\ "library" \in Place
  /\ "library" \notin Harness
BY DEF Managed, Harness, Place

LEMMA EmptyTypes ==
  /\ NoFiles \in Tree /\ NotOwned \in Record /\ NoOp \in OpRecord
  /\ NoPlan \in PlanRecord /\ NoPass \in PassRecord
<1>1. NoFiles \in Tree
  BY DEF NoFiles, Tree, Absent
<1>2. NotOwned \in Record
  BY <1>1 DEF NotOwned, Record
<1>3. NoOp \in OpRecord
  BY <1>1, Places DEF NoOp, OpRecord, Kind
<1>4. NoPlan \in PlanRecord
  BY <1>1, <1>2, Places DEF NoPlan, PlanRecord, Kind
<1> QED  BY <1>1, <1>2, <1>3, <1>4 DEF NoPass, PassRecord

(* The state by parts. *)
TypedFiles ==
  /\ budget \in [Bounded -> Nat \cup {Unlimited}]
  /\ made \in Nat /\ tree \in [Place -> Tree]
TypedWork ==
  /\ records \in [Managed -> Record]
  /\ shown \in PlanRecord /\ op \in OpRecord /\ pass \in PassRecord
TypedPast ==
  /\ unseen \in [Place -> SUBSET Nat] /\ late \subseteq Place \X File
  /\ touched \subseteq Managed /\ adopted \in [Managed -> Tree]
  /\ litter \in [Place -> SUBSET Temp]
Typed == TypedFiles /\ TypedWork /\ TypedPast

LEMMA Types == (TypeOK <=> Typed) /\ (TypeOK' <=> Typed')
BY DEF TypeOK, Typed, TypedFiles, TypedWork, TypedPast, PlanRecord, OpRecord, PassRecord

(* Leaving files out of a tree. *)
LEMMA WithoutType ==
  ASSUME NEW t \in Tree, NEW names
  PROVE  Without(t, names) \in Tree /\ Without(t, {}) = t
BY DEF Without, Tree, Absent

LEMMA SpendType ==
  ASSUME budget \in [Bounded -> Nat \cup {Unlimited}], NEW kind \in Bounded, Spend(kind)
  PROVE  budget' \in [Bounded -> Nat \cup {Unlimited}]
BY DEF Spend

LEMMA PlanType ==
  ASSUME Typed, NEW kind \in {"import", "apply", "restore", "detach"}, NEW h \in Harness,
         Allowed(kind, h)
  PROVE  /\ Plan(kind, h) \in PlanRecord
         /\ Plan(kind, h).kind = kind /\ Plan(kind, h).on = h
         /\ kind # "import" => h \in Managed
<1> USE DEF Typed, TypedFiles, TypedWork
<1>1. kind # "import" => h \in Managed
  BY DEF Allowed
<1>2. Plan(kind, h).kind = kind /\ Plan(kind, h).on = h
  BY DEF Plan
<1>3. Written(kind, h) \in Place /\ h \in Place
  BY Places DEF Written
<1>4. (IF kind = "detach" THEN NoFiles ELSE tree[Written(kind, h)]) \in Tree
  BY <1>3, EmptyTypes
<1>5. kind = "restore" => records[h].original \in Tree
  BY <1>1 DEF Record
<1>6. (CASE kind = "import" -> tree[h]
         [] kind = "apply" -> tree["library"]
         [] kind = "restore" -> records[h].original
         [] kind = "detach" -> NoFiles) \in Tree
  <2>1. CASE kind = "import"
    BY <2>1, <1>3
  <2>2. CASE kind = "apply"
    BY <2>2, Places
  <2>3. CASE kind = "restore"
    BY <2>3, <1>5
  <2>4. CASE kind = "detach"
    BY <2>4, EmptyTypes
  <2> QED  BY <2>1, <2>2, <2>3, <2>4
<1> QED  BY <1>1, <1>2, <1>3, <1>4, <1>6 DEF Plan, PlanRecord, Kind

LEMMA TypeInit == Init => TypeOK
<1> SUFFICES ASSUME Init PROVE Typed
  BY Types
<1>1. /\ NoFiles \in Tree
      /\ \A p \in Place : [f \in File |-> IF f \in Temp THEN Absent ELSE Number(p)] \in Tree
  BY EmptyTypes DEF Number, Tree, Place, Harness, Managed, Absent
<1>2. \A p \in Place : [NoFiles EXCEPT ![Main] = Number(p)] \in Tree
  BY EmptyTypes DEF Number, Tree, Place, Harness, Managed
<1>3. tree \in [Place -> Tree]
  BY <1>1, <1>2 DEF Init
<1>4. \A p \in Place : Contents(tree[p]) \subseteq Nat
  BY <1>3 DEF Contents, Tree
<1>5. unseen \in [Place -> SUBSET Nat]
  BY <1>4 DEF Init
<1> QED  BY <1>1, <1>3, <1>5, EmptyTypes, LibraryBudgets DEF Init, Typed, TypedFiles, TypedWork, TypedPast

(* An operation begins. *)
LEMMA TypeBegin ==
  ASSUME Typed, NEW plan \in PlanRecord, Begin(plan)
  PROVE  /\ op' \in OpRecord /\ touched' \subseteq Managed /\ adopted' \in [Managed -> Tree]
         /\ litter' \in [Place -> SUBSET Temp] /\ late' = {}
<1> USE DEF Typed, TypedPast
<1>1. Differing(plan.before, plan.after) \subseteq File
  BY DEF Differing
<1>2. plan.kind \in Kind /\ plan.on \in Place /\ plan.before \in Tree /\ plan.after \in Tree
  BY DEF PlanRecord
<1>3. op' \in OpRecord
  BY <1>1, <1>2 DEF Begin, OpRecord
<1>4. adopted' \in [Managed -> Tree]
  BY <1>2 DEF Begin
<1>5. litter' \in [Place -> SUBSET Temp]
  BY DEF Begin
<1> QED  BY <1>3, <1>4, <1>5 DEF Begin

(* The operation that holds the lock takes its next step. *)
LEMMA TypeOperation ==
  ASSUME Typed, Operation
  PROVE  Typed'
<1> USE DEF Typed, history
<1>1. ASSUME NEW kind \in {"import", "apply", "restore", "detach"}, NEW h \in Harness,
             Preview(kind, h)
      PROVE  Typed'
  <2>1. shown' \in PlanRecord
    BY <1>1, PlanType DEF Preview
  <2>2. budget' \in [Bounded -> Nat \cup {Unlimited}]
    BY <1>1, SpendType DEF Preview, Bounded, TypedFiles
  <2> QED  BY <1>1, <2>1, <2>2 DEF Preview, TypedFiles, TypedWork, TypedPast
<1>2. CASE Approve
  <2>1. Begin(shown) /\ shown \in PlanRecord
    BY <1>2 DEF Approve, TypedWork
  <2>2. unseen' \in [Place -> SUBSET Nat]
    BY <1>2 DEF Approve, TypedPast
  <2>3. /\ op' \in OpRecord /\ touched' \subseteq Managed /\ adopted' \in [Managed -> Tree]
        /\ litter' \in [Place -> SUBSET Temp] /\ late' = {}
    BY <2>1, TypeBegin
  <2> QED  BY <1>2, <2>2, <2>3 DEF Approve, TypedFiles, TypedWork, TypedPast
<1>3. ASSUME Writing, op' \in OpRecord, tree' \in [Place -> Tree], made' \in Nat,
             litter' \in [Place -> SUBSET Temp],
             UNCHANGED <<budget, records, shown, pass, unseen, late, touched, adopted>>
      PROVE  Typed'
  BY <1>3 DEF TypedFiles, TypedWork, TypedPast
<1>31. ASSUME NEW t \in Temp, CreateTemp(t) PROVE Typed'
  <2>1. op' \in OpRecord
    BY <1>31 DEF CreateTemp, TypedWork, OpRecord
  <2>2. made' \in Nat /\ tree' \in [Place -> Tree]
    <3>1. t \in File /\ made' \in Nat /\ tree' = [tree EXCEPT ![Where][t] = made']
      BY <1>31 DEF CreateTemp, TypedFiles
    <3>2. \A p \in Place : [tree[p] EXCEPT ![t] = made'] \in Tree
      BY <3>1 DEF TypedFiles, Tree
    <3> QED  BY <3>1, <3>2 DEF TypedFiles
  <2>3. litter' \in [Place -> SUBSET Temp]
    BY <1>31 DEF CreateTemp, TypedPast
  <2> QED  BY <1>3, <1>31, <2>1, <2>2, <2>3 DEF CreateTemp
<1>32. ASSUME NEW f \in File, Rename(f) PROVE Typed'
  <2>1. op.after[f] \in Nat /\ op' \in OpRecord
    BY <1>32 DEF Rename, TypedWork, OpRecord, Tree
  <2>2. \A p \in Place : [Without(tree[p], op.temp) EXCEPT ![f] = op.after[f]] \in Tree
    BY <2>1, WithoutType DEF TypedFiles, Tree
  <2>3. tree' \in [Place -> Tree] /\ made' \in Nat
    BY <1>32, <2>2 DEF Rename, TypedFiles
  <2>4. litter' \in [Place -> SUBSET Temp]
    BY <1>32 DEF Rename, TypedPast
  <2> QED  BY <1>3, <1>32, <2>1, <2>3, <2>4 DEF Rename
<1>33. ASSUME NEW f \in File, RemoveFile(f) PROVE Typed'
  <2>1. op' \in OpRecord
    BY <1>33 DEF RemoveFile, TypedWork, OpRecord
  <2>2. tree' \in [Place -> Tree] /\ made' \in Nat
    BY <1>33 DEF RemoveFile, TypedFiles, Tree, Absent
  <2> QED  BY <1>3, <1>33, <2>1, <2>2 DEF RemoveFile, TypedPast
<1>4. ASSUME op' \in OpRecord, records' \in [Managed -> Record], UNCHANGED <<made, tree, shown, pass, history>>,
             budget' \in [Bounded -> Nat \cup {Unlimited}]
      PROVE  Typed'
  BY <1>4 DEF TypedFiles, TypedWork, TypedPast
<1>5. \A step \in {"writing", "none"} : [op EXCEPT !.step = step] \in OpRecord
  BY DEF TypedWork, OpRecord
<1>6. CASE Saved
  <2>1. /\ op.before \in Tree /\ op.after \in Tree
        /\ \A h \in Managed : records[h].original \in Tree
    BY DEF TypedWork, OpRecord, Record
  <2>2. CASE op.on \in Managed
    <3>1. [owned |-> TRUE, original |-> IF Owned(op.on) THEN records[op.on].original ELSE op.before,
           applied |-> op.after, previous |-> op.before, pending |-> TRUE] \in Record
      BY <2>1, <2>2 DEF Record
    <3> QED  BY <1>4, <1>5, <1>6, <3>1 DEF Saved, TypedFiles, TypedWork
  <2>3. CASE op.on \notin Managed
    BY <1>4, <1>5, <1>6, <2>3 DEF Saved, TypedFiles, TypedWork
  <2> QED  BY <2>2, <2>3
<1>7. CASE BackedUp
  BY <1>4, <1>5, <1>7 DEF BackedUp, TypedFiles, TypedWork
<1>8. CASE Detached
  BY <1>4, <1>8, EmptyTypes DEF Detached, TypedFiles, TypedWork
<1>9. CASE Finish
  <2>1. \A h \in Managed : [records[h] EXCEPT !.pending = FALSE, !.previous = NoFiles] \in Record
    BY EmptyTypes DEF TypedWork, Record
  <2>2. records' \in [Managed -> Record]
    BY <1>9, <2>1, EmptyTypes DEF Finish, TypedWork
  <2> QED  BY <1>4, <1>9, <2>2, EmptyTypes DEF Finish, TypedFiles
<1>10. CASE Fail
  <2>1. tree' \in [Place -> Tree] /\ litter' \in [Place -> SUBSET Temp]
    BY <1>10, WithoutType DEF Fail, TypedFiles, TypedPast
  <2>2. [op EXCEPT !.step = "undoing", !.before = tree'["library"], !.after = op.before,
           !.todo = Differing(tree'["library"], op.before), !.temp = {}] \in OpRecord
    <3>1. tree'["library"] \in Tree /\ Differing(tree'["library"], op.before) \subseteq File
      BY <2>1, Places DEF Differing
    <3> QED  BY <3>1 DEF TypedWork, OpRecord
  <2>3. op' \in OpRecord
    BY <1>10, <2>2, EmptyTypes DEF Fail
  <2>4. budget' \in [Bounded -> Nat \cup {Unlimited}]
    BY <1>10, SpendType DEF Fail, Bounded, TypedFiles
  <2>5. UNCHANGED <<made, records, shown, pass, unseen, late, touched, adopted>>
    BY <1>10 DEF Fail
  <2> QED  BY <2>1, <2>3, <2>4, <2>5 DEF TypedFiles, TypedWork, TypedPast
<1> QED  BY <1>1, <1>2, <1>31, <1>32, <1>33, <1>6, <1>7, <1>8, <1>9, <1>10 DEF Operation

(* A file of a place is given a new content, or removed. *)
LEMMA TypeEdit ==
  ASSUME Typed, NEW p \in Place, NEW f \in File, NEW present \in BOOLEAN, made' = made + 1,
         tree' = [tree EXCEPT ![p][f] = IF present THEN made' ELSE Absent]
  PROVE  made' \in Nat /\ tree' \in [Place -> Tree]
BY DEF Typed, TypedFiles, Tree, Absent

LEMMA TypePass ==
  ASSUME Typed, Pass
  PROVE  Typed'
<1> USE DEF Typed, history
<1>1. CASE PassBegins
  <2>1. budget' \in [Bounded -> Nat \cup {Unlimited}]
    BY <1>1, SpendType DEF PassBegins, Bounded, TypedFiles
  <2>2. pass' \in PassRecord
    BY <1>1 DEF PassBegins, PassRecord, Reserved
  <2> QED  BY <1>1, <2>1, <2>2 DEF PassBegins, TypedFiles, TypedWork, TypedPast
<1>2. ASSUME NEW p \in Place, NEW f \in File, NEW present \in BOOLEAN, PassWrites(p, f, present)
      PROVE  Typed'
  <2>1. made' \in Nat /\ tree' \in [Place -> Tree]
    BY <1>2, TypeEdit DEF PassWrites
  <2>2. budget' \in [Bounded -> Nat \cup {Unlimited}]
    BY <1>2, SpendType DEF PassWrites, Bounded, TypedFiles
  <2> QED  BY <1>2, <2>1, <2>2 DEF PassWrites, TypedFiles, TypedWork, TypedPast
<1>3. CASE RefreshBegins
  <2>1. pass' \in PassRecord
    BY <1>3 DEF RefreshBegins, PassRecord, TypedWork
  <2> QED  BY <1>3, <2>1 DEF RefreshBegins, TypedFiles, TypedWork, TypedPast
<1>4. ASSUME NEW h \in Managed, RefreshNext(h) PROVE Typed'
  <2>1. pass' \in PassRecord
    BY <1>4 DEF RefreshNext, PassRecord, TypedWork
  <2>2. CASE Allowed("apply", h)
    <3>1. Plan("apply", h) \in PlanRecord
      BY <2>2, PlanType, Places
    <3>2. /\ op' \in OpRecord /\ touched' \subseteq Managed /\ adopted' \in [Managed -> Tree]
          /\ litter' \in [Place -> SUBSET Temp] /\ late' = {}
      BY <1>4, <2>2, <3>1, TypeBegin DEF RefreshNext
    <3> QED  BY <1>4, <2>1, <3>2 DEF RefreshNext, TypedFiles, TypedWork, TypedPast
  <2>3. CASE ~Allowed("apply", h)
    BY <1>4, <2>1, <2>3 DEF RefreshNext, TypedFiles, TypedWork, TypedPast
  <2> QED  BY <2>2, <2>3
<1>5. CASE PassEnds
  BY <1>5, EmptyTypes DEF PassEnds, TypedFiles, TypedWork, TypedPast
<1> QED  BY <1>1, <1>2, <1>3, <1>4, <1>5 DEF Pass

LEMMA TypeUser ==
  ASSUME Typed, Crash \/ \E p \in Place, f \in File, present \in BOOLEAN : UserEdits(p, f, present)
  PROVE  Typed'
<1> USE DEF Typed, history
<1>1. ASSUME NEW p \in Place, NEW f \in File, NEW present \in BOOLEAN, UserEdits(p, f, present)
      PROVE  Typed'
  <2>1. made' \in Nat /\ tree' \in [Place -> Tree]
    BY <1>1, TypeEdit DEF UserEdits
  <2>2. budget' \in [Bounded -> Nat \cup {Unlimited}]
    BY <1>1, SpendType DEF UserEdits, Bounded, TypedFiles
  <2>3. unseen' \in [Place -> SUBSET Nat]
    BY <1>1, <2>1 DEF UserEdits, TypedPast
  <2>4. late' \subseteq Place \X File /\ touched' \subseteq Managed
    BY <1>1 DEF UserEdits, TypedPast
  <2> QED  BY <1>1, <2>1, <2>2, <2>3, <2>4 DEF UserEdits, TypedFiles, TypedWork, TypedPast
<1>2. CASE Crash
  <2>1. budget' \in [Bounded -> Nat \cup {Unlimited}]
    BY <1>2, SpendType DEF Crash, Bounded, TypedFiles
  <2> QED  BY <1>2, <2>1, EmptyTypes DEF Crash, TypedFiles, TypedWork, TypedPast
<1> QED  BY <1>1, <1>2

(* Type correctness of the shared library. *)
THEOREM TypeCorrect == Spec => []TypeOK
<1>1. ASSUME TypeOK, [Next]_vars PROVE TypeOK'
  <2>1. CASE UNCHANGED vars
    BY <1>1, <2>1 DEF vars, history, TypeOK
  <2>2. CASE Next
    BY <1>1, <2>2, Types, TypeOperation, TypePass, TypeUser DEF Next
  <2> QED  BY <1>1, <2>1, <2>2
<1> QED  BY <1>1, TypeInit, PTL DEF Spec

-----------------------------------------------------------------------------
(***************************************************************************)
(* A copy and its record.  While an operation holds the lock and writes a  *)
(* copy, every file of it is as it was or as it will be, and the record on *)
(* disk knows both; a pass that may still bring files holds the lock alone *)
(* and keeps off the copies there are records of.                          *)
(***************************************************************************)
OnCopy(h) == op.kind \in {"apply", "restore"} /\ op.on = h
Cleaned(h) == Without(tree[h], litter[h])
Mixed(h) == \A f \in File : Cleaned(h)[f] = IF f \in op.todo THEN op.before[f] ELSE op.after[f]

LockInv ==
  /\ pass.step = "syncing" =>
       op = NoOp /\ pass.todo = {} /\ (~pass.reserved => \A h \in Managed : ~Owned(h))
  /\ op.kind = "detach" => op.step = "saving"
  /\ op.step \in {"writing", "undoing"} => op.kind \in {"import", "apply", "restore"}
  /\ op.temp # {} => op.step \in {"writing", "undoing"}
  /\ op.todo \subseteq Differing(op.before, op.after)
  /\ \A t \in op.temp : t \in Temp /\ op.before[t] = Absent /\ op.after[t] = Absent

CopyInv(h) ==
  /\ Owned(h) /\ h \notin touched => Recoverable(Cleaned(h), records[h])
  /\ OnCopy(h) => litter[h] = op.temp
  /\ OnCopy(h) /\ h \notin touched => Mixed(h)
  /\ OnCopy(h) /\ op.step = "saving" => op.todo = Differing(op.before, op.after)
  /\ OnCopy(h) /\ op.step # "saving" =>
       /\ Owned(h) /\ records[h].pending
       /\ records[h].applied = op.after /\ records[h].previous = op.before

(* What a copy was when it was adopted, and what a restore has written. *)
OriginalInv(h) ==
  /\ Owned(h) => records[h].original = adopted[h]
  /\ OnCopy(h) /\ ~Owned(h) => op.kind = "apply" /\ op.before = adopted[h]
  /\ OnCopy(h) /\ op.kind = "restore" => op.after = adopted[h]
  /\ OnCopy(h) => \A f \in File \ (op.todo \cup op.temp) :
                    tree[h][f] = op.after[f] \/ <<h, f>> \in late

LEMMA LockNext ==
  ASSUME Typed, LockInv, [Next]_vars
  PROVE  LockInv'
<1> USE DEF Typed, history
<1>1. CASE UNCHANGED <<records, op, pass>>
  BY <1>1 DEF LockInv, Owned
<1>2. ASSUME UNCHANGED pass, op # NoOp, op' = NoOp \/ op'.kind = op.kind,
             op' # NoOp /\ op'.step # op.step => op.kind \in {"import", "apply", "restore"},
             op' # NoOp =>
               /\ op'.temp # {} => op'.step \in {"writing", "undoing"}
               /\ op'.todo \subseteq Differing(op'.before, op'.after)
               /\ \A t \in op'.temp : t \in Temp /\ op'.before[t] = Absent /\ op'.after[t] = Absent
      PROVE  LockInv'
  BY <1>2 DEF LockInv, NoOp
<1>3. ASSUME NEW plan \in PlanRecord, Begin(plan), pass'.step # "syncing"
      PROVE  LockInv'
  BY <1>3 DEF Begin, LockInv
<1>30. ASSUME op'.before = op.before, op'.after = op.after, op'.todo \subseteq op.todo,
              op'.temp \in {{}, op.temp}, op'.step = op.step \/ op'.step = "writing"
       PROVE  /\ op'.temp # {} => op'.step \in {"writing", "undoing"}
              /\ op'.todo \subseteq Differing(op'.before, op'.after)
              /\ \A t \in op'.temp : t \in Temp /\ op'.before[t] = Absent /\ op'.after[t] = Absent
  BY <1>30 DEF LockInv
<1>4. CASE Operation
  <2>1. ASSUME NEW kind \in {"import", "apply", "restore", "detach"}, NEW h \in Harness,
               Preview(kind, h)
        PROVE  LockInv'
    BY <1>1, <2>1 DEF Preview
  <2>2. CASE Approve
    BY <1>3, <2>2 DEF Approve, LockFree, NoPass, TypedWork
  <2>3. CASE Saved \/ BackedUp
    <3>1. /\ op # NoOp /\ op'.kind = op.kind /\ op.kind \in {"import", "apply", "restore"}
          /\ op'.before = op.before /\ op'.after = op.after /\ op'.todo = op.todo
          /\ op'.temp = op.temp /\ op'.step = "writing"
          /\ UNCHANGED pass
      BY <2>3 DEF Saved, BackedUp, NoOp, TypedWork, OpRecord
    <3> QED  BY <1>2, <1>30, <3>1
  <2>4. CASE Detached
    BY <1>2, <2>4 DEF Detached, NoOp
  <2>50. ASSUME NEW t \in Temp, CreateTemp(t) PROVE LockInv'
    <3>1. /\ op # NoOp /\ op'.kind = op.kind /\ op'.step = op.step /\ UNCHANGED pass
          /\ op'.before = op.before /\ op'.after = op.after /\ op'.todo = op.todo
          /\ op'.temp = {t} /\ op.before[t] = Absent /\ op.after[t] = Absent
          /\ op.step \in {"writing", "undoing"}
      BY <2>50 DEF CreateTemp, Writing, NoOp, TypedWork, OpRecord
    <3>2. op'.todo \subseteq Differing(op'.before, op'.after)
      BY <3>1 DEF LockInv
    <3> QED  BY <1>2, <3>1, <3>2
  <2>5. ASSUME NEW f \in File, Rename(f) \/ RemoveFile(f) PROVE LockInv'
    <3>1. op.step \in {"writing", "undoing"} /\ UNCHANGED pass
      BY <2>5 DEF Rename, RemoveFile, Writing
    <3>2. /\ op'.kind = op.kind /\ op'.step = op.step
          /\ op'.before = op.before /\ op'.after = op.after /\ op'.todo \subseteq op.todo
          /\ op'.temp \in {{}, op.temp}
      <4>1. CASE Rename(f)
        BY <4>1 DEF Rename, TypedWork, OpRecord
      <4>2. CASE RemoveFile(f)
        BY <4>2 DEF RemoveFile, TypedWork, OpRecord
      <4> QED  BY <2>5, <4>1, <4>2
    <3>3. op # NoOp
      BY <3>1 DEF NoOp
    <3>4. /\ op'.temp # {} => op'.step \in {"writing", "undoing"}
          /\ op'.todo \subseteq Differing(op'.before, op'.after)
          /\ \A t \in op'.temp : t \in Temp /\ op'.before[t] = Absent /\ op'.after[t] = Absent
      BY <1>30, <3>2
    <3> QED  BY <1>2, <3>1, <3>2, <3>3, <3>4
  <2>6. CASE Finish
    BY <1>2, <2>6 DEF Finish, Writing, NoOp
  <2>7. CASE Fail
    <3>1. \/ op' = NoOp
          \/ /\ op'.kind = op.kind /\ op.kind = "import" /\ op'.temp = {}
             /\ op'.todo = Differing(op'.before, op'.after)
      BY <2>7 DEF Fail, TypedWork, OpRecord
    <3> QED  BY <1>2, <2>7, <3>1 DEF Fail
  <2> QED  BY <1>4, <2>1, <2>2, <2>3, <2>4, <2>50, <2>5, <2>6, <2>7 DEF Operation
<1>5. CASE Pass
  <2>1. CASE PassBegins
    BY <2>1 DEF PassBegins, LockInv, LockFree, Reserved, Owned
  <2>2. ASSUME NEW p \in Place, NEW f \in File, NEW present \in BOOLEAN, PassWrites(p, f, present)
        PROVE  LockInv'
    BY <1>1, <2>2 DEF PassWrites
  <2>3. CASE RefreshBegins
    BY <2>3 DEF RefreshBegins, LockInv, TypedWork, PassRecord
  <2>4. ASSUME NEW h \in Managed, RefreshNext(h) PROVE LockInv'
    <3>1. h \in pass.todo /\ pass'.step = pass.step /\ pass'.reserved = pass.reserved
      BY <2>4 DEF RefreshNext, TypedWork, PassRecord
    <3>2. CASE ~Allowed("apply", h)
      BY <2>4, <3>1, <3>2 DEF RefreshNext, LockInv, Owned
    <3>3. CASE Allowed("apply", h)
      <4>1. pass'.step # "syncing"
        BY <3>1 DEF LockInv
      <4>2. Plan("apply", h) \in PlanRecord
        BY <3>3, PlanType, Places
      <4> QED  BY <1>3, <2>4, <3>3, <4>1, <4>2 DEF RefreshNext
    <3> QED  BY <3>2, <3>3
  <2>5. CASE PassEnds
    BY <2>5 DEF PassEnds, LockInv, NoPass
  <2> QED  BY <1>5, <2>1, <2>2, <2>3, <2>4, <2>5 DEF Pass
<1>6. ASSUME NEW p \in Place, NEW f \in File, NEW present \in BOOLEAN, UserEdits(p, f, present)
      PROVE  LockInv'
  BY <1>1, <1>6 DEF UserEdits
<1>7. CASE Crash
  BY <1>7 DEF Crash, LockInv, NoOp, NoPass
<1>8. CASE UNCHANGED vars
  BY <1>1, <1>8 DEF vars
<1> QED  BY <1>4, <1>5, <1>6, <1>7, <1>8 DEF Next

(* A step that leaves a copy, its record and the operation on it alone. *)
LEMMA CopyQuiet ==
  ASSUME Typed, NEW h \in Managed, CopyInv(h), OriginalInv(h),
         UNCHANGED <<records[h], adopted[h]>>,
         h \notin touched' => UNCHANGED Cleaned(h) /\ h \notin touched,
         op' = NoOp \/ ~OnCopy(h)' \/
           /\ UNCHANGED <<op, litter[h]>>
           /\ \A f \in File :
                \/ tree'[h][f] = tree[h][f] /\ (<<h, f>> \in late => <<h, f>> \in late')
                \/ <<h, f>> \in late'
  PROVE  CopyInv(h)' /\ OriginalInv(h)'
<1>1. NoOp.kind = "none"
  BY DEF NoOp
<1>2. CASE ~OnCopy(h)'
  BY <1>2 DEF CopyInv, OriginalInv, Owned
<1>3. CASE OnCopy(h)'
  <2>1. /\ UNCHANGED <<op, litter[h]>>
        /\ \A f \in File :
             \/ tree'[h][f] = tree[h][f] /\ (<<h, f>> \in late => <<h, f>> \in late')
             \/ <<h, f>> \in late'
    BY <1>1, <1>3 DEF OnCopy
  <2>2. OnCopy(h)
    BY <1>3, <2>1 DEF OnCopy
  <2>3. CopyInv(h)'
    BY <2>1, <2>2 DEF CopyInv, Owned, Mixed, OnCopy
  <2> QED  BY <2>1, <2>2, <2>3 DEF OriginalInv, Owned, OnCopy
<1> QED  BY <1>2, <1>3

(* What a plan of a copy was made of. *)
LEMMA PlanOfCopy ==
  ASSUME Typed, NEW kind \in {"import", "apply", "restore", "detach"}, NEW g,
         Allowed(kind, g), NEW h \in Managed
  PROVE  /\ Plan(kind, g).kind = kind /\ Plan(kind, g).on = g
         /\ kind \in {"apply", "restore"} => Plan(kind, g).before = tree[g]
         /\ kind = "restore" => Owned(g) /\ Plan(kind, g).after = records[g].original
         /\ kind \in {"apply", "restore"} /\ g = h /\ Owned(h) => Recoverable(tree[h], records[h])
<1>1. Plan(kind, g).kind = kind /\ Plan(kind, g).on = g
  BY DEF Plan
<1>2. kind \in {"apply", "restore"} => Plan(kind, g).before = tree[g]
  BY DEF Plan, Written
<1>3. kind = "restore" => Owned(g) /\ Plan(kind, g).after = records[g].original
  BY DEF Plan, Allowed
<1>4. kind \in {"apply", "restore"} /\ g = h /\ Owned(h) => Recoverable(tree[h], records[h])
  BY DEF Allowed, Recoverable, Owned
<1> QED  BY <1>1, <1>2, <1>3, <1>4

(* An operation begins. *)
LEMMA CopyBegins ==
  ASSUME Typed, NEW h \in Managed, CopyInv(h), OriginalInv(h),
         NEW kind \in {"import", "apply", "restore", "detach"}, NEW g, Allowed(kind, g),
         Begin(Plan(kind, g)), UNCHANGED <<tree, records>>
  PROVE  CopyInv(h)' /\ OriginalInv(h)'
<1> DEFINE plan == Plan(kind, g)
<1>1. /\ plan.kind = kind /\ plan.on = g
      /\ kind \in {"apply", "restore"} => plan.before = tree[g]
      /\ kind = "restore" => Owned(g) /\ plan.after = records[g].original
      /\ kind \in {"apply", "restore"} /\ g = h /\ Owned(h) => Recoverable(tree[h], records[h])
  BY PlanOfCopy
<1> HIDE DEF plan
<1>2. Begin(plan)
  BY DEF plan
<1>3. /\ op'.kind = kind /\ op'.on = g /\ op'.step = "saving"
      /\ op'.before = plan.before /\ op'.after = plan.after
      /\ op'.todo = Differing(plan.before, plan.after) /\ op'.temp = {}
  BY <1>1, <1>2 DEF Begin
<1>4. CASE g = h /\ kind \in {"apply", "restore"}
  <2>1. adopted'[h] = IF kind = "apply" /\ ~Owned(h) THEN plan.before ELSE adopted[h]
    BY <1>1, <1>2, <1>4 DEF Begin, Typed, TypedPast
  <2>0. litter'[h] = {} /\ Cleaned(h)' = tree[h]
    <3>1. litter'[h] = {}
      BY <1>1, <1>2, <1>4, Places DEF Begin, Typed, TypedPast
    <3> QED  BY <3>1, WithoutType, Places DEF Cleaned, Typed, TypedFiles
  <2>2. CopyInv(h)'
    BY <1>1, <1>3, <1>4, <2>0 DEF CopyInv, Owned, OnCopy, Mixed, Differing
  <2>3. OriginalInv(h)'
    BY <1>1, <1>3, <1>4, <2>1 DEF OriginalInv, Owned, OnCopy, Differing
  <2> QED  BY <2>2, <2>3
<1>5. CASE ~(g = h /\ kind \in {"apply", "restore"})
  <2>1. /\ UNCHANGED <<adopted[h], litter[h]>> /\ (h \notin touched' => h \notin touched)
        /\ ~OnCopy(h)'
    BY <1>1, <1>2, <1>3, <1>5, Places DEF Begin, OnCopy, Typed, TypedPast
  <2> QED  BY <2>1, CopyQuiet DEF Cleaned
<1> QED  BY <1>4, <1>5

(* The steps of an operation. *)
LEMMA CopyOperation ==
  ASSUME Typed, LockInv, NEW h \in Managed, CopyInv(h), OriginalInv(h), Operation
  PROVE  CopyInv(h)' /\ OriginalInv(h)'
<1> USE DEF history
<1> /\ op \in OpRecord /\ tree \in [Place -> Tree] /\ records \in [Managed -> Record]
    /\ litter \in [Place -> SUBSET Temp]
  BY DEF Typed, TypedWork, TypedFiles, TypedPast
<1>0. h \in Place /\ h # "library"
  BY Places
<1>1. ASSUME NEW kind \in {"import", "apply", "restore", "detach"}, NEW g \in Harness,
             Preview(kind, g)
      PROVE  CopyInv(h)' /\ OriginalInv(h)'
  BY <1>1, CopyQuiet DEF Preview, Cleaned
<1>2. CASE Approve
  <2>1. shown.kind \in {"import", "apply", "restore", "detach"}
    BY <1>2 DEF Approve, Allowed
  <2> QED  BY <1>2, <2>1, CopyBegins DEF Approve
<1>3. CASE Saved
  <2>1. CASE OnCopy(h)
    <3>1. /\ records'[h].owned /\ records'[h].pending
          /\ records'[h].original = IF Owned(h) THEN records[h].original ELSE op.before
          /\ records'[h].applied = op.after /\ records'[h].previous = op.before
      BY <1>3, <2>1 DEF Saved, OnCopy
    <3>2. /\ op'.kind = op.kind /\ op'.on = op.on /\ op'.todo = op.todo /\ op'.step = "writing"
          /\ op'.before = op.before /\ op'.after = op.after /\ op'.temp = op.temp
          /\ UNCHANGED <<tree, touched, late, adopted, litter>>
      BY <1>3 DEF Saved, OpRecord
    <3>3. CopyInv(h)'
      <4>1. h \notin touched => Recoverable(Cleaned(h), records'[h])
        <5>1. h \notin touched => \A f \in File : Cleaned(h)[f] \in {op.after[f], op.before[f]}
          BY <2>1 DEF CopyInv, Mixed
        <5> QED  BY <3>1, <5>1 DEF Recoverable
      <4>2. UNCHANGED Cleaned(h)
        BY <3>2 DEF Cleaned
      <4> QED  BY <2>1, <3>1, <3>2, <4>1, <4>2 DEF CopyInv, Owned, OnCopy, Mixed
    <3>4. OriginalInv(h)'
      BY <2>1, <3>1, <3>2 DEF OriginalInv, Owned, OnCopy
    <3> QED  BY <3>3, <3>4
  <2>2. CASE ~OnCopy(h)
    <3>1. op'.kind = op.kind /\ op'.on = op.on /\ UNCHANGED records[h]
      BY <1>3, <2>2 DEF Saved, OpRecord, OnCopy
    <3> QED  BY <1>3, <2>2, <3>1, CopyQuiet DEF Saved, OnCopy, Cleaned
  <2> QED  BY <2>1, <2>2
<1>4. CASE BackedUp
  <2>1. ~OnCopy(h)'
    BY <1>4 DEF BackedUp, OnCopy, OpRecord
  <2> QED  BY <1>4, <2>1, CopyQuiet DEF BackedUp, Cleaned
<1>5. CASE Detached
  <2>1. CASE op.on = h
    <3>1. ~Owned(h)' /\ ~OnCopy(h)'
      BY <1>5, <2>1 DEF Detached, Owned, NotOwned, OnCopy, NoOp
    <3> QED  BY <3>1 DEF CopyInv, OriginalInv
  <2>2. CASE op.on # h
    BY <1>5, <2>2, CopyQuiet DEF Detached, Cleaned
  <2> QED  BY <2>1, <2>2
<1>60. CASE \E t \in Temp : CreateTemp(t)
  <2>0. PICK t \in Temp : CreateTemp(t)
    BY <1>60
  <2>1. op.kind \in {"import", "apply", "restore"}
    BY <2>0 DEF CreateTemp, Writing, LockInv
  <2>2. /\ op'.kind = op.kind /\ op'.on = op.on /\ op'.todo = op.todo /\ op'.step = op.step
        /\ op'.before = op.before /\ op'.after = op.after /\ op'.temp = {t} /\ op.step # "saving"
        /\ op.temp = {} /\ UNCHANGED <<records, touched, late, adopted>>
    BY <2>0 DEF CreateTemp, Writing, OpRecord
  <2>3. CASE OnCopy(h)
    <3>1. /\ \A g \in File : g # t => tree'[h][g] = tree[h][g]
          /\ litter'[h] = litter[h] \cup {t} /\ tree[h][t] = Absent
      BY <1>0, <2>0, <2>3 DEF CreateTemp, Where, OnCopy, Written, Tree
    <3>2. Cleaned(h)' = Cleaned(h)
      BY <3>1 DEF Cleaned, Without
    <3>3. CopyInv(h)'
      BY <2>2, <2>3, <3>1, <3>2 DEF CopyInv, Mixed, Owned, OnCopy
    <3>4. OriginalInv(h)'
      BY <2>2, <2>3, <3>1 DEF OriginalInv, Owned, OnCopy
    <3> QED  BY <3>3, <3>4
  <2>4. CASE ~OnCopy(h)
    <3>1. UNCHANGED <<tree[h], litter[h]>>
      BY <1>0, <2>0, <2>1, <2>4 DEF CreateTemp, Where, OnCopy, Written
    <3> QED  BY <2>2, <2>4, <3>1, CopyQuiet DEF OnCopy, Cleaned
  <2> QED  BY <2>3, <2>4
<1>6. ASSUME NEW f \in File, Rename(f) \/ RemoveFile(f) PROVE CopyInv(h)' /\ OriginalInv(h)'
  <2>1. op.kind \in {"import", "apply", "restore"}
    BY <1>6 DEF Rename, RemoveFile, Writing, LockInv
  <2>2. /\ op'.kind = op.kind /\ op'.on = op.on /\ op'.todo = op.todo \ {f} /\ op'.step = op.step
        /\ op'.before = op.before /\ op'.after = op.after /\ op.step # "saving"
        /\ f \in op.todo /\ f \notin op.temp /\ UNCHANGED <<records, touched, late, adopted>>
    <3>1. f \in op.todo /\ f \notin op.temp
      BY <1>6 DEF Rename, RemoveFile, LockInv, Differing
    <3> QED  BY <1>6, <3>1 DEF Rename, RemoveFile, Writing, OpRecord
  <2>3. CASE OnCopy(h)
    <3>0. /\ op.temp \in {{}, litter[h]}
          /\ \/ op'.temp = {} /\ litter'[h] = litter[h] \ op.temp
             \/ op'.temp = op.temp /\ litter'[h] = litter[h]
      BY <1>0, <1>6, <2>3 DEF Rename, RemoveFile, OpRecord, OnCopy, Where, Written, CopyInv
    <3>1. /\ tree'[h][f] = op.after[f]
          /\ \A g \in File : g # f => tree'[h][g] = IF g \in op.temp \ op'.temp THEN Absent ELSE tree[h][g]
      <4>1. CASE Rename(f)
        <5>1. tree'[h] = [Without(tree[h], op.temp) EXCEPT ![f] = op.after[f]] /\ op'.temp = {}
          BY <1>0, <2>3, <4>1 DEF Rename, Where, OnCopy, Written, OpRecord
        <5> QED  BY <5>1 DEF Without
      <4>2. CASE RemoveFile(f)
        <5>1. tree'[h] = [tree[h] EXCEPT ![f] = Absent] /\ op'.temp = op.temp /\ op.after[f] = Absent
          BY <1>0, <2>3, <4>2 DEF RemoveFile, Where, OnCopy, Written, OpRecord
        <5> QED  BY <1>0, <5>1 DEF Tree
      <4> QED  BY <1>6, <4>1, <4>2
    <3>2. litter[h] = op.temp /\ litter'[h] = op'.temp /\ f \notin litter[h]
      BY <2>2, <2>3, <3>0 DEF CopyInv
    <3>3. \A g \in File : Cleaned(h)'[g] = IF g = f THEN op.after[f] ELSE Cleaned(h)[g]
      BY <2>2, <3>0, <3>1, <3>2 DEF Cleaned, Without
    <3>4. h \notin touched => Mixed(h)'
      BY <2>2, <2>3, <3>3 DEF CopyInv, Mixed
    <3>5. h \notin touched => Recoverable(Cleaned(h)', records[h])
      BY <2>2, <2>3, <3>4 DEF CopyInv, Mixed, Recoverable
    <3>6. CopyInv(h)'
      BY <2>2, <2>3, <3>2, <3>4, <3>5 DEF CopyInv, Owned, OnCopy
    <3>7. OriginalInv(h)'
      <4>1. \A g \in op.temp : op.after[g] = Absent
        BY DEF LockInv
      <4>2. \A g \in File \ (op'.todo \cup op'.temp) :
              tree'[h][g] = op.after[g] \/ <<h, g>> \in late
        BY <2>2, <2>3, <3>0, <3>1, <4>1 DEF OriginalInv
      <4> QED  BY <2>2, <2>3, <4>2 DEF OriginalInv, Owned, OnCopy
    <3> QED  BY <3>6, <3>7
  <2>4. CASE ~OnCopy(h)
    <3>1. UNCHANGED <<tree[h], litter[h]>>
      BY <1>0, <1>6, <2>1, <2>4 DEF Rename, RemoveFile, Where, OnCopy, Written
    <3> QED  BY <2>2, <2>4, <3>1, CopyQuiet DEF OnCopy, Cleaned
  <2> QED  BY <2>3, <2>4
<1>7. CASE Finish
  <2>1. op.kind \in {"import", "apply", "restore"} /\ op' = NoOp /\ ~OnCopy(h)'
    BY <1>7 DEF Finish, Writing, LockInv, OnCopy, NoOp
  <2>2. CASE OnCopy(h) /\ op.kind = "restore"
    <3>1. ~Owned(h)'
      BY <1>7, <2>2 DEF Finish, OnCopy, Owned, NotOwned
    <3> QED  BY <2>1, <3>1 DEF CopyInv, OriginalInv
  <2>3. CASE OnCopy(h) /\ op.kind = "apply"
    <3>1. /\ records'[h].pending = FALSE /\ records'[h].applied = records[h].applied
          /\ records'[h].original = records[h].original /\ records'[h].owned = records[h].owned
      BY <1>7, <2>3 DEF Finish, OnCopy, Record
    <3>2. h \notin touched => Cleaned(h) = op.after
      <4>1. h \notin touched => \A f \in File : Cleaned(h)[f] = op.after[f]
        BY <1>7, <2>3 DEF Finish, CopyInv, Mixed
      <4>2. Cleaned(h) \in Tree /\ op.after \in Tree
        BY <1>0, WithoutType DEF OpRecord, Cleaned
      <4> QED  BY <4>1, <4>2 DEF Tree
    <3>20. UNCHANGED Cleaned(h)
      BY <1>7 DEF Finish, Cleaned
    <3>21. UNCHANGED touched
      BY <1>7 DEF Finish
    <3>22. records[h].applied = op.after
      BY <1>7, <2>3 DEF Finish, Writing, CopyInv
    <3>3. CopyInv(h)'
      BY <2>1, <3>1, <3>2, <3>20, <3>21, <3>22 DEF CopyInv, Owned, Recoverable
    <3>4. OriginalInv(h)'
      BY <1>7, <2>1, <2>3, <3>1 DEF Finish, OriginalInv, Owned
    <3> QED  BY <3>3, <3>4
  <2>4. CASE ~OnCopy(h)
    <3>1. UNCHANGED records[h]
      BY <1>7, <2>1, <2>4 DEF Finish, OnCopy
    <3> QED  BY <1>7, <2>1, <3>1, CopyQuiet DEF Finish, Cleaned
  <2> QED  BY <2>1, <2>2, <2>3, <2>4 DEF OnCopy
<1>8. CASE Fail
  <2>1. ~OnCopy(h)'
    BY <1>8 DEF Fail, OnCopy, NoOp, OpRecord
  <2>2. Cleaned(h)' = Cleaned(h)
    <3>1. CASE UNCHANGED <<tree, litter>>
      BY <3>1 DEF Cleaned
    <3>2. CASE Where = h /\ ~UNCHANGED <<tree, litter>>
      <4>1. tree'[h] = Without(tree[h], op.temp) /\ litter'[h] = litter[h] \ op.temp
        BY <1>0, <1>8, <3>2 DEF Fail
      <4>2. op.temp \subseteq litter[h] \/ op.temp = {}
        <5>1. op.temp # {} => OnCopy(h)
          BY <1>0, <3>2 DEF LockInv, Where, Written, OnCopy
        <5> QED  BY <5>1 DEF CopyInv
      <4> QED  BY <4>1, <4>2 DEF Cleaned, Without
    <3>3. CASE Where # h
      <4>1. UNCHANGED <<tree[h], litter[h]>>
        BY <1>0, <1>8, <3>3 DEF Fail
      <4> QED  BY <4>1 DEF Cleaned
    <3> QED  BY <3>1, <3>2, <3>3
  <2> QED  BY <1>8, <2>1, <2>2, CopyQuiet DEF Fail
<1> QED  BY <1>1, <1>2, <1>3, <1>4, <1>5, <1>60, <1>6, <1>7, <1>8 DEF Operation

(* A pass, the user and the death of the process. *)
LEMMA CopyNext ==
  ASSUME Typed, LockInv, NEW h \in Managed, CopyInv(h), OriginalInv(h), [Next]_vars
  PROVE  CopyInv(h)' /\ OriginalInv(h)'
<1> USE DEF history
<1> tree \in [Place -> Tree]
  BY DEF Typed, TypedFiles
<1>1. CASE Operation
  BY <1>1, CopyOperation
<1>2. CASE PassBegins \/ RefreshBegins \/ PassEnds \/ UNCHANGED vars
  BY <1>2, CopyQuiet DEF PassBegins, RefreshBegins, PassEnds, vars, Cleaned
<1>3. ASSUME NEW p \in Place, NEW f \in File, NEW present \in BOOLEAN, PassWrites(p, f, present)
      PROVE  CopyInv(h)' /\ OriginalInv(h)'
  <2>1. ~OnCopy(h)' /\ ~OnCopy(h)
    BY <1>3 DEF PassWrites, LockInv, OnCopy, NoOp
  <2>2. CASE p = h
    <3>1. ~Owned(h)' /\ UNCHANGED records
      BY <1>3, <2>2 DEF PassWrites, LockInv, Owned, Managed
    <3> QED  BY <2>1, <3>1 DEF CopyInv, OriginalInv, Owned
  <2>3. CASE p # h
    <3>1. UNCHANGED tree[h]
      BY <1>3, <2>3, Places DEF PassWrites
    <3> QED  BY <1>3, <2>1, <3>1, CopyQuiet DEF PassWrites, Cleaned
  <2> QED  BY <2>2, <2>3
<1>4. ASSUME NEW g \in Managed, RefreshNext(g) PROVE CopyInv(h)' /\ OriginalInv(h)'
  <2>1. CASE Allowed("apply", g)
    BY <1>4, <2>1, CopyBegins DEF RefreshNext
  <2>2. CASE ~Allowed("apply", g)
    BY <1>4, <2>2, CopyQuiet DEF RefreshNext, Cleaned
  <2> QED  BY <2>1, <2>2
<1>5. ASSUME NEW p \in Place, NEW f \in File, NEW present \in BOOLEAN, UserEdits(p, f, present)
      PROVE  CopyInv(h)' /\ OriginalInv(h)'
  <2>1. \A g \in File : (tree'[h][g] = tree[h][g] \/ (p = h /\ g = f))
    BY <1>5, Places DEF UserEdits, Tree
  <2>2. p # h => UNCHANGED tree[h]
    BY <1>5, Places DEF UserEdits
  <2>3. p = h => h \in touched'
    BY <1>5 DEF UserEdits
  <2>4. OnCopy(h)' => UNCHANGED <<op, litter>> /\ late' = late \cup {<<p, f>>}
    BY <1>5 DEF UserEdits, OnCopy, NoOp
  <2>5. UNCHANGED <<records, adopted, litter>> /\ touched \subseteq touched'
    BY <1>5 DEF UserEdits
  <2> QED  BY <2>1, <2>2, <2>3, <2>4, <2>5, CopyQuiet DEF Cleaned
<1>6. CASE Crash
  BY <1>6, CopyQuiet DEF Crash, Cleaned
<1> QED  BY <1>1, <1>2, <1>3, <1>4, <1>5, <1>6 DEF Next, Pass

CopiesInv == LockInv /\ \A h \in Managed : CopyInv(h) /\ OriginalInv(h)

LEMMA CopiesCorrect == Spec => [](TypeOK /\ CopiesInv)
<1>1. Init => CopiesInv
  BY DEF Init, CopiesInv, LockInv, CopyInv, OriginalInv, Owned, NotOwned, OnCopy, NoOp, NoPass
<1>2. TypeOK /\ CopiesInv /\ [Next]_vars => CopiesInv'
  BY Types, LockNext, CopyNext DEF CopiesInv
<1> QED  BY <1>1, <1>2, TypeCorrect, PTL DEF Spec

(* Copies nobody touched can be restored, once the temporary files that    *)
(* interrupted operations left in them are gone.                           *)
THEOREM CopiesRecoverable == Spec => []UntouchedIsRecoverable
<1>1. CopiesInv => UntouchedIsRecoverable
  BY DEF CopiesInv, CopyInv, Cleaned, UntouchedIsRecoverable
<1> QED  BY <1>1, CopiesCorrect, PTL

(* A restore that ends is exact.                                           *)
THEOREM RestoresExactly == Spec => RestoreIsExact
<1>1. ASSUME TypeOK, CopiesInv, [Next]_vars, NEW h \in Managed,
             op.kind = "restore", op.on = h, Owned(h), ~records'[h].owned,
             NEW f \in File
      PROVE  <<h, f>> \in late \/ tree'[h][f] = adopted[h][f]
  <2> op \in OpRecord /\ records \in [Managed -> Record]
    BY <1>1, Types DEF Typed, TypedWork
  <2>1. records' # records
    BY <1>1 DEF Owned
  <2>2. Saved \/ Detached \/ Finish
    BY <1>1, <2>1 DEF Next, vars, Operation, Preview, Approve, BackedUp, CreateTemp, Rename,
         RemoveFile, Fail, Pass, PassBegins, PassWrites, RefreshBegins, RefreshNext, PassEnds, UserEdits, Crash
  <2>3. ~Saved /\ ~Detached
    BY <1>1 DEF Saved, Detached
  <2>4. op.todo = {} /\ op.temp = {} /\ UNCHANGED tree
    BY <2>2, <2>3 DEF Finish
  <2> QED  BY <1>1, <2>4 DEF CopiesInv, OriginalInv, OnCopy
<1>2. TypeOK /\ CopiesInv /\ [Next]_vars =>
        [\A h \in Managed :
           op.kind = "restore" /\ op.on = h /\ Owned(h) /\ ~records'[h].owned =>
             \A f \in File : <<h, f>> \in late \/ tree'[h][f] = adopted[h][f]]_vars
  BY <1>1
<1> QED  BY <1>2, CopiesCorrect, PTL DEF Spec, RestoreIsExact

-----------------------------------------------------------------------------
(***************************************************************************)
(* What has been reviewed.  Contents are numbered as they are made, so     *)
(* what the user types is in nothing that was read before.                 *)
(***************************************************************************)
MadeBefore(t) == \A f \in File : t[f] <= made
Reviewed(p, t) == \A f \in File : t[f] \notin unseen[p]

NumberInv ==
  /\ \A p \in Place : MadeBefore(tree[p]) /\ \A v \in unseen[p] : v # Absent /\ v <= made
  /\ \A h \in Managed : MadeBefore(records[h].applied) /\ MadeBefore(records[h].original)
  /\ MadeBefore(op.before) /\ MadeBefore(op.after)

(* The copies a pass is to refresh are adopted ones, and it does no more.  *)
RefreshInv ==
  /\ \A h \in pass.todo : Owned(h)
  /\ pass.step = "none" => pass.todo = {}
  /\ pass.step # "none" => op.kind \in {"none", "apply"}

Writes == op.kind \in {"import", "apply", "restore"}

(* What the user typed in a copy reaches the library, the copy's record    *)
(* and what an operation is about to write only by way of a plan.          *)
SeenInv ==
  /\ \A h \in Managed : Reviewed(h, tree["library"])
  /\ \A h \in Managed : Owned(h) => Reviewed(h, records[h].applied)
  /\ op.kind \in {"apply", "restore"} => op.on \in Managed /\ Reviewed(op.on, op.after)
  /\ op.kind = "import" => \A p \in Place : Reviewed(p, op.after)
  /\ op.kind = "import" /\ op.step # "undoing" => \A p \in Place : Reviewed(p, op.before)
  /\ Writes => \A f \in File :
                 \/ <<Written(op.kind, op.on), f>> \in late
                 \/ tree[Written(op.kind, op.on)][f] \notin unseen[Written(op.kind, op.on)]

LEMMA RefreshStays ==
  ASSUME Typed, RefreshInv, [Next]_vars
  PROVE  RefreshInv'
<1> USE DEF history
<1> op \in OpRecord /\ records \in [Managed -> Record] /\ pass \in PassRecord /\ shown \in PlanRecord
  BY DEF Typed, TypedWork
<1>1. CASE UNCHANGED <<records, op, pass>>
  BY <1>1 DEF RefreshInv, Owned
<1>2. CASE Approve
  BY <1>2 DEF Approve, LockFree, NoPass, RefreshInv
<1>3. CASE Saved
  <2>1. op'.kind = op.kind
    BY <1>3 DEF Saved, OpRecord
  <2>2. \A h \in Managed : Owned(h) => Owned(h)'
    BY <1>3 DEF Saved, Owned
  <2> QED  BY <1>3, <2>1, <2>2 DEF Saved, RefreshInv, PassRecord
<1>4. CASE \/ BackedUp \/ Fail \/ \E t \in Temp : CreateTemp(t)
           \/ \E f \in File : Rename(f) \/ RemoveFile(f)
  <2>1. op'.kind \in {op.kind, "none"} /\ UNCHANGED <<records, pass>>
    <3>1. ASSUME NEW f \in File, Rename(f) \/ RemoveFile(f)
          PROVE  op'.kind \in {op.kind, "none"} /\ UNCHANGED <<records, pass>>
      BY <3>1 DEF Rename, RemoveFile, OpRecord
    <3>2. CASE BackedUp \/ \E t \in Temp : CreateTemp(t)
      BY <3>2 DEF BackedUp, CreateTemp, OpRecord
    <3>3. CASE Fail
      <4>1. NoOp.kind = "none"
        BY DEF NoOp
      <4>2. op' = NoOp \/ op'.kind = op.kind
        BY <3>3 DEF Fail, OpRecord
      <4> QED  BY <3>3, <4>1, <4>2 DEF Fail
    <3> QED  BY <1>4, <3>1, <3>2, <3>3
  <2> QED  BY <2>1 DEF RefreshInv, Owned
<1>5. CASE Detached
  BY <1>5 DEF Detached, RefreshInv, NoOp
<1>6. CASE Finish
  <2>1. op'.kind = "none" /\ UNCHANGED pass
    BY <1>6 DEF Finish, NoOp
  <2>2. CASE op.kind = "restore"
    BY <2>1, <2>2 DEF RefreshInv
  <2>3. CASE op.kind # "restore"
    <3>1. \A h \in Managed : records'[h].owned = records[h].owned
      BY <1>6, <2>3 DEF Finish, Record
    <3> QED  BY <2>1, <3>1 DEF RefreshInv, Owned, PassRecord
  <2> QED  BY <2>2, <2>3
<1>7. CASE PassBegins \/ RefreshBegins
  <2>1. CASE PassBegins
    BY <2>1 DEF PassBegins, LockFree, NoOp, RefreshInv
  <2>2. CASE RefreshBegins
    <3>1. /\ pass.step # "none" /\ pass'.step = "refreshing" /\ pass'.todo = {h \in Managed : Owned(h)}
          /\ UNCHANGED <<records, op>>
      BY <2>2 DEF RefreshBegins, PassRecord
    <3> QED  BY <3>1 DEF RefreshInv, Owned
  <2> QED  BY <1>7, <2>1, <2>2
<1>8. ASSUME NEW h \in Managed, RefreshNext(h) PROVE RefreshInv'
  <2>1. /\ pass'.todo \subseteq pass.todo /\ pass'.step = pass.step
        /\ op'.kind \in {op.kind, "apply"} /\ UNCHANGED records
    BY <1>8 DEF RefreshNext, PassRecord, Begin, Plan
  <2> QED  BY <2>1 DEF RefreshInv, Owned
<1>9. CASE PassEnds \/ Crash
  BY <1>9 DEF PassEnds, Crash, NoPass, RefreshInv
<1>10. CASE \/ \E kind \in {"import", "apply", "restore", "detach"}, h \in Harness : Preview(kind, h)
            \/ \E p \in Place, f \in File, present \in BOOLEAN :
                 PassWrites(p, f, present) \/ UserEdits(p, f, present)
            \/ UNCHANGED vars
  BY <1>1, <1>10 DEF Preview, PassWrites, UserEdits, vars
<1> QED  BY <1>2, <1>3, <1>4, <1>5, <1>6, <1>7, <1>8, <1>9, <1>10 DEF Next, Operation, Pass

(* An operation begins. *)
LEMMA SeenBegins ==
  ASSUME Typed, NumberInv, SeenInv, UNCHANGED <<made, tree, records>>,
         NEW kind \in {"import", "apply", "restore", "detach"}, NEW h \in Place,
         Allowed(kind, h), Begin(Plan(kind, h)), unseen' \in [Place -> SUBSET Nat],
         \A p \in Place : unseen'[p] \subseteq unseen[p],
         \/ \A p \in Place : unseen'[p] =
               unseen[p] \ (Contents(Plan(kind, h).before) \cup Contents(Plan(kind, h).after))
         \/ kind = "apply" /\ Owned(h)
  PROVE  NumberInv' /\ SeenInv'
<1> DEFINE plan == Plan(kind, h)
<1>1. /\ plan.kind = kind /\ plan.on = h
      /\ plan.before = IF kind = "detach" THEN NoFiles ELSE tree[Written(kind, h)]
  BY DEF Plan
<1>2. kind # "import" => h \in Managed
  BY DEF Allowed
<1>3. /\ kind = "import" => plan.after = tree[h]
      /\ kind = "apply" => plan.after = tree["library"]
      /\ kind = "restore" => plan.after = records[h].original
      /\ kind = "detach" => plan.after = NoFiles
  BY DEF Plan
<1> HIDE DEF plan
<1>4. op'.kind = kind /\ op'.on = h /\ op'.step = "saving" /\ op'.before = plan.before
      /\ op'.after = plan.after
  BY <1>1 DEF Begin, plan
<1>5. /\ \A p \in Place : tree[p] \in Tree
      /\ \A g \in Managed : records[g].original \in Tree /\ records[g].applied \in Tree
  BY DEF Typed, TypedFiles, TypedWork, Record
<1>6. MadeBefore(plan.before) /\ MadeBefore(plan.after)
  <2>1. MadeBefore(NoFiles)
    BY DEF MadeBefore, NoFiles, Absent, Typed, TypedFiles
  <2>2. Written(kind, h) \in Place
    BY Places DEF Written
  <2> QED  BY <1>1, <1>2, <1>3, <2>1, <2>2, Places DEF NumberInv
<1>7. NumberInv'
  BY <1>4, <1>6 DEF NumberInv, MadeBefore
<1>8. /\ \A g \in Managed : Reviewed(g, tree["library"])'
      /\ \A g \in Managed : Owned(g)' => Reviewed(g, records[g].applied)'
  BY Places DEF SeenInv, Reviewed, Owned
<1>9. CASE \A p \in Place : unseen'[p] = unseen[p] \ (Contents(plan.before) \cup Contents(plan.after))
  <2>1. \A p \in Place, f \in File : plan.before[f] \notin unseen'[p] /\ plan.after[f] \notin unseen'[p]
    BY <1>9 DEF Contents, NumberInv
  <2>2. kind # "detach" => plan.before = tree[Written(kind, h)] /\ Written(kind, h) \in Place
    BY <1>1, Places DEF Written
  <2> QED  BY <1>2, <1>4, <1>7, <1>8, <2>1, <2>2 DEF SeenInv, Reviewed, Writes
<1>10. CASE kind = "apply" /\ Owned(h)
  <2>1. h \in Managed /\ tree[h] = records[h].applied /\ Written(kind, h) = h
    BY <1>10, <1>2 DEF Allowed, Written
  <2>2. \A f \in File : tree[h][f] \notin unseen'[h] /\ plan.after[f] \notin unseen'[h]
    BY <1>3, <1>10, <2>1 DEF SeenInv, Reviewed
  <2> QED  BY <1>4, <1>7, <1>8, <1>10, <2>1, <2>2 DEF SeenInv, Reviewed, Writes
<1> QED  BY <1>9, <1>10 DEF plan

(* An operation that goes on with the same trees, in the same place. *)
LEMMA SeenGoesOn ==
  ASSUME Typed, NumberInv, SeenInv,
         UNCHANGED <<made, tree, records, unseen, late>>,
         \/ op' = NoOp
         \/ /\ op'.kind = op.kind /\ op'.on = op.on /\ op'.before = op.before
            /\ op'.after = op.after /\ (op.step = "undoing" => op'.step = "undoing")
  PROVE  NumberInv' /\ SeenInv'
<1>1. NoOp.kind = "none" /\ MadeBefore(NoOp.before) /\ MadeBefore(NoOp.after)
  BY DEF NoOp, MadeBefore, NoFiles, Absent, Typed, TypedFiles
<1>2. NumberInv'
  BY <1>1 DEF NumberInv, MadeBefore
<1>3. CASE op' = NoOp
  BY <1>1, <1>2, <1>3 DEF SeenInv, Reviewed, Owned, Writes
<1>4. CASE op' # NoOp
  BY <1>2, <1>4 DEF SeenInv, Reviewed, Owned, Writes
<1> QED  BY <1>3, <1>4

(* A step that writes or removes files of the place of the operation. *)
LEMMA SeenWrites ==
  ASSUME Typed, NumberInv, SeenInv, Writes, UNCHANGED <<records, unseen, late>>,
         op'.kind = op.kind, op'.on = op.on, op'.before = op.before, op'.after = op.after,
         op'.step = op.step, made' \in {made, made + 1},
         \A p \in Place, g \in File :
           \/ tree'[p][g] = tree[p][g] \/ tree'[p][g] = Absent
           \/ p = Where /\ tree'[p][g] = op.after[g]
           \/ made' = made + 1 /\ tree'[p][g] = made'
  PROVE  NumberInv' /\ SeenInv'
<1> /\ op \in OpRecord /\ records \in [Managed -> Record]
    /\ tree \in [Place -> Tree] /\ made \in Nat /\ unseen \in [Place -> SUBSET Nat]
  BY DEF Typed, TypedWork, TypedFiles, TypedPast
<1>1. /\ Where \in Place /\ (Where = "library" => op.kind = "import")
      /\ (op.kind # "import" => Where = op.on)
  BY Places DEF SeenInv, Writes, Where, Written, OpRecord
<1>2. Where' = Where
  BY DEF Where, Written
<1>3. Reviewed(Where, op.after) /\ (Where = "library" => \A h \in Managed : Reviewed(h, op.after))
  BY <1>1, Places DEF SeenInv, Writes
<1>4. /\ \A p \in Place : \A g \in File : tree[p][g] \in Nat /\ tree[p][g] <= made
      /\ \A g \in File : op.after[g] \in Nat /\ op.after[g] <= made
      /\ \A p \in Place : Absent \notin unseen[p] /\ made + 1 \notin unseen[p]
  <2>1. \A p \in Place : \A g \in File : tree[p][g] \in Nat /\ tree[p][g] <= made
    BY DEF NumberInv, MadeBefore, Tree
  <2>2. \A g \in File : op.after[g] \in Nat /\ op.after[g] <= made
    BY DEF NumberInv, MadeBefore, OpRecord, Tree
  <2>3. \A p \in Place : Absent \notin unseen[p] /\ made + 1 \notin unseen[p]
    BY DEF NumberInv
  <2> QED  BY <2>1, <2>2, <2>3
<1>5. \A p \in Place : \A g \in File : tree'[p][g] <= made'
  BY <1>4 DEF Absent
<1>6. /\ \A h \in Managed : MadeBefore(records[h].applied)' /\ MadeBefore(records[h].original)'
      /\ MadeBefore(op.before)' /\ MadeBefore(op.after)'
  <2>1. ASSUME NEW t \in Tree, MadeBefore(t) PROVE \A g \in File : t[g] <= made'
    BY <2>1 DEF MadeBefore, Tree
  <2>2. /\ \A h \in Managed : records[h].applied \in Tree /\ records[h].original \in Tree
        /\ op.before \in Tree /\ op.after \in Tree
    BY DEF Record, OpRecord
  <2> QED  BY <2>1, <2>2 DEF NumberInv, MadeBefore
<1>7. NumberInv'
  <2>1. \A p \in Place : \A v \in unseen[p] : v # Absent /\ v <= made'
    BY DEF NumberInv
  <2> QED  BY <1>5, <1>6, <2>1 DEF NumberInv, MadeBefore
<1>8. \A h \in Managed : Reviewed(h, tree["library"])'
  <2>1. \A h \in Managed, g \in File : tree["library"][g] \notin unseen[h]
    BY DEF SeenInv, Reviewed
  <2> QED  BY <1>3, <1>4, <2>1, Places DEF Reviewed
<1>9. \A g \in File : <<Where, g>> \in late \/ tree'[Where][g] \notin unseen[Where]
  <2>1. \A g \in File : <<Where, g>> \in late \/ tree[Where][g] \notin unseen[Where]
    BY DEF SeenInv, Where
  <2> QED  BY <1>1, <1>3, <1>4, <2>1 DEF Reviewed
<1> QED  BY <1>2, <1>7, <1>8, <1>9 DEF SeenInv, Reviewed, Owned, Writes, Where

(* The steps of an operation. *)
LEMMA SeenOperation ==
  ASSUME Typed, LockInv, NumberInv, SeenInv, Operation
  PROVE  NumberInv' /\ SeenInv'
<1> USE DEF history
<1> /\ op \in OpRecord /\ records \in [Managed -> Record] /\ shown \in PlanRecord
    /\ tree \in [Place -> Tree] /\ made \in Nat
  BY DEF Typed, TypedWork, TypedFiles
<1>0. ASSUME UNCHANGED <<made, tree, unseen, late>>, op' = NoOp,
             NEW on, NEW r,
             records' = records \/ records' = [records EXCEPT ![on] = r],
             MadeBefore(r.applied) /\ MadeBefore(r.original),
             on \in Managed /\ r.owned => Owned(on) /\ r.applied = records[on].applied
      PROVE  NumberInv' /\ SeenInv'
  <2>1. NoOp.kind = "none" /\ MadeBefore(NoOp.before) /\ MadeBefore(NoOp.after)
    BY DEF NoOp, MadeBefore, NoFiles, Absent, Typed, TypedFiles
  <2>2. \A h \in Managed : records'[h] = records[h] \/ (h = on /\ records'[h] = r)
    BY <1>0
  <2>3. NumberInv'
    BY <1>0, <2>1, <2>2 DEF NumberInv, MadeBefore
  <2>4. \A h \in Managed : Owned(h)' => Owned(h) /\ records'[h].applied = records[h].applied
    BY <1>0, <2>2 DEF Owned
  <2> QED  BY <1>0, <2>1, <2>3, <2>4 DEF SeenInv, Reviewed, Writes
<1>1. ASSUME NEW kind \in {"import", "apply", "restore", "detach"}, NEW h \in Harness,
             Preview(kind, h)
      PROVE  NumberInv' /\ SeenInv'
  BY <1>1, SeenGoesOn DEF Preview
<1>2. CASE Approve
  <2>1. shown.kind \in {"import", "apply", "restore", "detach"} /\ shown.on \in Place
    BY <1>2 DEF Approve, Allowed, PlanRecord
  <2>2. unseen' \in [Place -> SUBSET Nat] /\ \A p \in Place : unseen'[p] \subseteq unseen[p]
    BY <1>2 DEF Approve, Typed, TypedPast
  <2>3. \A p \in Place : unseen'[p] = unseen[p] \ (Contents(shown.before) \cup Contents(shown.after))
    BY <1>2 DEF Approve
  <2>4. Begin(Plan(shown.kind, shown.on)) /\ Allowed(shown.kind, shown.on)
        /\ shown = Plan(shown.kind, shown.on) /\ UNCHANGED <<made, tree, records>>
    BY <1>2 DEF Approve
  <2> QED  BY <2>1, <2>2, <2>3, <2>4, SeenBegins
<1>3. CASE Saved
  <2>1. /\ op'.kind = op.kind /\ op'.on = op.on /\ op'.before = op.before /\ op'.after = op.after
        /\ op'.step = "writing" /\ op.step = "saving" /\ op.kind \in {"apply", "restore"}
        /\ UNCHANGED <<made, tree, unseen, late>>
    BY <1>3 DEF Saved, OpRecord
  <2>2. op.on \in Managed
    BY <2>1 DEF SeenInv
  <2>3. \A h \in Managed :
          \/ records'[h] = records[h]
          \/ /\ h = op.on /\ records'[h].applied = op.after
             /\ records'[h].original \in {records[h].original, op.before}
    BY <1>3, <2>2 DEF Saved
  <2>4. NumberInv'
    BY <2>1, <2>3 DEF NumberInv, MadeBefore
  <2>5. \A h \in Managed : Owned(h)' => Reviewed(h, records[h].applied)'
    BY <2>1, <2>3 DEF SeenInv, Reviewed, Owned
  <2> QED  BY <2>1, <2>4, <2>5 DEF SeenInv, Reviewed, Writes
<1>4. CASE BackedUp
  <2>1. /\ op'.kind = op.kind /\ op'.on = op.on /\ op'.before = op.before /\ op'.after = op.after
        /\ op.step # "undoing"
    BY <1>4 DEF BackedUp, OpRecord
  <2> QED  BY <1>4, <2>1, SeenGoesOn DEF BackedUp
<1>5. CASE Detached
  <2>1. MadeBefore(NotOwned.applied) /\ MadeBefore(NotOwned.original) /\ NotOwned.owned = FALSE
    BY DEF NotOwned, MadeBefore, NoFiles, Absent
  <2> QED  BY <1>0, <1>5, <2>1 DEF Detached
<1>60. ASSUME NEW t \in Temp, CreateTemp(t) PROVE NumberInv' /\ SeenInv'
  <2>1. Writes
    BY <1>60 DEF CreateTemp, Writing, LockInv, Writes
  <2>2. /\ op'.kind = op.kind /\ op'.on = op.on /\ op'.before = op.before /\ op'.after = op.after
        /\ op'.step = op.step /\ made' = made + 1 /\ UNCHANGED <<records, unseen, late>>
    BY <1>60 DEF CreateTemp, OpRecord
  <2>3. \A p \in Place, g \in File : tree'[p][g] = tree[p][g] \/ tree'[p][g] = made'
    BY <1>60 DEF CreateTemp, Tree
  <2> QED  BY <2>1, <2>2, <2>3, SeenWrites
<1>6. ASSUME NEW f \in File, Rename(f) \/ RemoveFile(f) PROVE NumberInv' /\ SeenInv'
  <2>1. Writes
    BY <1>6 DEF Rename, RemoveFile, Writing, LockInv, Writes
  <2>2. /\ op'.kind = op.kind /\ op'.on = op.on /\ op'.before = op.before /\ op'.after = op.after
        /\ op'.step = op.step /\ UNCHANGED <<made, records, unseen, late>>
    BY <1>6 DEF Rename, RemoveFile, OpRecord
  <2>3. \A p \in Place, g \in File :
          \/ tree'[p][g] = tree[p][g] \/ tree'[p][g] = Absent
          \/ p = Where /\ tree'[p][g] = op.after[g]
    <3>1. CASE Rename(f)
      <4>1. tree' = [tree EXCEPT ![Where] = [Without(tree[Where], op.temp) EXCEPT ![f] = op.after[f]]]
        BY <3>1 DEF Rename
      <4> QED  BY <4>1 DEF Without, Tree
    <3>2. CASE RemoveFile(f)
      BY <3>2 DEF RemoveFile, Tree
    <3> QED  BY <1>6, <3>1, <3>2
  <2> QED  BY <2>1, <2>2, <2>3, SeenWrites
<1>7. CASE Finish
  <2>1. CASE op.kind = "import"
    BY <1>7, <2>1, SeenGoesOn DEF Finish
  <2>2. CASE op.kind = "restore"
    <3>1. MadeBefore(NotOwned.applied) /\ MadeBefore(NotOwned.original) /\ NotOwned.owned = FALSE
      BY DEF NotOwned, MadeBefore, NoFiles, Absent
    <3> QED  BY <1>0, <1>7, <2>2, <3>1 DEF Finish
  <2>3. CASE op.kind = "apply"
    <3> DEFINE r == [records[op.on] EXCEPT !.pending = FALSE, !.previous = NoFiles]
    <3>1. op.on \in Managed
      BY <2>3 DEF SeenInv
    <3>2. /\ r.applied = records[op.on].applied /\ r.original = records[op.on].original
          /\ r.owned = records[op.on].owned
      BY <3>1 DEF Record
    <3>3. records' = [records EXCEPT ![op.on] = r] /\ op' = NoOp /\ UNCHANGED <<made, tree, unseen, late>>
      BY <1>7, <2>3 DEF Finish
    <3> HIDE DEF r
    <3> QED  BY <1>0, <3>1, <3>2, <3>3 DEF NumberInv, Owned
  <2> QED  BY <1>7, <2>1, <2>2, <2>3 DEF Finish, Writing, LockInv
<1>8. CASE Fail
  <2>0. /\ UNCHANGED <<made, records, unseen, late>>
        /\ \A p \in Place, g \in File : tree'[p][g] = tree[p][g] \/ tree'[p][g] = Absent
    BY <1>8 DEF Fail, Without
  <2>1. /\ \A p \in Place : Absent \notin unseen[p] /\ MadeBefore(tree[p])'
        /\ \A h \in Managed : MadeBefore(records[h].applied)' /\ MadeBefore(records[h].original)'
    BY <2>0 DEF NumberInv, MadeBefore, Absent
  <2>2. \A h \in Managed : Reviewed(h, tree["library"])'
    BY <2>0, <2>1, Places DEF SeenInv, Reviewed
  <2>3. CASE op' = NoOp
    <3>1. NoOp.kind = "none" /\ MadeBefore(NoOp.before) /\ MadeBefore(NoOp.after)
      BY DEF NoOp, MadeBefore, NoFiles, Absent
    <3>2. NumberInv'
      BY <2>0, <2>1, <2>3, <3>1 DEF NumberInv, MadeBefore
    <3> QED  BY <2>0, <2>2, <2>3, <3>1, <3>2 DEF SeenInv, Reviewed, Owned, Writes
  <2>4. CASE op' # NoOp
    <3>1. /\ op.kind = "import" /\ op.step = "writing" /\ op'.kind = op.kind /\ op'.on = op.on
          /\ op'.before = tree'["library"] /\ op'.after = op.before /\ op'.step = "undoing"
      BY <1>8, <2>4 DEF Fail, OpRecord
    <3>2. NumberInv'
      BY <2>0, <2>1, <3>1, Places DEF NumberInv, MadeBefore
    <3>3. \A g \in File : <<"library", g>> \in late' \/ tree'["library"][g] \notin unseen'["library"]
      BY <2>0, <2>1, <3>1, Places DEF SeenInv, Writes, Written
    <3> QED  BY <2>0, <2>2, <3>1, <3>2, <3>3 DEF SeenInv, Reviewed, Owned, Writes, Written
  <2> QED  BY <2>3, <2>4
<1> QED  BY <1>1, <1>2, <1>3, <1>4, <1>5, <1>60, <1>6, <1>7, <1>8 DEF Operation

(* What a pass brings and what the user types is new. *)
LEMMA SeenEdit ==
  ASSUME Typed, NumberInv, SeenInv, NEW p \in Place, NEW f \in File, NEW present \in BOOLEAN,
         made' = made + 1, tree' = [tree EXCEPT ![p][f] = IF present THEN made' ELSE Absent],
         UNCHANGED <<records, op>>, late \subseteq late',
         \/ unseen' = unseen
         \/ unseen' = [unseen EXCEPT ![p] = @ \cup {made'}] /\ (op # NoOp => <<p, f>> \in late')
  PROVE  NumberInv' /\ SeenInv'
<1> /\ tree \in [Place -> Tree] /\ made \in Nat /\ records \in [Managed -> Record] /\ op \in OpRecord
    /\ unseen \in [Place -> SUBSET Nat]
  BY DEF Typed, TypedFiles, TypedWork, TypedPast
<1>1. /\ \A q \in Place, g \in File :
          tree'[q][g] = IF q = p /\ g = f THEN IF present THEN made' ELSE 0 ELSE tree[q][g]
      /\ \A q \in Place : tree[q] \in [File -> Nat]
  BY DEF Tree, Absent
<1>2. \A q \in Place : unseen'[q] = unseen[q] \/ (q = p /\ unseen'[q] = unseen[q] \cup {made'})
  OBVIOUS
<1>3. /\ \A h \in Managed : records[h].applied \in [File -> Nat] /\ records[h].original \in [File -> Nat]
      /\ op.before \in [File -> Nat] /\ op.after \in [File -> Nat]
  BY DEF Record, OpRecord, Tree
<1>4. ASSUME NEW t \in [File -> Nat], MadeBefore(t), NEW q \in Place, Reviewed(q, t)
      PROVE  \A g \in File : t[g] \notin unseen'[q]
  BY <1>2, <1>4 DEF MadeBefore, Reviewed
<1>5. ASSUME NEW t \in [File -> Nat], MadeBefore(t) PROVE \A g \in File : t[g] <= made'
  BY <1>5 DEF MadeBefore
<1>6. NumberInv'
  <2>1. \A q \in Place : \A g \in File : tree'[q][g] <= made'
    BY <1>1 DEF NumberInv, MadeBefore
  <2>2. \A q \in Place : \A v \in unseen'[q] : v # Absent /\ v <= made'
    BY <1>2 DEF NumberInv, Absent
  <2> QED  BY <1>3, <1>5, <2>1, <2>2 DEF NumberInv, MadeBefore
<1>7. \A h \in Managed : \A g \in File : tree'["library"][g] \notin unseen'[h]
  <2> SUFFICES ASSUME NEW h \in Managed, NEW g \in File PROVE tree'["library"][g] \notin unseen'[h]
    OBVIOUS
  <2>1. h \in Place /\ "library" \in Place /\ h # "library"
    BY Places
  <2>2. Reviewed(h, tree["library"]) /\ MadeBefore(tree["library"])
    BY <2>1 DEF SeenInv, NumberInv
  <2>3. CASE p = "library" /\ g = f
    BY <1>1, <1>2, <2>1, <2>3 DEF NumberInv, Absent
  <2>4. CASE ~(p = "library" /\ g = f)
    BY <1>1, <1>4, <2>1, <2>2, <2>4
  <2> QED  BY <2>3, <2>4
<1>8. \A h \in Managed : Owned(h) => \A g \in File : records[h].applied[g] \notin unseen'[h]
  BY <1>3, <1>4, Places DEF SeenInv, NumberInv
<1>9. /\ op.kind \in {"apply", "restore"} => op.on \in Managed /\ \A g \in File : op.after[g] \notin unseen'[op.on]
      /\ op.kind = "import" => \A q \in Place : \A g \in File : op.after[g] \notin unseen'[q]
      /\ op.kind = "import" /\ op.step # "undoing" => \A q \in Place : \A g \in File : op.before[g] \notin unseen'[q]
  BY <1>3, <1>4, Places DEF SeenInv, NumberInv
<1>10. Writes => \A g \in File :
          \/ <<Written(op.kind, op.on), g>> \in late'
          \/ tree'[Written(op.kind, op.on)][g] \notin unseen'[Written(op.kind, op.on)]
  <2> DEFINE W == Written(op.kind, op.on)
  <2> SUFFICES ASSUME Writes, NEW g \in File, <<W, g>> \notin late' PROVE tree'[W][g] \notin unseen'[W]
    OBVIOUS
  <2>1. W \in Place /\ op # NoOp
    BY Places DEF Written, Writes, SeenInv, NoOp
  <2>2. tree[W][g] \notin unseen[W]
    BY DEF SeenInv
  <2> HIDE DEF W
  <2>3. CASE W = p /\ g = f
    BY <1>1, <2>1, <2>3 DEF NumberInv, Absent
  <2>4. CASE ~(W = p /\ g = f)
    BY <1>1, <1>2, <2>1, <2>2, <2>4 DEF NumberInv, MadeBefore
  <2> QED  BY <2>3, <2>4
<1> QED  BY <1>6, <1>7, <1>8, <1>9, <1>10 DEF SeenInv, Reviewed, Owned, Writes

LEMMA SeenNext ==
  ASSUME Typed, LockInv, RefreshInv, NumberInv, SeenInv, [Next]_vars
  PROVE  NumberInv' /\ SeenInv'
<1> USE DEF history
<1>1. CASE Operation
  BY <1>1, SeenOperation
<1>2. CASE PassBegins \/ RefreshBegins \/ PassEnds \/ UNCHANGED vars
  <2>1. UNCHANGED <<made, tree, records, unseen, late, op>>
    BY <1>2 DEF PassBegins, RefreshBegins, PassEnds, vars
  <2> QED  BY <2>1, SeenGoesOn
<1>3. ASSUME NEW h \in Managed, RefreshNext(h) PROVE NumberInv' /\ SeenInv'
  <2>1. CASE Allowed("apply", h)
    <3>1. Owned(h) /\ h \in Place
      BY <1>3, Places DEF RefreshNext, RefreshInv
    <3>2. /\ Begin(Plan("apply", h)) /\ UNCHANGED <<made, tree, records, unseen>>
          /\ unseen \in [Place -> SUBSET Nat]
      BY <1>3, <2>1 DEF RefreshNext, Typed, TypedPast
    <3> QED  BY <2>1, <3>1, <3>2, SeenBegins
  <2>2. CASE ~Allowed("apply", h)
    BY <1>3, <2>2, SeenGoesOn DEF RefreshNext
  <2> QED  BY <2>1, <2>2
<1>4. ASSUME NEW p \in Place, NEW f \in File, NEW present \in BOOLEAN,
             PassWrites(p, f, present) \/ UserEdits(p, f, present)
      PROVE  NumberInv' /\ SeenInv'
  <2>1. CASE PassWrites(p, f, present)
    <3>1. /\ made' = made + 1 /\ tree' = [tree EXCEPT ![p][f] = IF present THEN made' ELSE Absent]
          /\ UNCHANGED <<records, op, late, unseen>>
      BY <2>1 DEF PassWrites
    <3> QED  BY <3>1, SeenEdit
  <2>2. CASE UserEdits(p, f, present)
    <3>1. late \subseteq late' /\ (op # NoOp => <<p, f>> \in late')
      BY <2>2 DEF UserEdits
    <3>2. /\ made' = made + 1 /\ tree' = [tree EXCEPT ![p][f] = IF present THEN made' ELSE Absent]
          /\ UNCHANGED <<records, op>>
          /\ unseen' \in {unseen, [unseen EXCEPT ![p] = @ \cup {made'}]}
      BY <2>2 DEF UserEdits
    <3> QED  BY <3>1, <3>2, SeenEdit
  <2> QED  BY <1>4, <2>1, <2>2
<1>5. CASE Crash
  BY <1>5, SeenGoesOn DEF Crash
<1> QED  BY <1>1, <1>2, <1>3, <1>4, <1>5 DEF Next, Pass

LEMMA SeenInit == Init => LockInv /\ RefreshInv /\ NumberInv /\ SeenInv
<1> SUFFICES ASSUME Init PROVE LockInv /\ RefreshInv /\ NumberInv /\ SeenInv
  OBVIOUS
<1>1. PICK there \in SUBSET Place :
        tree = [p \in Place |-> IF p \notin there THEN NoFiles
                 ELSE IF p = "library" THEN [NoFiles EXCEPT ![Main] = Number(p)]
                 ELSE [f \in File |-> IF f \in Temp THEN Absent ELSE Number(p)]]
  BY DEF Init
<1>2. \A p \in Place, f \in File : tree[p][f] \in {0, Number(p)}
  BY <1>1 DEF NoFiles, Absent
<1>3. \A p \in Place : Number(p) \in 1..4 /\ (p \in Managed => Number(p) # Number("library"))
  BY DEF Number, Place, Harness, Managed
<1>4. \A p \in Place : unseen[p] \subseteq {Number(p)}
  BY <1>2 DEF Init, Contents, Absent
<1>5. made = 4 /\ op = NoOp /\ pass = NoPass /\ records = [h \in Managed |-> NotOwned]
  BY DEF Init
<1>6. LockInv /\ RefreshInv
  BY <1>5 DEF LockInv, RefreshInv, NoOp, NoPass
<1>7. NumberInv
  <2>1. \A p \in Place : MadeBefore(tree[p])
    BY <1>2, <1>3, <1>5 DEF MadeBefore
  <2>2. \A p \in Place : \A v \in unseen[p] : v # Absent /\ v <= made
    BY <1>3, <1>4, <1>5 DEF Absent
  <2>3. MadeBefore(NoFiles)
    BY <1>5 DEF MadeBefore, NoFiles, Absent
  <2> QED  BY <1>5, <2>1, <2>2, <2>3 DEF NumberInv, NoOp, NotOwned
<1>8. \A h \in Managed : Reviewed(h, tree["library"])
  BY <1>2, <1>3, <1>4, Places DEF Reviewed
<1>9. SeenInv
  BY <1>5, <1>8 DEF SeenInv, NoOp, Owned, NotOwned, Writes
<1> QED  BY <1>6, <1>7, <1>9

(* Nothing the user typed is replaced before an approved plan has shown it. *)
THEOREM ReviewedReplaced == Spec => OnlyReviewedReplaced
<1> DEFINE Inv == LockInv /\ RefreshInv /\ NumberInv /\ SeenInv
<1>1. TypeOK /\ Inv /\ [Next]_vars => Inv'
  BY Types, LockNext, RefreshStays, SeenNext
<1>2. ASSUME TypeOK, Inv, [Next]_vars, op' # op, NEW p \in Place, NEW f \in File,
             tree'[p][f] # tree[p][f]
      PROVE  tree[p][f] \notin unseen[p] \/ <<p, f>> \in late
  <2> tree \in [Place -> Tree] /\ op \in OpRecord
    BY <1>2, Types DEF Typed, TypedFiles, TypedWork
  <2>1. /\ p = Where
        /\ Writing \/ (op.temp # {} /\ Fail)
    <3>1. \/ Fail \/ \E t \in Temp : CreateTemp(t)
          \/ \E f2 \in File : Rename(f2) \/ RemoveFile(f2)
      BY <1>2 DEF Next, vars, history, Operation, Preview, Approve, Saved, BackedUp, Detached, Finish,
           Pass, PassBegins, PassWrites, RefreshBegins, RefreshNext, PassEnds, UserEdits, Crash
    <3>2. CASE Fail
      <4>1. tree' = [tree EXCEPT ![Where] = Without(tree[Where], op.temp)]
        BY <1>2, <3>2 DEF Fail
      <4>2. p = Where
        BY <1>2, <4>1
      <4>3. op.temp # {}
        BY <1>2, <4>1, WithoutType
      <4> QED  BY <3>2, <4>2, <4>3
    <3>3. CASE \E t \in Temp : CreateTemp(t)
      BY <1>2, <3>3 DEF CreateTemp
    <3>4. CASE \E f2 \in File : Rename(f2) \/ RemoveFile(f2)
      BY <1>2, <3>4 DEF Rename, RemoveFile
    <3> QED  BY <3>1, <3>2, <3>3, <3>4
  <2>2. p = Written(op.kind, op.on)
    BY <2>1 DEF Where
  <2>3. Writes
    BY <1>2, <2>1 DEF Writing, LockInv, Writes
  <2> QED  BY <1>2, <2>2, <2>3 DEF SeenInv
<1>3. TypeOK /\ Inv /\ [Next]_vars =>
        [op' # op =>
           \A p \in Place, f \in File :
             \/ tree'[p][f] = tree[p][f]
             \/ tree[p][f] \notin unseen[p]
             \/ <<p, f>> \in late]_vars
  BY <1>2
<1> HIDE DEF Inv
<1>4. Init => Inv
  BY SeenInit DEF Inv
<1> QED  BY <1>1, <1>3, <1>4, TypeCorrect, PTL DEF Spec, OnlyReviewedReplaced
=============================================================================
