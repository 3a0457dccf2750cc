------------------------- MODULE InstallPlan_proofs -------------------------
(***************************************************************************)
(* Theorems about install plans, for every set of computers and of         *)
(* plugins, every bound on versions and on what the environment does.      *)
(***************************************************************************)
EXTENDS InstallPlan, TLAPS

USE InstallAssumption

-----------------------------------------------------------------------------
(***************************************************************************)
(* Types.                                                                  *)
(***************************************************************************)
LEMMA EmptyTypes ==
  /\ NoFile \in Manifest /\ EmptyTree \in Tree
  /\ EmptyPlan \in Plan /\ Idle \in Pass
<1>1. NoFile \in Manifest
  BY DEF NoFile, Manifest, Declaration
<1>2. EmptyTree \in Tree /\ EmptyPlan \in Plan
  BY <1>1 DEF EmptyTree, EmptyPlan, Tree, Plan
<1> QED  BY <1>1, <1>2 DEF Idle, Pass, Step

(* What a manifest asks of a computer is a set of operations. *)
LEMMA OperationTypes ==
  ASSUME NEW desired \in Manifest, NEW current \in Manifest, NEW lock \in 0..MaxVersion
  PROVE  PluginOperations(desired, current) \cup SkillOperations(lock) \subseteq Operation
<1>1. ASSUME NEW p \in Plugin, PluginKind(desired, current, p) # "none"
      PROVE  [kind |-> PluginKind(desired, current, p), source |-> p,
              version |-> IF desired[p] = Absent THEN current[p].version
                          ELSE desired[p].version] \in Operation
  <2>1. PluginKind(desired, current, p) \in Kind
    BY <1>1 DEF PluginKind, Kind
  <2>2. /\ desired[p] # Absent => desired[p].version \in 1..MaxVersion
        /\ current[p] # Absent => current[p].version \in 1..MaxVersion
    BY DEF Manifest, Declaration
  <2>3. desired[p] = Absent => current[p] # Absent
    BY <1>1 DEF PluginKind
  <2> QED  BY <2>1, <2>2, <2>3 DEF Operation, Source
<1>2. PluginOperations(desired, current) \subseteq Operation
  BY <1>1 DEF PluginOperations
<1>3. SkillOperations(lock) \subseteq Operation
  BY DEF SkillOperations, Operation, Kind, Source
<1> QED  BY <1>2, <1>3

LEMMA PlanTypes ==
  ASSUME NEW repo \in Tree, NEW current \in Manifest
  PROVE  NewPlan(repo, current) \in Plan
<1>1. repo.plugins \in Manifest /\ repo.lock \in 0..MaxVersion
  BY DEF Tree
<1> QED  BY <1>1, OperationTypes DEF NewPlan, Plan

LEMMA ReconciledTypes ==
  ASSUME TypeOK, NEW m \in Machine
  PROVE  Reconciled(m)[1] \in Tree /\ Reconciled(m)[2] \in BOOLEAN
<1>1. pass[m].repo \in Tree /\ pass[m].current \in Manifest
  BY DEF TypeOK, Pass
<1>2. /\ [pass[m].repo EXCEPT !.contested = TRUE] \in Tree
      /\ [pass[m].repo EXCEPT !.plugins = pass[m].current] \in Tree
      /\ [pass[m].repo EXCEPT !.plugins = NoFile] \in Tree
  BY <1>1, EmptyTypes DEF Tree
<1> QED  BY <1>1, <1>2 DEF Reconciled

LEMMA TypeInit == Init => TypeOK
BY EmptyTypes DEF Init, TypeOK, Bounded

LEMMA SpendType ==
  ASSUME budget \in [Bounded -> Nat], NEW kind \in Bounded, Spend(kind)
  PROVE  budget' \in [Bounded -> Nat]
BY DEF Spend

(* The pass of one computer takes its next step. *)
LEMMA TypePass ==
  ASSUME TypeOK, NEW m \in Machine,
         Collect(m) \/ Reconcile(m) \/ ExecutorStep(m) \/ MarkApplied(m)
           \/ Finish(m) \/ Publish(m) \/ Save(m) \/ MarkFirstSync(m) \/ Crash(m)
  PROVE  TypeOK'
<1> USE DEF store, window, past
<1> pass \in [Machine -> Pass] /\ pass[m] \in Pass
  BY DEF TypeOK
<1>1. CASE Collect(m)
  <2>1. ASSUME NEW skipped \in BOOLEAN, NEW current \in Manifest
        PROVE  [Idle EXCEPT !.step = "collected", !.root = origin, !.repo = origin,
                  !.current = current, !.skipped = skipped] \in Pass
    BY EmptyTypes DEF TypeOK, Pass, Step
  <2>2. pass' \in [Machine -> Pass]
    <3>1. installed[m] \in Manifest
      BY DEF TypeOK
    <3>2. \E skipped \in BOOLEAN, current \in Manifest :
            pass' = [pass EXCEPT ![m] = [Idle EXCEPT !.step = "collected", !.root = origin,
                                           !.repo = origin, !.current = current,
                                           !.skipped = skipped]]
      <4>1. Idle.skipped = FALSE /\ Idle.current = NoFile
        BY DEF Idle
      <4>2. CASE pass' = [pass EXCEPT ![m] = [Idle EXCEPT !.step = "collected", !.root = origin,
                                               !.repo = origin, !.current = installed[m]]]
        <5>1. [Idle EXCEPT !.step = "collected", !.root = origin, !.repo = origin,
                 !.current = installed[m]]
              = [Idle EXCEPT !.step = "collected", !.root = origin, !.repo = origin,
                   !.current = installed[m], !.skipped = FALSE]
          BY <4>1 DEF Idle
        <5> QED  BY <3>1, <4>2, <5>1
      <4>3. CASE pass' = [pass EXCEPT ![m] = [Idle EXCEPT !.step = "collected", !.root = origin,
                                               !.repo = origin, !.skipped = TRUE]]
        <5>1. [Idle EXCEPT !.step = "collected", !.root = origin, !.repo = origin,
                 !.skipped = TRUE]
              = [Idle EXCEPT !.step = "collected", !.root = origin, !.repo = origin,
                   !.current = NoFile, !.skipped = TRUE]
          BY <4>1 DEF Idle
        <5> QED  BY <4>3, <5>1, EmptyTypes
      <4> QED  BY <1>1, <4>2, <4>3 DEF Collect
    <3>3. PICK skipped \in BOOLEAN, current \in Manifest :
            pass' = [pass EXCEPT ![m] = [Idle EXCEPT !.step = "collected", !.root = origin,
                                           !.repo = origin, !.current = current,
                                           !.skipped = skipped]]
      BY <3>2
    <3>4. [Idle EXCEPT !.step = "collected", !.root = origin, !.repo = origin,
             !.current = current, !.skipped = skipped] \in Pass
      BY <2>1
    <3> QED  BY <3>3, <3>4
  <2>3. budget' \in [Bounded -> Nat]
    BY <1>1, SpendType DEF Collect, TypeOK, Bounded
  <2> QED  BY <1>1, <2>2, <2>3 DEF Collect, TypeOK
<1>2. CASE Reconcile(m)
  <2>1. NewPlan(Reconciled(m)[1], pass[m].current) \in Plan
    BY PlanTypes, ReconciledTypes DEF Pass
  <2>2. NewPlan(Reconciled(m)[1], pass[m].current).all \subseteq Operation
    BY <2>1 DEF Plan
  <2>3. pass' \in [Machine -> Pass]
    <3>1. ASSUME NEW step \in Step
          PROVE  [pass[m] EXCEPT !.repo = Reconciled(m)[1], !.keep = Reconciled(m)[2],
                    !.plan = NewPlan(Reconciled(m)[1], pass[m].current),
                    !.todo = NewPlan(Reconciled(m)[1], pass[m].current).all,
                    !.step = step] \in Pass
      BY <2>1, <2>2, ReconciledTypes DEF Pass
    <3>2. \E step \in Step :
            pass' = [pass EXCEPT ![m] =
                       [pass[m] EXCEPT !.repo = Reconciled(m)[1], !.keep = Reconciled(m)[2],
                          !.plan = NewPlan(Reconciled(m)[1], pass[m].current),
                          !.todo = NewPlan(Reconciled(m)[1], pass[m].current).all,
                          !.step = step]]
      BY <1>2 DEF Reconcile, Step
    <3> QED  BY <3>1, <3>2
  <2>4. pending' \in [Machine -> Plan \cup {None}] /\ latest' \in [Machine -> Plan]
    BY <1>2, <2>1 DEF Reconcile, TypeOK
  <2> QED  BY <1>2, <2>3, <2>4 DEF Reconcile, TypeOK
<1>3. CASE ExecutorStep(m)
  <2>1. PICK op \in pass[m].todo :
          Skip(m, op) \/ Hold(m, op) \/ Run(m, op) \/ RunFails(m, op) \/ BackupFails(m, op)
    BY <1>3 DEF ExecutorStep
  <2>2. op \in Operation
    BY <2>1 DEF Pass
  <2>3. CASE Skip(m, op) \/ Hold(m, op)
    <3>1. /\ [pass[m] EXCEPT !.todo = @ \ {op}] \in Pass
          /\ [pass[m] EXCEPT !.todo = @ \ {op}, !.left = @ \cup {op}] \in Pass
      BY <2>2 DEF Pass
    <3>2. pass' \in [Machine -> Pass]
      BY <2>3, <3>1 DEF Skip, Hold
    <3> QED  BY <2>3, <3>2 DEF Skip, Hold, TypeOK
  <2>4. CASE Run(m, op)
    <3>1. pass' \in [Machine -> Pass]
      <4>1. [pass[m] EXCEPT !.step = "mark", !.todo = @ \ {op}, !.running = {op}] \in Pass
        BY <2>2 DEF Pass, Step
      <4> QED  BY <2>4, <4>1 DEF Run, Runnable
    <3>2. Effect(op, installed[m]) \in Manifest
      <4>1. installed[m] \in Manifest
        BY DEF TypeOK
      <4>2. CASE op.kind = "dependencies"
        BY <4>1, <4>2 DEF Effect
      <4>3. CASE op.kind # "dependencies"
        <5> USE <4>3
        <5>1. op.version \in 1..MaxVersion
          BY <2>2 DEF Operation
        <5> DEFINE now(d) ==
              CASE op.kind = "uninstall" -> Absent
                [] op.kind = "install" -> [version |-> op.version, enabled |-> TRUE]
                [] op.kind = "update" /\ d # Absent -> [d EXCEPT !.version = op.version]
                [] OTHER -> d
        <5>2. ASSUME NEW d \in Declaration PROVE now(d) \in Declaration
          <6>1. CASE op.kind = "install"
            BY <5>1, <6>1 DEF Declaration
          <6>2. CASE op.kind = "update" /\ d # Absent
            <7>1. d \in [version: 1..MaxVersion, enabled: BOOLEAN]
              BY <6>2 DEF Declaration
            <7>2. [d EXCEPT !.version = op.version] \in Declaration
              BY <5>1, <7>1 DEF Declaration
            <7> QED  BY <6>2, <7>2
          <6> QED  BY <6>1, <6>2 DEF Declaration
        <5>3. Effect(op, installed[m]) = [installed[m] EXCEPT ![op.source] = now(@)]
          BY DEF Effect
        <5> HIDE DEF now
        <5>4. Effect(op, installed[m])
              = [p \in Plugin |-> IF p = op.source THEN now(installed[m][p]) ELSE installed[m][p]]
          BY <4>1, <5>3 DEF Manifest
        <5>5. ASSUME NEW p \in Plugin
              PROVE  (IF p = op.source THEN now(installed[m][p]) ELSE installed[m][p]) \in Declaration
          BY <4>1, <5>2 DEF Manifest
        <5> QED  BY <5>4, <5>5 DEF Manifest
      <4> QED  BY <4>2, <4>3
    <3> QED  BY <2>4, <3>1, <3>2 DEF Run, TypeOK
  <2>5. CASE RunFails(m, op)
    <3>1. pass' \in [Machine -> Pass]
      <4>1. [pass[m] EXCEPT !.todo = @ \ {op}, !.left = @ \cup {op},
                            !.errors = @ \cup {op}] \in Pass
        BY <2>2 DEF Pass
      <4> QED  BY <2>5, <4>1 DEF RunFails
    <3>2. owed' \in [Machine -> SUBSET Operation]
      BY <2>2, <2>5 DEF RunFails, TypeOK
    <3>3. budget' \in [Bounded -> Nat]
      BY <2>5, SpendType DEF RunFails, TypeOK, Bounded
    <3> QED  BY <2>5, <3>1, <3>2, <3>3 DEF RunFails, TypeOK
  <2>6. CASE BackupFails(m, op)
    BY <2>6, EmptyTypes, SpendType DEF BackupFails, TypeOK, Bounded
  <2> QED  BY <2>1, <2>3, <2>4, <2>5, <2>6
<1>4. CASE MarkApplied(m)
  <2>1. pass' \in [Machine -> Pass]
    BY <1>4 DEF MarkApplied, TypeOK, Pass, Step
  <2>2. applied' \in [Machine -> SUBSET Operation] /\ owed' \in [Machine -> SUBSET Operation]
    BY <1>4 DEF MarkApplied, TypeOK, Pass
  <2> QED  BY <1>4, <2>1, <2>2 DEF MarkApplied, TypeOK
<1>5. CASE Finish(m)
  <2>1. [pass[m].plan EXCEPT !.left = pass[m].left, !.errors = pass[m].errors] \in Plan
    BY DEF Pass, Plan
  <2>2. pass' \in [Machine -> Pass]
    <3>1. [pass[m] EXCEPT !.step = "publish"] \in Pass
      BY DEF Pass, Step
    <3> QED  BY <1>5, <3>1 DEF Finish
  <2>3. pending' \in [Machine -> Plan \cup {None}]
    BY <1>5, <2>1 DEF Finish, TypeOK
  <2> QED  BY <1>5, <2>2, <2>3 DEF Finish, TypeOK
<1>6. CASE Publish(m)
  <2>1. pass' \in [Machine -> Pass]
    <3>1. [pass[m] EXCEPT !.step = "save"] \in Pass
      BY DEF Pass, Step
    <3> QED  BY <1>6, <3>1, EmptyTypes DEF Publish
  <2>2. origin' \in Tree
    BY <1>6 DEF Publish, TypeOK, Pass
  <2> QED  BY <1>6, <2>1, <2>2 DEF Publish, TypeOK
<1>7. CASE Save(m)
  <2>1. pass[m].repo.plugins \in Manifest
    BY DEF Pass, Tree
  <2>2. pass' \in [Machine -> Pass]
    <3>1. [pass[m] EXCEPT !.step = "complete"] \in Pass
      BY DEF Pass, Step
    <3> QED  BY <1>7, <3>1, EmptyTypes DEF Save
  <2> QED  BY <1>7, <2>1, <2>2, EmptyTypes DEF Save, TypeOK
<1>8. CASE Crash(m)
  BY <1>8, EmptyTypes, SpendType DEF Crash, TypeOK, Bounded
<1>9. CASE MarkFirstSync(m)
  BY <1>9, EmptyTypes DEF MarkFirstSync, TypeOK
<1> QED  BY <1>1, <1>2, <1>3, <1>4, <1>5, <1>6, <1>7, <1>8, <1>9

(* The user looks, approves, or changes what is installed or shared. *)
LEMMA TypeUser ==
  ASSUME TypeOK,
         \/ SkillChanges
         \/ \E m \in Machine :
              \/ Refresh(m) \/ ApproveInstallPlan(m) \/ Approve(m)
              \/ \E p \in Plugin, d \in Declaration : UserChanges(m, p, d)
  PROVE  TypeOK'
<1> USE DEF store, window, past
<1>1. CASE SkillChanges
  <2>1. [origin EXCEPT !.lock = origin.lock + 1] \in Tree
    BY <1>1 DEF SkillChanges, TypeOK, Tree
  <2> QED  BY <1>1, <2>1, SpendType DEF SkillChanges, TypeOK, Bounded
<1>2. ASSUME NEW m \in Machine, Refresh(m) PROVE TypeOK'
  BY <1>2 DEF Refresh, TypeOK
<1>3. ASSUME NEW m \in Machine, ApproveInstallPlan(m) PROVE TypeOK'
  <2>1. shown[m] \in Plan /\ pending[m] \in Plan
    BY <1>3 DEF ApproveInstallPlan, TypeOK
  <2>2. pending[m].left \subseteq Operation /\ {op.source : op \in shown[m].left} \subseteq Source
    BY <2>1 DEF Plan, Operation
  <2> QED  BY <1>3, <2>2, SpendType DEF ApproveInstallPlan, TypeOK, Bounded
<1>4. ASSUME NEW m \in Machine, Approve(m) PROVE TypeOK'
  BY <1>4 DEF Approve, TypeOK, Operation
<1>5. ASSUME NEW m \in Machine, NEW p \in Plugin, NEW d \in Declaration,
             UserChanges(m, p, d)
      PROVE  TypeOK'
  <2>1. [installed[m] EXCEPT ![p] = d] \in Manifest
    BY DEF TypeOK, Manifest
  <2> QED  BY <1>5, <2>1, SpendType DEF UserChanges, TypeOK, Bounded
<1> QED  BY <1>1, <1>2, <1>3, <1>4, <1>5

(* Type correctness of install plans. *)
THEOREM TypeCorrect == Spec => []TypeOK
<1>1. ASSUME TypeOK, [Next]_vars PROVE TypeOK'
  <2>1. CASE UNCHANGED vars
    BY <1>1, <2>1 DEF vars, store, window, past, TypeOK
  <2>2. CASE Next
    BY <1>1, <2>2, TypePass, TypeUser DEF Next
  <2> QED  BY <1>1, <2>1, <2>2
<1> QED  BY <1>1, TypeInit, PTL DEF Spec
-----------------------------------------------------------------------------
(***************************************************************************)
(* What was reviewed.  Approvals come from plans that were displayed, but  *)
(* the plan that ApproveInstallPlan reads may be a later form of the one   *)
(* on the screen, with the same identifier and other operations left.      *)
(* Whatever is left in one and not in the other has run or failed, so its  *)
(* source was approved before: Displayed carries this along from the       *)
(* running pass to pending.json and to the screen.                         *)
(***************************************************************************)
Reviewed(m, ops) == \A op \in ops : op.source \in reviewed[m]
Displayed(m, plan) == Reviewed(m, plan.all \ plan.left)

ReviewInv(m) ==
  /\ approvals[m] \subseteq reviewed[m]
  /\ Reviewed(m, granting[m]) /\ Reviewed(m, applied[m])
  /\ Reviewed(m, pass[m].running) /\ Reviewed(m, pass[m].errors)
  /\ pass[m].todo \cup pass[m].left \subseteq pass[m].plan.all
  /\ Reviewed(m, pass[m].plan.all \ (pass[m].todo \cup pass[m].left))
  /\ At(m, "collected") => pass[m].left = {}
  /\ pending[m] # None => pending[m].left \subseteq pending[m].all /\ Displayed(m, pending[m])
  /\ shown[m] # None => Displayed(m, shown[m])

(* Nothing in a computer's own state changes with another computer's step. *)
Own(m) == <<approvals[m], granting[m], applied[m], pass[m], pending[m], shown[m], reviewed[m],
          latest[m]>>

LEMMA OwnReviewed ==
  ASSUME NEW m \in Machine, ReviewInv(m), UNCHANGED Own(m)
  PROVE  ReviewInv(m)'
BY DEF ReviewInv, Own, Reviewed, Displayed, At

LEMMA IdleReviewed ==
  ASSUME NEW m \in Machine, ReviewInv(m), pass'[m] = Idle,
         UNCHANGED <<approvals[m], applied[m], pending[m], reviewed[m]>>,
         granting'[m] \in {granting[m], {}}, shown'[m] \in {shown[m], None}
  PROVE  ReviewInv(m)'
BY DEF ReviewInv, Reviewed, Displayed, At, Idle, EmptyPlan

(* The pass of one computer. *)
LEMMA ReviewedPass ==
  ASSUME TypeOK, NEW m \in Machine, ReviewInv(m),
         Collect(m) \/ Reconcile(m) \/ ExecutorStep(m) \/ MarkApplied(m)
           \/ Finish(m) \/ Publish(m) \/ Save(m) \/ MarkFirstSync(m) \/ Crash(m)
  PROVE  ReviewInv(m)'
<1> USE DEF store, window, past
<1> /\ pass \in [Machine -> Pass] /\ pass[m] \in Pass
    /\ pending \in [Machine -> Plan \cup {None}] /\ applied \in [Machine -> SUBSET Operation]
    /\ granting \in [Machine -> SUBSET Operation] /\ shown \in [Machine -> Plan \cup {None}]
  BY DEF TypeOK
<1>1. CASE Collect(m)
  <2>1. /\ pass'[m].todo = {} /\ pass'[m].left = {} /\ pass'[m].errors = {}
        /\ pass'[m].running = {} /\ pass'[m].plan = EmptyPlan /\ EmptyPlan.all = {}
    <3>1. CASE pass'[m] = [Idle EXCEPT !.step = "collected", !.root = origin, !.repo = origin,
                             !.current = installed[m]]
      BY <3>1 DEF Idle, EmptyPlan
    <3>2. CASE pass'[m] = [Idle EXCEPT !.step = "collected", !.root = origin, !.repo = origin,
                             !.skipped = TRUE]
      BY <3>2 DEF Idle, EmptyPlan
    <3> QED  BY <1>1, <3>1, <3>2 DEF Collect
  <2> QED  BY <1>1, <2>1 DEF Collect, ReviewInv, Reviewed, Displayed, At
<1>2. CASE Reconcile(m)
  <2> DEFINE plan == NewPlan(Reconciled(m)[1], pass[m].current)
  <2>1. plan.all = plan.left
    BY DEF NewPlan
  <2> HIDE DEF plan
  <2>2. /\ pass'[m].todo = plan.all /\ pass'[m].plan = plan /\ pass'[m].left = pass[m].left
        /\ pass'[m].errors = pass[m].errors /\ pass'[m].running = pass[m].running
        /\ pass'[m].step \in {"publish", "run"}
    BY <1>2 DEF Reconcile, Pass, plan
  <2>3. pending'[m] \in {None, plan}
    BY <1>2 DEF Reconcile, plan
  <2>4. UNCHANGED <<approvals[m], granting[m], applied[m], shown[m], reviewed[m]>>
    BY <1>2 DEF Reconcile
  <2>5. pass[m].left = {}
    BY <1>2 DEF Reconcile, ReviewInv
  <2> QED  BY <2>1, <2>2, <2>3, <2>4, <2>5 DEF ReviewInv, Reviewed, Displayed, At
<1>3. CASE ExecutorStep(m)
  <2>1. PICK op \in pass[m].todo :
          Skip(m, op) \/ Hold(m, op) \/ Run(m, op) \/ RunFails(m, op) \/ BackupFails(m, op)
    BY <1>3 DEF ExecutorStep
  <2>2. CASE BackupFails(m, op)
    BY <2>2, IdleReviewed DEF BackupFails
  <2>3. ASSUME ~BackupFails(m, op)
        PROVE  /\ pass'[m].todo = pass[m].todo \ {op} /\ pass'[m].plan = pass[m].plan
               /\ pass'[m].step \in {"run", "mark"}
               /\ pass'[m].left \in {pass[m].left, pass[m].left \cup {op}}
               /\ pass'[m].errors \in {pass[m].errors, pass[m].errors \cup {op}}
               /\ pass'[m].running \in {pass[m].running, {op}}
               /\ op.source \in reviewed[m] \/ op \in pass'[m].left
               /\ pass'[m].errors # pass[m].errors \/ pass'[m].running # pass[m].running
                    => op.source \in reviewed[m]
               /\ UNCHANGED <<store, window, reviewed>>
    <3>1. op \in applied[m] \/ op.source \in approvals[m] => op.source \in reviewed[m]
      BY DEF ReviewInv, Reviewed
    <3>2. CASE Skip(m, op)
      BY <3>1, <3>2 DEF Skip, Pass, At
    <3>3. CASE Hold(m, op)
      BY <3>3 DEF Hold, Pass, At
    <3>4. CASE Run(m, op)
      BY <3>1, <3>4 DEF Run, Runnable, Pass, At
    <3>5. CASE RunFails(m, op)
      BY <3>1, <3>5 DEF RunFails, Runnable, Pass, At
    <3> QED  BY <2>1, <2>3, <3>2, <3>3, <3>4, <3>5
  <2> QED  BY <2>2, <2>3 DEF ReviewInv, Reviewed, Displayed, At
<1>4. CASE MarkApplied(m)
  <2>1. /\ pass'[m].todo = pass[m].todo /\ pass'[m].left = pass[m].left
        /\ pass'[m].plan = pass[m].plan /\ pass'[m].errors = pass[m].errors
        /\ pass'[m].running = {} /\ pass'[m].step = "run"
        /\ applied'[m] = applied[m] \cup pass[m].running
    BY <1>4 DEF MarkApplied, Pass
  <2> QED  BY <1>4, <2>1 DEF MarkApplied, ReviewInv, Reviewed, Displayed, At
<1>5. CASE Finish(m)
  <2> DEFINE plan == [pass[m].plan EXCEPT !.left = pass[m].left, !.errors = pass[m].errors]
  <2>1. plan.all = pass[m].plan.all /\ plan.left = pass[m].left
    BY DEF Pass, Plan
  <2>2. pending'[m] \in {None, plan, pending[m]}
    BY <1>5 DEF Finish
  <2> HIDE DEF plan
  <2>3. /\ pass'[m].todo = {} /\ pass[m].todo = {} /\ pass'[m].left = pass[m].left
        /\ pass'[m].plan = pass[m].plan /\ pass'[m].errors = pass[m].errors
        /\ pass'[m].running = pass[m].running /\ pass'[m].step = "publish"
    BY <1>5 DEF Finish, Pass
  <2>4. UNCHANGED <<approvals[m], granting[m], applied[m], shown[m], reviewed[m]>>
    BY <1>5 DEF Finish
  <2> QED  BY <2>1, <2>2, <2>3, <2>4 DEF ReviewInv, Reviewed, Displayed, At
<1>6. CASE Publish(m)
  <2>1. CASE pass'[m] = Idle
    BY <1>6, <2>1, IdleReviewed DEF Publish
  <2>2. CASE pass'[m] # Idle
    <3>1. pass'[m] = [pass[m] EXCEPT !.step = "save"]
      BY <1>6, <2>2 DEF Publish
    <3>2. /\ pass'[m].todo = pass[m].todo /\ pass'[m].left = pass[m].left
          /\ pass'[m].plan = pass[m].plan /\ pass'[m].errors = pass[m].errors
          /\ pass'[m].running = pass[m].running /\ pass'[m].step = "save"
      BY <3>1 DEF Pass
    <3> QED  BY <1>6, <3>2 DEF Publish, ReviewInv, Reviewed, Displayed, At
  <2> QED  BY <2>1, <2>2
<1>7. CASE Save(m)
  <2>1. CASE pass'[m] = Idle
    BY <1>7, <2>1, IdleReviewed DEF Save
  <2>2. CASE pass'[m] # Idle
    <3>1. pass'[m] = [pass[m] EXCEPT !.step = "complete"]
      BY <1>7, <2>2 DEF Save
    <3>2. /\ pass'[m].todo = pass[m].todo /\ pass'[m].left = pass[m].left
          /\ pass'[m].plan = pass[m].plan /\ pass'[m].errors = pass[m].errors
          /\ pass'[m].running = pass[m].running /\ pass'[m].step = "complete"
      BY <3>1 DEF Pass
    <3> QED  BY <1>7, <3>2 DEF Save, ReviewInv, Reviewed, Displayed, At
  <2> QED  BY <2>1, <2>2
<1>8. CASE Crash(m) \/ MarkFirstSync(m)
  BY <1>8, IdleReviewed DEF Crash, MarkFirstSync
<1> QED  BY <1>1, <1>2, <1>3, <1>4, <1>5, <1>6, <1>7, <1>8

(* The window and the user of the same computer. *)
LEMMA ReviewedUser ==
  ASSUME TypeOK, NEW m \in Machine, ReviewInv(m),
         \/ Refresh(m) \/ ApproveInstallPlan(m) \/ Approve(m)
         \/ \E p \in Plugin, d \in Declaration : UserChanges(m, p, d)
  PROVE  ReviewInv(m)'
<1> USE DEF store, window, past
<1> /\ granting \in [Machine -> SUBSET Operation] /\ shown \in [Machine -> Plan \cup {None}]
    /\ reviewed \in [Machine -> SUBSET Source] /\ approvals \in [Machine -> SUBSET Source]
  BY DEF TypeOK
<1>1. CASE Refresh(m)
  BY <1>1 DEF Refresh, ReviewInv, Reviewed, Displayed, At
<1>2. CASE ApproveInstallPlan(m)
  <2>1. pending[m].all = shown[m].all
    BY <1>2 DEF ApproveInstallPlan, ID
  <2>2. /\ granting'[m] = pending[m].left /\ shown'[m] = None
        /\ reviewed'[m] = reviewed[m] \cup {op.source : op \in shown[m].left}
        /\ UNCHANGED <<approvals[m], applied[m], pass[m], pending[m]>>
    BY <1>2 DEF ApproveInstallPlan
  <2>3. \A op \in pending[m].left : op.source \in reviewed'[m]
    <3>1. ASSUME NEW op \in pending[m].left PROVE op.source \in reviewed'[m]
      <4>1. op \in shown[m].all
        BY <1>2, <2>1 DEF ApproveInstallPlan, ReviewInv
      <4>2. CASE op \in shown[m].left
        BY <2>2, <4>2
      <4>3. CASE op \notin shown[m].left
        BY <1>2, <2>2, <4>1, <4>3 DEF ApproveInstallPlan, ReviewInv, Reviewed, Displayed
      <4> QED  BY <4>2, <4>3
    <3> QED  BY <3>1
  <2> QED  BY <2>2, <2>3 DEF ReviewInv, Reviewed, Displayed, At
<1>3. CASE Approve(m)
  BY <1>3 DEF Approve, ReviewInv, Reviewed, Displayed, At
<1>4. CASE \E p \in Plugin, d \in Declaration : UserChanges(m, p, d)
  BY <1>4, OwnReviewed DEF UserChanges, Own
<1> QED  BY <1>1, <1>2, <1>3, <1>4

(* A step of one computer leaves the others' state alone. *)
LEMMA OtherUnchanged ==
  ASSUME TypeOK, NEW m \in Machine, NEW n \in Machine \ {m},
         \/ Collect(m) \/ Reconcile(m) \/ ExecutorStep(m) \/ MarkApplied(m)
         \/ Finish(m) \/ Publish(m) \/ Save(m) \/ MarkFirstSync(m) \/ Crash(m)
         \/ Refresh(m) \/ ApproveInstallPlan(m) \/ Approve(m)
         \/ \E p \in Plugin, d \in Declaration : UserChanges(m, p, d)
  PROVE  UNCHANGED Own(n)
<1> /\ pass \in [Machine -> Pass] /\ approvals \in [Machine -> SUBSET Source]
    /\ granting \in [Machine -> SUBSET Operation] /\ applied \in [Machine -> SUBSET Operation]
    /\ pending \in [Machine -> Plan \cup {None}] /\ shown \in [Machine -> Plan \cup {None}]
    /\ reviewed \in [Machine -> SUBSET Source] /\ latest \in [Machine -> Plan]
  BY DEF TypeOK
<1> USE DEF store, window, past, Own
<1>1. CASE Collect(m) \/ Reconcile(m)
  BY <1>1 DEF Collect, Reconcile
<1>2. CASE ExecutorStep(m)
  BY <1>2 DEF ExecutorStep, Skip, Hold, Run, RunFails, BackupFails
<1>3. CASE MarkApplied(m) \/ Finish(m) \/ Publish(m) \/ Save(m) \/ MarkFirstSync(m) \/ Crash(m)
  BY <1>3 DEF MarkApplied, Finish, Publish, Save, MarkFirstSync, Crash
<1>4. CASE Refresh(m) \/ ApproveInstallPlan(m) \/ Approve(m)
  BY <1>4 DEF Refresh, ApproveInstallPlan, Approve
<1>5. CASE \E p \in Plugin, d \in Declaration : UserChanges(m, p, d)
  BY <1>5 DEF UserChanges
<1> QED  BY <1>1, <1>2, <1>3, <1>4, <1>5

(* A command runs only for a source that was reviewed.                     *)
THEOREM OnlyReviewedRuns == Spec => []ReviewedOnly
<1> DEFINE Inv == \A m \in Machine : ReviewInv(m)
<1>1. Init => Inv
  BY DEF Init, ReviewInv, Reviewed, Displayed, At, Idle, EmptyPlan
<1>2. ASSUME TypeOK, Inv, [Next]_vars PROVE Inv'
  <2>1. SUFFICES ASSUME NEW n \in Machine PROVE ReviewInv(n)'
    OBVIOUS
  <2>2. CASE UNCHANGED vars
    BY <1>2, <2>2, OwnReviewed DEF vars, store, window, past, Own
  <2>3. CASE SkillChanges
    BY <1>2, <2>3, OwnReviewed DEF SkillChanges, store, window, Own
  <2>4. CASE Next /\ ~SkillChanges
    <3>1. PICK m \in Machine :
            \/ Collect(m) \/ Reconcile(m) \/ ExecutorStep(m) \/ MarkApplied(m)
            \/ Finish(m) \/ Publish(m) \/ Save(m) \/ MarkFirstSync(m) \/ Crash(m)
            \/ Refresh(m) \/ ApproveInstallPlan(m) \/ Approve(m)
            \/ \E p \in Plugin, d \in Declaration : UserChanges(m, p, d)
      BY <2>4 DEF Next
    <3>2. CASE n = m
      BY <1>2, <3>1, <3>2, ReviewedPass, ReviewedUser
    <3>3. CASE n # m
      BY <1>2, <3>1, <3>3, OtherUnchanged, OwnReviewed
    <3> QED  BY <3>2, <3>3
  <2> QED  BY <1>2, <2>2, <2>3, <2>4
<1>3. Inv => ReviewedOnly
  BY DEF ReviewInv, Reviewed, ReviewedOnly
<1> QED  BY <1>1, <1>2, <1>3, TypeCorrect, PTL DEF Spec

-----------------------------------------------------------------------------
(***************************************************************************)
(* What a pass planned.  While Execute runs, every operation of the plan   *)
(* is still to come, held back, under way or recorded as applied.          *)
(***************************************************************************)
PlannedInv(m) ==
  /\ \/ latest[m].all \subseteq applied[m]
     \/ pending[m] # None /\ latest[m].all \ applied[m] \subseteq pending[m].left
  /\ At(m, "run") \/ At(m, "mark") =>
       latest[m].all \subseteq pass[m].todo \cup pass[m].left \cup pass[m].running \cup applied[m]
  /\ ~At(m, "mark") => pass[m].running = {}

LEMMA PlannedNext ==
  ASSUME TypeOK, NEW m \in Machine, PlannedInv(m),
         \/ Collect(m) \/ Reconcile(m) \/ ExecutorStep(m) \/ MarkApplied(m)
         \/ Finish(m) \/ Publish(m) \/ Save(m) \/ MarkFirstSync(m) \/ Crash(m)
         \/ Refresh(m) \/ ApproveInstallPlan(m) \/ Approve(m)
         \/ \E p \in Plugin, d \in Declaration : UserChanges(m, p, d)
  PROVE  PlannedInv(m)'
<1> USE DEF store, window, past
<1> /\ pass \in [Machine -> Pass] /\ pass[m] \in Pass /\ latest \in [Machine -> Plan]
    /\ pending \in [Machine -> Plan \cup {None}] /\ applied \in [Machine -> SUBSET Operation]
  BY DEF TypeOK
<1>1. ASSUME UNCHANGED <<latest[m], pending[m], applied[m]>>, pass'[m].running = {},
             pass'[m].step \notin {"run", "mark"}
      PROVE  PlannedInv(m)'
  BY <1>1 DEF PlannedInv, At
<1>2. Idle.running = {} /\ Idle.step \notin {"run", "mark"}
  BY DEF Idle
<1>3. CASE Collect(m)
  <2>1. pass'[m].running = {} /\ pass'[m].step = "collected"
    <3>1. CASE pass'[m] = [Idle EXCEPT !.step = "collected", !.root = origin, !.repo = origin,
                             !.current = installed[m]]
      BY <3>1 DEF Idle
    <3>2. CASE pass'[m] = [Idle EXCEPT !.step = "collected", !.root = origin, !.repo = origin,
                             !.skipped = TRUE]
      BY <3>2 DEF Idle
    <3> QED  BY <1>3, <3>1, <3>2 DEF Collect
  <2> QED  BY <1>1, <1>3, <2>1 DEF Collect
<1>4. CASE Reconcile(m)
  <2> DEFINE plan == NewPlan(Reconciled(m)[1], pass[m].current)
  <2>1. plan.all = plan.left /\ plan # None
    BY DEF NewPlan, None
  <2> HIDE DEF plan
  <2>2. /\ pass'[m].todo = plan.all /\ pass'[m].running = pass[m].running
        /\ pass'[m].step = IF plan.all = {} THEN "publish" ELSE "run"
        /\ pending'[m] = IF plan.all = {} THEN None ELSE plan
        /\ latest'[m] = plan /\ applied'[m] = applied[m]
    BY <1>4 DEF Reconcile, Pass, plan
  <2>3. pass[m].running = {}
    BY <1>4 DEF Reconcile, PlannedInv, At
  <2> QED  BY <2>1, <2>2, <2>3 DEF PlannedInv, At
<1>5. CASE ExecutorStep(m)
  <2>1. PICK op \in pass[m].todo :
          Skip(m, op) \/ Hold(m, op) \/ Run(m, op) \/ RunFails(m, op) \/ BackupFails(m, op)
    BY <1>5 DEF ExecutorStep
  <2>2. CASE BackupFails(m, op)
    BY <1>1, <1>2, <2>2 DEF BackupFails
  <2>3. CASE Skip(m, op)
    BY <2>3 DEF Skip, Pass, PlannedInv, At
  <2>4. CASE Run(m, op)
    BY <2>4 DEF Run, Runnable, Pass, PlannedInv, At
  <2>5. CASE Hold(m, op) \/ RunFails(m, op)
    BY <2>5 DEF Hold, RunFails, Runnable, Pass, PlannedInv, At
  <2> QED  BY <2>1, <2>2, <2>3, <2>4, <2>5
<1>6. CASE MarkApplied(m)
  <2>1. /\ pass'[m].todo = pass[m].todo /\ pass'[m].left = pass[m].left
        /\ pass'[m].running = {} /\ pass'[m].step = "run"
        /\ applied'[m] = applied[m] \cup pass[m].running
        /\ UNCHANGED <<latest[m], pending[m]>>
    BY <1>6 DEF MarkApplied, Pass
  <2> QED  BY <1>6, <2>1 DEF MarkApplied, PlannedInv, At
<1>7. CASE Finish(m)
  <2> DEFINE plan == [pass[m].plan EXCEPT !.left = pass[m].left, !.errors = pass[m].errors]
  <2>1. plan.left = pass[m].left /\ plan # None
    BY DEF Pass, Plan, None
  <2>2. pass[m].left # {} => pending'[m] = plan
    BY <1>7, <2>1 DEF Finish
  <2> HIDE DEF plan
  <2>3. /\ pass[m].todo = {} /\ pass[m].step = "run" /\ pass'[m].running = pass[m].running
        /\ pass'[m].step = "publish" /\ UNCHANGED <<latest[m], applied[m]>>
    BY <1>7 DEF Finish, Pass, At
  <2> QED  BY <2>1, <2>2, <2>3 DEF PlannedInv, At
<1>8. CASE Publish(m)
  <2>1. pass'[m] = Idle \/ pass'[m] = [pass[m] EXCEPT !.step = "save"]
    BY <1>8 DEF Publish
  <2>2. pass'[m].running = {} /\ pass'[m].step \notin {"run", "mark"}
    BY <1>2, <1>8, <2>1 DEF Publish, PlannedInv, At, Pass
  <2> QED  BY <1>1, <1>8, <2>2 DEF Publish
<1>9. CASE Save(m)
  <2>1. CASE pass'[m] = Idle
    BY <1>1, <1>2, <1>9, <2>1 DEF Save
  <2>2. CASE pass'[m] # Idle
    <3>1. pass'[m] = [pass[m] EXCEPT !.step = "complete"]
      BY <1>9, <2>2 DEF Save
    <3>2. pass'[m].step = "complete" /\ pass'[m].running = pass[m].running
      BY <3>1 DEF Pass
    <3> QED  BY <1>9, <3>2 DEF Save, PlannedInv, At
  <2> QED  BY <2>1, <2>2
<1>11. CASE MarkFirstSync(m) \/ Crash(m)
  BY <1>1, <1>2, <1>11 DEF MarkFirstSync, Crash
<1>10. CASE \/ Refresh(m) \/ ApproveInstallPlan(m) \/ Approve(m)
            \/ \E p \in Plugin, d \in Declaration : UserChanges(m, p, d)
  BY <1>10 DEF Refresh, ApproveInstallPlan, Approve, UserChanges, PlannedInv, At
<1> QED  BY <1>3, <1>4, <1>5, <1>6, <1>7, <1>8, <1>9, <1>10, <1>11

(* What a pass planned and did not finish stays pending.                   *)
THEOREM UnfinishedPending == Spec => []UnfinishedStaysPending
<1> DEFINE Inv == \A m \in Machine : PlannedInv(m)
<1>1. Init => Inv
  BY DEF Init, PlannedInv, At, Idle, EmptyPlan
<1>2. ASSUME TypeOK, Inv, [Next]_vars PROVE Inv'
  <2>1. SUFFICES ASSUME NEW n \in Machine PROVE PlannedInv(n)'
    OBVIOUS
  <2>2. ASSUME UNCHANGED Own(n) PROVE PlannedInv(n)'
    BY <1>2, <2>2 DEF Own, PlannedInv, At
  <2>3. CASE UNCHANGED vars \/ SkillChanges
    BY <2>2, <2>3 DEF vars, SkillChanges, store, window, past, Own
  <2>4. CASE Next /\ ~SkillChanges
    <3>1. PICK m \in Machine :
            \/ Collect(m) \/ Reconcile(m) \/ ExecutorStep(m) \/ MarkApplied(m)
            \/ Finish(m) \/ Publish(m) \/ Save(m) \/ MarkFirstSync(m) \/ Crash(m)
            \/ Refresh(m) \/ ApproveInstallPlan(m) \/ Approve(m)
            \/ \E p \in Plugin, d \in Declaration : UserChanges(m, p, d)
      BY <2>4 DEF Next
    <3>2. CASE n = m
      BY <1>2, <3>1, <3>2, PlannedNext
    <3>3. CASE n # m
      BY <1>2, <2>2, <3>1, <3>3, OtherUnchanged
    <3> QED  BY <3>2, <3>3
  <2> QED  BY <1>2, <2>3, <2>4
<1>3. Inv => UnfinishedStaysPending
  BY DEF PlannedInv, UnfinishedStaysPending
<1> QED  BY <1>1, <1>2, <1>3, TypeCorrect, PTL DEF Spec

-----------------------------------------------------------------------------
(***************************************************************************)
(* Newcomers.  A computer that never had a plugin has an empty inventory,  *)
(* which only the pending installation of the manifest keeps from being    *)
(* taken for a removal: NewcomerInv carries that installation from the     *)
(* plan through Execute to the saved base, also in a first synchronization *)
(* that uses this computer's state and was cut before its completion was   *)
(* recorded.                                                               *)
(***************************************************************************)
Executing(m) == At(m, "run") \/ At(m, "mark")
Reconciling(m) == Executing(m) \/ At(m, "publish") \/ At(m, "save")

NewcomerInv(m) ==
  m \notin touched =>
    /\ installed[m] = NoFile /\ pass[m].current = NoFile
    /\ \A op \in applied[m] \cup pass[m].running : op.kind = "dependencies"
    /\ Wanted(base[m]) /\ m \notin forgotten => PendingInstall(m)
    /\ Executing(m) =>
         /\ pending[m] = pass[m].plan
         /\ \A op \in pass[m].plan.left :
              op.kind # "dependencies" => op \in pass[m].todo \cup pass[m].left
    /\ Reconciling(m) /\ Wanted(pass[m].repo.plugins) => PendingInstall(m)
    /\ At(m, "collected") => pass[m].repo = pass[m].root
    /\ Reconciling(m) /\ m \notin forgotten /\ ~Chosen(m) =>
         pass[m].repo.plugins = pass[m].root.plugins

(* An enabled plugin is planned for installation on a newcomer.            *)
LEMMA InstallPlanned ==
  ASSUME NEW repo \in Tree, Wanted(repo.plugins)
  PROVE  \E op \in NewPlan(repo, NoFile).left : op.kind = "install"
<1>1. repo.plugins \in Manifest
  BY DEF Tree
<1>2. PICK p \in Plugin : repo.plugins[p].enabled
  BY DEF Wanted
<1>3. PluginKind(repo.plugins, NoFile, p) = "install"
  BY <1>2 DEF PluginKind, NoFile, Absent
<1> DEFINE op == [kind |-> PluginKind(repo.plugins, NoFile, p), source |-> p,
                  version |-> IF repo.plugins[p] = Absent THEN NoFile[p].version
                              ELSE repo.plugins[p].version]
<1>4. op \in PluginOperations(repo.plugins, NoFile)
  BY <1>3 DEF PluginOperations
<1>5. op \in NewPlan(repo, NoFile).left /\ op.kind = "install"
  BY <1>3, <1>4 DEF NewPlan
<1> QED  BY <1>5

(* Reconciliation of a newcomer's empty inventory changes no plugin of a   *)
(* manifest that wants one, unless this computer's state was chosen and    *)
(* nothing is pending yet.                                                 *)
LEMMA NewcomerReconciles ==
  ASSUME TypeOK, NEW m \in Machine, NewcomerInv(m), m \notin touched, At(m, "collected"),
         m \notin forgotten, Wanted(pass[m].repo.plugins), ~Chosen(m) \/ Wanted(base[m])
  PROVE  Reconciled(m)[1].plugins = pass[m].repo.plugins
<1> DEFINE repo == pass[m].repo
<1>1. repo \in Tree /\ pass[m].current = NoFile
  BY DEF TypeOK, Pass, NewcomerInv
<1>2. [repo EXCEPT !.contested = TRUE].plugins = repo.plugins
  BY <1>1 DEF Tree
<1>3. ~Wanted(NoFile)
  BY DEF Wanted, NoFile, Absent
<1>4. Wanted(base[m]) => PendingInstall(m)
  BY DEF NewcomerInv
<1> DEFINE planned == Planned(NoFile, repo.plugins, base[m])
           action == Directed(first[m], planned, NoFile)
<1>5. /\ planned \in {"none", "DeleteRemote", "PullToLocal", "DeleteLocal", "MergeBoth"}
      /\ planned = "DeleteRemote" => base[m] = repo.plugins
  BY DEF Planned
<1> HIDE DEF planned
<1>6. action # "PushToRemote" /\ (action = "DeleteRemote" => PendingInstall(m))
  <2>1. CASE Chosen(m)
    BY <1>4, <1>5, <2>1 DEF Chosen, Directed
  <2>2. CASE ~Chosen(m)
    <3>1. action \in {planned, "none"}
      BY <1>5, <2>2 DEF Chosen, Directed
    <3> QED  BY <1>4, <1>5, <3>1
  <2> QED  BY <2>1, <2>2
<1>7. action # "PushToRemote" /\ (action = "DeleteRemote" => PendingInstall(m)) =>
        Reconciled(m)[1] \in {repo, [repo EXCEPT !.contested = TRUE]}
  BY <1>1 DEF Reconciled, planned
<1> QED  BY <1>2, <1>6, <1>7

LEMMA NewcomerPass ==
  ASSUME TypeOK, NEW m \in Machine, NewcomerInv(m), m \notin touched',
         Collect(m) \/ Reconcile(m) \/ ExecutorStep(m) \/ MarkApplied(m)
           \/ Finish(m) \/ Publish(m) \/ Save(m) \/ MarkFirstSync(m) \/ Crash(m)
  PROVE  NewcomerInv(m)'
<1> USE DEF store, window, past
<1> /\ pass \in [Machine -> Pass] /\ pass[m] \in Pass
    /\ pending \in [Machine -> Plan \cup {None}] /\ applied \in [Machine -> SUBSET Operation]
    /\ base \in [Machine -> Manifest] /\ installed \in [Machine -> Manifest]
  BY DEF TypeOK
<1>1. m \notin touched
  BY DEF Collect, Reconcile, ExecutorStep, Skip, Hold, Run, RunFails, BackupFails, MarkApplied,
     Finish, Publish, Save, MarkFirstSync, Crash
<1>2. /\ installed[m] = NoFile /\ pass[m].current = NoFile
      /\ \A op \in applied[m] \cup pass[m].running : op.kind = "dependencies"
      /\ Wanted(base[m]) /\ m \notin forgotten => PendingInstall(m)
  BY <1>1 DEF NewcomerInv
(* Steps after which no pass reconciles. *)
<1>3. ASSUME UNCHANGED <<installed[m], applied[m], base[m], pending[m], forgotten>>,
             pass'[m].current = NoFile, pass'[m].running = {},
             \/ pass'[m].step = "idle"
             \/ pass'[m].step = "collected" /\ pass'[m].repo = pass'[m].root
      PROVE  NewcomerInv(m)'
  BY <1>2, <1>3 DEF NewcomerInv, PendingInstall, Executing, Reconciling, At
<1>4. Idle.current = NoFile /\ Idle.running = {} /\ Idle.step = "idle"
  BY DEF Idle
<1>5. CASE Collect(m)
  <2>1. /\ pass'[m].running = {} /\ pass'[m].step = "collected" /\ pass'[m].current = NoFile
        /\ pass'[m].repo = pass'[m].root
    <3>1. CASE pass'[m] = [Idle EXCEPT !.step = "collected", !.root = origin, !.repo = origin,
                             !.current = installed[m]]
      BY <1>2, <3>1 DEF Idle
    <3>2. CASE pass'[m] = [Idle EXCEPT !.step = "collected", !.root = origin, !.repo = origin,
                             !.skipped = TRUE]
      BY <3>2 DEF Idle
    <3> QED  BY <1>5, <3>1, <3>2 DEF Collect
  <2> QED  BY <1>3, <1>5, <2>1 DEF Collect
<1>6. CASE Reconcile(m)
  <2> DEFINE result == Reconciled(m)[1]
             plan == NewPlan(result, NoFile)
  <2>1. result \in Tree
    BY ReconciledTypes
  <2>2. Wanted(result.plugins) => plan.all # {} /\ \E op \in plan.left : op.kind = "install"
    <3>1. plan.left = plan.all
      BY DEF NewPlan
    <3> QED  BY <2>1, <3>1, InstallPlanned
  <2>3. plan # None
    BY DEF NewPlan, None
  <2>4. At(m, "collected") /\ pass[m].repo = pass[m].root
    BY <1>1, <1>6 DEF Reconcile, NewcomerInv
  <2>5. m \notin forgotten' => m \notin forgotten /\ Wanted(pass[m].repo.plugins)
    BY <1>6 DEF Reconcile
  <2>6. m \notin forgotten' /\ (~Chosen(m) \/ Wanted(base[m])) =>
          result.plugins = pass[m].repo.plugins
    BY <1>1, <2>4, <2>5, NewcomerReconciles
  <2>7. /\ pass'[m].repo = result /\ pass'[m].plan = plan /\ pass'[m].todo = plan.all
        /\ pass'[m].step = IF plan.all = {} THEN "publish" ELSE "run"
        /\ pass'[m].current = NoFile /\ pass'[m].running = pass[m].running
        /\ pass'[m].root = pass[m].root
        /\ pending'[m] = IF plan.all = {} THEN None ELSE plan
        /\ UNCHANGED <<installed, base, applied, first>>
    BY <1>2, <1>6 DEF Reconcile, Pass
  <2>8. plan.left = plan.all
    BY DEF NewPlan
  <2> HIDE DEF plan, result
  <2>9. Wanted(result.plugins) => PendingInstall(m)'
    BY <2>2, <2>3, <2>7 DEF PendingInstall
  <2> QED  BY <1>2, <2>4, <2>5, <2>6, <2>7, <2>8, <2>9
           DEF NewcomerInv, Executing, Reconciling, At, Chosen
(* A step of Execute, which is not over. *)
<1>7. ASSUME Executing(m), Executing(m)',
             UNCHANGED <<installed[m], base[m], pending[m], forgotten, first>>,
             \A op \in applied'[m] \cup pass'[m].running : op.kind = "dependencies",
             pass'[m].plan = pass[m].plan, pass'[m].current = pass[m].current,
             pass'[m].repo = pass[m].repo, pass'[m].root = pass[m].root,
             \A op \in pass[m].todo \cup pass[m].left :
               op.kind # "dependencies" => op \in pass'[m].todo \cup pass'[m].left
      PROVE  NewcomerInv(m)'
  <2>1. /\ pending[m] = pass[m].plan
        /\ \A op \in pass[m].plan.left :
             op.kind # "dependencies" => op \in pass[m].todo \cup pass[m].left
        /\ Wanted(pass[m].repo.plugins) => PendingInstall(m)
        /\ m \notin forgotten /\ ~Chosen(m) => pass[m].repo.plugins = pass[m].root.plugins
    BY <1>1, <1>7 DEF NewcomerInv, Reconciling
  <2>2. PendingInstall(m)' <=> PendingInstall(m)
    BY <1>7 DEF PendingInstall
  <2> QED  BY <1>2, <1>7, <2>1, <2>2 DEF NewcomerInv, Executing, At, Chosen
<1>8. CASE ExecutorStep(m)
  <2>1. PICK op \in pass[m].todo :
          Skip(m, op) \/ Hold(m, op) \/ Run(m, op) \/ RunFails(m, op) \/ BackupFails(m, op)
    BY <1>8 DEF ExecutorStep
  <2>2. CASE BackupFails(m, op)
    BY <1>3, <1>4, <2>2 DEF BackupFails
  <2>3. CASE Skip(m, op)
    <3>1. op.kind = "dependencies"
      BY <1>2, <2>3 DEF Skip
    <3> QED  BY <1>2, <1>7, <2>3, <3>1 DEF Skip, Pass, Executing, At
  <2>4. CASE Hold(m, op)
    BY <1>2, <1>7, <2>4 DEF Hold, Pass, Executing, At
  <2>5. CASE RunFails(m, op)
    BY <1>2, <1>7, <2>5 DEF RunFails, Runnable, Pass, Executing, At
  <2>6. CASE Run(m, op)
    <3>1. op.kind = "dependencies"
      BY <1>1, <2>6 DEF Run
    <3>2. installed'[m] = installed[m]
      BY <2>6, <3>1 DEF Run, Effect
    <3> QED  BY <1>2, <1>7, <2>6, <3>1, <3>2 DEF Run, Runnable, Pass, Executing, At
  <2> QED  BY <2>1, <2>2, <2>3, <2>4, <2>5, <2>6
<1>9. CASE MarkApplied(m)
  BY <1>2, <1>7, <1>9 DEF MarkApplied, Pass, Executing, At
(* The end of Execute and what follows. *)
<1>10. ASSUME Reconciling(m), pass'[m].step \in {"publish", "save"},
              UNCHANGED <<installed[m], base[m], applied[m], forgotten, first>>,
              PendingInstall(m) => PendingInstall(m)',
              pass'[m].repo = pass[m].repo, pass'[m].root = pass[m].root,
              pass'[m].current = pass[m].current, pass'[m].running = pass[m].running
       PROVE  NewcomerInv(m)'
  <2>1. /\ Wanted(pass[m].repo.plugins) => PendingInstall(m)
        /\ m \notin forgotten /\ ~Chosen(m) => pass[m].repo.plugins = pass[m].root.plugins
    BY <1>1, <1>10 DEF NewcomerInv
  <2> QED  BY <1>2, <1>10, <2>1 DEF NewcomerInv, Executing, Reconciling, At, Chosen
<1>11. CASE Finish(m)
  <2> DEFINE plan == [pass[m].plan EXCEPT !.left = pass[m].left, !.errors = pass[m].errors]
  <2>1. plan.left = pass[m].left /\ plan # None
    BY DEF Pass, Plan, None
  <2>2. pass[m].left # {} => pending'[m] = plan
    BY <1>11, <2>1 DEF Finish
  <2> HIDE DEF plan
  <2>3. pass[m].todo = {} /\ At(m, "run")
    BY <1>11 DEF Finish
  <2>4. PendingInstall(m) => PendingInstall(m)'
    <3> SUFFICES ASSUME PendingInstall(m) PROVE PendingInstall(m)'
      OBVIOUS
    <3>1. PICK op \in pass[m].plan.left : op.kind \in {"install", "update"}
      BY <1>1, <2>3 DEF PendingInstall, NewcomerInv, Executing
    <3>2. op \in pass[m].left
      BY <1>1, <2>3, <3>1 DEF NewcomerInv, Executing
    <3> QED  BY <2>1, <2>2, <3>1, <3>2 DEF PendingInstall
  <2>5. /\ pass'[m].step = "publish" /\ pass'[m].repo = pass[m].repo
        /\ pass'[m].root = pass[m].root /\ pass'[m].current = pass[m].current
        /\ pass'[m].running = pass[m].running
        /\ UNCHANGED <<installed[m], base[m], applied[m], forgotten, first>>
    BY <1>11 DEF Finish, Pass
  <2> QED  BY <1>10, <2>3, <2>4, <2>5 DEF Reconciling, Executing
<1>12. CASE Publish(m)
  <2>1. CASE pass'[m] = Idle
    BY <1>3, <1>4, <1>12, <2>1 DEF Publish
  <2>2. CASE pass'[m] # Idle
    <3>1. pass'[m] = [pass[m] EXCEPT !.step = "save"]
      BY <1>12, <2>2 DEF Publish
    <3>2. /\ pass'[m].step = "save" /\ pass'[m].repo = pass[m].repo
          /\ pass'[m].root = pass[m].root /\ pass'[m].current = pass[m].current
          /\ pass'[m].running = pass[m].running
      BY <3>1 DEF Pass
    <3>3. /\ UNCHANGED <<installed[m], base[m], applied[m], pending[m], forgotten, first>>
          /\ At(m, "publish")
      BY <1>12 DEF Publish
    <3>4. PendingInstall(m)' <=> PendingInstall(m)
      BY <3>3 DEF PendingInstall
    <3> QED  BY <1>10, <3>2, <3>3, <3>4 DEF Reconciling
  <2> QED  BY <2>1, <2>2
<1>13. CASE Save(m)
  <2>1. /\ UNCHANGED <<installed[m], applied[m], pending[m]>> /\ At(m, "save")
        /\ base'[m] \in {NoFile, base[m], pass[m].repo.plugins}
        /\ m \notin forgotten' =>
             m \notin forgotten \/ base'[m] \in {NoFile, pass[m].repo.plugins}
    BY <1>13 DEF Save
  <2>2. PendingInstall(m)' <=> PendingInstall(m)
    BY <2>1 DEF PendingInstall
  <2>3. ~Wanted(NoFile) /\ (Wanted(pass[m].repo.plugins) => PendingInstall(m))
    BY <1>1, <2>1 DEF NewcomerInv, Reconciling, Wanted, NoFile, Absent
  <2>4. Wanted(base'[m]) /\ m \notin forgotten' => PendingInstall(m)'
    BY <1>2, <2>1, <2>2, <2>3
  <2>5. /\ pass'[m].current = NoFile /\ pass'[m].running \in {pass[m].running, {}}
        /\ pass'[m].step \in {"idle", "complete"}
    <3>1. pass'[m] = Idle \/ pass'[m] = [pass[m] EXCEPT !.step = "complete"]
      BY <1>13 DEF Save
    <3> QED  BY <1>2, <1>4, <3>1 DEF Pass
  <2> QED  BY <1>2, <2>1, <2>4, <2>5 DEF NewcomerInv, Executing, Reconciling, At
<1>14. CASE Crash(m) \/ MarkFirstSync(m)
  BY <1>3, <1>4, <1>14 DEF Crash, MarkFirstSync
<1> QED  BY <1>5, <1>6, <1>8, <1>9, <1>11, <1>12, <1>13, <1>14

LEMMA NewcomerOther ==
  ASSUME NEW m \in Machine, NewcomerInv(m), UNCHANGED Own(m),
         UNCHANGED <<installed[m], base[m], first[m]>>,
         m \in touched' <=> m \in touched, m \in forgotten' <=> m \in forgotten
  PROVE  NewcomerInv(m)'
BY DEF NewcomerInv, PendingInstall, Executing, Reconciling, At, Own, Chosen

(***************************************************************************)
(* A computer that never had a plugin takes none from the shared manifest: *)
(* among any number of computers and plugins, whoever approves, however    *)
(* its own installations fail or are cut short, unless a pass of it saw    *)
(* a manifest that enables no plugin and has not saved a base since, or    *)
(* its first synchronization is to use its own state (engine.go            *)
(* pendingInstallForAdapter, planning.go ApplyFirstSyncStrategy).          *)
(***************************************************************************)
THEOREM NewcomersTakeNothing == Spec => NewcomerTakesNothing
<1> DEFINE Inv == \A m \in Machine : NewcomerInv(m)
<1>1. Init => Inv
  <2> SUFFICES ASSUME Init, NEW m \in Machine PROVE NewcomerInv(m)
    OBVIOUS
  <2>1. /\ pass[m] = Idle /\ installed[m] = NoFile /\ base[m] = NoFile /\ applied[m] = {}
    BY DEF Init
  <2>2. ~Wanted(NoFile)
    BY DEF Wanted, NoFile, Absent
  <2> QED  BY <2>1, <2>2 DEF NewcomerInv, Idle, Executing, Reconciling, At
<1>2. ASSUME TypeOK, Inv, [Next]_vars PROVE Inv'
  <2>1. SUFFICES ASSUME NEW n \in Machine PROVE NewcomerInv(n)'
    OBVIOUS
  <2>2. CASE UNCHANGED vars
    BY <1>2, <2>2, NewcomerOther DEF vars, store, window, past, Own
  <2>3. CASE SkillChanges
    BY <1>2, <2>3, NewcomerOther DEF SkillChanges, store, window, Own
  <2>4. CASE Next /\ ~SkillChanges
    <3>1. PICK m \in Machine :
            \/ Collect(m) \/ Reconcile(m) \/ ExecutorStep(m) \/ MarkApplied(m)
            \/ Finish(m) \/ Publish(m) \/ Save(m) \/ MarkFirstSync(m) \/ Crash(m)
            \/ Refresh(m) \/ ApproveInstallPlan(m) \/ Approve(m)
            \/ \E p \in Plugin, d \in Declaration : UserChanges(m, p, d)
      BY <2>4 DEF Next
    <3>2. CASE n # m
      <4>1. /\ UNCHANGED <<installed[n], base[n], first[n]>>
            /\ n \in touched' <=> n \in touched
            /\ n \in forgotten' <=> n \in forgotten
        <5> USE DEF store, window, past
        <5>1. /\ installed \in [Machine -> Manifest] /\ base \in [Machine -> Manifest]
              /\ first \in [Machine -> Direction \cup {"done"}]
          BY <1>2 DEF TypeOK
        <5>2. CASE Collect(m) \/ Reconcile(m) \/ MarkApplied(m) \/ Finish(m) \/ Publish(m)
                    \/ Save(m) \/ MarkFirstSync(m) \/ Crash(m)
          BY <3>2, <5>1, <5>2 DEF Collect, Reconcile, MarkApplied, Finish, Publish, Save,
             MarkFirstSync, Crash
        <5>3. CASE ExecutorStep(m)
          BY <3>2, <5>1, <5>3 DEF ExecutorStep, Skip, Hold, Run, RunFails, BackupFails
        <5>4. CASE Refresh(m) \/ ApproveInstallPlan(m) \/ Approve(m)
          BY <5>4 DEF Refresh, ApproveInstallPlan, Approve
        <5>5. CASE \E p \in Plugin, d \in Declaration : UserChanges(m, p, d)
          BY <3>2, <5>1, <5>5 DEF UserChanges
        <5> QED  BY <3>1, <5>2, <5>3, <5>4, <5>5
      <4> QED  BY <1>2, <3>1, <3>2, <4>1, OtherUnchanged, NewcomerOther
    <3>3. CASE n = m
      <4>1. CASE \E p \in Plugin, d \in Declaration : UserChanges(m, p, d)
        BY <3>3, <4>1 DEF UserChanges, NewcomerInv
      <4>2. CASE Refresh(m) \/ ApproveInstallPlan(m) \/ Approve(m)
        BY <1>2, <3>3, <4>2 DEF Refresh, ApproveInstallPlan, Approve, NewcomerInv, PendingInstall,
           Executing, Reconciling, At, Chosen, store, window, past
      <4>3. CASE n \in touched'
        BY <4>3 DEF NewcomerInv
      <4> QED  BY <1>2, <3>1, <3>3, <4>1, <4>2, <4>3, NewcomerPass
    <3> QED  BY <3>2, <3>3
  <2> QED  BY <1>2, <2>2, <2>3, <2>4
<1>3. TypeOK /\ Inv =>
        \A m \in Machine :
          Publish(m) /\ m \notin touched \cup forgotten /\ ~Chosen(m) =>
            \A p \in Plugin : origin.plugins[p] # Absent => origin'.plugins[p] # Absent
  <2> SUFFICES ASSUME Inv, NEW m \in Machine, Publish(m), m \notin touched \cup forgotten,
                      ~Chosen(m)
               PROVE  origin'.plugins = origin.plugins
    OBVIOUS
  <2>1. pass[m].repo.plugins = pass[m].root.plugins
    BY DEF NewcomerInv, Reconciling, Publish
  <2> QED  BY <2>1 DEF Publish
<1> QED  BY <1>1, <1>2, <1>3, TypeCorrect, PTL DEF Spec, NewcomerTakesNothing
=============================================================================
