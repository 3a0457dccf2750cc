---------------------- MODULE ConflictResolution_proofs ----------------------
(***************************************************************************)
(* Theorems about the batch of conflict answers, for every set of          *)
(* conflicts, files and choices and every number of faults and crashes.    *)
(***************************************************************************)
EXTENDS ConflictResolution, TLAPS, SequenceTheorems, WellFoundedInduction

-----------------------------------------------------------------------------
(***************************************************************************)
(* The inductive invariants.                                               *)
(***************************************************************************)
Selecting == {"journal", "write"}
Removing == {"remove-local", "remove-repo"}
Applying == Selecting \cup Removing \cup {"rollback", "settle"}
Between == {"pull", "mirror", "batch", "engine", "open", "commit"}

AfterCommit == <<"failed", "view", "journal">>
Clearing == {AfterSettling, AfterCommit, <<"view", "journal">>, <<"journal">>, <<>>}

(* What a pass carries from one step to the next.  The transaction lock    *)
(* keeps it and the resolution of a single conflict apart.                 *)
ShapeInv ==
  /\ pass.step \in Selecting \cup Removing => pass.todo \subseteq DOMAIN pass.answers
  /\ pass.step \in {"write", "remove-repo"} => pass.todo # {}
  /\ At("rollback") => pass.next \in {"idle", "pull", "recover"}
  /\ At("settle") => pass.next \in {"idle", "pull"}
  /\ At("clear") => pass.next \in {"idle", "pull", "engine"} /\ pass.clear \in Clearing
  /\ desktop.step # "idle" => pass.step \in {"idle", "pull", "mirror", "batch", "engine", "commit"}

(* The batch in memory is the one in pending.json until that is removed.   *)
BatchInv ==
  /\ pass.step \in Applying \cup {"mark"} => Queued /\ pass.answers = pending.answers
  /\ At("mark") => view /\ pending.status = "queued"
  /\ pass.step \in Applying => pending.status = "applying"
  /\ pass.step \in Between /\ Queued => pending.status = "queued"
  /\ At("clear") /\ Queued =>
       /\ pending.answers = pass.answers
       /\ failed = pass.answers \/ ~before.recorded
       /\ pass.clear # AfterCommit
       /\ pass.next = "idle" \/ pass.clear = AfterSettling
  /\ pass.step \in Removing =>
       (DOMAIN pass.answers \ pass.todo) \cap (mirror \cup repo) = {}
  /\ At("remove-repo") => Current \notin mirror
  /\ ViewBehindApplying

(* The first entry for a file holds what the batch found in it.            *)
Mentions(entries, p) == \E i \in 1..Len(entries) : entries[i].path = p
FirstEntries(entries, found) ==
  \A i \in 1..Len(entries) :
    (\A j \in 1..(i - 1) : entries[j].path # entries[i].path) =>
      entries[i].file = found[entries[i].path]

JournalInv ==
  /\ pass.step \in {"idle", "pull", "mirror", "batch", "mark"} => pass.entries = <<>>
  /\ before.journaled => FirstEntries(journal.entries, before.files)
  /\ pass.step \in Selecting \cup Removing =>
       /\ FirstEntries(pass.entries, before.files)
       /\ \A p \in Path : ~Mentions(pass.entries, p) => canonical[p] = before.files[p]
       /\ before.journaled => journal.entries = pass.entries
  /\ At("write") => Mentions(pass.entries, PathOf[Current])
  /\ At("rollback") /\ before.journaled /\ before.intact /\ pass.next # "recover" =>
       /\ FirstEntries(pass.entries, before.files)
       /\ \A p \in Path : Mentions(journal.entries, p) =>
            Mentions(pass.entries, p) \/ canonical[p] = before.files[p]
  /\ RollbackRestores

(* What a commit would drop has been answered.                             *)
Answered(files, p) == \/ files[p] = Elsewhere
                      \/ files[p][1] \in {d \in Conflict : PathOf[d] = p}

DroppedAnswered == \A c \in committed.bundles \ repo : Answered(canonical, PathOf[c])

AnswerInv ==
  /\ desktop.step # "idle" =>
       desktop.conflict \in Conflict /\ Answered(canonical, PathOf[desktop.conflict])
  /\ pass.step \in Selecting \cup Removing \cup {"mirror", "batch", "mark", "engine", "open"} =>
       DroppedAnswered
  /\ At("clear") /\ pass.next = "engine" => DroppedAnswered
  /\ pass.step \in Selecting =>
       \A c \in DOMAIN pass.answers \ pass.todo : Answered(canonical, PathOf[c])
  /\ pass.step \in Removing => \A c \in DOMAIN pass.answers : Answered(canonical, PathOf[c])

-----------------------------------------------------------------------------
(***************************************************************************)
(* Types.                                                                  *)
(***************************************************************************)
(* Any set of conflicts has a first one. *)
LEMMA FirstIn ==
  ASSUME NEW S \in SUBSET Conflict, S # {}
  PROVE  First(S) \in S
<1>1. S \subseteq Nat
  BY ResolutionAssumption
<1> DEFINE less == OpToRel(<, Nat)
<1>2. \A c, d \in Nat : d < c => <<d, c>> \in less
  BY DEF OpToRel
<1>3. IsWellFoundedOn(less, Nat)
  BY NatLessThanWellFounded
<1> HIDE DEF less
<1>4. PICK c \in S : \A d \in S : ~(<<d, c>> \in less)
  BY <1>1, <1>3, WFMin
<1>5. ASSUME NEW d \in S PROVE c <= d
  <2>1. c \in Nat /\ d \in Nat
    BY <1>1
  <2>2. ~(d < c)
    BY <2>1, <1>2, <1>4
  <2> QED  BY <2>1, <2>2
<1> QED  BY <1>5 DEF First

LEMMA EmptyAnswers == NoAnswers \in Answers /\ DOMAIN NoAnswers = {}
<1>1. NoAnswers \in [1..0 -> Choice] /\ DOMAIN NoAnswers = 1..0
  BY EmptySeq, LenProperties DEF NoAnswers
<1>2. 1..0 = {}
  OBVIOUS
<1> QED  BY <1>1, <1>2 DEF Answers

LEMMA AnswersDomain ==
  ASSUME NEW answers \in Answers
  PROVE  /\ DOMAIN answers \subseteq Conflict
         /\ \A c \in DOMAIN answers : answers[c] \in Choice
BY DEF Answers

LEMMA EmptyTypes ==
  /\ NoPass \in Pass /\ NotResolving \in Resolving
  /\ NoPending \in [status : Status, answers : Answers]
  /\ NoJournal \in [answers : Answers, entries : Seq(Entry)]
<1>1. <<>> \in Seq(Entry) /\ <<>> \in Seq(Metadata)
  BY EmptySeq
<1> QED  BY <1>1, EmptyAnswers DEF NoPass, Pass, Step, NotResolving, Resolving, NoPending,
           Status, NoJournal


(* The conflict a step is about is one of those it still has to do. *)
LEMMA CurrentTypes ==
  ASSUME TypeOK, Remaining
  PROVE  /\ Current \in pass.todo /\ Current \in Conflict
         /\ PathOf[Current] \in Path /\ CurrentEntry \in Entry
<1>1. pass.todo \in SUBSET Conflict /\ pass.todo # {} /\ canonical \in [Path -> File]
  BY DEF TypeOK, Pass, Remaining
<1>2. Current \in pass.todo /\ Current \in Conflict
  BY <1>1, FirstIn DEF Current
<1>3. PathOf[Current] \in Path
  BY <1>2, ResolutionAssumption
<1> QED  BY <1>1, <1>2, <1>3 DEF CurrentEntry, Entry

LEMMA TypeInit == Init => TypeOK /\ ShapeInv
<1> SUFFICES ASSUME Init PROVE TypeOK /\ ShapeInv
  OBVIOUS
<1>1. Initial \in [Path -> File]
  BY ResolutionAssumption DEF File
<1>2. TypeOK
  BY <1>1, EmptyTypes, EmptyAnswers DEF Init, TypeOK, Bounded
<1>3. ShapeInv
  BY DEF Init, ShapeInv, NoPass, NotResolving, At, Selecting, Removing
<1> QED  BY <1>2, <1>3

LEMMA SpendType ==
  ASSUME count \in [Bounded -> Nat], NEW kind \in Bounded, Spend(kind)
  PROVE  count' \in [Bounded -> Nat]
BY DEF Spend

(* An answer takes its place in a file. *)
LEMMA WriteType ==
  ASSUME canonical \in [Path -> File], NEW p \in Path, NEW file \in File,
         canonical' = [canonical EXCEPT ![p] = file]
  PROVE  canonical' \in [Path -> File]
OBVIOUS

LEMMA TypeDesktop ==
  ASSUME TypeOK, ShapeInv, DesktopStep \/ Crash
  PROVE  TypeOK' /\ ShapeInv'
<1> USE SpendType, EmptyTypes, EmptyAnswers DEF TypeOK, Bounded, clone, metadata
<1>1. ASSUME NEW answers \in [mirror -> Choice], QueueBatch(answers) PROVE TypeOK' /\ ShapeInv'
  <2>1. answers \in Answers
    BY DEF Answers
  <2>2. [status |-> "queued", answers |-> answers] \in [status : Status, answers : Answers]
    BY <2>1 DEF Status
  <2>3. count' \in [Bounded -> Nat]
    BY <1>1 DEF QueueBatch
  <2>4. TypeOK'
    BY <1>1, <2>2, <2>3 DEF QueueBatch
  <2>5. ShapeInv'
    BY <1>1 DEF QueueBatch, ShapeInv, At
  <2> QED  BY <2>4, <2>5
<1>2. ASSUME NEW c \in Conflict, NEW choice \in Choice, ResolveOne(c, choice)
      PROVE  TypeOK' /\ ShapeInv'
  <2>1. PathOf[c] \in Path /\ <<c, choice>> \in File
    BY ResolutionAssumption DEF File
  <2>2. canonical' \in [Path -> File]
    BY <1>2, <2>1, WriteType DEF ResolveOne
  <2>3. desktop' \in Resolving /\ desktop'.step = "remove-local"
    BY <1>2 DEF ResolveOne, Resolving
  <2>4. count' \in [Bounded -> Nat]
    BY <1>2 DEF ResolveOne
  <2>5. TypeOK'
    BY <1>2, <2>2, <2>3, <2>4 DEF ResolveOne
  <2>6. ShapeInv'
    BY <1>2 DEF ResolveOne, ShapeInv, At, Locked
  <2> QED  BY <2>5, <2>6
<1>3. CASE ResolveRemovesLocal \/ ResolveRemovesRepo
  <2>1. desktop' \in Resolving
    BY <1>3 DEF ResolveRemovesLocal, ResolveRemovesRepo, Resolving
  <2>2. TypeOK'
    BY <1>3, <2>1 DEF ResolveRemovesLocal, ResolveRemovesRepo
  <2>3. ShapeInv'
    BY <1>3 DEF ResolveRemovesLocal, ResolveRemovesRepo, ShapeInv, At, NotResolving
  <2> QED  BY <2>2, <2>3
<1>4. CASE Crash
  <2>1. count' \in [Bounded -> Nat]
    BY <1>4 DEF Crash
  <2>2. TypeOK'
    BY <1>4, <2>1 DEF Crash, Abort
  <2>3. ShapeInv'
    BY <1>4 DEF Crash, Abort, ShapeInv, At, NotResolving, NoPass, Selecting, Removing
  <2> QED  BY <2>2, <2>3
<1> QED  BY <1>1, <1>2, <1>3, <1>4 DEF DesktopStep

(* A pass goes on to another step and keeps the rest. *)
LEMMA GoToType ==
  ASSUME pass \in Pass, NEW s \in Step, GoTo(s)
  PROVE  /\ pass' \in Pass /\ pass'.step = s
         /\ pass'.next = pass.next /\ pass'.answers = pass.answers /\ pass'.todo = pass.todo
         /\ pass'.entries = pass.entries /\ pass'.clear = pass.clear
BY DEF GoTo, Pass

LEMMA AbortType == Abort => pass' \in Pass /\ pass'.step = "idle"
<1>1. NoPass.step = "idle"
  BY DEF NoPass
<1> QED  BY <1>1, EmptyTypes DEF Abort

LEMMA TypePull ==
  ASSUME TypeOK, ShapeInv, PullStep
  PROVE  TypeOK' /\ ShapeInv'
<1> USE DEF Bounded, clone, metadata
<1>1. CASE StartPass \/ PullNothing \/ PullRefused \/ Mirror
  <2>1. pass' \in Pass /\ pass'.step \in {"pull", "mirror", "batch", "idle"}
    <3>1. pass \in Pass /\ {"pull", "mirror", "batch"} \subseteq Step
      BY DEF TypeOK, Step
    <3> QED  BY <1>1, <3>1, GoToType, AbortType DEF StartPass, PullNothing, PullRefused, Mirror
  <2>2. TypeOK'
    BY <1>1, <2>1 DEF StartPass, PullNothing, PullRefused, Mirror, TypeOK
  <2>3. ShapeInv'
    BY <1>1, <2>1 DEF StartPass, PullNothing, PullRefused, Mirror, ShapeInv, At, Selecting, Removing
  <2> QED  BY <2>2, <2>3
<1>2. CASE Recover \/ RecoverWithoutJournal
  <2>1. /\ pass' \in Pass
        /\ \/ pass'.step = "rollback" /\ pass'.next = "pull"
           \/ pass'.step = "settle" /\ pass'.next = "idle"
    <3>1. pass \in Pass /\ pending.answers \in Answers /\ journal.entries \in Seq(Entry)
      BY DEF TypeOK
    <3> QED  BY <1>2, <3>1 DEF Recover, RecoverWithoutJournal, Pass, Step
  <2>2. TypeOK'
    BY <1>2, <2>1 DEF Recover, RecoverWithoutJournal, TypeOK
  <2>3. ShapeInv'
    BY <1>2, <2>1 DEF Recover, RecoverWithoutJournal, ShapeInv, At, Selecting, Removing
  <2> QED  BY <2>2, <2>3
<1>3. ASSUME NEW c \in Conflict, PullAnswer(c) \/ PullConflict(c)
      PROVE  TypeOK' /\ ShapeInv'
  <2>1. pass' \in Pass /\ pass'.step = "mirror"
    <3>1. pass \in Pass /\ "mirror" \in Step
      BY DEF TypeOK, Step
    <3> QED  BY <1>3, <3>1, GoToType DEF PullAnswer, PullConflict
  <2>2. count' \in [Bounded -> Nat]
    BY <1>3, SpendType DEF PullAnswer, PullConflict, TypeOK
  <2>3. PathOf[c] \in Path /\ Elsewhere \in File
    BY ResolutionAssumption DEF File
  <2>4. canonical' \in [Path -> File]
    BY <1>3, <2>3, WriteType DEF PullAnswer, PullConflict, TypeOK
  <2>5. committed' \in [files : [Path -> File], bundles : SUBSET Conflict]
    BY <1>3, <2>3 DEF PullAnswer, PullConflict, TypeOK
  <2>6. TypeOK'
    BY <1>3, <2>1, <2>2, <2>4, <2>5 DEF PullAnswer, PullConflict, TypeOK
  <2>7. ShapeInv'
    BY <1>3, <2>1 DEF PullAnswer, PullConflict, ShapeInv, At, Selecting, Removing
  <2> QED  BY <2>6, <2>7
<1> QED  BY <1>1, <1>2, <1>3 DEF PullStep

LEMMA TypeEngine ==
  ASSUME TypeOK, ShapeInv, EngineStep
  PROVE  TypeOK' /\ ShapeInv'
<1> USE DEF Bounded, clone, metadata
<1>1. ASSUME NEW c \in Conflict, OpenLocal(c) PROVE TypeOK' /\ ShapeInv'
  <2>1. pass' \in Pass /\ pass'.step = "open"
    BY <1>1 DEF OpenLocal, TypeOK, Pass, Step
  <2>2. TypeOK'
    BY <1>1, <2>1 DEF OpenLocal, TypeOK
  <2>3. ShapeInv'
    BY <1>1, <2>1 DEF OpenLocal, ShapeInv, At, Selecting, Removing, Locked
  <2> QED  BY <2>2, <2>3
<1>2. CASE OpenRepo \/ OpenFails
  <2>1. pass' \in Pass /\ pass'.step = "engine"
    BY <1>2 DEF OpenRepo, OpenFails, TypeOK, Pass, Step
  <2>2. count' \in [Bounded -> Nat]
    BY <1>2, SpendType DEF OpenRepo, OpenFails, TypeOK
  <2>3. pass.todo \subseteq Conflict
    BY DEF TypeOK, Pass
  <2>4. TypeOK'
    BY <1>2, <2>1, <2>2, <2>3 DEF OpenRepo, OpenFails, TypeOK
  <2>5. ShapeInv'
    BY <1>2, <2>1 DEF OpenRepo, OpenFails, ShapeInv, At, Selecting, Removing
  <2> QED  BY <2>4, <2>5
<1>3. CASE Commit
  <2>1. pass' \in Pass /\ pass'.step = "idle"
    BY <1>3, AbortType DEF Commit
  <2>2. TypeOK'
    BY <1>3, <2>1 DEF Commit, TypeOK
  <2>3. ShapeInv'
    BY <1>3, <2>1 DEF Commit, ShapeInv, At, Selecting, Removing
  <2> QED  BY <2>2, <2>3
<1> QED  BY <1>1, <1>2, <1>3 DEF EngineStep

LEMMA TypeSelecting ==
  ASSUME TypeOK, ShapeInv,
         SkipBatch \/ PublishView \/ MarkApplying \/ PassFails
           \/ Journal \/ WriteAnswer \/ SelectionFails \/ AllWritten
  PROVE  TypeOK' /\ ShapeInv'
<1> USE DEF Bounded, clone, metadata
<1>1. CASE SkipBatch \/ PassFails
  <2>1. pass' \in Pass /\ pass'.step \in {"engine", "idle"}
    <3>1. pass \in Pass /\ "engine" \in Step
      BY DEF TypeOK, Step
    <3> QED  BY <1>1, <3>1, GoToType, AbortType DEF SkipBatch, PassFails
  <2>2. count' \in [Bounded -> Nat]
    BY <1>1, SpendType DEF SkipBatch, PassFails, TypeOK
  <2>3. TypeOK'
    BY <1>1, <2>1, <2>2 DEF SkipBatch, PassFails, TypeOK
  <2>4. ShapeInv'
    BY <1>1, <2>1 DEF SkipBatch, PassFails, ShapeInv, At, Selecting, Removing
  <2> QED  BY <2>3, <2>4
<1>2. CASE PublishView
  <2>1. pass' \in Pass /\ pass'.step = "mark"
    BY <1>2 DEF PublishView, TypeOK, Pass, Step
  <2>2. TypeOK'
    BY <1>2, <2>1 DEF PublishView, TypeOK
  <2>3. ShapeInv'
    BY <1>2, <2>1 DEF PublishView, Locked, ShapeInv, At, Selecting, Removing
  <2> QED  BY <2>2, <2>3
<1>3. CASE MarkApplying
  <2>1. pass' \in Pass /\ pass'.step = "journal" /\ pass'.todo = DOMAIN pass'.answers
    BY <1>3, AnswersDomain DEF MarkApplying, TypeOK, Pass, Step
  <2>2. TypeOK'
    BY <1>3, <2>1 DEF MarkApplying, TypeOK, Status
  <2>3. ShapeInv'
    BY <1>3, <2>1 DEF MarkApplying, ShapeInv, At, Selecting, Removing
  <2> QED  BY <2>2, <2>3
<1>4. CASE Journal
  <2> DEFINE entries == Append(pass.entries, CurrentEntry)
  <2>1. entries \in Seq(Entry)
    BY <1>4, CurrentTypes DEF Journal, TypeOK, Pass
  <2> HIDE DEF entries
  <2>2. /\ pass' = [pass EXCEPT !.step = "write", !.entries = entries]
        /\ journal' = [answers |-> pass.answers, entries |-> entries]
        /\ before' = [before EXCEPT !.journaled = TRUE]
        /\ UNCHANGED <<clone, mirror, pending, failed, view, desktop, count, opened>>
        /\ At("journal") /\ Remaining
    BY <1>4 DEF Journal, entries
  <2>3. pass' \in Pass /\ pass'.step = "write" /\ pass'.todo = pass.todo /\ pass'.answers = pass.answers
    BY <2>1, <2>2 DEF TypeOK, Pass, Step
  <2>4. TypeOK'
    BY <2>1, <2>2, <2>3 DEF TypeOK, Pass
  <2>5. ShapeInv'
    BY <2>2, <2>3 DEF ShapeInv, At, Selecting, Removing, Remaining
  <2> QED  BY <2>4, <2>5
<1>5. CASE WriteAnswer
  <2>1. pass.todo \subseteq DOMAIN pass.answers /\ Remaining /\ pass.answers \in Answers
    BY <1>5 DEF WriteAnswer, ShapeInv, At, Selecting, Remaining, TypeOK, Pass
  <2>2. PathOf[Current] \in Path /\ <<Current, pass.answers[Current]>> \in File
    BY <2>1, CurrentTypes, AnswersDomain DEF File
  <2>3. canonical' \in [Path -> File]
    BY <1>5, <2>2, WriteType DEF WriteAnswer, TypeOK
  <2>4. pass' \in Pass /\ pass'.step = "journal" /\ pass'.todo \subseteq DOMAIN pass'.answers
    BY <1>5, <2>1 DEF WriteAnswer, TypeOK, Pass, Step
  <2>5. TypeOK'
    BY <1>5, <2>3, <2>4 DEF WriteAnswer, TypeOK
  <2>6. ShapeInv'
    BY <1>5, <2>4 DEF WriteAnswer, ShapeInv, At, Selecting, Removing
  <2> QED  BY <2>5, <2>6
<1>6. CASE SelectionFails
  <2>1. pass' \in Pass /\ pass'.step = "rollback" /\ pass'.next = "idle"
    <3>1. PICK entries \in Seq(Entry) : Fail(entries)
      <4>1. pass.entries \in Seq(Entry)
        BY DEF TypeOK, Pass
      <4>2. Remaining => Append(pass.entries, CurrentEntry) \in Seq(Entry)
        BY <4>1, CurrentTypes
      <4>3. \/ Fail(pass.entries)
            \/ Remaining /\ Fail(Append(pass.entries, CurrentEntry))
        BY <1>6 DEF SelectionFails
      <4> QED  BY <4>1, <4>2, <4>3
    <3> QED  BY <3>1 DEF Fail, TypeOK, Pass, Step
  <2>2. count' \in [Bounded -> Nat]
    BY <1>6, SpendType DEF SelectionFails, TypeOK
  <2>3. TypeOK'
    BY <1>6, <2>1, <2>2 DEF SelectionFails, TypeOK
  <2>4. ShapeInv'
    BY <1>6, <2>1 DEF SelectionFails, ShapeInv, At, Selecting, Removing
  <2> QED  BY <2>3, <2>4
<1>7. CASE AllWritten
  <2>1. pass' \in Pass /\ pass'.step = "remove-local" /\ pass'.todo = DOMAIN pass'.answers
    BY <1>7, AnswersDomain DEF AllWritten, TypeOK, Pass, Step
  <2>2. TypeOK'
    BY <1>7, <2>1 DEF AllWritten, TypeOK
  <2>3. ShapeInv'
    BY <1>7, <2>1 DEF AllWritten, ShapeInv, At, Selecting, Removing
  <2> QED  BY <2>2, <2>3
<1> QED  BY <1>1, <1>2, <1>3, <1>4, <1>5, <1>6, <1>7

LEMMA TypeRemoving ==
  ASSUME TypeOK, ShapeInv, RemoveLocal \/ RemoveRepo \/ RemoveFails \/ CommitBatch
  PROVE  TypeOK' /\ ShapeInv'
<1> USE DEF Bounded, clone, metadata
<1>1. CASE RemoveLocal
  <2>1. pass' \in Pass /\ pass'.step = "remove-repo" /\ pass'.todo = pass.todo
        /\ pass'.answers = pass.answers
    <3>1. pass \in Pass /\ "remove-repo" \in Step
      BY DEF TypeOK, Step
    <3> QED  BY <1>1, <3>1, GoToType DEF RemoveLocal
  <2>2. TypeOK'
    BY <1>1, <2>1 DEF RemoveLocal, TypeOK
  <2>3. ShapeInv'
    BY <1>1, <2>1 DEF RemoveLocal, Remaining, ShapeInv, At, Selecting, Removing
  <2> QED  BY <2>2, <2>3
<1>2. CASE RemoveRepo
  <2>1. /\ pass' \in Pass /\ pass'.step = "remove-local"
        /\ pass'.todo \subseteq pass.todo /\ pass'.answers = pass.answers
    BY <1>2 DEF RemoveRepo, TypeOK, Pass, Step
  <2>2. TypeOK'
    BY <1>2, <2>1 DEF RemoveRepo, TypeOK
  <2>3. ShapeInv'
    BY <1>2, <2>1 DEF RemoveRepo, ShapeInv, At, Selecting, Removing
  <2> QED  BY <2>2, <2>3
<1>3. CASE RemoveFails
  <2>1. pass' \in Pass /\ pass'.step = "rollback" /\ pass'.next = "idle"
    BY <1>3 DEF RemoveFails, Fail, TypeOK, Pass, Step
  <2>2. count' \in [Bounded -> Nat]
    BY <1>3, SpendType DEF RemoveFails, TypeOK
  <2>3. TypeOK'
    BY <1>3, <2>1, <2>2 DEF RemoveFails, TypeOK
  <2>4. ShapeInv'
    BY <1>3, <2>1 DEF RemoveFails, ShapeInv, At, Selecting, Removing
  <2> QED  BY <2>3, <2>4
<1>4. CASE CommitBatch
  <2>1. AfterCommit \in Seq(Metadata)
    BY DEF AfterCommit, Metadata
  <2>2. /\ pass' \in Pass /\ pass'.step = "clear" /\ pass'.next = "engine"
        /\ pass'.clear = AfterCommit
    BY <1>4, <2>1 DEF CommitBatch, AfterCommit, TypeOK, Pass, Step
  <2>3. TypeOK'
    BY <1>4, <2>2, EmptyTypes DEF CommitBatch, TypeOK
  <2>4. ShapeInv'
    BY <1>4, <2>2 DEF CommitBatch, ShapeInv, At, Selecting, Removing, Clearing
  <2> QED  BY <2>3, <2>4
<1> QED  BY <1>1, <1>2, <1>3, <1>4

(* What is left to clear after the first file is again one of the lists.   *)
LEMMA ClearingTail ==
  ASSUME NEW list \in Clearing, list # <<>>
  PROVE  /\ Tail(list) \in Clearing /\ Tail(list) # AfterCommit /\ Tail(list) # AfterSettling
         /\ (Head(list) = "pending") <=> (list = AfterSettling)
         /\ (Head(list) = "failed") <=> (list = AfterCommit)
<1>1. /\ Len(AfterSettling) = 3 /\ Len(AfterCommit) = 3
      /\ AfterSettling[1] = "pending" /\ AfterCommit[1] = "failed"
      /\ AfterSettling # AfterCommit
  BY DEF AfterSettling, AfterCommit
<1>2. CASE list = AfterSettling
  <2>1. Head(list) = "pending" /\ Tail(list) = <<"view", "journal">> /\ Len(Tail(list)) = 2
    BY <1>2 DEF AfterSettling
  <2>2. Tail(list) \in Clearing
    BY <2>1 DEF Clearing
  <2>3. Tail(list) # AfterCommit /\ Tail(list) # AfterSettling
    <3> DEFINE rest == Tail(list)
    <3>1. Len(rest) = 2
      BY <2>1
    <3> HIDE DEF rest
    <3>2. rest # AfterCommit /\ rest # AfterSettling
      BY <1>1, <3>1
    <3> QED  BY <3>2 DEF rest
  <2> QED  BY <1>1, <1>2, <2>1, <2>2, <2>3
<1>3. CASE list = AfterCommit
  <2>1. Head(list) = "failed" /\ Tail(list) = <<"view", "journal">> /\ Len(Tail(list)) = 2
    BY <1>3 DEF AfterCommit
  <2>2. Tail(list) \in Clearing
    BY <2>1 DEF Clearing
  <2>3. Tail(list) # AfterCommit /\ Tail(list) # AfterSettling
    <3> DEFINE rest == Tail(list)
    <3>1. Len(rest) = 2
      BY <2>1
    <3> HIDE DEF rest
    <3>2. rest # AfterCommit /\ rest # AfterSettling
      BY <1>1, <3>1
    <3> QED  BY <3>2 DEF rest
  <2> QED  BY <1>1, <1>3, <2>1, <2>2, <2>3
<1>4. CASE list = <<"view", "journal">>
  <2>1. Head(list) = "view" /\ Tail(list) = <<"journal">> /\ Len(list) = 2 /\ Len(Tail(list)) = 1
    BY <1>4
  <2> QED  BY <1>1, <2>1 DEF Clearing
<1>5. CASE list = <<"journal">>
  <2>1. Head(list) = "journal" /\ Tail(list) = <<>> /\ Len(list) = 1 /\ Len(Tail(list)) = 0
    BY <1>5
  <2> QED  BY <1>1, <2>1 DEF Clearing
<1> QED  BY <1>2, <1>3, <1>4, <1>5 DEF Clearing

LEMMA TypeUndoing ==
  ASSUME TypeOK, ShapeInv,
         Rollback \/ RollbackFails \/ RolledBack \/ Settle \/ SettleFails
           \/ ClearOne \/ ClearFails \/ Cleared
  PROVE  TypeOK' /\ ShapeInv'
<1> USE DEF Bounded, clone, metadata
<1>1. CASE Rollback \/ RollbackFails
  <2>1. /\ pass.entries \in Seq(Entry) /\ pass.entries # <<>>
        /\ pass.next \in {"idle", "pull", "recover"}
    BY <1>1 DEF Rollback, RollbackFails, TypeOK, Pass, ShapeInv, At
  <2>2. /\ Len(pass.entries) \in 1..Len(pass.entries)
        /\ SubSeq(pass.entries, 1, Len(pass.entries) - 1) \in Seq(Entry)
    BY <2>1
  <2>3. pass.entries[Len(pass.entries)] \in Entry
    BY <2>1, <2>2, ElementOfSeq
  <2>4. /\ pass' \in Pass /\ pass'.step = "rollback"
        /\ pass'.next \in {"idle", "pull", "recover"}
    BY <1>1, <2>1, <2>2 DEF Rollback, RollbackFails, At, TypeOK, Pass
  <2>5. canonical' \in [Path -> File]
    BY <1>1, <2>3 DEF Rollback, RollbackFails, Entry, TypeOK
  <2>6. count' \in [Bounded -> Nat]
    BY <1>1, SpendType DEF Rollback, RollbackFails, TypeOK
  <2>7. TypeOK'
    BY <1>1, <2>4, <2>5, <2>6 DEF Rollback, RollbackFails, TypeOK
  <2>8. ShapeInv'
    BY <1>1, <2>4 DEF Rollback, RollbackFails, ShapeInv, At, Selecting, Removing
  <2> QED  BY <2>7, <2>8
<1>2. CASE RolledBack
  <2>1. pass' \in Pass /\ \/ pass'.step = "idle"
                          \/ pass'.step = "settle" /\ pass'.next \in {"idle", "pull"}
    <3>1. pass \in Pass /\ "settle" \in Step /\ pass.next \in {"idle", "pull", "recover"}
      BY <1>2 DEF TypeOK, Step, RolledBack, ShapeInv, At
    <3> QED  BY <1>2, <3>1, GoToType, AbortType DEF RolledBack
  <2>2. TypeOK'
    BY <1>2, <2>1 DEF RolledBack, TypeOK
  <2>3. ShapeInv'
    BY <1>2, <2>1 DEF RolledBack, ShapeInv, At, Selecting, Removing
  <2> QED  BY <2>2, <2>3
<1>3. CASE Settle \/ SettleFails
  <2>1. AfterSettling \in Seq(Metadata)
    BY DEF AfterSettling, Metadata
  <2>2. /\ pass' \in Pass
        /\ \/ pass'.step = "idle"
           \/ /\ pass'.step = "clear" /\ pass'.clear = AfterSettling
              /\ pass'.next \in {"idle", "pull"}
    BY <1>3, <2>1, AbortType DEF Settle, SettleFails, TypeOK, Pass, Step, ShapeInv, At
  <2>3. count' \in [Bounded -> Nat]
    BY <1>3, SpendType DEF Settle, SettleFails, TypeOK
  <2>4. failed' \in Answers
    BY <1>3 DEF Settle, SettleFails, TypeOK, Pass
  <2>5. TypeOK'
    BY <1>3, <2>2, <2>3, <2>4 DEF Settle, SettleFails, TypeOK
  <2>6. ShapeInv'
    BY <1>3, <2>2 DEF Settle, SettleFails, ShapeInv, At, Selecting, Removing, Clearing
  <2> QED  BY <2>5, <2>6
<1>4. CASE ClearOne \/ ClearFails
  <2>1. /\ pass.clear \in Clearing /\ pass.clear # <<>> /\ pass.clear \in Seq(Metadata)
        /\ pass.next \in {"idle", "pull", "engine"}
    BY <1>4 DEF ClearOne, ClearFails, ShapeInv, TypeOK, Pass, At
  <2>2. Tail(pass.clear) \in Clearing /\ Tail(pass.clear) \in Seq(Metadata)
    BY <2>1, ClearingTail
  <2>3. /\ pass' \in Pass /\ pass'.step = "clear" /\ pass'.clear \in Clearing
        /\ pass'.next \in {"idle", "pull", "engine"}
    BY <1>4, <2>1, <2>2 DEF ClearOne, ClearFails, TypeOK, Pass, At
  <2>4. count' \in [Bounded -> Nat]
    BY <1>4, SpendType DEF ClearOne, ClearFails, TypeOK
  <2>5. TypeOK'
    BY <1>4, <2>3, <2>4, EmptyTypes, EmptyAnswers DEF ClearOne, ClearFails, TypeOK
  <2>6. ShapeInv'
    BY <1>4, <2>3 DEF ClearOne, ClearFails, ShapeInv, At, Selecting, Removing
  <2> QED  BY <2>5, <2>6
<1>5. CASE Cleared
  <2>1. pass' \in Pass /\ pass'.step \in {"idle", "pull", "engine"}
    BY <1>5, EmptyTypes DEF Cleared, Pass, Step, ShapeInv, At
  <2>2. TypeOK'
    BY <1>5, <2>1 DEF Cleared, TypeOK
  <2>3. ShapeInv'
    BY <1>5, <2>1 DEF Cleared, ShapeInv, At, Selecting, Removing
  <2> QED  BY <2>2, <2>3
<1> QED  BY <1>1, <1>2, <1>3, <1>4, <1>5

LEMMA TypeNext == TypeOK /\ ShapeInv /\ [Next]_vars => TypeOK' /\ ShapeInv'
<1>1. CASE TypeOK /\ ShapeInv /\ UNCHANGED vars
  <2>1. TypeOK'
    BY <1>1 DEF vars, clone, metadata, TypeOK
  <2>2. ShapeInv'
    BY <1>1 DEF vars, clone, metadata, ShapeInv, At
  <2> QED  BY <2>1, <2>2
<1>2. CASE TypeOK /\ ShapeInv /\ Next
  BY <1>2, TypeDesktop, TypePull, TypeSelecting, TypeRemoving, TypeUndoing, TypeEngine
     DEF Next, BatchStep
<1> QED  BY <1>1, <1>2

(***************************************************************************)
(* The clone, the bundles, the four metadata files, the journal and the    *)
(* batch in memory keep their types, whatever fails and wherever the       *)
(* process dies (resolution.go ApplyPendingBatch, RecoverTransactions).    *)
(***************************************************************************)
THEOREM TypeCorrect == Spec => []TypeOK
<1>1. Spec => [](TypeOK /\ ShapeInv)
  BY TypeInit, TypeNext, PTL DEF Spec
<1> QED  BY <1>1, PTL

-----------------------------------------------------------------------------
(***************************************************************************)
(* The batch in memory and the one on disk.                                *)
(***************************************************************************)
LEMMA BatchInit == Init => BatchInv
BY DEF Init, BatchInv, ViewBehindApplying, NoPass, NoPending, Queued, At, Applying, Selecting,
       Removing, Between

(* The fields of the records an action changes. *)
LEMMA Records ==
  ASSUME TypeOK
  PROVE  /\ pass = [step |-> pass.step, next |-> pass.next, answers |-> pass.answers,
                    todo |-> pass.todo, entries |-> pass.entries, clear |-> pass.clear]
         /\ pending = [status |-> pending.status, answers |-> pending.answers]
         /\ pending.status \in Status
         /\ before = [files |-> before.files, bundles |-> before.bundles,
                      journaled |-> before.journaled, intact |-> before.intact,
                      recorded |-> before.recorded]
BY DEF TypeOK, Pass

LEMMA BatchDesktop ==
  ASSUME TypeOK, ShapeInv, BatchInv, DesktopStep \/ Crash
  PROVE  BatchInv'
<1> USE DEF BatchInv, ViewBehindApplying, Queued, At, Applying, Selecting, Removing, Between,
            Current, clone, metadata
<1>1. ASSUME NEW answers \in [mirror -> Choice], QueueBatch(answers) PROVE BatchInv'
  BY <1>1 DEF QueueBatch, Locked
<1>2. ASSUME NEW c \in Conflict, NEW choice \in Choice, ResolveOne(c, choice) PROVE BatchInv'
  BY <1>2 DEF ResolveOne
<1>3. CASE ResolveRemovesLocal
  BY <1>3 DEF ResolveRemovesLocal
<1>4. CASE ResolveRemovesRepo
  BY <1>4 DEF ResolveRemovesRepo
<1>5. CASE Crash
  BY <1>5 DEF Crash, Abort, NoPass
<1> QED  BY <1>1, <1>2, <1>3, <1>4, <1>5 DEF DesktopStep

LEMMA BatchPull ==
  ASSUME TypeOK, ShapeInv, BatchInv, PullStep
  PROVE  BatchInv'
<1> USE Records DEF BatchInv, ViewBehindApplying, Queued, At, Applying, Selecting, Removing,
            Between, Current, clone, metadata, Status
<1>1. CASE StartPass
  BY <1>1 DEF StartPass, GoTo
<1>2. CASE Recover
  BY <1>2 DEF Recover
<1>3. CASE RecoverWithoutJournal
  BY <1>3 DEF RecoverWithoutJournal
<1>4. CASE PullNothing \/ Mirror
  BY <1>4 DEF PullNothing, Mirror, GoTo
<1>5. CASE PullRefused
  BY <1>5 DEF PullRefused, Abort, NoPass
<1>6. ASSUME NEW c \in Conflict, PullAnswer(c) \/ PullConflict(c) PROVE BatchInv'
  BY <1>6 DEF PullAnswer, PullConflict, GoTo
<1> QED  BY <1>1, <1>2, <1>3, <1>4, <1>5, <1>6 DEF PullStep

LEMMA BatchSelecting ==
  ASSUME TypeOK, ShapeInv, BatchInv,
         SkipBatch \/ PublishView \/ MarkApplying \/ PassFails
           \/ Journal \/ WriteAnswer \/ SelectionFails \/ AllWritten
  PROVE  BatchInv'
<1> USE Records DEF BatchInv, ViewBehindApplying, Queued, At, Applying, Selecting, Removing,
            Between, Current, clone, metadata
<1>1. CASE SkipBatch
  BY <1>1 DEF SkipBatch, GoTo
<1>2. CASE PublishView
  BY <1>2 DEF PublishView
<1>3. CASE MarkApplying
  BY <1>3 DEF MarkApplying
<1>4. CASE PassFails
  BY <1>4 DEF PassFails, Abort, NoPass
<1>5. CASE Journal
  BY <1>5 DEF Journal
<1>6. CASE WriteAnswer
  BY <1>6 DEF WriteAnswer
<1>7. CASE SelectionFails
  BY <1>7 DEF SelectionFails, Fail
<1>8. CASE AllWritten
  BY <1>8 DEF AllWritten
<1> QED  BY <1>1, <1>2, <1>3, <1>4, <1>5, <1>6, <1>7, <1>8

LEMMA BatchRemoving ==
  ASSUME TypeOK, ShapeInv, BatchInv, RemoveLocal \/ RemoveRepo \/ RemoveFails \/ CommitBatch
  PROVE  BatchInv'
<1> USE Records DEF BatchInv, ViewBehindApplying, Queued, At, Applying, Selecting, Removing,
            Between, Current, clone, metadata
<1>1. CASE RemoveLocal
  BY <1>1 DEF RemoveLocal, GoTo
<1>2. CASE RemoveRepo
  BY <1>2 DEF RemoveRepo
<1>3. CASE RemoveFails
  BY <1>3 DEF RemoveFails, Fail
<1>4. CASE CommitBatch
  BY <1>4 DEF CommitBatch, NoPending
<1> QED  BY <1>1, <1>2, <1>3, <1>4

LEMMA BatchUndoing ==
  ASSUME TypeOK, ShapeInv, BatchInv,
         Rollback \/ RollbackFails \/ RolledBack \/ Settle \/ SettleFails
           \/ ClearOne \/ ClearFails \/ Cleared
  PROVE  BatchInv'
<1> USE Records DEF BatchInv, ViewBehindApplying, Queued, At, Applying, Selecting, Removing,
            Between, Current, clone, metadata
<1>1. CASE Rollback
  BY <1>1 DEF Rollback
<1>2. CASE RollbackFails
  BY <1>2 DEF RollbackFails
<1>3. CASE RolledBack
  BY <1>3 DEF RolledBack, GoTo, Abort, NoPass
<1>4. CASE Settle \/ SettleFails
  <2>1. AfterSettling # AfterCommit
    BY DEF AfterSettling, AfterCommit
  <2>2. CASE Settle
    BY <1>4, <2>1, <2>2 DEF Settle
  <2>3. CASE SettleFails
    <3>1. CASE pass.next = "pull"
      BY <2>3, <3>1 DEF SettleFails, Abort, NoPass
    <3>2. CASE pass.next # "pull"
      <4>1. before'.recorded = FALSE /\ pass' = [pass EXCEPT !.step = "clear", !.clear = AfterSettling]
        BY <2>3, <3>2 DEF SettleFails
      <4> QED  BY <2>1, <2>3, <3>2, <4>1 DEF SettleFails
    <3> QED  BY <3>1, <3>2
  <2> QED  BY <1>4, <2>2, <2>3
<1>5. CASE ClearOne
  <2>1. /\ pass.clear \in Clearing /\ pass.clear # <<>>
        /\ pass'.step = "clear" /\ pass'.answers = pass.answers /\ pass'.next = pass.next
        /\ pass'.clear = Tail(pass.clear)
    BY <1>5 DEF ClearOne, ShapeInv
  <2>2. Tail(pass.clear) # AfterCommit
    BY <2>1, ClearingTail
  <2>3. CASE Head(pass.clear) = "pending"
    BY <1>5, <2>1, <2>3 DEF ClearOne, NoPending
  <2>4. CASE Head(pass.clear) # "pending" /\ ~Queued
    BY <1>5, <2>1, <2>4 DEF ClearOne
  <2>5. CASE Head(pass.clear) # "pending" /\ Queued
    <3>1. pass.clear # AfterSettling /\ pass.clear # AfterCommit /\ Head(pass.clear) # "failed"
      BY <1>5, <2>1, <2>5, ClearingTail DEF ClearOne
    <3> QED  BY <1>5, <2>1, <2>2, <2>5, <3>1 DEF ClearOne
  <2> QED  BY <2>3, <2>4, <2>5
<1>6. CASE ClearFails
  <2>1. Tail(pass.clear) # AfterCommit
    BY <1>6, ClearingTail DEF ClearFails, ShapeInv
  <2> QED  BY <1>6, <2>1 DEF ClearFails
<1>7. CASE Cleared
  <2>1. AfterSettling # <<>>
    BY DEF AfterSettling
  <2> QED  BY <1>7, <2>1 DEF Cleared, NoPass, ShapeInv
<1> QED  BY <1>1, <1>2, <1>3, <1>4, <1>5, <1>6, <1>7

LEMMA BatchEngine ==
  ASSUME TypeOK, ShapeInv, BatchInv, EngineStep
  PROVE  BatchInv'
<1> USE Records DEF BatchInv, ViewBehindApplying, Queued, At, Applying, Selecting, Removing,
            Between, Current, clone, metadata
<1>1. ASSUME NEW c \in Conflict, OpenLocal(c) PROVE BatchInv'
  BY <1>1 DEF OpenLocal
<1>2. CASE OpenRepo \/ OpenFails
  BY <1>2 DEF OpenRepo, OpenFails
<1>3. CASE Commit
  BY <1>3 DEF Commit, Abort, NoPass
<1> QED  BY <1>1, <1>2, <1>3 DEF EngineStep

LEMMA BatchNext ==
  TypeOK /\ ShapeInv /\ BatchInv /\ [Next]_vars => BatchInv'
<1>1. CASE BatchInv /\ UNCHANGED vars
  BY <1>1 DEF vars, clone, metadata, BatchInv, ViewBehindApplying, Queued, At, Current
<1>2. CASE TypeOK /\ ShapeInv /\ BatchInv /\ Next
  BY <1>2, BatchDesktop, BatchPull, BatchSelecting, BatchRemoving, BatchUndoing, BatchEngine
     DEF Next, BatchStep
<1> QED  BY <1>1, <1>2

LEMMA BatchCorrect == Spec => [](TypeOK /\ ShapeInv /\ BatchInv)
<1>1. Init => TypeOK /\ ShapeInv /\ BatchInv
  BY TypeInit, BatchInit
<1>2. TypeOK /\ ShapeInv /\ BatchInv /\ [Next]_vars => (TypeOK /\ ShapeInv /\ BatchInv)'
  BY TypeNext, BatchNext
<1> QED  BY <1>1, <1>2, PTL DEF Spec

(***************************************************************************)
(* A reader who finds a batch being applied finds the view written before  *)
(* it (publishView comes before the mark in ApplyPendingBatch, and         *)
(* clearResolutionMetadata removes pending.json first), or the batch has   *)
(* failed and only the removal of its files did not work.                  *)
(***************************************************************************)
THEOREM ViewIsThere == Spec => []ViewBehindApplying
<1>1. BatchInv => ViewBehindApplying
  BY DEF BatchInv
<1> QED  BY <1>1, BatchCorrect, PTL

(* The two places where pending.json goes. *)
LEMMA PendingGoes ==
  ASSUME TypeOK, Next, Queued, pending'.answers # pending.answers
  PROVE  CommitBatch \/ (ClearOne /\ Head(pass.clear) = "pending")
<1>1. pending' # pending
  OBVIOUS
<1>2. ~DesktopStep
  BY <1>1 DEF DesktopStep, QueueBatch, ResolveOne, ResolveRemovesLocal, ResolveRemovesRepo, metadata
<1>3. ~Crash /\ ~PullStep
  BY <1>1 DEF Crash, PullStep, StartPass, Recover, RecoverWithoutJournal, PullNothing, PullAnswer,
              PullConflict, PullRefused, Mirror, metadata
<1>4. ~EngineStep
  BY <1>1 DEF EngineStep, OpenLocal, OpenRepo, OpenFails, Commit, metadata
<1>5. BatchStep
  BY <1>2, <1>3, <1>4 DEF Next
<1>6. ~(SkipBatch \/ PublishView \/ PassFails \/ Journal \/ WriteAnswer \/ SelectionFails
          \/ AllWritten \/ RemoveLocal \/ RemoveRepo \/ RemoveFails)
  BY <1>1 DEF SkipBatch, PublishView, PassFails, Journal, WriteAnswer, SelectionFails, AllWritten,
              RemoveLocal, RemoveRepo, RemoveFails, metadata
<1>7. ~(Rollback \/ RollbackFails \/ RolledBack \/ Settle \/ SettleFails \/ ClearFails \/ Cleared)
  BY <1>1 DEF Rollback, RollbackFails, RolledBack, Settle, SettleFails, ClearFails, Cleared, metadata
<1>8. ~MarkApplying
  BY Records DEF MarkApplying
<1>9. ClearOne => Head(pass.clear) = "pending"
  BY <1>1 DEF ClearOne
<1> QED  BY <1>5, <1>6, <1>7, <1>8, <1>9 DEF BatchStep

(***************************************************************************)
(* pending.json goes only when every bundle the user answered is gone too, *)
(* or once failed.json holds the same answers, unless failed.json could    *)
(* not be written (ApplyPendingBatch's last phase and clearResolution-     *)
(* Metadata after fail or a recovery).                                     *)
(***************************************************************************)
THEOREM AnswersAreKept == Spec => AnswersSurvive
<1> DEFINE Kept == Queued /\ pending'.answers # pending.answers =>
                     \/ failed' = pending.answers
                     \/ DOMAIN pending.answers \cap (mirror' \cup repo') = {}
                     \/ ~before.recorded
<1>1. TypeOK /\ ShapeInv /\ BatchInv /\ [Next]_vars => [Kept]_vars
  <2> SUFFICES ASSUME TypeOK, ShapeInv, BatchInv, Next, Queued, pending'.answers # pending.answers
               PROVE  \/ failed' = pending.answers
                      \/ DOMAIN pending.answers \cap (mirror' \cup repo') = {}
                      \/ ~before.recorded
    OBVIOUS
  <2>1. CASE CommitBatch
    <3>1. pass.todo = {} /\ pass.answers = pending.answers
      BY <2>1 DEF CommitBatch, Remaining, BatchInv, At, Applying, Removing
    <3>2. mirror' = mirror /\ repo' = repo
      BY <2>1 DEF CommitBatch, clone
    <3> QED  BY <2>1, <3>1, <3>2 DEF CommitBatch, BatchInv, At, Removing
  <2>2. CASE ClearOne /\ Head(pass.clear) = "pending"
    <3>1. failed' = failed
      BY <2>2 DEF ClearOne
    <3> QED  BY <2>2, <3>1 DEF ClearOne, BatchInv
  <2> QED  BY <2>1, <2>2, PendingGoes
<1>2. Spec => [][Kept]_vars
  BY <1>1, BatchCorrect, PTL DEF Spec
<1> QED  BY <1>2 DEF AnswersSurvive

-----------------------------------------------------------------------------
(***************************************************************************)
(* The journal.                                                            *)
(***************************************************************************)
(* One more entry, of a file as it is: a first one if the batch has not    *)
(* written that file before, and then the file is still as it was found.   *)
LEMMA AppendEntry ==
  ASSUME NEW entries \in Seq(Entry), NEW entry \in Entry, NEW found
  PROVE  LET more == Append(entries, entry)
         IN  /\ \A p : Mentions(more, p) <=> Mentions(entries, p) \/ p = entry.path
             /\ /\ FirstEntries(entries, found)
                /\ ~Mentions(entries, entry.path) => entry.file = found[entry.path]
                => FirstEntries(more, found)
<1> DEFINE more == Append(entries, entry)
           n == Len(entries)
<1>1. /\ n \in Nat /\ Len(more) = n + 1 /\ more[n + 1] = entry
      /\ \A i \in 1..n : more[i] = entries[i]
  OBVIOUS
<1>2. 1..(n + 1) = (1..n) \cup {n + 1}
  BY <1>1
<1> HIDE DEF more, n
<1>3. \A p : Mentions(more, p) <=> Mentions(entries, p) \/ p = entry.path
  BY <1>1, <1>2 DEF Mentions, n
<1>4. ASSUME FirstEntries(entries, found),
             ~Mentions(entries, entry.path) => entry.file = found[entry.path]
      PROVE  FirstEntries(more, found)
  <2> SUFFICES ASSUME NEW i \in 1..(n + 1), \A j \in 1..(i - 1) : more[j].path # more[i].path
               PROVE  more[i].file = found[more[i].path]
    BY <1>1 DEF FirstEntries
  <2>1. CASE i = n + 1
    <3>1. \A j \in 1..n : entries[j].path # entry.path
      BY <1>1, <2>1
    <3>2. ~Mentions(entries, entry.path)
      BY <3>1 DEF Mentions, n
    <3> QED  BY <1>1, <1>4, <2>1, <3>2
  <2>2. CASE i \in 1..n
    <3>1. \A j \in 1..(i - 1) : j \in 1..n /\ entries[j].path # entries[i].path
      BY <1>1, <2>2
    <3>2. entries[i].file = found[entries[i].path]
      BY <1>4, <2>2, <3>1 DEF FirstEntries, n
    <3> QED  BY <1>1, <2>2, <3>2
  <2> QED  BY <1>2, <2>1, <2>2
<1> QED  BY <1>3, <1>4 DEF more

(* The last entry undone. *)
LEMMA DropEntry ==
  ASSUME NEW entries \in Seq(Entry), entries # <<>>, NEW found, FirstEntries(entries, found)
  PROVE  LET rest == SubSeq(entries, 1, Len(entries) - 1)
             last == entries[Len(entries)]
         IN  /\ last \in Entry /\ rest \in Seq(Entry)
             /\ FirstEntries(rest, found)
             /\ \A p : Mentions(entries, p) => Mentions(rest, p) \/ p = last.path
             /\ ~Mentions(rest, last.path) => last.file = found[last.path]
<1> DEFINE n == Len(entries)
           rest == SubSeq(entries, 1, n - 1)
           last == entries[n]
<1>1. /\ n \in Nat /\ n \in 1..n /\ last \in Entry /\ rest \in Seq(Entry) /\ Len(rest) = n - 1
      /\ \A i \in 1..(n - 1) : rest[i] = entries[i]
  <2>1. n \in Nat /\ n # 0
    BY EmptySeq
  <2>2. n \in 1..n /\ n - 1 \in Nat /\ last \in Entry
    BY <2>1, ElementOfSeq
  <2>3. \A i \in 1..(n - 1) : entries[i] \in Entry
    BY <2>1, ElementOfSeq
  <2>4. rest \in Seq(Entry) /\ Len(rest) = IF 1 <= n - 1 THEN n - 1 - 1 + 1 ELSE 0
    BY <2>2, <2>3, SubSeqProperties
  <2>5. \A i \in 1..(n - 1) : rest[i] = entries[i]
    BY <2>1, <2>2
  <2> HIDE DEF rest, n
  <2>6. Len(rest) = n - 1
    BY <2>1, <2>4
  <2> QED  BY <2>1, <2>2, <2>4, <2>5, <2>6
<1>2. 1..n = (1..(n - 1)) \cup {n}
  BY <1>1
<1> HIDE DEF rest, last, n
<1>3. FirstEntries(rest, found)
  <2> SUFFICES ASSUME NEW i \in 1..(n - 1), \A j \in 1..(i - 1) : rest[j].path # rest[i].path
               PROVE  rest[i].file = found[rest[i].path]
    BY <1>1 DEF FirstEntries
  <2>1. \A j \in 1..(i - 1) : j \in 1..(n - 1) /\ entries[j].path # entries[i].path
    BY <1>1
  <2>2. i \in 1..Len(entries)
    BY <1>1 DEF n
  <2>3. entries[i].file = found[entries[i].path]
    BY <2>1, <2>2 DEF FirstEntries
  <2> QED  BY <1>1, <2>3
<1>4. \A p : Mentions(entries, p) => Mentions(rest, p) \/ p = last.path
  BY <1>1, <1>2 DEF Mentions, last, n
<1>5. ASSUME ~Mentions(rest, last.path) PROVE last.file = found[last.path]
  <2>1. \A j \in 1..(n - 1) : entries[j].path # entries[n].path
    BY <1>1, <1>5 DEF Mentions, last
  <2> QED  BY <1>1, <2>1 DEF FirstEntries, last, n
<1> QED  BY <1>1, <1>3, <1>4, <1>5 DEF rest, last, n

LEMMA NoEntries ==
  /\ \A p : ~Mentions(<<>>, p)
  /\ \A found : FirstEntries(<<>>, found)
  /\ NoJournal.entries = <<>> /\ NoPass.entries = <<>>
  /\ NoPass.step = "idle"
<1>1. 1..Len(<<>>) = {}
  OBVIOUS
<1> QED  BY <1>1 DEF Mentions, FirstEntries, NoJournal, NoPass

LEMMA JournalInit == Init => JournalInv
<1> SUFFICES ASSUME Init PROVE JournalInv
  OBVIOUS
<1>1. pass = NoPass /\ pass.step = "idle" /\ pass.entries = <<>> /\ journal.entries = <<>>
  BY NoEntries DEF Init
<1> QED  BY <1>1, NoEntries DEF JournalInv, RollbackRestores, At, Selecting, Removing

(* Steps between two batches: they keep the journal and what is remembered *)
(* of the last batch.                                                      *)
LEMMA JournalIdle ==
  ASSUME JournalInv, UNCHANGED <<journal, before>>,
         \/ /\ pass'.step \in {"idle", "pull", "mirror", "batch", "mark"}
            /\ pass'.entries = <<>>
         \/ pass'.step \in {"engine", "open", "commit", "clear"}
  PROVE  JournalInv'
BY DEF JournalInv, RollbackRestores, At, Selecting, Removing

LEMMA JournalDesktop ==
  ASSUME TypeOK, ShapeInv, JournalInv, DesktopStep \/ Crash
  PROVE  JournalInv'
<1> USE DEF clone, metadata
<1>1. ASSUME NEW answers \in [mirror -> Choice], QueueBatch(answers) PROVE JournalInv'
  BY <1>1 DEF QueueBatch, JournalInv, RollbackRestores, At, Current
<1>2. ASSUME NEW c \in Conflict, NEW choice \in Choice, ResolveOne(c, choice) PROVE JournalInv'
  <2>1. pass.step \in {"idle", "pull", "mirror", "batch", "engine", "commit"}
    BY <1>2 DEF ResolveOne, Locked
  <2>2. UNCHANGED <<journal, before, pass>>
    BY <1>2 DEF ResolveOne
  <2>3. pass.step \in {"idle", "pull", "mirror", "batch"} => pass.entries = <<>>
    BY DEF JournalInv
  <2> QED  BY <2>1, <2>2, <2>3, JournalIdle
<1>3. CASE ResolveRemovesLocal \/ ResolveRemovesRepo
  <2>1. UNCHANGED <<canonical, journal, before, pass>>
    BY <1>3 DEF ResolveRemovesLocal, ResolveRemovesRepo
  <2> QED  BY <2>1 DEF JournalInv, RollbackRestores, At, Current
<1>4. CASE Crash
  <2>1. UNCHANGED <<journal, before>> /\ pass' = NoPass
    BY <1>4 DEF Crash, Abort
  <2> QED  BY <2>1, NoEntries, JournalIdle
<1> QED  BY <1>1, <1>2, <1>3, <1>4 DEF DesktopStep

LEMMA JournalPull ==
  ASSUME TypeOK, ShapeInv, JournalInv, PullStep
  PROVE  JournalInv'
<1> USE DEF clone, metadata
<1>1. CASE StartPass \/ PullNothing \/ Mirror \/ \E c \in Conflict : PullAnswer(c) \/ PullConflict(c)
  <2>1. pass.step \in {"idle", "pull", "mirror"}
    BY <1>1 DEF StartPass, PullNothing, Mirror, PullAnswer, PullConflict, At
  <2>2. pass'.step \in {"pull", "mirror", "batch"} /\ pass'.entries = pass.entries
    BY <1>1, Records DEF StartPass, PullNothing, Mirror, PullAnswer, PullConflict, GoTo
  <2>3. UNCHANGED <<journal, before>>
    BY <1>1 DEF StartPass, PullNothing, Mirror, PullAnswer, PullConflict
  <2>4. pass.entries = <<>>
    BY <2>1 DEF JournalInv
  <2> QED  BY <2>2, <2>3, <2>4, JournalIdle
<1>2. CASE PullRefused
  <2>1. UNCHANGED <<journal, before>> /\ pass' = NoPass
    BY <1>2 DEF PullRefused, Abort
  <2> QED  BY <2>1, NoEntries, JournalIdle
<1>3. CASE Recover
  <2>1. /\ pass'.step = "rollback" /\ pass'.entries = journal.entries
        /\ UNCHANGED <<canonical, journal, before>>
    BY <1>3, Records DEF Recover
  <2> QED  BY <2>1 DEF JournalInv, RollbackRestores, At, Selecting, Removing
<1>4. CASE RecoverWithoutJournal
  <2>1. /\ pass'.step = "settle" /\ journal.entries = <<>>
        /\ UNCHANGED <<canonical, journal, before>>
    BY <1>4, Records, NoEntries DEF RecoverWithoutJournal
  <2> QED  BY <2>1 DEF JournalInv, RollbackRestores, At, Selecting, Removing
<1> QED  BY <1>1, <1>2, <1>3, <1>4 DEF PullStep

LEMMA JournalEngine ==
  ASSUME TypeOK, ShapeInv, JournalInv, EngineStep
  PROVE  JournalInv'
<1> USE DEF clone, metadata
<1>1. CASE (\E c \in Conflict : OpenLocal(c)) \/ OpenRepo \/ OpenFails
  <2>1. pass'.step \in {"open", "engine"} /\ UNCHANGED <<journal, before>>
    BY <1>1, Records DEF OpenLocal, OpenRepo, OpenFails
  <2> QED  BY <2>1, JournalIdle
<1>2. CASE Commit
  <2>1. UNCHANGED <<journal, before>> /\ pass' = NoPass
    BY <1>2 DEF Commit, Abort
  <2> QED  BY <2>1, NoEntries, JournalIdle
<1> QED  BY <1>1, <1>2 DEF EngineStep

(* The failing batch turns to its rollback. *)
LEMMA JournalFails ==
  ASSUME TypeOK, JournalInv, pass.step \in Selecting \cup Removing,
         NEW entries, Fail(entries), UNCHANGED <<canonical, journal, before>>,
         FirstEntries(entries, before.files),
         \A p : Mentions(pass.entries, p) => Mentions(entries, p)
  PROVE  JournalInv'
<1>1. pass'.step = "rollback" /\ pass'.entries = entries
  BY Records DEF Fail
<1>2. before.journaled => journal.entries = pass.entries
  BY DEF JournalInv
<1> QED  BY <1>1, <1>2 DEF JournalInv, RollbackRestores, At, Selecting, Removing

LEMMA JournalSelecting ==
  ASSUME TypeOK, ShapeInv, JournalInv,
         SkipBatch \/ PublishView \/ MarkApplying \/ PassFails
           \/ Journal \/ WriteAnswer \/ SelectionFails \/ AllWritten
  PROVE  JournalInv'
<1> USE DEF clone, metadata
<1>1. CASE SkipBatch \/ PublishView
  <2>1. UNCHANGED <<journal, before>> /\ pass'.step \in {"engine", "mark"}
        /\ pass'.entries = pass.entries /\ pass.step = "batch"
    BY <1>1, Records DEF SkipBatch, PublishView, GoTo, At
  <2>2. pass.entries = <<>>
    BY <2>1 DEF JournalInv
  <2> QED  BY <2>1, <2>2, JournalIdle
<1>2. CASE PassFails
  <2>1. UNCHANGED <<journal, before>> /\ pass' = NoPass
    BY <1>2 DEF PassFails, Abort
  <2> QED  BY <2>1, NoEntries, JournalIdle
<1>3. CASE MarkApplying
  <2>1. /\ pass'.step = "journal" /\ pass'.entries = pass.entries
        /\ before'.files = canonical /\ before'.journaled = FALSE
        /\ UNCHANGED <<canonical, journal>>
    BY <1>3, Records DEF MarkApplying
  <2>2. pass.entries = <<>>
    BY <1>3 DEF MarkApplying, At, JournalInv
  <2> QED  BY <2>1, <2>2, NoEntries DEF JournalInv, RollbackRestores, At, Selecting, Removing
<1>4. CASE Journal
  <2> DEFINE entries == Append(pass.entries, CurrentEntry)
  <2>1. /\ CurrentEntry \in Entry /\ pass.entries \in Seq(Entry)
        /\ CurrentEntry.path = PathOf[Current] /\ PathOf[Current] \in Path
        /\ CurrentEntry.file = canonical[PathOf[Current]]
    BY <1>4, CurrentTypes DEF Journal, TypeOK, Pass, CurrentEntry
  <2>2. /\ FirstEntries(pass.entries, before.files)
        /\ \A p \in Path : ~Mentions(pass.entries, p) => canonical[p] = before.files[p]
    BY <1>4 DEF Journal, At, JournalInv, Selecting, Removing
  <2>3. /\ FirstEntries(entries, before.files)
        /\ \A p : Mentions(entries, p) <=> Mentions(pass.entries, p) \/ p = PathOf[Current]
    BY <2>1, <2>2, AppendEntry
  <2>4. /\ pass' = [pass EXCEPT !.step = "write", !.entries = entries]
        /\ journal' = [answers |-> pass.answers, entries |-> entries]
        /\ before' = [before EXCEPT !.journaled = TRUE]
        /\ UNCHANGED canonical
    BY <1>4 DEF Journal
  <2> HIDE DEF entries
  <2>5. /\ pass'.step = "write" /\ pass'.entries = entries /\ pass'.todo = pass.todo
        /\ journal'.entries = entries /\ before'.files = before.files
    BY <2>4, Records
  <2>6. Current' = Current
    BY <2>5 DEF Current
  <2> QED  BY <2>2, <2>3, <2>4, <2>5, <2>6 DEF JournalInv, RollbackRestores, At, Selecting, Removing
<1>5. CASE WriteAnswer
  <2>1. /\ pass'.step = "journal" /\ pass'.entries = pass.entries /\ pass.step = "write"
        /\ UNCHANGED <<journal, before>>
    BY <1>5, Records DEF WriteAnswer, At
  <2>2. \A p \in Path : p # PathOf[Current] => canonical'[p] = canonical[p]
    BY <1>5 DEF WriteAnswer, TypeOK
  <2>3. Mentions(pass.entries, PathOf[Current])
    BY <2>1 DEF JournalInv, At
  <2> QED  BY <2>1, <2>2, <2>3 DEF JournalInv, RollbackRestores, At, Selecting, Removing
<1>6. CASE SelectionFails
  <2>1. /\ pass.step \in Selecting \cup Removing /\ UNCHANGED <<canonical, journal, before>>
        /\ pass.entries \in Seq(Entry)
    BY <1>6 DEF SelectionFails, At, Selecting, TypeOK, Pass
  <2>2. /\ FirstEntries(pass.entries, before.files)
        /\ \A p \in Path : ~Mentions(pass.entries, p) => canonical[p] = before.files[p]
    BY <2>1 DEF JournalInv
  <2>3. \/ Fail(pass.entries)
        \/ Remaining /\ Fail(Append(pass.entries, CurrentEntry))
    BY <1>6 DEF SelectionFails
  <2>4. CASE Fail(pass.entries)
    BY <2>1, <2>2, <2>4, JournalFails
  <2>5. CASE Remaining /\ Fail(Append(pass.entries, CurrentEntry))
    <3>1. /\ CurrentEntry \in Entry /\ CurrentEntry.path \in Path
          /\ CurrentEntry.file = canonical[CurrentEntry.path]
      BY <2>5, CurrentTypes DEF CurrentEntry
    <3>2. /\ FirstEntries(Append(pass.entries, CurrentEntry), before.files)
          /\ \A p : Mentions(pass.entries, p) => Mentions(Append(pass.entries, CurrentEntry), p)
      BY <2>1, <2>2, <3>1, AppendEntry
    <3> QED  BY <2>1, <2>5, <3>2, JournalFails
  <2> QED  BY <2>3, <2>4, <2>5
<1>7. CASE AllWritten
  <2>1. /\ pass'.step = "remove-local" /\ pass'.entries = pass.entries /\ pass.step = "journal"
        /\ UNCHANGED <<canonical, journal, before>>
    BY <1>7, Records DEF AllWritten, At
  <2> QED  BY <2>1 DEF JournalInv, RollbackRestores, At, Selecting, Removing
<1> QED  BY <1>1, <1>2, <1>3, <1>4, <1>5, <1>6, <1>7

LEMMA JournalRemoving ==
  ASSUME TypeOK, ShapeInv, JournalInv, RemoveLocal \/ RemoveRepo \/ RemoveFails \/ CommitBatch
  PROVE  JournalInv'
<1> USE DEF clone, metadata
<1>1. CASE RemoveLocal \/ RemoveRepo
  <2>1. /\ pass'.step \in Removing /\ pass'.entries = pass.entries /\ pass.step \in Removing
        /\ UNCHANGED <<canonical, journal, before>>
    BY <1>1, Records DEF RemoveLocal, RemoveRepo, GoTo, At, Removing
  <2> QED  BY <2>1 DEF JournalInv, RollbackRestores, At, Selecting, Removing
<1>2. CASE RemoveFails
  <2>1. /\ pass.step \in Selecting \cup Removing /\ UNCHANGED <<canonical, journal, before>>
        /\ Fail(pass.entries)
    BY <1>2 DEF RemoveFails, At, Removing
  <2>2. FirstEntries(pass.entries, before.files)
    BY <2>1 DEF JournalInv
  <2> QED  BY <2>1, <2>2, JournalFails
<1>3. CASE CommitBatch
  <2>1. pass'.step = "clear" /\ UNCHANGED <<journal, before>>
    BY <1>3, Records DEF CommitBatch
  <2> QED  BY <2>1, JournalIdle
<1> QED  BY <1>1, <1>2, <1>3

LEMMA JournalUndoing ==
  ASSUME TypeOK, ShapeInv, JournalInv,
         Rollback \/ RollbackFails \/ RolledBack \/ Settle \/ SettleFails
           \/ ClearOne \/ ClearFails \/ Cleared
  PROVE  JournalInv'
<1> USE DEF clone, metadata
<1>1. CASE Rollback
  <2> DEFINE last == pass.entries[Len(pass.entries)]
             rest == SubSeq(pass.entries, 1, Len(pass.entries) - 1)
             Live == before.journaled /\ before.intact /\ pass.next # "recover"
  <2>1. /\ pass.step = "rollback" /\ pass'.step = "rollback" /\ pass'.next = pass.next
        /\ pass'.entries = rest /\ canonical' = [canonical EXCEPT ![last.path] = last.file]
        /\ UNCHANGED <<journal, before>>
    BY <1>1, Records DEF Rollback, At
  <2>2. pass.entries \in Seq(Entry) /\ pass.entries # <<>>
    BY <1>1 DEF Rollback, TypeOK, Pass
  <2>3. ASSUME Live
        PROVE  /\ FirstEntries(rest, before.files)
               /\ \A p \in Path : Mentions(journal.entries, p) =>
                    Mentions(rest, p) \/ canonical'[p] = before.files[p]
    <3>1. /\ FirstEntries(pass.entries, before.files)
          /\ \A p \in Path : Mentions(journal.entries, p) =>
               Mentions(pass.entries, p) \/ canonical[p] = before.files[p]
      BY <2>1, <2>3 DEF JournalInv, At
    <3>2. /\ last.path \in Path /\ FirstEntries(rest, before.files)
          /\ \A p : Mentions(pass.entries, p) => Mentions(rest, p) \/ p = last.path
          /\ ~Mentions(rest, last.path) => last.file = before.files[last.path]
      BY <2>2, <3>1, DropEntry DEF Entry
    <3> HIDE DEF last, rest
    <3>3. /\ canonical'[last.path] = last.file
          /\ \A p \in Path : p # last.path => canonical'[p] = canonical[p]
      BY <2>1, <3>2 DEF TypeOK
    <3> QED  BY <3>1, <3>2, <3>3
  <2> HIDE DEF last, rest
  <2> QED  BY <2>1, <2>3 DEF JournalInv, RollbackRestores, At, Selecting, Removing
<1>2. CASE RollbackFails
  <2>1. /\ pass'.step = "rollback" /\ UNCHANGED journal
        /\ before'.files = before.files /\ before'.journaled = before.journaled
        /\ before'.intact => pass'.next = "recover"
    BY <1>2, Records DEF RollbackFails, At
  <2> QED  BY <2>1 DEF JournalInv, RollbackRestores, At, Selecting, Removing
<1>3. CASE RolledBack
  <2>1. UNCHANGED <<canonical, journal, before>> /\ pass.entries = <<>> /\ pass.step = "rollback"
    BY <1>3 DEF RolledBack, At
  <2>2. CASE pass.next = "recover"
    <3>1. pass' = NoPass
      BY <1>3, <2>2 DEF RolledBack, Abort
    <3> QED  BY <2>1, <3>1, NoEntries, JournalIdle
  <2>3. CASE pass.next # "recover"
    <3>1. pass'.step = "settle"
      BY <1>3, <2>3, Records DEF RolledBack, GoTo
    <3>2. ASSUME before.journaled, before.intact, NEW i \in 1..Len(journal.entries)
          PROVE  canonical[journal.entries[i].path] = before.files[journal.entries[i].path]
      <4>1. journal.entries \in Seq(Entry)
        BY DEF TypeOK
      <4> DEFINE entry == journal.entries[i]
      <4>2. entry \in Entry
        BY <4>1, ElementOfSeq
      <4>3. Mentions(journal.entries, entry.path)
        BY DEF Mentions
      <4> HIDE DEF entry
      <4>4. entry.path \in Path
        BY <4>2 DEF Entry
      <4>5. canonical[entry.path] = before.files[entry.path]
        BY <2>1, <2>3, <3>2, <4>3, <4>4, NoEntries DEF JournalInv, At
      <4> QED  BY <4>5 DEF entry
    <3> QED  BY <2>1, <3>1, <3>2 DEF JournalInv, RollbackRestores, At, Selecting, Removing
  <2> QED  BY <2>2, <2>3
<1>4. CASE Settle \/ SettleFails
  <2>1. /\ UNCHANGED journal
        /\ before'.files = before.files /\ before'.journaled = before.journaled
        /\ pass' = NoPass \/ pass'.step = "clear"
    BY <1>4, Records DEF Settle, SettleFails, Abort
  <2> QED  BY <2>1, NoEntries DEF JournalInv, RollbackRestores, At, Selecting, Removing
<1>5. CASE ClearOne
  <2>1. /\ pass'.step = "clear" /\ UNCHANGED before
        /\ journal' = journal \/ journal' = NoJournal
    BY <1>5, Records DEF ClearOne, At
  <2> QED  BY <2>1, NoEntries DEF JournalInv, RollbackRestores, At, Selecting, Removing
<1>6. CASE ClearFails
  <2>1. pass'.step = "clear" /\ UNCHANGED <<journal, before>>
    BY <1>6, Records DEF ClearFails, At
  <2> QED  BY <2>1, JournalIdle
<1>7. CASE Cleared
  <2>1. /\ pass'.step \in {"idle", "pull", "engine"} /\ pass'.entries = <<>>
        /\ UNCHANGED <<journal, before>>
    BY <1>7 DEF Cleared, NoPass, ShapeInv
  <2> QED  BY <2>1, JournalIdle
<1> QED  BY <1>1, <1>2, <1>3, <1>4, <1>5, <1>6, <1>7

LEMMA JournalNext ==
  TypeOK /\ ShapeInv /\ JournalInv /\ [Next]_vars => JournalInv'
<1>1. CASE JournalInv /\ UNCHANGED vars
  <2>1. UNCHANGED <<canonical, journal, before, pass>>
    BY <1>1 DEF vars, clone, metadata
  <2> QED  BY <1>1, <2>1 DEF JournalInv, RollbackRestores, At, Current
<1>2. CASE TypeOK /\ ShapeInv /\ JournalInv /\ Next
  BY <1>2, JournalDesktop, JournalPull, JournalSelecting, JournalRemoving, JournalUndoing,
     JournalEngine DEF Next, BatchStep
<1> QED  BY <1>1, <1>2

(***************************************************************************)
(* Undoing the journal from its end gives every file back what the batch   *)
(* found in it, however many answers were for the same file and wherever   *)
(* the process died (rollbackEntries, called by fail and by                *)
(* RecoverTransactions).                                                   *)
(***************************************************************************)
THEOREM RollbackIsWhole == Spec => []RollbackRestores
<1>1. Init => TypeOK /\ ShapeInv /\ JournalInv
  BY TypeInit, JournalInit
<1>2. TypeOK /\ ShapeInv /\ JournalInv /\ [Next]_vars => (TypeOK /\ ShapeInv /\ JournalInv)'
  BY TypeNext, JournalNext
<1>3. JournalInv => RollbackRestores
  BY DEF JournalInv
<1> QED  BY <1>1, <1>2, <1>3, PTL DEF Spec

-----------------------------------------------------------------------------
(***************************************************************************)
(* Bundles and answers.                                                    *)
(***************************************************************************)
LEMMA AnswerInit == Init => AnswerInv
BY DEF Init, AnswerInv, NotResolving, NoPass, At, Selecting, Removing

(* An answer written to a conflict's file counts, and takes none away. *)
LEMMA AnswerWritten ==
  ASSUME TypeOK, NEW c \in Conflict, NEW choice,
         canonical' = [canonical EXCEPT ![PathOf[c]] = <<c, choice>>]
  PROVE  /\ Answered(canonical', PathOf[c])
         /\ \A p \in Path : Answered(canonical, p) => Answered(canonical', p)
<1>1. PathOf[c] \in Path
  BY ResolutionAssumption
<1>2. /\ canonical'[PathOf[c]] = <<c, choice>>
      /\ \A p \in Path : p # PathOf[c] => canonical'[p] = canonical[p]
  BY <1>1 DEF TypeOK
<1>3. canonical'[PathOf[c]][1] = c
  BY <1>2
<1>4. Answered(canonical', PathOf[c])
  BY <1>3 DEF Answered
<1> QED  BY <1>2, <1>4 DEF Answered

(* A step that takes back no answer and drops no further bundle. *)
LEMMA DroppedStays ==
  ASSUME TypeOK, DroppedAnswered, UNCHANGED committed,
         \A p \in Path : Answered(canonical, p) => Answered(canonical', p),
         \A c \in repo \ repo' : Answered(canonical', PathOf[c])
  PROVE  DroppedAnswered'
<1>1. \A c \in committed.bundles : PathOf[c] \in Path
  BY ResolutionAssumption DEF TypeOK
<1> QED  BY <1>1 DEF DroppedAnswered

LEMMA AnswerDesktop ==
  ASSUME TypeOK, ShapeInv, AnswerInv, DesktopStep \/ Crash
  PROVE  AnswerInv'
<1> USE DEF clone, metadata
<1>1. ASSUME NEW answers \in [mirror -> Choice], QueueBatch(answers) PROVE AnswerInv'
  BY <1>1 DEF QueueBatch, AnswerInv, DroppedAnswered, At
<1>2. ASSUME NEW c \in Conflict, NEW choice \in Choice, ResolveOne(c, choice) PROVE AnswerInv'
  <2>1. /\ canonical' = [canonical EXCEPT ![PathOf[c]] = <<c, choice>>]
        /\ desktop'.conflict = c /\ UNCHANGED <<repo, committed, pass>>
        /\ pass.step \notin Selecting \cup Removing \cup {"clear"}
    BY <1>2 DEF ResolveOne, Locked, Selecting, Removing
  <2>2. /\ Answered(canonical', PathOf[c])
        /\ \A p \in Path : Answered(canonical, p) => Answered(canonical', p)
    BY <2>1, AnswerWritten
  <2>3. DroppedAnswered => DroppedAnswered'
    BY <2>1, <2>2, DroppedStays
  <2> QED  BY <2>1, <2>2, <2>3 DEF AnswerInv, At
<1>3. CASE ResolveRemovesLocal
  <2>1. UNCHANGED <<canonical, repo, committed, pass>> /\ desktop'.conflict = desktop.conflict
        /\ desktop.step # "idle"
    BY <1>3 DEF ResolveRemovesLocal, TypeOK, Resolving
  <2> QED  BY <2>1 DEF AnswerInv, DroppedAnswered, At
<1>4. CASE ResolveRemovesRepo
  <2>1. /\ UNCHANGED <<canonical, committed, pass>> /\ repo' = repo \ {desktop.conflict}
        /\ desktop.step # "idle" /\ desktop'.step = "idle"
    BY <1>4 DEF ResolveRemovesRepo, NotResolving
  <2>2. Answered(canonical', PathOf[desktop.conflict])
    BY <2>1 DEF AnswerInv
  <2>3. DroppedAnswered => DroppedAnswered'
    BY <2>1, <2>2, DroppedStays
  <2> QED  BY <2>1, <2>3 DEF AnswerInv, At
<1>5. CASE Crash
  BY <1>5, NoEntries DEF Crash, Abort, NotResolving, AnswerInv, At, Selecting, Removing
<1> QED  BY <1>1, <1>2, <1>3, <1>4, <1>5 DEF DesktopStep

(* Steps that write no file and take no bundle out of the tree. *)
LEMMA AnswerIdle ==
  ASSUME TypeOK, AnswerInv, UNCHANGED <<canonical, committed>>, repo \subseteq repo',
         desktop'.step # "idle" => UNCHANGED desktop,
         pass'.step \notin Selecting \cup Removing,
         pass'.step \in {"mirror", "batch", "mark", "engine", "open"} => DroppedAnswered,
         pass'.step = "clear" /\ pass'.next = "engine" => DroppedAnswered
  PROVE  AnswerInv'
<1>1. DroppedAnswered => DroppedAnswered'
  BY DroppedStays
<1> QED  BY <1>1 DEF AnswerInv, At

LEMMA AnswerPull ==
  ASSUME TypeOK, ShapeInv, AnswerInv, PullStep
  PROVE  AnswerInv'
<1> USE DEF clone, metadata
<1>1. CASE StartPass \/ Recover \/ RecoverWithoutJournal \/ PullRefused
  <2>1. /\ pass'.step \in {"pull", "rollback", "settle", "idle"}
        /\ UNCHANGED <<canonical, repo, committed, desktop>>
    BY <1>1, Records, NoEntries DEF StartPass, Recover, RecoverWithoutJournal, PullRefused, GoTo, Abort
  <2> QED  BY <2>1, AnswerIdle DEF Selecting, Removing
<1>2. CASE PullNothing \/ Mirror
  <2>1. /\ pass'.step \in {"mirror", "batch"} /\ UNCHANGED <<canonical, repo, committed, desktop>>
    BY <1>2, Records DEF PullNothing, Mirror, GoTo
  <2>2. DroppedAnswered
    BY <1>2 DEF PullNothing, Mirror, Clean, DroppedAnswered, AnswerInv, At
  <2> QED  BY <2>1, <2>2, AnswerIdle DEF Selecting, Removing
<1>3. ASSUME NEW c \in Conflict, PullAnswer(c) \/ PullConflict(c) PROVE AnswerInv'
  <2>1. pass'.step = "mirror" /\ desktop'.step = "idle"
    BY <1>3, Records DEF PullAnswer, PullConflict, GoTo
  <2>2. committed'.bundles \subseteq repo'
    BY <1>3 DEF PullAnswer, PullConflict, Clean, TypeOK
  <2> QED  BY <2>1, <2>2 DEF AnswerInv, DroppedAnswered, At, Selecting, Removing
<1> QED  BY <1>1, <1>2, <1>3 DEF PullStep

LEMMA AnswerSelecting ==
  ASSUME TypeOK, ShapeInv, AnswerInv,
         SkipBatch \/ PublishView \/ MarkApplying \/ PassFails
           \/ Journal \/ WriteAnswer \/ SelectionFails \/ AllWritten
  PROVE  AnswerInv'
<1> USE DEF clone, metadata
<1>1. CASE SkipBatch \/ PublishView
  <2>1. /\ pass'.step \in {"engine", "mark"} /\ UNCHANGED <<canonical, repo, committed, desktop>>
        /\ pass.step = "batch"
    BY <1>1, Records DEF SkipBatch, PublishView, GoTo, At
  <2>2. DroppedAnswered
    BY <2>1 DEF AnswerInv
  <2> QED  BY <2>1, <2>2, AnswerIdle DEF Selecting, Removing
<1>2. CASE PassFails \/ SelectionFails
  <2>1. pass'.step \in {"idle", "rollback"} /\ UNCHANGED <<canonical, repo, committed, desktop>>
    BY <1>2, Records, NoEntries DEF PassFails, SelectionFails, Abort, Fail
  <2> QED  BY <2>1, AnswerIdle DEF Selecting, Removing
<1>3. CASE MarkApplying \/ Journal
  <2>1. /\ pass'.step \in Selecting /\ pass.step \in {"mark", "journal"}
        /\ pass'.answers = pass.answers
        /\ \/ pass'.todo = DOMAIN pass.answers
           \/ pass.step = "journal" /\ pass'.todo = pass.todo
        /\ UNCHANGED <<canonical, repo, committed, desktop>>
    BY <1>3, Records DEF MarkApplying, Journal, At, Selecting
  <2>2. DroppedAnswered /\ DroppedAnswered'
    BY <2>1 DEF AnswerInv, DroppedAnswered, Selecting
  <2> QED  BY <2>1, <2>2 DEF AnswerInv, At, Selecting, Removing
<1>4. CASE WriteAnswer
  <2>1. /\ canonical' = [canonical EXCEPT ![PathOf[Current]] = <<Current, pass.answers[Current]>>]
        /\ pass.step = "write" /\ pass'.step = "journal" /\ pass'.answers = pass.answers
        /\ pass'.todo = pass.todo \ {Current}
        /\ UNCHANGED <<repo, committed, desktop>>
    BY <1>4, Records DEF WriteAnswer, At
  <2>2. Current \in Conflict /\ pass.answers \in Answers
    BY <2>1, CurrentTypes DEF ShapeInv, At, Remaining, TypeOK, Pass
  <2>3. /\ Answered(canonical', PathOf[Current])
        /\ \A p \in Path : Answered(canonical, p) => Answered(canonical', p)
    BY <2>1, <2>2, AnswerWritten
  <2>4. DroppedAnswered'
    BY <2>1, <2>3, DroppedStays DEF AnswerInv, Selecting
  <2>5. \A c \in DOMAIN pass.answers : PathOf[c] \in Path
    BY <2>2, AnswersDomain, ResolutionAssumption
  <2>6. \A c \in DOMAIN pass.answers \ (pass.todo \ {Current}) : Answered(canonical', PathOf[c])
    BY <2>1, <2>3, <2>5 DEF AnswerInv, Selecting
  <2>7. desktop'.step = "idle"
    BY <2>1 DEF ShapeInv
  <2> QED  BY <2>1, <2>4, <2>6, <2>7 DEF AnswerInv, At, Selecting, Removing
<1>5. CASE AllWritten
  <2>1. /\ pass.step = "journal" /\ pass'.step = "remove-local" /\ pass'.answers = pass.answers
        /\ pass.todo = {} /\ UNCHANGED <<canonical, repo, committed, desktop>>
    BY <1>5, Records DEF AllWritten, At, Remaining
  <2>2. DroppedAnswered /\ DroppedAnswered'
    BY <2>1 DEF AnswerInv, DroppedAnswered, Selecting
  <2> QED  BY <2>1, <2>2 DEF AnswerInv, At, Selecting, Removing
<1> QED  BY <1>1, <1>2, <1>3, <1>4, <1>5

LEMMA AnswerRemoving ==
  ASSUME TypeOK, ShapeInv, AnswerInv, RemoveLocal \/ RemoveRepo \/ RemoveFails \/ CommitBatch
  PROVE  AnswerInv'
<1> USE DEF clone, metadata
<1>1. CASE RemoveLocal
  <2>1. /\ pass.step = "remove-local" /\ pass'.step = "remove-repo" /\ pass'.answers = pass.answers
        /\ UNCHANGED <<canonical, repo, committed, desktop>>
    BY <1>1, Records DEF RemoveLocal, GoTo, At
  <2>2. DroppedAnswered /\ DroppedAnswered'
    BY <2>1 DEF AnswerInv, DroppedAnswered, Removing
  <2> QED  BY <2>1, <2>2 DEF AnswerInv, At, Selecting, Removing
<1>2. CASE RemoveRepo
  <2>1. /\ pass.step = "remove-repo" /\ pass'.step = "remove-local" /\ pass'.answers = pass.answers
        /\ repo' = repo \ {Current} /\ UNCHANGED <<canonical, committed, desktop>>
    BY <1>2, Records DEF RemoveRepo, At
  <2>2. Current \in DOMAIN pass.answers
    BY <2>1, CurrentTypes DEF ShapeInv, Removing, Remaining
  <2>3. \A c \in DOMAIN pass.answers : Answered(canonical, PathOf[c])
    BY <2>1 DEF AnswerInv, Removing
  <2>4. DroppedAnswered'
    BY <2>1, <2>2, <2>3, DroppedStays DEF AnswerInv, Removing
  <2> QED  BY <2>1, <2>3, <2>4 DEF AnswerInv, At, Selecting, Removing
<1>3. CASE RemoveFails \/ CommitBatch
  <2>1. /\ pass'.step \in {"rollback", "clear"} /\ pass.step \in Removing
        /\ UNCHANGED <<canonical, repo, committed, desktop>>
    BY <1>3, Records DEF RemoveFails, CommitBatch, Fail, At, Removing
  <2>2. DroppedAnswered
    BY <2>1 DEF AnswerInv
  <2> QED  BY <2>1, <2>2, AnswerIdle DEF Selecting, Removing
<1> QED  BY <1>1, <1>2, <1>3

LEMMA AnswerUndoing ==
  ASSUME TypeOK, ShapeInv, AnswerInv,
         Rollback \/ RollbackFails \/ RolledBack \/ Settle \/ SettleFails
           \/ ClearOne \/ ClearFails \/ Cleared
  PROVE  AnswerInv'
<1> USE DEF clone, metadata
<1>1. CASE Rollback
  <2>1. pass'.step = "rollback" /\ desktop'.step = "idle"
    BY <1>1, Records DEF Rollback, ShapeInv, At
  <2> QED  BY <2>1 DEF AnswerInv, At, Selecting, Removing
<1>2. CASE RollbackFails \/ RolledBack
  <2>1. /\ pass'.step \in {"rollback", "settle", "idle"}
        /\ UNCHANGED <<canonical, repo, committed, desktop>>
    BY <1>2, Records, NoEntries DEF RollbackFails, RolledBack, GoTo, Abort, At
  <2> QED  BY <2>1, AnswerIdle DEF Selecting, Removing
<1>3. CASE Settle \/ SettleFails
  <2>1. /\ pass' = NoPass \/ (pass'.step = "clear" /\ pass'.next # "engine")
        /\ UNCHANGED <<canonical, repo, committed, desktop>>
    BY <1>3, Records DEF Settle, SettleFails, Abort, ShapeInv
  <2> QED  BY <2>1, AnswerIdle, NoEntries DEF Selecting, Removing
<1>4. CASE ClearOne \/ ClearFails
  <2>1. /\ pass.step = "clear" /\ pass'.step = "clear" /\ pass'.next \in {"idle", pass.next}
        /\ UNCHANGED <<canonical, repo, committed, desktop>>
    BY <1>4, Records DEF ClearOne, ClearFails, At
  <2>2. pass'.next = "engine" => DroppedAnswered
    BY <2>1 DEF AnswerInv, At
  <2> QED  BY <2>1, <2>2, AnswerIdle DEF Selecting, Removing
<1>5. CASE Cleared
  <2>1. /\ pass.step = "clear" /\ pass'.step = pass.next /\ pass.next \in {"idle", "pull", "engine"}
        /\ UNCHANGED <<canonical, repo, committed, desktop>>
    BY <1>5 DEF Cleared, NoPass, At, ShapeInv
  <2>2. pass.next = "engine" => DroppedAnswered
    BY <2>1 DEF AnswerInv, At
  <2> QED  BY <2>1, <2>2, AnswerIdle DEF Selecting, Removing
<1> QED  BY <1>1, <1>2, <1>3, <1>4, <1>5

LEMMA AnswerEngine ==
  ASSUME TypeOK, ShapeInv, AnswerInv, EngineStep
  PROVE  AnswerInv'
<1> USE DEF clone, metadata
<1>1. CASE (\E c \in Conflict : OpenLocal(c)) \/ OpenRepo \/ OpenFails
  <2>1. /\ pass.step \in {"engine", "open"} /\ pass'.step \in {"engine", "open"}
        /\ repo \subseteq repo' /\ UNCHANGED <<canonical, committed, desktop>>
    BY <1>1, Records DEF OpenLocal, OpenRepo, OpenFails, At
  <2>2. DroppedAnswered
    BY <2>1 DEF AnswerInv
  <2> QED  BY <2>1, <2>2, AnswerIdle DEF Selecting, Removing
<1>2. CASE Commit
  <2>1. pass'.step = "idle" /\ UNCHANGED <<canonical, desktop>>
    BY <1>2, NoEntries DEF Commit, Abort
  <2> QED  BY <2>1 DEF AnswerInv, At, Selecting, Removing
<1> QED  BY <1>1, <1>2 DEF EngineStep

LEMMA AnswerNext ==
  TypeOK /\ ShapeInv /\ AnswerInv /\ [Next]_vars => AnswerInv'
<1>1. CASE AnswerInv /\ UNCHANGED vars
  BY <1>1 DEF vars, clone, metadata, AnswerInv, DroppedAnswered, At
<1>2. CASE TypeOK /\ ShapeInv /\ AnswerInv /\ Next
  BY <1>2, AnswerDesktop, AnswerPull, AnswerSelecting, AnswerRemoving, AnswerUndoing, AnswerEngine
     DEF Next, BatchStep
<1> QED  BY <1>1, <1>2

(* The three actions that move HEAD. *)
LEMMA HeadMoves ==
  ASSUME Next, committed' # committed
  PROVE  Commit \/ \E c \in Conflict : PullAnswer(c) \/ PullConflict(c)
<1>1. ~DesktopStep /\ ~Crash
  BY DEF DesktopStep, Crash, QueueBatch, ResolveOne, ResolveRemovesLocal, ResolveRemovesRepo, clone
<1>2. ~BatchStep
  <2>1. ~(SkipBatch \/ PublishView \/ MarkApplying \/ PassFails \/ Journal \/ WriteAnswer
            \/ SelectionFails \/ AllWritten \/ RemoveLocal \/ RemoveRepo \/ RemoveFails
            \/ CommitBatch)
    BY DEF SkipBatch, PublishView, MarkApplying, PassFails, Journal, WriteAnswer, SelectionFails,
           AllWritten, RemoveLocal, RemoveRepo, RemoveFails, CommitBatch, clone
  <2>2. ~(Rollback \/ RollbackFails \/ RolledBack \/ Settle \/ SettleFails \/ ClearOne
            \/ ClearFails \/ Cleared)
    BY DEF Rollback, RollbackFails, RolledBack, Settle, SettleFails, ClearOne, ClearFails, Cleared, clone
  <2> QED  BY <2>1, <2>2 DEF BatchStep
<1>3. EngineStep => Commit
  BY DEF EngineStep, OpenLocal, OpenRepo, OpenFails, clone
<1>4. PullStep => \E c \in Conflict : PullAnswer(c) \/ PullConflict(c)
  BY DEF PullStep, StartPass, Recover, RecoverWithoutJournal, PullNothing, PullRefused, Mirror, clone
<1> QED  BY <1>1, <1>2, <1>3, <1>4 DEF Next

(***************************************************************************)
(* A commit drops a bundle only with an answer in its file: whatever fails *)
(* between writing the answers and removing the bundles, and whichever     *)
(* machine answered (the phases of ApplyPendingBatch, Resolve, and the     *)
(* check for a clean tree before a pull).                                  *)
(***************************************************************************)
THEOREM BundlesAreKept == Spec => NoBundleDropped
<1> DEFINE Kept == \A c \in committed.bundles \ committed'.bundles :
                     LET file == committed'.files[PathOf[c]]
                     IN  file = Elsewhere \/ file[1] \in {d \in Conflict : PathOf[d] = PathOf[c]}
<1>1. TypeOK /\ AnswerInv /\ [Next]_vars => [Kept]_vars
  <2> SUFFICES ASSUME TypeOK, AnswerInv, Next, committed' # committed,
                      NEW c \in committed.bundles \ committed'.bundles
               PROVE  Answered(committed'.files, PathOf[c])
    BY DEF Answered
  <2>1. CASE Commit
    <3>1. committed' = [files |-> canonical, bundles |-> repo] /\ DroppedAnswered
      BY <2>1 DEF Commit, At, AnswerInv
    <3> QED  BY <3>1 DEF DroppedAnswered
  <2>2. ASSUME NEW d \in Conflict, PullAnswer(d) PROVE Answered(committed'.files, PathOf[c])
    <3>1. c = d /\ committed'.files = [committed.files EXCEPT ![PathOf[d]] = Elsewhere]
      BY <2>2 DEF PullAnswer
    <3>2. PathOf[d] \in Path
      BY ResolutionAssumption
    <3>3. committed'.files[PathOf[d]] = Elsewhere
      BY <3>1, <3>2 DEF TypeOK
    <3> QED  BY <3>1, <3>3 DEF Answered
  <2>3. ASSUME NEW d \in Conflict, PullConflict(d) PROVE FALSE
    BY <2>3 DEF PullConflict, TypeOK
  <2> QED  BY <2>1, <2>2, <2>3, HeadMoves
<1>2. Init => TypeOK /\ ShapeInv /\ AnswerInv
  BY TypeInit, AnswerInit
<1>3. TypeOK /\ ShapeInv /\ AnswerInv /\ [Next]_vars => (TypeOK /\ ShapeInv /\ AnswerInv)'
  BY TypeNext, AnswerNext
<1> QED  BY <1>1, <1>2, <1>3, PTL DEF Spec, NoBundleDropped
=============================================================================
