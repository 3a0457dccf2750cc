------------------------------- MODULE MCSync -------------------------------
(***************************************************************************)
(* Small instances of the synchronization engine for TLC.                  *)
(***************************************************************************)
EXTENDS SyncProperties, TLC

CONSTANTS m1, m2

MachineSymmetry == Permutations(Machine)
FullSymmetry ==
  Permutations(Machine) \cup Permutations(Field) \cup Permutations(Value \ {Blank})

OneBinary == 1 :> "binary"
OneStructured == 1 :> "structured"
OneText == 1 :> "text"
TwoBinary == 1 :> "binary" @@ 2 :> "binary"

AllMerge == [m \in Machine |-> "merge"]
CloudAndMerge == m1 :> "use-cloud" @@ m2 :> "merge"
LocalThenCloud == m1 :> "use-local" @@ m2 :> "use-cloud"

(* How many environment steps of each kind a run allows. *)
Allow(edits, cuts, offline, troubles, batches) ==
  [edits |-> edits, cuts |-> cuts, offline |-> offline,
   troubles |-> troubles, batches |-> batches]

Interruptions == Allow(2, 1, 1, 0, 1)
LocalTrouble == Allow(2, 0, 0, 1, 1)
MoreEdits == Allow(3, 0, 0, 0, 0)
OftenOffline == Allow(3, 0, 3, 0, 0)
SkipAndReturn == Allow(2, 0, 0, 2, 0)
CutFirstPass == Allow(2, 1, 0, 0, 0)
OneAnswer == Allow(2, 0, 0, 0, 1)
=============================================================================
