--------------------------- MODULE MCInstallPlan ---------------------------
(***************************************************************************)
(* Two computers with one plugin and one shared Skill for TLC.             *)
(***************************************************************************)
EXTENDS InstallPlan, TLC

CONSTANTS m1, m2

MachineSymmetry == Permutations(Machine)

Changes == [user |-> 2, clicks |-> 1, troubles |-> 0]
Cuts == [user |-> 2, clicks |-> 0, troubles |-> 1]
Failures == [user |-> 1, clicks |-> 1, troubles |-> 1]
Few == {Changes, Cuts, Failures}
OneFailure == {Failures}
Quiet == {[user |-> 1, clicks |-> 0, troubles |-> 0]}
=============================================================================
