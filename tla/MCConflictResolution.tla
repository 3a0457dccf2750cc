------------------------ MODULE MCConflictResolution ------------------------
(***************************************************************************)
(* Small instances of the conflict batch for TLC: two bundles on one       *)
(* canonical file, which existed, and one on another, which did not.       *)
(***************************************************************************)
EXTENDS ConflictResolution, TLC

TwoOnOne == 1 :> "a" @@ 2 :> "a" @@ 3 :> "b"
OneMissing == "a" :> Original @@ "b" :> None

Allow(answers, crashes, faults, pulls) ==
  [answers |-> answers, crashes |-> crashes, faults |-> faults, pulls |-> pulls]

TwoAnswers == Allow(2, 2, 1, 2)
OneFault == Allow(1, 0, 1, 2)
=============================================================================
