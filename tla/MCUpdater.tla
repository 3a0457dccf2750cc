------------------------------ MODULE MCUpdater ------------------------------
(***************************************************************************)
(* Small instances of the updater for TLC: an update that meets faults and *)
(* a release superseded; an update after an update, with overlapping       *)
(* helpers.                                                                *)
(***************************************************************************)
EXTENDS Updater, TLC

Zero == [k \in Bounded |-> 0]

Faults == [Zero EXCEPT !["releases"] = 2, !["starts"] = 1, !["window"] = 2, !["troubles"] = 1]
Again == [Zero EXCEPT !["releases"] = 2, !["starts"] = 2, !["window"] = 1, !["troubles"] = 0]
Breaks == [Zero EXCEPT !["releases"] = 1, !["starts"] = 1, !["window"] = 1, !["troubles"] = 2]
Few == {Faults, Again, Breaks}
=============================================================================
