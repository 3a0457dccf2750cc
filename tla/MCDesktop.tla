----------------------------- MODULE MCDesktop -----------------------------
(***************************************************************************)
(* Small instances of the desktop service for TLC.  Each behaviour has one *)
(* of the budgets, chosen in its first state.                              *)
(***************************************************************************)
EXTENDS Desktop, TLC

None == [k \in Bounded |-> 0]

(* Resets, pauses and restarts that meet; settings and previews that meet. *)
Clashes == [None EXCEPT !["window"] = 2, !["tray"] = 1, !["restart"] = 1, !["troubles"] = 2]
Repeats == [None EXCEPT !["window"] = 4, !["troubles"] = 1]
Previews == [None EXCEPT !["window"] = 2, !["views"] = 1]
Sharing == [None EXCEPT !["window"] = 1, !["views"] = 2]
Few == {Clashes, Repeats, Previews, Sharing}
=============================================================================
