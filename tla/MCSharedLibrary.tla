-------------------------- MODULE MCSharedLibrary --------------------------
(***************************************************************************)
(* Small instances of the shared library for TLC: an operation and edits,  *)
(* an adopted copy refreshed, an operation interrupted and taken up again, *)
(* two of them interrupted one after the other.  The names of temporary    *)
(* files are interchangeable.                                              *)
(***************************************************************************)
EXTENDS SharedLibrary, TLC

Zero == [k \in Bounded |-> 0]

Edits == [Zero EXCEPT !["edits"] = 2, !["previews"] = 1]
Refreshes == [Zero EXCEPT !["edits"] = 1, !["arrivals"] = 1, !["passes"] = 1, !["previews"] = 1]
Interrupted == [Zero EXCEPT !["edits"] = 1, !["previews"] = 2, !["troubles"] = 1]
Repeated == [Zero EXCEPT !["previews"] = 3, !["troubles"] = 2]
Readopted == [Zero EXCEPT !["previews"] = 4, !["troubles"] = 1]
Removed == [Zero EXCEPT !["arrivals"] = 2, !["passes"] = 2, !["previews"] = 2]
Few == {Edits, Refreshes, Interrupted, Repeated, Readopted, Removed}

Names == Permutations(Temp)
=============================================================================
