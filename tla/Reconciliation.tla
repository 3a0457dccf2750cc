--------------------------- MODULE Reconciliation ---------------------------
(***************************************************************************)
(* The pure decisions of one synchronization pass: the three-way plan of   *)
(* internal/syncengine (reconcile.go, planning.go), the next merge base    *)
(* (preserveSnapshot) and the strategy-specific merges of                  *)
(* internal/portablemerge.                                                 *)
(*                                                                         *)
(* A resource file is abstracted to a document with finitely many fields:  *)
(* a field stands for a key of a structured document or for a hunk of a    *)
(* text file, and the value Blank for a missing key or an empty hunk.      *)
(* A file that does not exist is None.  The code compares SHA-256 hashes;  *)
(* the model compares contents.                                            *)
(***************************************************************************)
EXTENDS Integers, FiniteSets

CONSTANTS
  Field,   (* keys or hunks a file is made of *)
  Value,   (* what one of them can hold *)
  Blank,   (* the value of a missing key / of an empty hunk *)
  None     (* the file does not exist *)

ASSUME ContentAssumption ==
  /\ Blank \in Value
  /\ None \notin [Field -> Value]

Content == [Field -> Value]
File == Content \cup {None}

(* The bytes of an empty file: what reading an absent variant yields. *)
Empty == [f \in Field |-> Blank]
AsBytes(file) == IF file = None THEN Empty ELSE file

ActionType == {"none", "push", "pull", "delete-remote", "delete-local",
               "remove-remote", "merge"}

(***************************************************************************)
(* sideChanged: presence or hash differs from the base.                    *)
(***************************************************************************)
SideChanged(base, side) == base # side

(* Mutant: a changed remote always wins. *)
DecideRemoteWins(base, local, remote, isBlocked) ==
  CASE isBlocked -> IF remote # None THEN "remove-remote" ELSE "none"
    [] ~isBlocked /\ SideChanged(base, remote) ->
         IF remote # None THEN "pull" ELSE "delete-local"
    [] ~isBlocked /\ ~SideChanged(base, remote) /\ SideChanged(base, local) ->
         IF local # None THEN "push" ELSE "delete-remote"
    [] OTHER -> "none"

(***************************************************************************)
(* ReconcileWithBlocked, for one path.                                     *)
(***************************************************************************)
Decide(base, local, remote, isBlocked) ==
  CASE isBlocked ->
         IF remote # None THEN "remove-remote" ELSE "none"
    [] ~isBlocked /\ SideChanged(base, local) /\ ~SideChanged(base, remote) ->
         IF local # None THEN "push" ELSE "delete-remote"
    [] ~isBlocked /\ ~SideChanged(base, local) /\ SideChanged(base, remote) ->
         IF remote # None THEN "pull" ELSE "delete-local"
    [] ~isBlocked /\ SideChanged(base, local) /\ SideChanged(base, remote)
         /\ local # remote -> "merge"
    [] OTHER -> "none"

(***************************************************************************)
(* ApplyFirstSyncStrategy, for one path: the direction the user chose for  *)
(* the first synchronization of a device.                                  *)
(***************************************************************************)
FirstSyncMode == {"merge", "use-cloud", "use-local"}

(* Mutant: use-cloud only settles the merges. *)
DirectedMergesOnly(mode, action, local, remote) ==
  CASE mode = "use-cloud" /\ action = "merge" ->
         IF remote # None THEN "pull" ELSE "delete-local"
    [] mode = "use-local" /\ action = "merge" ->
         IF local # None THEN "push" ELSE "delete-remote"
    [] OTHER -> action

Directed(mode, action, local, remote) ==
  CASE mode = "use-cloud" /\ action = "push"  -> "delete-local"
    [] mode = "use-cloud" /\ action = "merge" ->
         IF remote # None THEN "pull" ELSE "delete-local"
    [] mode = "use-local" /\ action = "pull"  -> "delete-remote"
    [] mode = "use-local" /\ action = "merge" ->
         IF local # None THEN "push" ELSE "delete-remote"
    [] OTHER -> action

(***************************************************************************)
(* preserveSnapshot: the snapshot saved as the next base keeps, for the    *)
(* preserved paths, what the previous one said (nothing included).         *)
(***************************************************************************)
PreserveSnapshot(previous, current, preserve) ==
  [p \in DOMAIN current |-> IF p \in preserve THEN previous[p] ELSE current[p]]

(***************************************************************************)
(* The merges of internal/portablemerge.  A merge returns its outcome and, *)
(* when the outcome is "clean", the merged content.                        *)
(***************************************************************************)
Merged(outcome, data) == [outcome |-> outcome, data |-> data]

(* mergeNode on leaves: a field changed on both sides to different values. *)
Clashes(base, local, remote) ==
  {f \in Field : /\ local[f] # remote[f]
                 /\ base[f] # local[f]
                 /\ base[f] # remote[f]}

(* Mutant: the sides swapped. *)
CombineSwapped(base, local, remote) ==
  [f \in Field |-> IF base[f] = local[f] THEN local[f] ELSE remote[f]]

Combine(base, local, remote) ==
  [f \in Field |-> IF base[f] = local[f] THEN remote[f] ELSE local[f]]

(* StructuredDocument / mergeMaps: any clashing key is a conflict. *)
StructuredMerge(base, local, remote) ==
  IF Clashes(base, local, remote) = {}
    THEN Merged("clean", Combine(base, local, remote))
    ELSE Merged("conflict", Empty)

(* GitTextMerger.Merge: git merge-file exits with the number of conflicts, *)
(* and only the exit code 1 is read as a conflict.                         *)
TextMerge(base, local, remote) ==
  LET clashes == Clashes(base, local, remote)
  IN  CASE clashes = {} -> Merged("clean", Combine(base, local, remote))
        [] Cardinality(clashes) = 1 -> Merged("conflict", Empty)
        [] OTHER -> Merged("error", Empty)

(* Binary: whole files. *)
BinaryMerge(base, local, remote) ==
  CASE local = remote -> Merged("clean", local)
    [] local # remote /\ local = base -> Merged("clean", remote)
    [] local # remote /\ remote = base -> Merged("clean", local)
    [] OTHER -> Merged("conflict", Empty)

Strategies == {"structured", "text", "binary"}

(***************************************************************************)
(* mergeResource up to its decision: without a recorded base only          *)
(* structured documents merge (against an empty one), and a side that is   *)
(* absent always conflicts.                                                *)
(***************************************************************************)
MergeOutcome(strategy, base, local, remote) ==
  CASE local = None \/ remote = None -> Merged("conflict", Empty)
    [] local # None /\ remote # None /\ strategy = "structured" ->
         StructuredMerge(AsBytes(base), local, remote)
    [] local # None /\ remote # None /\ strategy # "structured" /\ base = None ->
         Merged("conflict", Empty)
    [] local # None /\ remote # None /\ base # None /\ strategy = "text" ->
         TextMerge(base, local, remote)
    [] OTHER -> BinaryMerge(base, local, remote)
=============================================================================
