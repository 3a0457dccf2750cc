------------------------- MODULE PreviewCoordinator -------------------------
(***************************************************************************)
(* The preview of the resources shown in the window                        *)
(* (internal/desktop/preview_coordinator.go, resources.go): viewers who    *)
(* ask at the same time share one collection, the last one to lose         *)
(* interest cancels it, and a collection that began before the settings    *)
(* changed is not saved.                                                   *)
(*                                                                         *)
(* One action is one section under previewCoordinator.mu or                *)
(* Service.previewMu, or one use of the disk.  What is collected is        *)
(* abstracted to the version of the settings it was collected for.         *)
(***************************************************************************)
EXTENDS Naturals

CONSTANTS
  Viewer,   (* requests of the window that may wait at the same time *)
  Call,     (* collections that may be running or read at the same time *)
  NoCall

ASSUME PreviewAssumption == NoCall \notin Call

NoPreview == 0
NoSettings == 0

CallStep == {"free", "generation", "settings", "collect", "commit", "complete", "done"}
Outcome == {"none", "shown", "invalidated", "failed", "cancelled"}

VARIABLES
  inflight,     (* the collection a new viewer joins, or NoCall *)
  calls,        (* Call -> its step, waiters, context and what it has read *)
  viewer,       (* Viewer -> the collection it waits for, or NoCall *)
  answer,       (* Viewer -> the outcome its last request returned *)
  generation,   (* Service.previewGeneration *)
  previewHeld,  (* a reset holds previewMu *)
  settings,     (* version of config.yaml, or NoSettings without one *)
  preview       (* settings that desktop/preview.json was collected for *)

coordinator == <<inflight, calls, viewer, answer>>
summaries == <<generation, previewHeld, settings, preview>>

Idle == [step |-> "free", waiters |-> {}, cancelled |-> FALSE,
         generation |-> 0, settings |-> NoSettings, outcome |-> "none"]

-----------------------------------------------------------------------------
(***************************************************************************)
(* refresh: join the collection in flight, or start one.                   *)
(***************************************************************************)
Join(v) ==
  /\ viewer[v] = NoCall /\ inflight # NoCall
  /\ viewer' = [viewer EXCEPT ![v] = inflight]
  /\ calls' = [calls EXCEPT ![inflight].waiters = @ \cup {v}]
  /\ answer' = [answer EXCEPT ![v] = "none"]
  /\ UNCHANGED <<inflight, summaries>>

StartCollection(v, c) ==
  /\ viewer[v] = NoCall /\ inflight = NoCall
  /\ calls[c].step = "free"
  /\ inflight' = c
  /\ viewer' = [viewer EXCEPT ![v] = c]
  /\ calls' = [calls EXCEPT ![c] = [Idle EXCEPT !.step = "generation", !.waiters = {v}]]
  /\ answer' = [answer EXCEPT ![v] = "none"]
  /\ UNCHANGED summaries

(* release: the last waiter of an unfinished collection detaches and       *)
(* cancels it; a finished one nobody reads any more is garbage.            *)
Released(c, v) ==
  LET left == calls[c].waiters \ {v}
  IN  IF left # {} THEN [calls[c] EXCEPT !.waiters = left]
      ELSE IF calls[c].step = "done" THEN Idle
      ELSE [calls[c] EXCEPT !.waiters = {}, !.cancelled = TRUE]

(* Mutant: the last waiter cancels the collection and leaves it in flight. *)
AbandonInFlight(v) ==
  /\ viewer[v] # NoCall
  /\ LET c == viewer[v]
     IN  /\ calls' = [calls EXCEPT ![c] = Released(c, v)]
         /\ UNCHANGED inflight
  /\ viewer' = [viewer EXCEPT ![v] = NoCall]
  /\ answer' = [answer EXCEPT ![v] = "none"]
  /\ UNCHANGED summaries

(* The context of the viewer's request is done. *)
Abandon(v) ==
  /\ viewer[v] # NoCall
  /\ LET c == viewer[v]
         last == calls[c].waiters = {v} /\ calls[c].step # "done"
     IN  /\ calls' = [calls EXCEPT ![c] = Released(c, v)]
         /\ inflight' = IF last /\ inflight = c THEN NoCall ELSE inflight
  /\ viewer' = [viewer EXCEPT ![v] = NoCall]
  /\ answer' = [answer EXCEPT ![v] = "none"]
  /\ UNCHANGED summaries

Answer(v) ==
  /\ viewer[v] # NoCall /\ calls[viewer[v]].step = "done"
  /\ answer' = [answer EXCEPT ![v] = calls[viewer[v]].outcome]
  /\ calls' = [calls EXCEPT ![viewer[v]] = Released(viewer[v], v)]
  /\ viewer' = [viewer EXCEPT ![v] = NoCall]
  /\ UNCHANGED <<inflight, summaries>>

-----------------------------------------------------------------------------
(***************************************************************************)
(* run and refreshPreview: the generation is read before the settings, and *)
(* compared when the preview is saved.                                     *)
(***************************************************************************)
GoOn(c, step) == calls' = [calls EXCEPT ![c].step = step]
GiveUp(c, outcome) == calls' = [calls EXCEPT ![c].step = "complete", ![c].outcome = outcome]

ReadGeneration(c) ==
  /\ calls[c].step = "generation" /\ ~previewHeld
  /\ calls' = [calls EXCEPT ![c].step = "settings", ![c].generation = generation]
  /\ UNCHANGED <<inflight, viewer, answer, summaries>>

LoadSettings(c) ==
  /\ calls[c].step = "settings"
  /\ IF settings = NoSettings THEN GiveUp(c, "failed")
     ELSE calls' = [calls EXCEPT ![c].step = "collect", ![c].settings = settings]
  /\ UNCHANGED <<inflight, viewer, answer, summaries>>

(* The collection ends or fails; a cancelled one ends with its context.    *)
Collect(c) ==
  /\ calls[c].step = "collect"
  /\ IF calls[c].cancelled THEN GiveUp(c, "cancelled")
     ELSE GoOn(c, "commit") \/ GiveUp(c, "failed")
  /\ UNCHANGED <<inflight, viewer, answer, summaries>>

(* Mutant: the generation was read, but nobody compares it. *)
CommitAnyway(c) ==
  /\ calls[c].step = "commit" /\ ~previewHeld
  /\ preview' = calls[c].settings
  /\ GiveUp(c, "shown")
  /\ UNCHANGED <<inflight, viewer, answer, generation, previewHeld, settings>>

Commit(c) ==
  /\ calls[c].step = "commit" /\ ~previewHeld
  /\ IF calls[c].generation = generation
       THEN preview' = calls[c].settings /\ GiveUp(c, "shown")
       ELSE UNCHANGED preview /\ GiveUp(c, "invalidated")
  /\ UNCHANGED <<inflight, viewer, answer, generation, previewHeld, settings>>

(* Finished collections nobody waits for are garbage. *)
Complete(c) ==
  /\ calls[c].step = "complete"
  /\ inflight' = IF inflight = c THEN NoCall ELSE inflight
  /\ calls' = [calls EXCEPT ![c] = IF @.waiters = {} THEN Idle ELSE [@ EXCEPT !.step = "done"]]
  /\ UNCHANGED <<viewer, answer, summaries>>

CollectionStep(c) ==
  \/ ReadGeneration(c) \/ LoadSettings(c) \/ Collect(c) \/ Commit(c) \/ Complete(c)

-----------------------------------------------------------------------------
(***************************************************************************)
(* What the rest of the service does to the preview.                       *)
(***************************************************************************)
SaveSettings(version) ==
  /\ settings' = version
  /\ UNCHANGED <<coordinator, generation, previewHeld, preview>>

InvalidatePreview ==
  /\ ~previewHeld
  /\ generation' = generation + 1
  /\ preview' = NoPreview
  /\ UNCHANGED <<coordinator, previewHeld, settings>>

PreviewUnchanged == UNCHANGED <<coordinator, summaries>>

-----------------------------------------------------------------------------
PreviewInit ==
  /\ inflight = NoCall
  /\ calls = [c \in Call |-> Idle]
  /\ viewer = [v \in Viewer |-> NoCall]
  /\ answer = [v \in Viewer |-> "none"]
  /\ generation = 0 /\ previewHeld = FALSE
  /\ preview = NoPreview

PreviewStep ==
  \/ \E v \in Viewer : Join(v) \/ Abandon(v) \/ Answer(v)
  \/ \E v \in Viewer, c \in Call : StartCollection(v, c)
  \/ \E c \in Call : CollectionStep(c)

PreviewTypeOK ==
  /\ inflight \in Call \cup {NoCall}
  /\ calls \in [Call -> [step: CallStep, waiters: SUBSET Viewer, cancelled: BOOLEAN,
                         generation: Nat, settings: Nat, outcome: Outcome]]
  /\ viewer \in [Viewer -> Call \cup {NoCall}]
  /\ answer \in [Viewer -> Outcome]
  /\ generation \in Nat /\ previewHeld \in BOOLEAN
  /\ settings \in Nat /\ preview \in Nat

(***************************************************************************)
(* Nobody waits for, joins or is answered by a collection that somebody    *)
(* else's lost interest has cancelled (preview_coordinator.go release).    *)
(***************************************************************************)
NobodyWaitsForCancelled ==
  /\ \A v \in Viewer : viewer[v] # NoCall =>
       v \in calls[viewer[v]].waiters /\ ~calls[viewer[v]].cancelled
  /\ inflight # NoCall => ~calls[inflight].cancelled
  /\ \A v \in Viewer : answer[v] # "cancelled"
=============================================================================
