----------------------------- MODULE JobControl -----------------------------
(***************************************************************************)
(* What the scheduler promises those who control it (internal/scheduler,   *)
(* the comments on Run, Pause, PauseIfIdle and Resume): jobs run one at a  *)
(* time, only in a run, and none starts while the scheduler is paused; a   *)
(* run that is stopped ends when no job is left.  Timers, intervals,       *)
(* triggers and the state shown in the window are not visible here.        *)
(*                                                                         *)
(* Scheduler implements this specification; the desktop service is built   *)
(* on it.                                                                  *)
(***************************************************************************)
VARIABLES
  on,        (* a run has begun and has not ended *)
  paused,
  busy,      (* a job is running *)
  stopping   (* the context of the run is cancelled *)

job == <<on, paused, busy, stopping>>

Begin ==
  /\ ~on
  /\ on' = TRUE /\ stopping' = FALSE
  /\ UNCHANGED <<paused, busy>>

Pause ==
  /\ paused' = TRUE
  /\ UNCHANGED <<on, busy, stopping>>

(* Succeeds only while no job runs. *)
PauseIfIdle ==
  /\ ~busy
  /\ Pause

Resume ==
  /\ paused' = FALSE
  /\ UNCHANGED <<on, busy, stopping>>

(* A job may still start after the run was told to stop. *)
StartJob ==
  /\ on /\ ~busy /\ ~paused
  /\ busy' = TRUE
  /\ UNCHANGED <<on, paused, stopping>>

EndJob ==
  /\ busy
  /\ busy' = FALSE
  /\ UNCHANGED <<on, paused, stopping>>

Stop ==
  /\ on
  /\ stopping' = TRUE
  /\ UNCHANGED <<on, paused, busy>>

End ==
  /\ on /\ stopping /\ ~busy
  /\ on' = FALSE /\ stopping' = FALSE
  /\ UNCHANGED <<paused, busy>>

Init == on = FALSE /\ paused = FALSE /\ busy = FALSE /\ stopping = FALSE

Next ==
  \/ Begin \/ Stop \/ End
  \/ Pause \/ PauseIfIdle \/ Resume
  \/ StartJob \/ EndJob

Spec == Init /\ [][Next]_job
=============================================================================
