---------------------------- MODULE MCScheduler ----------------------------
(***************************************************************************)
(* A small instance of the scheduler for TLC; its cfgs give every constant *)
(* a literal value.                                                        *)
(***************************************************************************)
EXTENDS Scheduler
=============================================================================
