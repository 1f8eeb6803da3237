---------------------------- MODULE MC_TaskQueue ----------------------------
(* Instance of TaskQueue for TLC: every kind of task. *)
EXTENDS TaskQueue

AllKinds == DOMAIN Program
=============================================================================
