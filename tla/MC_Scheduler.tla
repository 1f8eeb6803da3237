---------------------------- MODULE MC_Scheduler ----------------------------
(* Instance of Scheduler for TLC: two default schedules. *)
EXTENDS Scheduler

TwoIntervals == <<"interval", "interval">>
=============================================================================
