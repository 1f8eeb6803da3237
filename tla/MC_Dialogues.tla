---------------------------- MODULE MC_Dialogues ----------------------------
(* Instance of Dialogues for TLC: three calls on two conversations of one session. *)
EXTENDS Dialogues
=============================================================================
