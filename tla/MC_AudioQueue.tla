--------------------------- MODULE MC_AudioQueue ---------------------------
(* Instance of AudioQueue for TLC.  Producers and workers are interchangeable. *)
EXTENDS AudioQueue, TLC

Symmetric == Permutations(Producer) \union Permutations(Worker)
=============================================================================
