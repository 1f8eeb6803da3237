-------------------------- MODULE MC_AudioStreams --------------------------
(* Instance of AudioStreams for TLC.  Callers are interchangeable. *)
EXTENDS AudioStreams, TLC

Symmetric == Permutations(Caller)
=============================================================================
