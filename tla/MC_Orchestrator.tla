-------------------------- MODULE MC_Orchestrator --------------------------
(* Instances of Orchestrator for TLC: the request shapes that between them    *)
(* take every branch of the two pipelines.                                    *)
EXTENDS Orchestrator, TLC

ParallelAudio == [valid |-> TRUE, audio |-> TRUE, par |-> TRUE,
                  quality |-> TRUE, ticket |-> TRUE, voice |-> FALSE]
ParallelVoice == [valid |-> TRUE, audio |-> FALSE, par |-> TRUE,
                  quality |-> FALSE, ticket |-> TRUE, voice |-> TRUE]
Sequential == [valid |-> TRUE, audio |-> TRUE, par |-> FALSE,
               quality |-> TRUE, ticket |-> TRUE, voice |-> TRUE]
TextOnly == [valid |-> TRUE, audio |-> FALSE, par |-> FALSE,
             quality |-> FALSE, ticket |-> FALSE, voice |-> FALSE]
Invalid == [valid |-> FALSE, audio |-> FALSE, par |-> TRUE,
            quality |-> TRUE, ticket |-> TRUE, voice |-> FALSE]

AllShapes == {ParallelAudio, ParallelVoice, Sequential, TextOnly, Invalid}
FewShapes == {ParallelVoice, TextOnly, Invalid}
QueueShapes == {TextOnly, Invalid}
Symmetric == Permutations(Req) \union Permutations(Conv)
=============================================================================
