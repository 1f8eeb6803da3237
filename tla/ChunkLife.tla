------------------------------ MODULE ChunkLife ------------------------------
(***************************************************************************)
(* What AudioQueue promises of every chunk, with no queue in it: the       *)
(* stages a chunk goes through, who may be dropped by whose step, and how  *)
(* often a chunk is worked on.                                             *)
(***************************************************************************)
EXTENDS Naturals, FiniteSets

CONSTANTS
    Chunk,
    Attempts    \* a natural number, not 0: a chunk is worked on at most so often

VARIABLES
    stage,      \* of each chunk
    tries,      \* how often it was taken
    forgotten   \* chunks in work that nobody asks after any more

vars == <<stage, tries, forgotten>>

Stages == {"unborn", "offered", "waiting", "working", "done", "failed", "gone"}
In(s) == {c \in Chunk : stage[c] = s}

Init ==
    /\ stage = [c \in Chunk |-> "unborn"]
    /\ tries = [c \in Chunk |-> 0]
    /\ forgotten = {}

\* Chunk c goes to stage s, and the chunks of S are dropped.
Move(c, s, S) ==
    stage' = [d \in Chunk |-> IF d = c THEN s ELSE IF d \in S THEN "gone" ELSE stage[d]]

\* An arrival costs at most one other chunk its place.
Displaced == {{}} \union {{d} : d \in In("waiting")}

Offer(c) ==
    /\ stage[c] = "unborn"
    /\ Move(c, "offered", {})
    /\ UNCHANGED <<tries, forgotten>>

Admit(c) ==
    /\ stage[c] = "offered"
    /\ \E S \in Displaced : Move(c, "waiting", S)
    /\ UNCHANGED <<tries, forgotten>>

Refuse(c) ==
    /\ stage[c] = "offered"
    /\ Move(c, "gone", {})
    /\ UNCHANGED <<tries, forgotten>>

Take(c) ==
    /\ stage[c] = "waiting"
    /\ Move(c, "working", {})
    /\ tries' = [tries EXCEPT ![c] = @ + 1]
    /\ UNCHANGED forgotten

Complete(c) ==
    /\ stage[c] = "working"
    /\ c \notin forgotten
    /\ Move(c, "done", {})
    /\ UNCHANGED <<tries, forgotten>>

\* A failure leads back into the line as long as attempts are left, and only then.
TryAgain(c) ==
    /\ stage[c] = "working"
    /\ c \notin forgotten
    /\ tries[c] < Attempts
    /\ \E S \in Displaced : Move(c, "waiting", S)
    /\ UNCHANGED <<tries, forgotten>>

GiveUp(c) ==
    /\ stage[c] = "working"
    /\ c \notin forgotten
    /\ tries[c] = Attempts
    /\ Move(c, "failed", {})
    /\ UNCHANGED <<tries, forgotten>>

\* The outcome of a forgotten chunk is told to nobody.
EndUnseen(c) ==
    /\ c \in forgotten
    /\ Move(c, "gone", {})
    /\ forgotten' = forgotten \ {c}
    /\ UNCHANGED tries

\* Cleanup: chunks that wait are dropped.
Discard ==
    /\ \E S \in SUBSET In("waiting") :
          stage' = [c \in Chunk |-> IF c \in S THEN "gone" ELSE stage[c]]
    /\ UNCHANGED <<tries, forgotten>>

\* Clear: all that waits is dropped, all that is in work is forgotten.
Reset ==
    /\ stage' = [c \in Chunk |-> IF stage[c] = "waiting" THEN "gone" ELSE stage[c]]
    /\ forgotten' = In("working")
    /\ UNCHANGED tries

Next ==
    \/ \E c \in Chunk :
          \/ Offer(c) \/ Admit(c) \/ Refuse(c) \/ Take(c)
          \/ Complete(c) \/ TryAgain(c) \/ GiveUp(c) \/ EndUnseen(c)
    \/ Discard
    \/ Reset

Spec == Init /\ [][Next]_vars
=============================================================================
