--------------------------- MODULE MC_VoiceSockets ---------------------------
\* Two clients of one user, in sessions of their own.
EXTENDS VoiceSockets

CONSTANTS c1, c2, u1, s1, s2

OneUser == [p \in Peer |-> u1]
OwnSessions == [p \in Peer |-> IF p = c1 THEN s1 ELSE s2]
=============================================================================
