--------------------------- MODULE MCToolScheduler ---------------------------
\* Small instances of ToolScheduler for TLC.
EXTENDS SchedulerProperties, TLC

CONSTANTS c1, c2, c3, k1, k2

\* c1 and c2 are two requests under one id; c3 has an id of its own.
KeyOfCalls == [c \in Calls |-> IF c \in {c1, c2} THEN k1 ELSE k2]

ThreadSymmetry == Permutations(Workers) \cup Permutations(Clients)
=============================================================================
