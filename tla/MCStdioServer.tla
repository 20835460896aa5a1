---------------------------- MODULE MCStdioServer ----------------------------
\* Small instances of StdioServer for TLC.
EXTENDS ServerProperties

CONSTANTS k1, k2

KeyOfLines == [n \in Lines |-> IF n % 2 = 1 THEN k1 ELSE k2]
=============================================================================
