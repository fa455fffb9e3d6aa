--------------------------- MODULE MCDatabaseFile ---------------------------
(* Instances of DatabaseFile for TLC: two processes, three calls. *)
EXTENDS DatabaseFile

CONSTANTS p1, p2, c1, c2, c3, w1, nodb

TwoAndOne == [c \in Callers |-> IF c = c3 THEN p2 ELSE p1]
=============================================================================
