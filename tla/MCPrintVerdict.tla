---------------------------- MODULE MCPrintVerdict ----------------------------
(* Instances of PrintVerdict for TLC. *)
EXTENDS PrintVerdict

CONSTANTS
  h1, h2,                \* two HTML sends of one job, a print and its retry
  t1,                    \* a send of text
  j1, j2,                \* the job of the HTML sends and the other one
  x1,                    \* a document of another program
  TextCopies             \* its copies

RetriedJob == [s \in Sends |-> IF s \in Html THEN j1 ELSE j2]
FewCopies == [s \in Sends |-> IF s \in Html THEN 1 ELSE TextCopies]
=============================================================================
