---------------------------- MODULE MCPrintIntake ----------------------------
(* Instances of PrintIntake for TLC. *)
EXTENDS PrintIntake

CONSTANT r1             \* the request every message and call of the instance is for

RepeatedMessage == [m \in Messages |-> r1]
RepeatedCall == [h \in Calls |-> r1]
=============================================================================
