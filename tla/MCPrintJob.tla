----------------------------- MODULE MCPrintJob -----------------------------
(* Instances of PrintJob for TLC. *)
EXTENDS PrintJob

CONSTANT p1             \* a printer every job of the instance goes to

SharedPrinter == [j \in Jobs |-> p1]
=============================================================================
