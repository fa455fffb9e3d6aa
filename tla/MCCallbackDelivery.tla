------------------------- MODULE MCCallbackDelivery -------------------------
(* Instances of CallbackDelivery for TLC: one job, several destinations. *)
EXTENDS CallbackDelivery

CONSTANT j1

OneJob == [k \in Records |-> j1]
=============================================================================
