--------------------------- MODULE DeliveryRecord ---------------------------
(***************************************************************************)
(* What a row of result_callback_deliveries promises, with no worker,      *)
(* receiver or crash in sight: it is made once with the verdict it is to   *)
(* tell, claimed before each request, settled or put off by whoever        *)
(* claimed it, and put off without an attempt when its sender is gone.     *)
(* CallbackDelivery implements it.                                         *)
(***************************************************************************)
EXTENDS Naturals

CONSTANTS
  Records,       \* the delivery keys
  Verdicts,      \* what a delivery may have to tell
  MaxAttempts    \* RetryPolicy.maxAttempts

VARIABLES
  status,        \* status[k]: delivery_status, "NONE" before the INSERT
  attempts,      \* attempts[k]: attempt_count
  reports,       \* reports[k]: the verdict in the payload
  guarantee      \* guarantee[k]: what the answer proved

vars == <<status, attempts, reports, guarantee>>

-----------------------------------------------------------------------------
Init ==
  /\ status = [k \in Records |-> "NONE"]
  /\ attempts = [k \in Records |-> 0]
  /\ reports = [k \in Records |-> "NONE"]
  /\ guarantee = [k \in Records |-> "NONE"]

Create(k, s) ==
  /\ status[k] = "NONE"
  /\ status' = [status EXCEPT ![k] = "PENDING"]
  /\ reports' = [reports EXCEPT ![k] = s]
  /\ UNCHANGED <<attempts, guarantee>>

Claim(k) ==
  /\ status[k] \in {"PENDING", "RETRY_SCHEDULED"}
  /\ status' = [status EXCEPT ![k] = "DELIVERING"]
  /\ UNCHANGED <<attempts, reports, guarantee>>

(* The attempt is over, and counted. *)
Attempted(k, s, g) ==
  /\ status[k] = "DELIVERING" /\ attempts[k] < MaxAttempts
  /\ status' = [status EXCEPT ![k] = s]
  /\ attempts' = [attempts EXCEPT ![k] = @ + 1]
  /\ guarantee' = [guarantee EXCEPT ![k] = g]
  /\ UNCHANGED reports

Deliver(k) == \E g \in {"BEST_EFFORT", "ACKNOWLEDGED"} : Attempted(k, "DELIVERED", g)
GiveUp(k)  == Attempted(k, "FAILED", "NONE")
PutOff(k)  == attempts[k] + 1 < MaxAttempts /\ Attempted(k, "RETRY_SCHEDULED", "NONE")

(* The sender is gone: whatever it was about to do, the record is due. *)
Recover ==
  /\ status' = [k \in Records |->
                  IF status[k] \in {"PENDING", "DELIVERING"} THEN "RETRY_SCHEDULED"
                  ELSE status[k]]
  /\ UNCHANGED <<attempts, reports, guarantee>>

Next ==
  \/ Recover
  \/ \E k \in Records : \/ Claim(k) \/ Deliver(k) \/ GiveUp(k) \/ PutOff(k)
                        \/ \E s \in Verdicts : Create(k, s)

Spec == Init /\ [][Next]_vars
=============================================================================
