---------------------------- MODULE AdapterCall -----------------------------
(***************************************************************************)
(* What a printer adapter promises its caller, whatever it watches and     *)
(* whoever else prints: one call has the printer at a time and hands its   *)
(* copies over one by one; FAILED, which may be retried, is the answer of  *)
(* a call that handed over nothing, SUCCESS of one that handed over all;   *)
(* and nothing follows an answer.  The adapter call of PrintJob is such a  *)
(* call of one copy; PrintVerdict implements it.                           *)
(***************************************************************************)
EXTENDS Naturals

CONSTANTS
  Calls,      \* calls of the adapter for one printer
  CopiesOf    \* CopiesOf[c]: copies asked for

VARIABLES
  dev,        \* dev[c]: waiting for the printer, working, or returned
  handed,     \* handed[c]: the copies Windows has or had, or may still get
  result      \* result[c]: the answer

vars == <<dev, handed, result>>

-----------------------------------------------------------------------------
Init ==
  /\ dev = [c \in Calls |-> "waiting"]
  /\ handed = [c \in Calls |-> {}]
  /\ result = [c \in Calls |-> "none"]

Grant(c) ==
  /\ dev[c] = "waiting" /\ \A k \in Calls : dev[k] # "working"
  /\ dev' = [dev EXCEPT ![c] = "working"]
  /\ UNCHANGED <<handed, result>>

HandOver(c) ==
  \E i \in 1 .. CopiesOf[c] \ handed[c] : handed' = [handed EXCEPT ![c] = @ \union {i}]

Submit(c) == dev[c] = "working" /\ HandOver(c) /\ UNCHANGED <<dev, result>>

Return(c, r) ==
  /\ dev[c] # "returned"
  /\ dev' = [dev EXCEPT ![c] = "returned"]
  /\ result' = [result EXCEPT ![c] = r]

(* A request may be refused before it waits for the printer. *)
Fails(c) == handed[c] = {} /\ Return(c, "FAILED") /\ UNCHANGED handed

Succeeds(c) ==
  /\ dev[c] = "working" /\ handed[c] = 1 .. CopiesOf[c]
  /\ Return(c, "SUCCESS") /\ UNCHANGED handed

(* A submission that broke may or may not have handed its copy over. *)
GivesUp(c) ==
  /\ dev[c] = "working"
  /\ Return(c, "UNVERIFIED") /\ (HandOver(c) \/ UNCHANGED handed)

Next == \E c \in Calls : Grant(c) \/ Submit(c) \/ Fails(c) \/ Succeeds(c) \/ GivesUp(c)

Spec == Init /\ [][Next]_vars
=============================================================================
