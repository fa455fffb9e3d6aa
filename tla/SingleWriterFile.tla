-------------------------- MODULE SingleWriterFile --------------------------
(***************************************************************************)
(* What a file with whole-file saves promises: at most one process has a   *)
(* copy of it, the copy starts as what was saved last, and what is saved   *)
(* is the copy of that process.  Nothing saved is ever saved over.         *)
(***************************************************************************)
CONSTANTS
  Procs,     \* the processes that use the file
  Writes,    \* the changes made to it
  NoDb       \* the copy of a process that has none

VARIABLES
  saved,     \* the changes in the file
  copy       \* copy[p]: the changes in the copy of process p

vars == <<saved, copy>>

-----------------------------------------------------------------------------
Init == saved = {} /\ copy = [p \in Procs |-> NoDb]

Open(p) ==
  /\ \A q \in Procs : copy[q] = NoDb
  /\ copy' = [copy EXCEPT ![p] = saved]
  /\ UNCHANGED saved

Change(p, w) ==
  /\ copy[p] # NoDb
  /\ copy' = [copy EXCEPT ![p] = @ \union {w}]
  /\ UNCHANGED saved

Save(p) ==
  /\ copy[p] # NoDb
  /\ saved' = copy[p]
  /\ UNCHANGED copy

(* The copy is given up, saved or as lost as what a dead process knew. *)
Leave(p) ==
  /\ copy[p] # NoDb
  /\ saved' \in {saved, copy[p]}
  /\ copy' = [copy EXCEPT ![p] = NoDb]

Next == \E p \in Procs : Open(p) \/ Save(p) \/ Leave(p) \/ \E w \in Writes : Change(p, w)

Spec == Init /\ [][Next]_vars
=============================================================================
