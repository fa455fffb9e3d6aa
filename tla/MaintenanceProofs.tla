------------------------- MODULE MaintenanceProofs --------------------------
(***************************************************************************)
(* Proofs about Maintenance, for any set of jobs and releases and any      *)
(* number of operations and crashes.                                       *)
(*                                                                         *)
(* The argument: while nobody has written the row behind its back, an      *)
(* operation that got past the drain holds the gate shut and empty (Held); *)
(* after the second look nothing waits or prints either (Clear), and only  *)
(* a creation could change that.  A launched update is in the row or about *)
(* to be written to it, so that the next API shuts the gate (Pending), and *)
(* an operation without the gate leaves it alone (Reason).                 *)
(***************************************************************************)
EXTENDS Maintenance, TLAPS

Waits == {"queue", "rows", "settle"}
Handing ==
  {"install", "launch", "handover", "installFailed", "rollingBack", "undo", "rollbackFailed"}

(* Where an operation is, what kind it has, and whether it holds the gate. *)
Shape ==
  /\ op.at \in {"free", "fetch"} <=> op.kind = "fetch"
  /\ op.at \in {"free", "fetch", "shut", "drain"} => ~op.holds
  /\ (op.at \in Waits /\ ~op.holds) => op.kind = "automatic"
  /\ op.at \in Handing => op.holds
  /\ op.at \in {"install", "installFailed", "rollingBack", "undo"} => op.kind # "rollback"

Down == api = "down" => op = NoOp /\ inside = {}

(* An operation that drains has shut the gate, one that holds it has emptied it. *)
Held ==
  "status" \notin touched =>
    /\ op.at = "drain" => maintenance
    /\ op.holds => maintenance /\ inside = {}

Quiet == maintenance /\ inside = {} /\ \A j \in Jobs : status[j] \notin {"waiting", "running"}

(* Nothing prints behind the second look, nor under an updater not yet at work. *)
Clear ==
  "status" \notin touched =>
    /\ op.at \in Handing => Quiet
    /\ updater.at = "launched" =>
         Quiet /\ (op.at = "handover" \/ (~op.holds /\ op.at # "drain"))

(* An update that nothing has touched is in the row. *)
Pending ==
  touched = {} =>
    /\ (updater.at # "none" \/ file.phase = "open") =>
         /\ ota.state \in MaintenanceStates /\ op.at \in {"free", "handover"}
         /\ api = "up" => maintenance
    /\ updater.at \in {"stopped", "started"} => file.phase = "open"
    /\ (updater.at = "launched" /\ updater.kind = "apply") => file.phase = "open"
    /\ (op.at \in {"launch", "handover", "undo"} \/ op.kind = "rollback") =>
         ota.state \in MaintenanceStates

(* An operation without the gate has not shut it. *)
Reason ==
  "operation" \notin touched =>
    /\ (op.at \notin {"free", "drain"} /\ ~op.holds) => ~maintenance /\ op.at # "fail"
    /\ (maintenance /\ api = "up") =>
         op.at = "drain" \/ op.holds \/ ota.state \in MaintenanceStates

IInv == TypeOK /\ Shape /\ Down /\ Held /\ Clear /\ Pending /\ Reason

-----------------------------------------------------------------------------
(* What EXCEPT makes of the operation and of the row. *)
Ops  == [at : Places, kind : Kinds, version : {0} \union Versions, holds : BOOLEAN, round : {1, 2}]
Rows == [state : RowStates, target : {0} \union Versions, told : BOOLEAN]

StatusTypes  == [Jobs -> {"none", "waiting", "running", "failed", "again", "done", "cancelled"}]
MessageTypes == [Jobs -> {"unsent", "queued", "taken", "claiming", "held", "leaked", "none"}]
UpdaterTypes == [at : {"none", "launched", "stopped", "started"}, kind : {"apply", "rollback"}]
FileTypes    == [phase : {"NONE", "open"} \union Terminal,
                 version : {0} \union Versions, previous : {0} \union Versions]

LEMMA OpMoves ==
  ASSUME op \in Ops, NEW p \in Places
  PROVE  LET o == [op EXCEPT !.at = p]
         IN  /\ o \in Ops
             /\ o.at = p /\ o.kind = op.kind /\ o.holds = op.holds
BY DEF Ops

LEMMA OpStarts ==
  ASSUME NEW p \in Places, NEW k \in Kinds, NEW v \in {0} \union Versions
  PROVE  LET o == [NoOp EXCEPT !.at = p, !.kind = k, !.version = v]
         IN  o \in Ops /\ o.at = p /\ o.kind = k /\ o.holds = FALSE
BY DEF Ops, NoOp

LEMMA OpLooks ==
  ASSUME op \in Ops, NEW p \in Places, NEW r \in {1, 2}
  PROVE  LET o == [op EXCEPT !.at = p, !.round = r]
         IN  /\ o \in Ops
             /\ o.at = p /\ o.kind = op.kind /\ o.holds = op.holds
BY DEF Ops

LEMMA OpIdles ==
  ASSUME op \in Ops
  PROVE  /\ Idling \in Ops
         /\ Idling.at = "queue" /\ Idling.kind = op.kind /\ Idling.holds = TRUE
BY DEF Ops, Idling, Places

LEMMA RowMoves ==
  ASSUME ota \in Rows, NEW s \in RowStates
  PROVE  Row(s) \in Rows /\ Row(s).state = s /\ Row(s).target = ota.target
BY DEF Rows, Row

LEMMA RowStarts ==
  ASSUME NEW s \in RowStates, NEW v \in {0} \union Versions, NEW b \in BOOLEAN
  PROVE  /\ [state |-> s, target |-> v, told |-> b] \in Rows
         /\ [state |-> s, target |-> v, told |-> b].state = s
BY DEF Rows

LEMMA RowFinds ==
  ASSUME ota \in Rows, NEW s \in RowStates, NEW v \in {0} \union Versions
  PROVE  LET r == [Row(s) EXCEPT !.target = v]
         IN  r \in Rows /\ r.state = s
<1>1. Row(s) \in Rows /\ Row(s).state = s BY RowMoves
<1> HIDE DEF Row
<1> QED BY <1>1 DEF Rows

LEMMA NoOpIsFree == NoOp \in Ops /\ NoOp.at = "free" /\ NoOp.kind = "fetch" /\ NoOp.holds = FALSE
BY DEF NoOp, Ops, Places, Kinds

-----------------------------------------------------------------------------
(* Print jobs. *)

LEMMA EnterStep ==
  ASSUME IInv, NEW j \in Jobs, Enter(j)  PROVE  IInv'
<1> USE DEF IInv, Enter, PrintStep, native, spent, prints
<1>1. TypeOK' BY DEF TypeOK
<1>2. Shape' BY DEF Shape, Waits, Handing
<1>3. Down' BY DEF Down
<1>4. Held' BY DEF Held
<1>5. Clear' BY DEF Clear, Quiet
<1>6. Pending' BY DEF Pending
<1>7. Reason' BY DEF Reason
<1> QED BY <1>1, <1>2, <1>3, <1>4, <1>5, <1>6, <1>7

LEMMA PersistStep ==
  ASSUME IInv, NEW j \in Jobs, Persist(j)  PROVE  IInv'
<1> USE DEF IInv, Persist, PrintStep, native, spent, gate
<1>1. TypeOK' BY DEF TypeOK
<1>2. Shape' BY DEF Shape, Waits, Handing
<1>3. Down' BY DEF Down
<1>4. Held' BY DEF Held
<1>5. Clear' BY DEF Clear, Quiet
<1>6. Pending' BY DEF Pending
<1>7. Reason' BY DEF Reason
<1> QED BY <1>1, <1>2, <1>3, <1>4, <1>5, <1>6, <1>7

LEMMA EnqueueStep ==
  ASSUME IInv, NEW j \in Jobs, Enqueue(j)  PROVE  IInv'
<1> USE DEF IInv, Enqueue, PrintStep, native, spent, gate
<1>1. TypeOK' BY DEF TypeOK
<1>2. Shape' BY DEF Shape, Waits, Handing
<1>3. Down' BY DEF Down
<1>4. Held' BY DEF Held
<1>5. Clear' BY DEF Clear, Quiet
<1>6. Pending' BY DEF Pending
<1>7. Reason' BY DEF Reason
<1> QED BY <1>1, <1>2, <1>3, <1>4, <1>5, <1>6, <1>7

(* A job that prints or waits keeps Quiet only if it was not quiet before. *)
LEMMA JobStep ==
  ASSUME IInv, NEW j \in Jobs, Serve(j) \/ Execute(j) \/ Finish(j) \/ Cancel(j)
  PROVE  IInv'
<1> USE DEF IInv, PrintStep, native, spent, gate, StatusTypes, MessageTypes
<1>1. /\ UNCHANGED <<maintenance, inside, op, ota, file, updater, report, api, current, touched,
                    operations, crashes>>
      /\ status' \in StatusTypes
      /\ \A i \in Jobs : status[i] \notin {"waiting", "running"}
                            => status'[i] \notin {"waiting", "running"}
  BY DEF TypeOK, Serve, Execute, Executed, Finish, Cancel
<1>2. message' \in MessageTypes
  BY DEF TypeOK, Serve, Execute, Finish, Cancel
<1>3. TypeOK' BY <1>1, <1>2 DEF TypeOK
<1>4. Shape' BY <1>1 DEF Shape, Waits, Handing
<1>5. Down' BY <1>1 DEF Down
<1>6. Held' BY <1>1 DEF Held
<1>7. Clear' BY <1>1 DEF Clear, Quiet
<1>8. Pending' BY <1>1 DEF Pending
<1>9. Reason' BY <1>1 DEF Reason
<1> QED BY <1>3, <1>4, <1>5, <1>6, <1>7, <1>8, <1>9

LEMMA LeaveStep ==
  ASSUME IInv, NEW j \in Jobs, Leave(j)  PROVE  IInv'
<1> USE DEF IInv, Leave, PrintStep, native, spent, prints
<1>1. /\ op' \in Ops
      /\ \/ op' = op
         \/ /\ inside' = {} /\ op.at = "drain" /\ op'.at = "queue"
            /\ op'.kind = op.kind /\ op'.holds = TRUE
  BY OpIdles DEF Wakes, TypeOK, Ops
<1>2. TypeOK' BY <1>1 DEF TypeOK, Ops
<1>3. Shape' BY <1>1 DEF Shape, Waits, Handing
<1>4. Down' BY <1>1 DEF Down
<1>5. Held' BY <1>1 DEF Held
<1>6. Clear' BY <1>1 DEF Clear, Quiet, Handing
<1>7. Pending' BY <1>1 DEF Pending
<1>8. Reason' BY <1>1 DEF Reason
<1> QED BY <1>2, <1>3, <1>4, <1>5, <1>6, <1>7, <1>8

-----------------------------------------------------------------------------
(* OTA operations. *)

(* An operation is let in: either it touches an update, or there is none.   *)
LEMMA LetInMeans ==
  ASSUME TypeOK, LetIn
  PROVE  /\ op \in Ops /\ ota \in Rows /\ op.at = "free" /\ api = "up"
         /\ operations' \in 0 .. MaxOperations
         /\ \/ touched' = touched \union {"operation"}
            \/ /\ touched' = {} /\ ~maintenance
               /\ updater.at = "none" /\ file.phase # "open"
         /\ UNCHANGED <<inside, status, message, api, current, crashes>>
BY MaintenanceBounds DEF TypeOK, Ops, Rows, LetIn, OpStep, UpdateIsOn, prints

(* It begins without the gate, and a rollback with its row. *)
LEMMA LetInStep ==
  ASSUME IInv, LetIn, UNCHANGED <<maintenance, file, updater, report>>,
         op' \in Ops, ota' \in Rows, op'.holds = FALSE, Shape',
         op'.at \in {"free", "fetch", "shut", "queue"},
         op'.kind = "rollback" => ota'.state = "ROLLING_BACK"
  PROVE  IInv'
<1>1. /\ IInv /\ op.at = "free" /\ api = "up"
      /\ operations' \in 0 .. MaxOperations
      /\ \/ touched' = touched \union {"operation"}
         \/ /\ touched' = {} /\ ~maintenance
            /\ updater.at = "none" /\ file.phase # "open"
      /\ UNCHANGED <<inside, status, message, api, current, crashes>>
  BY LetInMeans DEF IInv
<1>2. TypeOK'
  <2>1. touched' \in SUBSET {"status", "operation"}
    <3>1. touched \in SUBSET {"status", "operation"} BY DEF IInv, TypeOK
    <3> QED BY <1>1, <3>1
  <2>2. /\ UNCHANGED <<maintenance, inside, status, message, file, updater, report, api, current,
                      crashes>>
        /\ operations' \in 0 .. MaxOperations
    BY <1>1
  <2> QED BY <2>1, <2>2 DEF IInv, TypeOK, Ops, Rows
<1>3. Down' BY <1>1 DEF IInv, Down
<1>4. Held' BY <1>1 DEF IInv, Held
<1>5. Clear' BY <1>1 DEF IInv, Clear, Quiet, Handing
<1>6. Pending' BY <1>1 DEF IInv, Pending, MaintenanceStates
<1>7. Reason' BY <1>1 DEF IInv, Reason
<1> QED BY <1>2, <1>3, <1>4, <1>5, <1>6, <1>7 DEF IInv

LEMMA RequestStep ==
  ASSUME IInv, Request  PROVE  IInv'
<1> USE DEF native
<1>1. TypeOK /\ Shape BY DEF IInv
<1>2. CASE Check
  <2> DEFINE o == [NoOp EXCEPT !.at = "fetch"]
  <2>1. op' = o /\ LetIn /\ UNCHANGED <<maintenance, file, updater, report>>
    BY <1>2 DEF Check
  <2>2. o \in Ops /\ o.at = "fetch" /\ o.kind = "fetch" /\ o.holds = FALSE
    BY DEF NoOp, Ops, Places, Kinds
  <2>3. ota' \in Rows BY <1>2, RowStarts DEF Check, RowStates
  <2>4. Shape' BY <2>1, <2>2 DEF Shape, Waits, Handing
  <2> QED BY <2>1, <2>2, <2>3, <2>4, LetInStep
<1>3. CASE Rollback
  <2> DEFINE o == [NoOp EXCEPT !.at = "shut", !.kind = "rollback"]
  <2>1. op' = o /\ LetIn /\ UNCHANGED <<maintenance, file, updater, report>>
    BY <1>3 DEF Rollback
  <2>2. o \in Ops /\ o.at = "shut" /\ o.kind = "rollback" /\ o.holds = FALSE
    BY DEF NoOp, Ops, Places, Kinds
  <2>3. ota' \in Rows /\ ota'.state = "ROLLING_BACK"
    BY <1>1, <1>3, LetInMeans, RowMoves DEF Rollback, RowStates,
       MaintenanceStates
  <2>4. Shape' BY <2>1, <2>2 DEF Shape, Waits, Handing
  <2> QED BY <2>1, <2>2, <2>3, <2>4, LetInStep
<1>4. ASSUME NEW v \in Versions, Download(v) PROVE IInv'
  <2> DEFINE o == [NoOp EXCEPT !.at = "fetch", !.version = v]
  <2>1. LetIn /\ UNCHANGED <<maintenance, file, updater, report>> /\ (op' = o \/ op' = op)
    BY <1>4 DEF Download
  <2>2. o \in Ops /\ o.at = "fetch" /\ o.kind = "fetch" /\ o.holds = FALSE
    BY DEF NoOp, Ops, Places, Kinds
  <2>3. op \in Ops /\ op.at = "free" /\ op.kind = "fetch" /\ op.holds = FALSE
    BY <1>1, <2>1, LetInMeans DEF Shape, Ops
  <2>4. /\ [state |-> "FETCHING", target |-> v, told |-> FALSE] \in Rows
        /\ [state |-> "IDLE", target |-> 0, told |-> FALSE] \in Rows
    BY RowStarts DEF RowStates
  <2>5. ota' \in Rows BY <1>4, <2>4 DEF Download
  <2>6. Shape' BY <2>1, <2>2, <2>3 DEF Shape, Waits, Handing
  <2> HIDE DEF o
  <2> QED BY <2>1, <2>2, <2>3, <2>5, <2>6, LetInStep
<1>5. ASSUME NEW v \in Versions, NEW k \in Installs, Install(k, v) PROVE IInv'
  <2> DEFINE p == IF k = "automatic" THEN "queue" ELSE "shut"
             o == [NoOp EXCEPT !.at = p, !.kind = k, !.version = v]
  <2>1. LetIn /\ UNCHANGED <<maintenance, file, updater, report>> /\ (op' = o \/ op' = op)
    BY <1>5 DEF Install
  <2>2. o \in Ops /\ o.at = p /\ o.kind = k /\ o.holds = FALSE
    BY DEF NoOp, Ops, Places, Kinds, Installs
  <2>3. op \in Ops /\ op.at = "free" /\ op.kind = "fetch" /\ op.holds = FALSE
    BY <1>1, <2>1, LetInMeans DEF Shape, Ops
  <2>4. /\ [state |-> "WAITING_FOR_IDLE", target |-> v, told |-> FALSE] \in Rows
        /\ Row("FETCH_FAILED") \in Rows
    BY <1>1, <2>1, LetInMeans, RowStarts, RowMoves DEF RowStates
  <2>5. ota' \in Rows BY <1>5, <2>4 DEF Install
  <2>6. k # "fetch" /\ k # "rollback" BY DEF Installs
  <2>7. p \in {"queue", "shut"} /\ (p = "queue" => k = "automatic") OBVIOUS
  <2> HIDE DEF o, p
  <2>8. Shape'
    <3>1. CASE op' = o BY <2>2, <2>6, <2>7, <3>1 DEF Shape, Waits, Handing
    <3>2. CASE op' = op BY <2>3, <3>2 DEF Shape, Waits, Handing
    <3> QED BY <2>1, <3>1, <3>2
  <2> QED BY <2>1, <2>2, <2>3, <2>5, <2>6, <2>7, <2>8, LetInStep
<1> QED BY <1>2, <1>3, <1>4, <1>5 DEF Request

(* The operation takes a step of its own. *)
OpGoes ==
  /\ api = "up"
  /\ UNCHANGED <<inside, status, message, api, current, touched, operations, crashes>>

NativeIdles == UNCHANGED <<file, updater, report>>

LEMMA FetchedStep ==
  ASSUME IInv, Fetched  PROVE  IInv'
<1>1. /\ IInv /\ OpGoes /\ NativeIdles /\ op.at = "fetch" /\ op' = NoOp /\ NoOp \in Ops
      /\ op'.at = "free" /\ op'.kind = "fetch" /\ op'.holds = FALSE
      /\ maintenance' = maintenance
  BY NoOpIsFree DEF Fetched, OpStep, OpGoes, NativeIdles, native, prints
<1>2. ota' \in Rows
  <2>1. ota \in Rows BY DEF IInv, TypeOK, Rows
  <2>2. {"FETCHED", "FETCH_FAILED", "IDLE"} \subseteq RowStates BY DEF RowStates
  <2>3. Row("FETCHED") \in Rows /\ Row("FETCH_FAILED") \in Rows /\ Row("IDLE") \in Rows
    BY <2>1, <2>2, RowMoves
  <2>4. \A v \in Versions : [Row("FETCHED") EXCEPT !.target = v] \in Rows
    BY <2>1, <2>2, RowFinds
  <2> QED BY <2>3, <2>4 DEF Fetched
<1> USE DEF OpGoes, NativeIdles
<1>3. TypeOK' BY <1>1, <1>2 DEF IInv, TypeOK, Ops, Rows, StatusTypes, MessageTypes
<1>4. Shape' BY <1>1, <1>2 DEF IInv, Shape, Waits, Handing
<1>5. Down' BY <1>1, <1>2 DEF IInv, Down
<1>6. Held' BY <1>1, <1>2 DEF IInv, Held, Shape, Waits, Handing
<1>7. Clear' BY <1>1, <1>2 DEF IInv, Clear, Quiet, Held, Shape, Waits, Handing
<1>8. Pending'
  BY <1>1, <1>2 DEF IInv, Pending, Clear, Quiet, Shape, Waits, Handing, MaintenanceStates
<1>9. Reason' BY <1>1, <1>2 DEF IInv, Reason, Shape, Waits, Handing, MaintenanceStates
<1> QED BY <1>3, <1>4, <1>5, <1>6, <1>7, <1>8, <1>9 DEF IInv

LEMMA BeginStep ==
  ASSUME IInv, BeginMaintenance  PROVE  IInv'
<1>1. /\ IInv /\ OpGoes /\ NativeIdles /\ op.at = "shut" /\ ota' = ota
      /\ op' \in Ops /\ op'.kind = op.kind /\ maintenance' = TRUE
      /\ \/ ~maintenance /\ inside = {} /\ op'.at = "queue" /\ op'.holds = TRUE
         \/ ~maintenance /\ op'.at = "drain" /\ op'.holds = op.holds
         \/ maintenance /\ op'.at = "fail" /\ op'.holds = op.holds
  <2>1. op \in Ops /\ maintenance \in BOOLEAN BY DEF IInv, TypeOK, Ops
  <2>2. "drain" \in Places /\ "fail" \in Places BY DEF Places
  <2> DEFINE d == [op EXCEPT !.at = "drain"]
             f == [op EXCEPT !.at = "fail"]
  <2>3. /\ d \in Ops /\ d.at = "drain" /\ d.kind = op.kind /\ d.holds = op.holds
        /\ f \in Ops /\ f.at = "fail" /\ f.kind = op.kind /\ f.holds = op.holds
    BY <2>1, <2>2, OpMoves
  <2>4. \/ ~maintenance /\ maintenance' = TRUE /\ ((op' = Idling /\ inside = {}) \/ op' = d)
        \/ maintenance /\ maintenance' = maintenance /\ op' = f
    BY DEF BeginMaintenance, Shut
  <2>5. /\ OpGoes /\ NativeIdles /\ op.at = "shut" /\ ota' = ota
    BY DEF BeginMaintenance, OpStep, OpGoes, NativeIdles, native, prints
  <2> HIDE DEF d, f
  <2> QED BY <2>1, <2>3, <2>4, <2>5, OpIdles
<1> USE DEF OpGoes, NativeIdles
<1>2. TypeOK' BY <1>1 DEF IInv, TypeOK, Ops, Rows, StatusTypes, MessageTypes
<1>3. Shape' BY <1>1 DEF IInv, Shape, Waits, Handing
<1>4. Down' BY <1>1 DEF IInv, Down
<1>5. Held' BY <1>1 DEF IInv, Held, Shape, Waits, Handing
<1>6. Clear' BY <1>1 DEF IInv, Clear, Quiet, Held, Shape, Waits, Handing
<1>7. Pending'
  BY <1>1 DEF IInv, Pending, Clear, Quiet, Shape, Waits, Handing, MaintenanceStates
<1>8. Reason' BY <1>1 DEF IInv, Reason, Shape, Waits, Handing, MaintenanceStates
<1> QED BY <1>2, <1>3, <1>4, <1>5, <1>6, <1>7, <1>8 DEF IInv

LEMMA LookStep ==
  ASSUME IInv, Look  PROVE  IInv'
<1>1. op \in Ops BY DEF IInv, TypeOK, Ops
<1>2. /\ IInv /\ OpGoes /\ NativeIdles /\ maintenance' = maintenance /\ ota' = ota
      /\ op' \in Ops /\ op'.kind = op.kind /\ op'.holds = op.holds /\ op.at \in Waits
      /\ \/ op'.at \in Waits
         \/ op'.at = "shut" /\ op.kind = "automatic" /\ ~op.holds
         \/ /\ op'.at \in {"launch", "install"} /\ RowsAreIdle
            /\ op.holds \/ op.kind # "automatic"
            /\ op'.at = "launch" <=> op.kind = "rollback"
  <2>1. OpGoes /\ NativeIdles /\ maintenance' = maintenance /\ ota' = ota
    BY DEF Look, OpStep, OpGoes, NativeIdles, native, prints
  <2>2. CASE op.at = "queue" /\ op' = [op EXCEPT !.at = "rows"]
    BY <1>1, <2>1, <2>2, OpMoves, "rows" \in Places DEF Waits, Places
  <2>3. CASE op.at = "rows" /\ op' = [op EXCEPT !.at = "settle"]
    BY <1>1, <2>1, <2>3, OpMoves, "settle" \in Places DEF Waits, Places
  <2>4. CASE op.at = "settle" /\ op' = [op EXCEPT !.at = "queue", !.round = 2]
    BY <1>1, <2>1, <2>4, OpLooks, "queue" \in Places DEF Waits, Places
  <2>5. CASE op.at = "rows" /\ RowsAreIdle /\ op' = [Passed EXCEPT !.round = 1]
    <3>1. /\ Passed \in Ops /\ Passed.kind = op.kind /\ Passed.holds = op.holds
          /\ \/ Passed.at = "shut" /\ op.kind = "automatic" /\ ~op.holds
             \/ /\ Passed.at \in {"launch", "install"}
                /\ op.holds \/ op.kind # "automatic"
                /\ Passed.at = "launch" <=> op.kind = "rollback"
      BY <1>1, OpMoves, "shut" \in Places, "launch" \in Places,
         "install" \in Places
      DEF Passed, Places
    <3> HIDE DEF Passed
    <3>2. /\ op' \in Ops /\ op'.kind = Passed.kind /\ op'.holds = Passed.holds
          /\ op'.at = Passed.at
      BY <2>5, <3>1 DEF Ops
    <3> QED BY <2>1, <2>5, <3>1, <3>2 DEF Waits
  <2> QED BY <2>2, <2>3, <2>4, <2>5 DEF Look
<1> USE DEF OpGoes, NativeIdles
<1>3. TypeOK' BY <1>2 DEF IInv, TypeOK, Ops, Rows, StatusTypes, MessageTypes
<1>4. Shape' BY <1>2 DEF IInv, Shape, Waits, Handing
<1>5. Down' BY <1>2 DEF IInv, Down
<1>6. Held' BY <1>2 DEF IInv, Held, Shape, Waits, Handing
<1>7. Clear' BY <1>2 DEF IInv, RowsAreIdle, Clear, Quiet, Held, Shape, Waits, Handing
<1>8. Pending'
  BY <1>2 DEF IInv, Pending, Clear, Quiet, Shape, Waits, Handing, MaintenanceStates
<1>9. Reason' BY <1>2 DEF IInv, Reason, Shape, Waits, Handing, MaintenanceStates
<1> QED BY <1>3, <1>4, <1>5, <1>6, <1>7, <1>8, <1>9 DEF IInv

(* An automatic install is put off, and releases the gate it holds. *)
LEMMA DeferStep ==
  ASSUME IInv, Defer  PROVE  IInv'
<1>1. /\ IInv /\ OpGoes /\ NativeIdles /\ ota' = ota /\ op.at \in Waits
      /\ op' = NoOp /\ NoOp \in Ops
      /\ op'.at = "free" /\ op'.kind = "fetch" /\ op'.holds = FALSE
      /\ op.holds => ~maintenance'
      /\ ~op.holds => (maintenance' <=> maintenance)
  BY NoOpIsFree DEF Defer, Busy, OpStep, OpGoes, NativeIdles, native, prints,
     Waits
<1>2. maintenance' \in BOOLEAN BY DEF Defer
<1> USE DEF OpGoes, NativeIdles
<1>3. TypeOK' BY <1>1, <1>2 DEF IInv, TypeOK, Ops, Rows, StatusTypes, MessageTypes
<1>4. Shape' BY <1>1, <1>2 DEF IInv, Shape, Waits, Handing
<1>5. Down' BY <1>1, <1>2 DEF IInv, Down
<1>6. Held' BY <1>1, <1>2 DEF IInv, Held, Shape, Waits, Handing
<1>7. Clear' BY <1>1, <1>2 DEF IInv, Clear, Quiet, Held, Shape, Waits, Handing
<1>8. Pending'
  BY <1>1, <1>2 DEF IInv, Pending, Clear, Quiet, Shape, Waits, Handing, MaintenanceStates
<1>9. Reason' BY <1>1, <1>2 DEF IInv, Reason, Shape, Waits, Handing, MaintenanceStates
<1> QED BY <1>3, <1>4, <1>5, <1>6, <1>7, <1>8, <1>9 DEF IInv

(* Nobody waits any longer, or somebody looks once more. *)
LEMMA WaitStep ==
  ASSUME IInv, Poll \/ TimeOut  PROVE  IInv'
<1>1. /\ IInv /\ OpGoes /\ NativeIdles /\ maintenance' = maintenance /\ ota' = ota
      /\ op.at \in Waits /\ op.kind # "automatic"
      /\ op' \in Ops /\ op'.kind = op.kind /\ op'.holds = op.holds
      /\ op'.at \in {"queue", "fail"}
  <2>1. op \in Ops /\ "queue" \in Places /\ "fail" \in Places
    BY DEF IInv, TypeOK, Ops, Places
  <2>2. CASE Poll
    BY <2>1, <2>2, OpLooks
    DEF Poll, Busy, OpStep, OpGoes, NativeIdles, native, prints, Waits
  <2>3. CASE TimeOut
    BY <2>1, <2>3, OpMoves
    DEF TimeOut, Busy, OpStep, OpGoes, NativeIdles, native, prints, Waits
  <2> QED BY <2>2, <2>3
<1> USE DEF OpGoes, NativeIdles
<1>2. TypeOK' BY <1>1 DEF IInv, TypeOK, Ops, Rows, StatusTypes, MessageTypes
<1>3. Shape' BY <1>1 DEF IInv, Shape, Waits, Handing
<1>4. Down' BY <1>1 DEF IInv, Down
<1>5. Held' BY <1>1 DEF IInv, Held, Shape, Waits, Handing
<1>6. Clear' BY <1>1 DEF IInv, Clear, Quiet, Held, Shape, Waits, Handing
<1>7. Pending'
  BY <1>1 DEF IInv, Pending, Clear, Quiet, Shape, Waits, Handing, MaintenanceStates
<1>8. Reason' BY <1>1 DEF IInv, Reason, Shape, Waits, Handing, MaintenanceStates
<1> QED BY <1>2, <1>3, <1>4, <1>5, <1>6, <1>7, <1>8 DEF IInv

LEMMA FailStep ==
  ASSUME IInv, Fail  PROVE  IInv'
<1>1. /\ IInv /\ OpGoes /\ NativeIdles /\ op.at = "fail" /\ op' = NoOp /\ NoOp \in Ops
      /\ op'.at = "free" /\ op'.kind = "fetch" /\ op'.holds = FALSE
      /\ maintenance' = Releases(op.kind)
  BY NoOpIsFree DEF Fail, OpStep, OpGoes, NativeIdles, native, prints
<1>2. ota' \in Rows /\ (op.kind \notin Installs => ota'.state = "ROLLBACK_FAILED")
  <2>1. ota \in Rows BY DEF IInv, TypeOK, Rows
  <2>2. "INSTALL_FAILED" \in RowStates /\ "ROLLBACK_FAILED" \in RowStates
    BY DEF RowStates, MaintenanceStates
  <2> QED BY <2>1, <2>2, RowMoves DEF Fail
<1>3. /\ maintenance' \in BOOLEAN /\ (maintenance' => maintenance)
      /\ op.holds /\ op.kind \in Installs => ~maintenance'
      /\ ~op.holds => (maintenance' <=> maintenance)
  BY <1>1 DEF Releases
<1> USE DEF OpGoes, NativeIdles
<1>4. TypeOK' BY <1>1, <1>2, <1>3 DEF IInv, TypeOK, Ops, Rows, StatusTypes, MessageTypes
<1>5. Shape' BY <1>1, <1>2, <1>3 DEF IInv, Shape, Waits, Handing
<1>6. Down' BY <1>1, <1>2, <1>3 DEF IInv, Down
<1>7. Held' BY <1>1, <1>2, <1>3 DEF IInv, Held, Shape, Waits, Handing
<1>8. Clear' BY <1>1, <1>2, <1>3 DEF IInv, Clear, Quiet, Held, Shape, Waits, Handing
<1>9. Pending'
  BY <1>1, <1>2, <1>3 DEF IInv, Pending, Clear, Quiet, Shape, Waits, Handing, MaintenanceStates
<1>10. Reason'
  BY <1>1, <1>2, <1>3 DEF IInv, Reason, Shape, Waits, Handing, MaintenanceStates
<1> QED BY <1>4, <1>5, <1>6, <1>7, <1>8, <1>9, <1>10 DEF IInv

(* The file is written and the updater is started, or not. *)
LEMMA LaunchStep ==
  ASSUME IInv, LaunchInstall \/ LaunchRollback  PROVE  IInv'
<1>1. /\ IInv /\ OpGoes /\ maintenance' = maintenance /\ ota' = ota
      /\ op.at \in {"launch", "undo"}
      /\ op' \in Ops /\ op'.kind = op.kind /\ op'.holds = op.holds
      /\ \/ /\ op'.at = "handover" /\ updater'.at = "launched"
            /\ updater'.kind = "apply" => file'.phase = "open"
         \/ /\ op'.at \in {"installFailed", "rollbackFailed"} /\ updater' = updater
            /\ file'.phase = "open" => file' = file
            /\ op'.at = "installFailed" => op.kind # "rollback"
  <2>1. /\ op \in Ops /\ "handover" \in Places /\ "installFailed" \in Places
        /\ "rollbackFailed" \in Places
    BY DEF IInv, TypeOK, Ops, Places
  <2> DEFINE To(p) == [op EXCEPT !.at = p]
  <2>2. \A p \in {"handover", "installFailed", "rollbackFailed"} :
          /\ To(p) \in Ops
          /\ To(p).at = p /\ To(p).kind = op.kind /\ To(p).holds = op.holds
    BY <2>1, OpMoves
  <2>3. OpGoes /\ maintenance' = maintenance /\ ota' = ota /\ op.at \in {"launch", "undo"}
    BY DEF LaunchInstall, LaunchRollback, OpStep, OpGoes, prints
  <2>4. \/ /\ op' = To("handover") /\ updater'.at = "launched"
           /\ updater'.kind = "apply" => file'.phase = "open"
        \/ /\ \/ op' = To("installFailed") /\ op.kind # "rollback"
              \/ op' = To("rollbackFailed")
           /\ updater' = updater
           /\ file'.phase = "open" => file' = file
    BY DEF LaunchInstall, LaunchRollback, NoFile, Installs
  <2> HIDE DEF To
  <2> QED BY <2>2, <2>3, <2>4
<1>2. file' \in FileTypes /\ updater' \in UpdaterTypes
      /\ report' \in {"NONE", "INSTALL_FAILED"} \union (Terminal \ {"FAILED"})
  BY DEF LaunchInstall, LaunchRollback, IInv, TypeOK, NoFile, FileTypes, UpdaterTypes
<1> USE DEF OpGoes, FileTypes, UpdaterTypes
<1>3. TypeOK' BY <1>1, <1>2 DEF IInv, TypeOK, Ops, Rows, StatusTypes, MessageTypes
<1>4. Shape' BY <1>1, <1>2 DEF IInv, Shape, Waits, Handing
<1>5. Down' BY <1>1, <1>2 DEF IInv, Down
<1>6. Held' BY <1>1, <1>2 DEF IInv, Held, Shape, Waits, Handing
<1>7. Clear' BY <1>1, <1>2 DEF IInv, Clear, Quiet, Held, Shape, Waits, Handing
<1>8. Pending'
  BY <1>1, <1>2 DEF IInv, Pending, Clear, Quiet, Shape, Waits, Handing, MaintenanceStates
<1>9. Reason' BY <1>1, <1>2 DEF IInv, Reason, Shape, Waits, Handing, MaintenanceStates
<1> QED BY <1>3, <1>4, <1>5, <1>6, <1>7, <1>8, <1>9 DEF IInv

(* What comes of it is written to the row. *)
LEMMA RecordStep ==
  ASSUME IInv, Record  PROVE  IInv'
<1>1. /\ IInv /\ OpGoes /\ NativeIdles /\ maintenance' = maintenance
      /\ op' \in Ops /\ ota' \in Rows
      /\ \/ /\ op.at \in {"install", "installFailed", "rollingBack"}
            /\ op'.at \in {"launch", "rollingBack", "undo"}
            /\ op'.kind = op.kind /\ op'.holds = op.holds
            /\ op'.at \in {"launch", "undo"} => ota'.state \in {"INSTALLING", "ROLLING_BACK"}
            /\ op.at = "installFailed" => op'.at = "rollingBack"
         \/ /\ op.at \in {"handover", "rollbackFailed"} /\ op' = NoOp /\ op'.at = "free"
            /\ op'.kind = "fetch" /\ op'.holds = FALSE
            /\ ota'.state \in {"RESTART_PENDING", "ROLLBACK_FAILED"}
  <2>1. /\ op \in Ops /\ ota \in Rows
        /\ {"launch", "rollingBack", "undo"} \subseteq Places
        /\ {"INSTALLING", "INSTALL_FAILED", "ROLLING_BACK", "RESTART_PENDING", "ROLLBACK_FAILED"}
             \subseteq RowStates
    BY DEF IInv, TypeOK, Ops, Rows, Places, RowStates, MaintenanceStates
  <2>2. OpGoes /\ NativeIdles /\ maintenance' = maintenance
    BY DEF Record, Writes, OpStep, OpGoes, NativeIdles, native, prints
  <2>3. ASSUME NEW from, NEW s \in RowStates, NEW to \in Places, Writes(from, s, to)
        PROVE  /\ op.at = from /\ ota' \in Rows /\ ota'.state = s /\ op' \in Ops
               /\ to # "free" => op'.at = to /\ op'.kind = op.kind /\ op'.holds = op.holds
               /\ to = "free" => op' = NoOp
    BY <2>1, <2>3, OpMoves, RowMoves, NoOpIsFree DEF Writes
  <2>4. CASE Writes("install", "INSTALLING", "launch") BY <2>1, <2>2, <2>3, <2>4
  <2>5. CASE Writes("installFailed", "INSTALL_FAILED", "rollingBack")
    BY <2>1, <2>2, <2>3, <2>5
  <2>6. CASE Writes("rollingBack", "ROLLING_BACK", "undo") BY <2>1, <2>2, <2>3, <2>6
  <2>7. CASE Writes("handover", "RESTART_PENDING", "free")
    BY <2>1, <2>2, <2>3, <2>7, NoOpIsFree, "free" \in Places DEF Places
  <2>8. CASE Writes("rollbackFailed", "ROLLBACK_FAILED", "free")
    BY <2>1, <2>2, <2>3, <2>8, NoOpIsFree, "free" \in Places DEF Places
  <2> QED BY <2>4, <2>5, <2>6, <2>7, <2>8 DEF Record
<1> USE DEF OpGoes, NativeIdles
<1>2. TypeOK' BY <1>1 DEF IInv, TypeOK, Ops, Rows, StatusTypes, MessageTypes
<1>3. Shape' BY <1>1 DEF IInv, Shape, Waits, Handing
<1>4. Down' BY <1>1 DEF IInv, Down
<1>5. Held' BY <1>1 DEF IInv, Held, Shape, Waits, Handing
<1>6. Clear'
  <2>1. CASE op.at \in {"handover", "rollbackFailed"}
    BY <1>1, <2>1 DEF IInv, Clear, Quiet, Handing
  <2>2. CASE op.at \in {"install", "installFailed", "rollingBack"}
    <3>1. op.at \in Handing /\ op'.holds = op.holds /\ op.at # "handover"
      BY <1>1, <2>2 DEF Handing
    <3> QED BY <1>1, <3>1 DEF IInv, Clear, Quiet, Shape
  <2>3. \/ op.at \in {"handover", "rollbackFailed"}
        \/ op.at \in {"install", "installFailed", "rollingBack"}
    BY <1>1
  <2> QED BY <2>1, <2>2, <2>3
<1>7. Pending'
  BY <1>1 DEF IInv, Pending, Clear, Quiet, Shape, Waits, Handing, MaintenanceStates
<1>8. Reason' BY <1>1 DEF IInv, Reason, Shape, Waits, Handing, MaintenanceStates
<1> QED BY <1>2, <1>3, <1>4, <1>5, <1>6, <1>7, <1>8 DEF IInv

-----------------------------------------------------------------------------
(* The outcome is written to the row behind the back of an operation. *)

LEMMA OutcomeStep ==
  ASSUME IInv, NEW row \in Rows, Outcome(row),
         report' \in {"NONE", "INSTALL_FAILED"} \union (Terminal \ {"FAILED"})
  PROVE  IInv'
<1>1. /\ IInv /\ ota' = row /\ ota' \in Rows
      /\ UNCHANGED <<inside, status, message, op, file, updater, api, current, operations, crashes>>
      /\ \/ touched' = touched \union {"status"}
         \/ /\ touched' = touched /\ updater.at = "none" /\ file.phase # "open"
            /\ op.at \in {"free", "fetch"}
  BY DEF Outcome, UpdateIsOn, prints, spent
<1>2. /\ maintenance' \in BOOLEAN
      /\ maintenance' => maintenance /\ ota'.state = "ROLLBACK_FAILED"
      /\ touched' \in SUBSET {"status", "operation"}
  BY DEF Outcome, ShutAfter, IInv, TypeOK
<1>3. TypeOK' BY <1>1, <1>2 DEF IInv, TypeOK, Ops, Rows, StatusTypes, MessageTypes
<1>4. Shape' BY <1>1, <1>2 DEF IInv, Shape, Waits, Handing
<1>5. Down' BY <1>1, <1>2 DEF IInv, Down
<1>6. Held' BY <1>1, <1>2 DEF IInv, Held, Shape
<1>7. Clear' BY <1>1, <1>2 DEF IInv, Clear, Quiet, Shape, Handing
<1>8. Pending' BY <1>1, <1>2 DEF IInv, Pending, Shape, MaintenanceStates, Terminal
<1>9. Reason' BY <1>1, <1>2 DEF IInv, Reason, Shape, MaintenanceStates
<1> QED BY <1>3, <1>4, <1>5, <1>6, <1>7, <1>8, <1>9 DEF IInv

LEMMA ReconciledRow ==
  ASSUME IInv, Due
  PROVE  /\ Reconciled \in Rows /\ file.phase \in Terminal
         /\ Reconciled.state = OutcomeOf(file.phase)
BY DEF IInv, TypeOK, Due, Reconciled, OutcomeOf, Rows, RowStates,
   MaintenanceStates, Terminal

LEMMA StatusStep ==
  ASSUME IInv, GetStatus \/ HearReport  PROVE  IInv'
<1>1. CASE GetStatus
  BY <1>1, ReconciledRow, OutcomeStep DEF GetStatus, IInv, TypeOK
<1>2. CASE HearReport
  <2>1. Reported \in Rows
    BY <1>2 DEF HearReport, Reported, IInv, TypeOK, Rows, RowStates,
       MaintenanceStates, Terminal
  <2> QED BY <1>2, <2>1, OutcomeStep DEF HearReport
<1> QED BY <1>1, <1>2

LEMMA LoseReportStep ==
  ASSUME IInv, LoseReport  PROVE  IInv'
<1>1. /\ IInv
      /\ UNCHANGED <<maintenance, inside, status, message, ota, op, file, updater, api, current,
                    touched, operations, crashes>>
      /\ report' = "NONE"
  BY DEF LoseReport, gate, prints, spent
<1>2. TypeOK' BY <1>1 DEF IInv, TypeOK, Ops, Rows, StatusTypes, MessageTypes
<1>3. Shape' BY <1>1 DEF IInv, Shape, Waits, Handing
<1>4. Down' BY <1>1 DEF IInv, Down
<1>5. Held' BY <1>1 DEF IInv, Held, Shape
<1>6. Clear' BY <1>1 DEF IInv, Clear, Quiet, Shape, Handing
<1>7. Pending' BY <1>1 DEF IInv, Pending, Shape, MaintenanceStates, Terminal
<1>8. Reason' BY <1>1 DEF IInv, Reason, Shape, MaintenanceStates
<1> QED BY <1>2, <1>3, <1>4, <1>5, <1>6, <1>7, <1>8 DEF IInv

-----------------------------------------------------------------------------
(* The native updater, and Desktop around it. *)

LEMMA PhaseMoves ==
  ASSUME IInv, NEW p \in {"NONE", "open"} \union Terminal
  PROVE  LET f == [file EXCEPT !.phase = p]  IN  f \in FileTypes /\ f.phase = p
BY DEF IInv, TypeOK, FileTypes

(* The updater ends. *)
LEMMA EndStep ==
  ASSUME IInv, Refuses \/ Ends  PROVE  IInv'
<1>1. /\ IInv /\ updater.at # "none" /\ updater' = NoUpdater
      /\ UNCHANGED <<maintenance, inside, status, message, ota, op, api, current, touched,
                    operations, crashes>>
  BY DEF Refuses, Ends, UpdaterStep, gate, prints, spent
<1>2. updater' \in UpdaterTypes /\ updater'.at = "none"
  BY <1>1 DEF NoUpdater, UpdaterTypes
<1>3. /\ file' \in FileTypes /\ (file'.phase = "open" => file' = file)
      /\ report' \in {"NONE", "INSTALL_FAILED"} \union (Terminal \ {"FAILED"})
  <2>1. CASE Refuses
    BY <2>1, PhaseMoves, "FAILED" \in Terminal DEF Refuses, IInv, TypeOK,
       FileTypes, Terminal
  <2>2. CASE Ends
    BY <2>2, PhaseMoves DEF Ends, Terminal
  <2> QED BY <2>1, <2>2
<1> USE DEF FileTypes, UpdaterTypes
<1>4. TypeOK' BY <1>1, <1>2, <1>3 DEF IInv, TypeOK, Ops, Rows, StatusTypes, MessageTypes
<1>5. Shape' BY <1>1, <1>2, <1>3 DEF IInv, Shape, Waits, Handing
<1>6. Down' BY <1>1, <1>2, <1>3 DEF IInv, Down
<1>7. Held' BY <1>1, <1>2, <1>3 DEF IInv, Held, Shape
<1>8. Clear' BY <1>1, <1>2, <1>3 DEF IInv, Clear, Quiet, Shape, Handing
<1>9. Pending' BY <1>1, <1>2, <1>3 DEF IInv, Pending, Shape, MaintenanceStates, Terminal
<1>10. Reason' BY <1>1, <1>2, <1>3 DEF IInv, Reason, Shape, MaintenanceStates
<1> QED BY <1>4, <1>5, <1>6, <1>7, <1>8, <1>9, <1>10 DEF IInv

(* Desktop is stopped by the updater. *)
LEMMA StopStep ==
  ASSUME IInv, StopsDesktop  PROVE  IInv'
<1>1. /\ IInv /\ updater.at # "none" /\ api' = "down" /\ op' = NoOp /\ inside' = {}
      /\ op' \in Ops /\ op'.at = "free" /\ op'.kind = "fetch" /\ op'.holds = FALSE
      /\ UNCHANGED <<maintenance, status, ota, report, current, touched, operations, crashes>>
  BY NoOpIsFree DEF StopsDesktop, UpdaterStep, Stopped, spent
<1>2. message' \in MessageTypes
  BY DEF StopsDesktop, Stopped, MessageTypes
<1>3. /\ updater' \in UpdaterTypes /\ updater'.at = "stopped" /\ file' \in FileTypes
      /\ \/ file' = file /\ updater.at = "launched" /\ updater.kind = "apply"
         \/ file'.phase = "open"
         \/ file' = file /\ updater.at \in {"stopped", "started"}
  <2>1. [updater EXCEPT !.at = "stopped"] \in UpdaterTypes
        /\ [updater EXCEPT !.at = "stopped"].at = "stopped"
        /\ file \in FileTypes
    BY DEF IInv, TypeOK, UpdaterTypes, FileTypes
  <2>2. /\ [at |-> "stopped", kind |-> "rollback"] \in UpdaterTypes
        /\ [at |-> "stopped", kind |-> "rollback"].at = "stopped"
    BY DEF UpdaterTypes
  <2>3. /\ [file EXCEPT !.phase = "open"] \in FileTypes
        /\ [file EXCEPT !.phase = "open"].phase = "open"
    BY PhaseMoves
  <2>4. \/ /\ updater.at = "launched" /\ updater.kind = "apply" /\ file' = file
           /\ updater' = [updater EXCEPT !.at = "stopped"]
        \/ /\ updater' = [updater EXCEPT !.at = "stopped"]
           /\ file' = [file EXCEPT !.phase = "open"]
        \/ /\ updater.at \in {"stopped", "started"} /\ file' = file
           /\ updater' = [at |-> "stopped", kind |-> "rollback"]
    BY DEF StopsDesktop
  <2> QED BY <2>1, <2>2, <2>3, <2>4
<1> USE DEF FileTypes, UpdaterTypes
<1>4. TypeOK' BY <1>1, <1>2, <1>3 DEF IInv, TypeOK, Ops, Rows, StatusTypes, MessageTypes
<1>5. Shape' BY <1>1, <1>2, <1>3 DEF IInv, Shape, Waits, Handing
<1>6. Down' BY <1>1, <1>2, <1>3 DEF IInv, Down
<1>7. Held' BY <1>1, <1>2, <1>3 DEF IInv, Held, Shape
<1>8. Clear' BY <1>1, <1>2, <1>3 DEF IInv, Clear, Quiet, Shape, Handing
<1>9. Pending' BY <1>1, <1>2, <1>3 DEF IInv, Pending, Shape, MaintenanceStates, Terminal
<1>10. Reason' BY <1>1, <1>2, <1>3 DEF IInv, Reason, Shape, MaintenanceStates
<1> QED BY <1>4, <1>5, <1>6, <1>7, <1>8, <1>9, <1>10 DEF IInv

(* A new API opens its gate only when the row and the file allow it. *)
LEMMA StartedMeans ==
  ASSUME IInv, Started, api = "down"
  PROVE  /\ api' = "up" /\ inside = {} /\ op.at = "free" /\ op.holds = FALSE
         /\ ota' \in Rows /\ maintenance' \in BOOLEAN
         /\ status' \in StatusTypes
         /\ message' \in MessageTypes
         /\ maintenance' => ota'.state \in MaintenanceStates
         /\ file.phase = "open" => ota' = ota /\ (ota.state \in MaintenanceStates => maintenance')
         /\ file.phase # "open" => ota' = ota \/ file.phase \in Terminal
         /\ UNCHANGED <<inside, op, touched>>
<1>1. UNCHANGED <<inside, op, touched>> /\ api' = "up" BY DEF Started
<1>2. inside = {} /\ op.at = "free" /\ op.holds = FALSE BY NoOpIsFree DEF IInv, Down
<1>3. ota' \in Rows /\ (Due => ota'.state = OutcomeOf(file.phase)) /\ (~Due => ota' = ota)
  BY ReconciledRow DEF Started, IInv, TypeOK, Rows
<1>4. /\ maintenance' \in BOOLEAN /\ (maintenance' => ota.state \in MaintenanceStates)
      /\ maintenance' /\ Due => OutcomeOf(file.phase) = "ROLLBACK_FAILED"
      /\ ~Due /\ ota.state \in MaintenanceStates => maintenance'
  BY DEF Started
<1>5. Due => file.phase \in Terminal /\ file.phase # "open" BY DEF Due, Terminal
<1>6. /\ status' \in StatusTypes
      /\ message' \in MessageTypes
  BY DEF Started, IInv, TypeOK, StatusTypes, MessageTypes
<1>7. "ROLLBACK_FAILED" \in MaintenanceStates BY DEF MaintenanceStates
<1> QED BY <1>1, <1>2, <1>3, <1>4, <1>5, <1>6, <1>7

LEMMA StartStep ==
  ASSUME IInv, StartsDesktop  PROVE  IInv'
<1>1. /\ updater' = [updater EXCEPT !.at = "started"] /\ updater.at = "stopped"
      /\ api = "down" /\ Started
      /\ current' = IF updater.kind = "apply" THEN file.version ELSE file.previous
      /\ UNCHANGED <<file, report, operations, crashes>>
  BY DEF StartsDesktop, UpdaterStep, spent
<1>2. updater' \in UpdaterTypes /\ updater'.at = "started"
  BY <1>1 DEF IInv, TypeOK, UpdaterTypes
<1>3. current' \in {0} \union Versions BY <1>1 DEF IInv, TypeOK
<1>4. /\ api' = "up" /\ inside = {} /\ op.at = "free" /\ op.holds = FALSE
      /\ ota' \in Rows /\ maintenance' \in BOOLEAN
      /\ status' \in StatusTypes
      /\ message' \in MessageTypes
      /\ maintenance' => ota'.state \in MaintenanceStates
      /\ file.phase = "open" => ota' = ota /\ (ota.state \in MaintenanceStates => maintenance')
      /\ UNCHANGED <<inside, op, touched>>
  BY <1>1, StartedMeans
<1> USE DEF UpdaterTypes
<1>x. IInv /\ updater.at = "stopped" /\ UNCHANGED <<file, report, operations, crashes>>
  BY <1>1
<1>5. TypeOK'
  BY <1>2, <1>3, <1>4, <1>x DEF IInv, TypeOK, Ops, Rows, StatusTypes, MessageTypes
<1>6. Shape' BY <1>2, <1>3, <1>4, <1>x DEF IInv, Shape, Waits, Handing
<1>7. Down' BY <1>2, <1>3, <1>4, <1>x DEF IInv, Down
<1>8. Held' BY <1>2, <1>3, <1>4, <1>x DEF IInv, Held, Shape
<1>9. Clear' BY <1>2, <1>3, <1>4, <1>x DEF IInv, Clear, Quiet, Shape, Handing
<1>10. Pending'
  BY <1>2, <1>3, <1>4, <1>x DEF IInv, Pending, Shape, MaintenanceStates, Terminal
<1>11. Reason' BY <1>2, <1>3, <1>4, <1>x DEF IInv, Reason, Shape, MaintenanceStates
<1> QED BY <1>5, <1>6, <1>7, <1>8, <1>9, <1>10, <1>11 DEF IInv

(* Desktop or the updater ends by itself. *)
LEMMA CrashStep ==
  ASSUME IInv, Crash  PROVE  IInv'
<1>1. /\ IInv /\ UNCHANGED <<file, report, current, touched, operations, maintenance, status, ota>>
      /\ crashes' \in 0 .. MaxCrashes
      /\ message' \in MessageTypes
  BY MaintenanceBounds DEF Crash, Stopped, IInv, TypeOK, gate, prints, MessageTypes
<1>2. \/ /\ api' = "down" /\ op' = NoOp /\ NoOp \in Ops /\ inside' = {} /\ updater' = updater
         /\ op'.at = "free" /\ op'.kind = "fetch" /\ op'.holds = FALSE
      \/ /\ updater' = NoUpdater /\ updater.at # "none" /\ updater'.at = "none"
         /\ updater' \in UpdaterTypes /\ UNCHANGED <<inside, op, api>>
  BY NoOpIsFree DEF Crash, Stopped, gate, NoUpdater, UpdaterTypes
<1> USE DEF UpdaterTypes
<1>3. TypeOK' BY <1>1, <1>2 DEF IInv, TypeOK, Ops, Rows, StatusTypes, MessageTypes
<1>4. Shape' BY <1>1, <1>2 DEF IInv, Shape, Waits, Handing
<1>5. Down' BY <1>1, <1>2 DEF IInv, Down
<1>6. Held' BY <1>1, <1>2 DEF IInv, Held, Shape
<1>7. Clear' BY <1>1, <1>2 DEF IInv, Clear, Quiet, Shape, Handing
<1>8. Pending' BY <1>1, <1>2 DEF IInv, Pending, Shape, MaintenanceStates, Terminal
<1>9. Reason' BY <1>1, <1>2 DEF IInv, Reason, Shape, MaintenanceStates
<1> QED BY <1>3, <1>4, <1>5, <1>6, <1>7, <1>8, <1>9 DEF IInv

LEMMA UserStep ==
  ASSUME IInv, UserStarts  PROVE  IInv'
<1>1. /\ IInv /\ api = "down" /\ updater.at = "none"
      /\ UNCHANGED <<file, report, operations, crashes>>
  BY DEF UserStarts, spent
<1>2. CASE Started /\ UNCHANGED updater
           /\ current' \in {current} \union (IF file.phase = "open" THEN {file.version} ELSE {})
  <2>1. current' \in {0} \union Versions BY <1>2 DEF IInv, TypeOK
  <2>2. /\ api' = "up" /\ inside = {} /\ op.at = "free" /\ op.holds = FALSE
        /\ ota' \in Rows /\ maintenance' \in BOOLEAN
        /\ status' \in StatusTypes
        /\ message' \in MessageTypes
        /\ maintenance' => ota'.state \in MaintenanceStates
        /\ file.phase = "open" => ota' = ota /\ (ota.state \in MaintenanceStates => maintenance')
        /\ UNCHANGED <<inside, op, touched>>
    BY <1>1, <1>2, StartedMeans
  <2>3. UNCHANGED updater BY <1>2
  <2>4. TypeOK'
    BY <1>1, <2>1, <2>2, <2>3 DEF IInv, TypeOK, Ops, Rows, StatusTypes, MessageTypes
  <2>5. Shape' BY <1>1, <2>1, <2>2, <2>3 DEF IInv, Shape, Waits, Handing
  <2>6. Down' BY <1>1, <2>1, <2>2, <2>3 DEF IInv, Down
  <2>7. Held' BY <1>1, <2>1, <2>2, <2>3 DEF IInv, Held, Shape
  <2>8. Clear' BY <1>1, <2>1, <2>2, <2>3 DEF IInv, Clear, Quiet, Shape, Handing
  <2>9. Pending'
    BY <1>1, <2>1, <2>2, <2>3 DEF IInv, Pending, Shape, MaintenanceStates, Terminal
  <2>10. Reason' BY <1>1, <2>1, <2>2, <2>3 DEF IInv, Reason, Shape, MaintenanceStates
  <2> QED BY <2>4, <2>5, <2>6, <2>7, <2>8, <2>9, <2>10 DEF IInv
<1>3. CASE /\ file.phase = "open" /\ updater' = [at |-> "stopped", kind |-> "rollback"]
           /\ UNCHANGED <<gate, prints, ota, op, api, current, touched>>
  <2>1. updater' \in UpdaterTypes /\ updater'.at = "stopped" BY <1>3 DEF UpdaterTypes
  <2>2. /\ file.phase = "open"
        /\ UNCHANGED <<maintenance, inside, status, message, ota, op, api, current, touched>>
    BY <1>3 DEF gate, prints
  <2> USE DEF UpdaterTypes
  <2>3. TypeOK' BY <1>1, <2>1, <2>2 DEF IInv, TypeOK, Ops, Rows, StatusTypes, MessageTypes
  <2>4. Shape' BY <1>1, <2>1, <2>2 DEF IInv, Shape, Waits, Handing
  <2>5. Down' BY <1>1, <2>1, <2>2 DEF IInv, Down
  <2>6. Held' BY <1>1, <2>1, <2>2 DEF IInv, Held, Shape
  <2>7. Clear' BY <1>1, <2>1, <2>2 DEF IInv, Clear, Quiet, Shape, Handing
  <2>8. Pending' BY <1>1, <2>1, <2>2 DEF IInv, Pending, Shape, MaintenanceStates, Terminal
  <2>9. Reason' BY <1>1, <2>1, <2>2 DEF IInv, Reason, Shape, MaintenanceStates
  <2> QED BY <2>3, <2>4, <2>5, <2>6, <2>7, <2>8, <2>9 DEF IInv
<1> QED BY <1>1, <1>2, <1>3 DEF UserStarts

-----------------------------------------------------------------------------
LEMMA InitIInv == Init => IInv
<1> SUFFICES ASSUME Init PROVE IInv OBVIOUS
<1>1. op \in Ops /\ op.at = "free" /\ op.kind = "fetch" /\ op.holds = FALSE
  BY NoOpIsFree DEF Init
<1>2. /\ file \in FileTypes /\ file.phase = "NONE"
      /\ updater \in UpdaterTypes /\ updater.at = "none"
      /\ ota \in Rows
  BY RowStarts DEF Init, NoFile, NoUpdater, FileTypes, UpdaterTypes, RowStates
<1>3. TypeOK
  <2>1. /\ maintenance \in BOOLEAN /\ inside \in SUBSET Jobs
        /\ status \in StatusTypes /\ message \in MessageTypes
    BY DEF Init, StatusTypes, MessageTypes
  <2>2. /\ report = "NONE" /\ api = "up" /\ current = 0 /\ touched = {}
        /\ operations = 0 /\ crashes = 0
    BY DEF Init
  <2>3. operations \in 0 .. MaxOperations /\ crashes \in 0 .. MaxCrashes
    BY <2>2, MaintenanceBounds
  <2> QED
    BY <1>1, <1>2, <2>1, <2>2, <2>3
    DEF TypeOK, Ops, Rows, FileTypes, UpdaterTypes, StatusTypes, MessageTypes
<1>4. maintenance = FALSE /\ api = "up" BY DEF Init
<1>5. Shape /\ Down /\ Held BY <1>1, <1>4 DEF Shape, Down, Held, Waits, Handing
<1>6. Clear BY <1>1, <1>2 DEF Clear, Handing
<1>7. Pending /\ Reason BY <1>1, <1>2, <1>4 DEF Pending, Reason
<1> QED BY <1>3, <1>5, <1>6, <1>7 DEF IInv

LEMMA NextIInv == IInv /\ [Next]_vars => IInv'
<1> SUFFICES ASSUME IInv, [Next]_vars PROVE IInv' OBVIOUS
<1>1. ASSUME NEW j \in Jobs, PrintsStep(j) PROVE IInv'
  BY <1>1, EnterStep, PersistStep, EnqueueStep, LeaveStep, JobStep DEF PrintsStep
<1>2. CASE Request BY <1>2, RequestStep
<1>3. CASE Proceed
  BY <1>3, FetchedStep, BeginStep, LookStep, DeferStep, FailStep, LaunchStep, RecordStep
  DEF Proceed
<1>4. CASE Poll \/ TimeOut BY <1>4, WaitStep
<1>5. CASE GetStatus \/ HearReport BY <1>5, StatusStep
<1>6. CASE LoseReport BY <1>6, LoseReportStep
<1>7. CASE NativeStep BY <1>7, EndStep, StopStep, StartStep DEF NativeStep
<1>8. CASE Crash BY <1>8, CrashStep
<1>9. CASE UserStarts BY <1>9, UserStep
<1>10. CASE UNCHANGED vars
  BY <1>10 DEF vars, gate, prints, native, spent, IInv, TypeOK, Shape, Down, Held, Clear, Quiet,
     Pending, Reason
<1> QED BY <1>1, <1>2, <1>3, <1>4, <1>5, <1>6, <1>7, <1>8, <1>9, <1>10 DEF Next

THEOREM MaintenanceInvariant == Spec => []IInv
BY InitIInv, NextIInv, PTL DEF Spec

(* Every variable keeps to its type, whatever the file and the row say.    *)
THEOREM MaintenanceTypes == Spec => []TypeOK
<1>1. IInv => TypeOK BY DEF IInv
<1> QED BY <1>1, MaintenanceInvariant, PTL

(***************************************************************************)
(* printSystemIsIdle and beginMaintenance: from the second look until      *)
(* Desktop is stopped no job is created, waits or prints, however many     *)
(* creations passed the gate as it shut.                                   *)
(***************************************************************************)
THEOREM NothingPrintsUnderTheInstaller == Spec => []InstallsOverNothing
<1>1. IInv => InstallsOverNothing
  BY DEF IInv, Clear, Quiet, Handing, InstallsOverNothing
<1> QED BY <1>1, MaintenanceInvariant, PTL

(***************************************************************************)
(* app.ts: while an updater is at work an API that runs keeps its gate     *)
(* shut, also one that was started after any number of crashes.            *)
(***************************************************************************)
THEOREM TheGateFailsClosed == Spec => []FailsClosed
<1>1. IInv => FailsClosed BY DEF IInv, Pending, FailsClosed
<1> QED BY <1>1, MaintenanceInvariant, PTL

(***************************************************************************)
(* A shut gate has an operation or a pending update behind it: no print is *)
(* refused for an operation that is over.                                  *)
(***************************************************************************)
THEOREM TheGateIsShutForAReason == Spec => []GateHasAReason
<1>1. IInv => GateHasAReason BY DEF IInv, Reason, GateHasAReason
<1> QED BY <1>1, MaintenanceInvariant, PTL

-----------------------------------------------------------------------------
(* A beginMaintenance that sleeps has somebody inside who will wake it. *)
Awaited == op.at = "drain" => inside # {}

LEMMA NextAwaited == IInv /\ Awaited /\ [Next]_vars => Awaited'
<1> SUFFICES ASSUME IInv, Awaited, [Next]_vars, op'.at = "drain"
             PROVE  inside' # {}
  BY DEF Awaited
<1>0. op \in Ops BY DEF IInv, TypeOK, Ops
<1>1. op.at = "drain" => inside # {} BY DEF Awaited
<1>2. op'.at # "free" /\ op' # NoOp BY NoOpIsFree
<1>3. ASSUME NEW j \in Jobs, PrintsStep(j) PROVE inside' # {}
  <2>1. CASE Enter(j) BY <2>1 DEF Enter
  <2>2. CASE Leave(j)
    <3>1. op.at = "drain" /\ inside # {j}
      BY <1>0, <2>2, OpIdles DEF Leave, Wakes
    <3> QED BY <1>1, <2>2, <3>1 DEF Leave
  <2>3. CASE \/ Persist(j) \/ Enqueue(j) \/ Serve(j)
             \/ Execute(j) \/ Finish(j) \/ Cancel(j)
    BY <1>1, <2>3 DEF Persist, Enqueue, Serve, Execute, Finish, Cancel, gate
  <2> QED BY <1>3, <2>1, <2>2, <2>3 DEF PrintsStep
<1>4. CASE Request
  <2>1. inside' = inside /\ op.at = "free"
    BY <1>4 DEF Request, Check, Rollback, Download, Install, LetIn, OpStep
  <2>2. CASE op' = op BY <1>2, <2>1, <2>2
  <2>3. CASE op' # op
    <3>1. PICK p \in {"fetch", "queue", "shut"}, k \in Kinds, v \in {0} \union Versions :
            op' = [NoOp EXCEPT !.at = p, !.kind = k, !.version = v]
      BY <1>4, <2>3 DEF Request, Check, Rollback, Download, Install, NoOp, Kinds, Installs
    <3>2. op'.at = p BY <3>1 DEF NoOp
    <3> QED BY <3>2
  <2> QED BY <2>2, <2>3
<1>5. CASE BeginMaintenance
  <2>1. CASE inside # {} BY <1>5, <2>1 DEF BeginMaintenance, OpStep
  <2>2. CASE inside = {}
    BY <1>0, <1>5, <2>2, OpIdles, OpMoves DEF BeginMaintenance, Shut, Places
  <2> QED BY <2>1, <2>2
<1>6. CASE Look
  <2>1. inside' = inside /\ op.at # "drain" BY <1>6 DEF Look, OpStep
  <2>2. op'.at # "drain"
    <3>1. PICK p \in {"rows", "settle", "queue", "shut", "install", "launch"},
               r \in {1, 2} : op' = [op EXCEPT !.at = p, !.round = r] \/ op' = [op EXCEPT !.at = p]
      BY <1>0, <1>6 DEF Look, Passed, Ops
    <3>2. p \in Places BY DEF Places
    <3> QED BY <1>0, <3>1, <3>2, OpLooks, OpMoves
  <2> QED BY <2>1, <2>2
<1>7. CASE Fetched \/ Defer \/ Fail
  BY <1>2, <1>7 DEF Fetched, Defer, Fail
<1>8. CASE LaunchInstall \/ LaunchRollback \/ Record
  <2>1. PICK p \in Handing : op' = [op EXCEPT !.at = p]
    BY <1>2, <1>8 DEF LaunchInstall, LaunchRollback, Record, Writes, Handing
  <2>2. p \in Places /\ p # "drain" BY DEF Handing, Places
  <2> QED BY <1>0, <2>1, <2>2, OpMoves
<1>9. CASE Poll \/ TimeOut
  BY <1>0, <1>9, OpLooks, OpMoves DEF Poll, TimeOut, Places
<1>10. CASE \/ GetStatus \/ HearReport \/ LoseReport \/ Refuses \/ Ends \/ StartsDesktop
            \/ UNCHANGED vars
  BY <1>1, <1>10
  DEF GetStatus, HearReport, Outcome, LoseReport, Refuses, Ends, StartsDesktop, Started,
      vars, gate
<1>11. CASE StopsDesktop \/ Crash
  BY <1>1, <1>2, <1>11 DEF StopsDesktop, Crash, Stopped, gate
<1>12. CASE UserStarts
  BY <1>1, <1>12 DEF UserStarts, Started, gate
<1> QED
  BY <1>3, <1>4, <1>5, <1>6, <1>7, <1>8, <1>9, <1>10, <1>11, <1>12
  DEF Next, Proceed, NativeStep

(***************************************************************************)
(* print-admission-gate.ts, beginMaintenance and leave: the wake-up cannot *)
(* be lost.  Whenever an operation waits for the creations inside the gate *)
(* there is one, in every order in which creations leave, the gate is shut *)
(* and opened again, and Desktop dies.                                     *)
(***************************************************************************)
THEOREM NoWakeUpIsLost == Spec => []Awaited
<1>1. Init => Awaited BY NoOpIsFree DEF Init, Awaited
<1> QED BY <1>1, NextAwaited, MaintenanceInvariant, PTL DEF Spec
=============================================================================
