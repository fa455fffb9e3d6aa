-------------------------- MODULE PrintIntakeProofs --------------------------
(***************************************************************************)
(* Proofs about PrintIntake for every number of requests, messages, calls, *)
(* deliveries, connections and crashes.                                    *)
(*                                                                         *)
(* OneJobPerRequest follows from Counted: the rows of a request are        *)
(* inserted where the lookup found none, and no step removes a row.        *)
(* AcceptedIsQueued needs Recovered: a row that is still ACCEPTED belongs  *)
(* to a dead process whose successor has not served anything yet, or to a  *)
(* creation that a write broke.                                            *)
(***************************************************************************)
EXTENDS PrintIntake, TLAPS

Connected == online => epoch > 0

Typed == TypeOK /\ Connected

Counted == \A r \in Requests : created[r] = IF row[r] = "NONE" THEN 0 ELSE 1

Recovered == \A r \in Requests : row[r] = "ACCEPTED" => r \in broken \/ ~up

(* What a step may do to the rows. *)
RowStep ==
  \/ UNCHANGED jobs
  \/ \E r \in Requests : Insert(r, "QUEUED") /\ UNCHANGED broken
  \/ \E r \in Requests : Insert(r, "ACCEPTED") /\ broken' = broken \union {r}
  \/ \E r \in Requests : Insert(r, "ACCEPTED") /\ UNCHANGED broken /\ ~up'

RecoveryStep ==
  /\ row' = [r \in Requests |-> IF row[r] = "ACCEPTED" THEN "QUEUED" ELSE row[r]]
  /\ broken' = {} /\ created' = created

-----------------------------------------------------------------------------
(* Nothing has arrived when the gateway is installed. *)
LEMMA InitIsTyped == Init => Typed
<1> SUFFICES ASSUME Init PROVE Typed
  OBVIOUS
<1>1. TypeOK
  <2>1. row \in [Requests -> Rows] /\ created \in [Requests -> Nat] /\ broken \in SUBSET Requests
    BY DEF Init, Rows
  <2>2. config \in [Requests -> Configs] /\ closed \in BOOLEAN
    BY DEF Init
  <2>3. stream \in [Messages -> Fates] /\ delivered \in [Messages -> 0 .. MaxDeliver]
    BY IntakeBounds DEF Init, Fates
  <2>4. copies \in SUBSET Copies /\ waiting \in SUBSET Copies
    BY DEF Init
  <2>5. online \in BOOLEAN /\ up \in BOOLEAN
    BY DEF Init
  <2>6. answer \in [Calls -> Answers]
    BY DEF Init, Answers
  <2>7. epoch \in 0 .. MaxConnections /\ ended \in SUBSET (1 .. MaxConnections) /\ crashes \in 0 .. MaxCrashes
    BY IntakeBounds DEF Init
  <2> QED BY <2>1, <2>2, <2>3, <2>4, <2>5, <2>6, <2>7 DEF TypeOK
<1>2. Connected
  BY DEF Init, Connected
<1> QED BY <1>1, <1>2 DEF Typed

LEMMA AcceptIsARowStep ==
  ASSUME NEW r \in Requests, Accept(r) \/ Break(r)
  PROVE  RowStep
BY DEF Accept, Break, RowStep

(* Rows are only written by the two intakes, a crash half way, and boot. *)
LEMMA RowsOfNext ==
  ASSUME Typed, [Next]_vars
  PROVE  RowStep \/ (LocalWorker /\ RecoveryStep)
<1> USE EveryMessageIsARequest, EveryCallIsARequest
<1>0. \A x \in copies : RequestOf[x[1]] \in Requests
  BY DEF Typed, TypeOK, Copies
<1>1. ASSUME NEW m \in Messages, Deliver(m) PROVE RowStep
  BY <1>1 DEF Deliver, RowStep
<1>2. ASSUME NEW m \in Messages, CopyStep(m) PROVE RowStep
  <2>1. PICK x \in copies : Handle(x) \/ Drop(x)
    BY <1>2 DEF CopyStep
  <2>2. CASE AcceptCopy(x) \/ FailCopy(x)
    BY <1>0, <2>2, AcceptIsARowStep DEF AcceptCopy, FailCopy
  <2>3. CASE RefuseCopy(x) \/ HandlerThrows(x) \/ Drop(x)
    BY <2>3 DEF RefuseCopy, HandlerThrows, Drop, RowStep
  <2> QED BY <2>1, <2>2, <2>3 DEF Handle
<1>3. ASSUME NEW m \in Messages, AnswerStep(m) PROVE RowStep
  BY <1>3 DEF AnswerStep, DeadLetter, RowStep
<1>4. ASSUME NEW h \in Calls, CallAccepted(h) \/ CallFails(h) PROVE RowStep
  BY <1>4, AcceptIsARowStep DEF CallAccepted, CallFails
<1>5. ASSUME NEW h \in Calls, CallRefused(h) PROVE RowStep
  BY <1>5 DEF CallRefused, RowStep
<1>6. CASE Connect \/ Disconnect \/ LoopFails \/ BeginMaintenance \/ EndMaintenance
  BY <1>6 DEF Connect, Disconnect, LoopFails, BeginMaintenance, EndMaintenance, RowStep
<1>7. ASSUME NEW r \in Requests, Reconfigure(r) PROVE RowStep
  BY <1>7 DEF Reconfigure, RowStep
<1>8. CASE Crash
  BY <1>8 DEF Crash, RowStep, jobs
<1>9. CASE Boot
  BY <1>9 DEF Boot, RowStep, RecoveryStep, jobs
<1>10. CASE UNCHANGED vars
  BY <1>10 DEF vars, RowStep
<1> QED
  BY <1>1, <1>2, <1>3, <1>4, <1>5, <1>6, <1>7, <1>8, <1>9, <1>10 DEF Next

-----------------------------------------------------------------------------
(* The rows keep their types whatever step is taken. *)
LEMMA RowsAreTyped ==
  ASSUME Typed, RowStep \/ RecoveryStep
  PROVE  /\ row' \in [Requests -> Rows]
         /\ created' \in [Requests -> Nat]
         /\ broken' \in SUBSET Requests
BY DEF Typed, TypeOK, RowStep, RecoveryStep, Insert, Rows, jobs

(* The stream keeps its type when a handler answers. *)
LEMMA StreamIsTyped ==
  ASSUME Typed, NEW x \in Copies, NEW fate \in Fates, Tell(x, fate)
  PROVE  stream' \in [Messages -> Fates]
BY DEF Typed, TypeOK, Copies, Tell

LEMMA NextIsTyped ==
  ASSUME Typed, [Next]_vars
  PROVE  Typed'
<1> USE IntakeBounds DEF Typed, TypeOK, Connected
<1>0. /\ row' \in [Requests -> Rows]
      /\ created' \in [Requests -> Nat]
      /\ broken' \in SUBSET Requests
  BY RowsOfNext, RowsAreTyped
<1>1. ASSUME NEW m \in Messages, Deliver(m) PROVE Typed'
  <2>1. <<m, delivered[m] + 1, epoch>> \in Copies
    BY <1>1 DEF Deliver, Copies
  <2> QED BY <1>0, <1>1, <2>1 DEF Deliver, admin, link
<1>2. ASSUME NEW m \in Messages, CopyStep(m) PROVE Typed'
  <2>1. PICK x \in copies : Handle(x) \/ Drop(x)
    BY <1>2 DEF CopyStep
  <2>2. x \in Copies /\ copies' \in SUBSET Copies /\ waiting' \in SUBSET Copies
    BY <2>1 DEF Handle, HisTurn, Handled, AcceptCopy, RefuseCopy, FailCopy, HandlerThrows, Drop
  <2>3. CASE AcceptCopy(x)
    <3>1. stream' \in [Messages -> Fates]
      BY <2>2, <2>3, StreamIsTyped DEF AcceptCopy, Fates
    <3> QED BY <1>0, <2>2, <2>3, <3>1 DEF AcceptCopy, admin, link
  <2>4. CASE RefuseCopy(x) \/ FailCopy(x) \/ Drop(x)
    <3>1. UNCHANGED <<admin, broker, link, answer, up, crashes>>
      BY <2>4 DEF RefuseCopy, FailCopy, Drop
    <3> QED BY <1>0, <2>2, <3>1 DEF admin, broker, link
  <2>5. CASE HandlerThrows(x)
    <3>1. x[3] \in 1 .. MaxConnections
      BY <2>2 DEF Copies
    <3> QED BY <1>0, <2>2, <2>5, <3>1 DEF HandlerThrows, admin, broker
  <2> QED BY <2>1, <2>3, <2>4, <2>5 DEF Handle
<1>3. ASSUME NEW m \in Messages, AnswerStep(m) PROVE Typed'
  <2>1. PICK x \in waiting : DeadLetter(x)
    BY <1>3 DEF AnswerStep
  <2>2. x \in Copies /\ stream' \in [Messages -> Fates]
    BY <2>1, StreamIsTyped DEF DeadLetter, Fates
  <2> QED BY <1>0, <2>1, <2>2 DEF DeadLetter, admin, link
<1>4. ASSUME NEW h \in Calls, CallAccepted(h) \/ CallRefused(h) \/ CallFails(h)
      PROVE  Typed'
  <2>1. answer' \in [Calls -> Answers]
    BY <1>4 DEF CallAccepted, CallRefused, CallFails, Answers
  <2>2. UNCHANGED <<admin, broker, copies, waiting, link, up, crashes>>
    BY <1>4 DEF CallAccepted, CallRefused, CallFails
  <2> QED BY <1>0, <2>1, <2>2 DEF admin, broker, link
<1>11. CASE LoopFails
  <2>1. epoch \in 1 .. MaxConnections
    BY <1>11 DEF LoopFails
  <2> QED BY <1>0, <1>11, <2>1 DEF LoopFails, admin, broker
<1>5. CASE Connect \/ Disconnect
  <2>1. TypeOK'
    <3>1. epoch' \in 0 .. MaxConnections
      BY <1>5 DEF Connect, Disconnect
    <3>2. online' \in BOOLEAN
      BY <1>5 DEF Connect, Disconnect
    <3>3. UNCHANGED <<config, closed, stream, delivered, copies, waiting, ended, answer, up, crashes>>
      BY <1>5 DEF Connect, Disconnect, admin, broker
    <3> QED BY <1>0, <3>1, <3>2, <3>3
  <2>2. Connected'
    BY <1>5 DEF Connect, Disconnect
  <2> QED BY <2>1, <2>2
<1>6. ASSUME NEW r \in Requests, Reconfigure(r) PROVE Typed'
  BY <1>0, <1>6 DEF Reconfigure, broker, link
<1>7. CASE BeginMaintenance \/ EndMaintenance
  <2>1. TypeOK'
    BY <1>0, <1>7 DEF BeginMaintenance, EndMaintenance, broker, link
  <2>2. Connected'
    BY <1>7 DEF BeginMaintenance, EndMaintenance, link
  <2> QED BY <2>1, <2>2
<1>8. CASE Crash
  <2>1. TypeOK'
    <3>1. crashes' \in 0 .. MaxCrashes
      BY <1>8 DEF Crash
    <3>2. up' \in BOOLEAN /\ online' \in BOOLEAN
      BY <1>8 DEF Crash
    <3>3. copies' \in SUBSET Copies /\ waiting' \in SUBSET Copies
      BY <1>8 DEF Crash
    <3>4. UNCHANGED <<config, closed, stream, delivered, epoch, ended, answer>>
      BY <1>8 DEF Crash, admin, broker
    <3> QED BY <1>0, <3>1, <3>2, <3>3, <3>4
  <2>2. Connected'
    BY <1>8 DEF Crash
  <2> QED BY <2>1, <2>2
<1>9. CASE Boot
  BY <1>0, <1>9 DEF Boot, broker, link
<1>10. CASE UNCHANGED vars
  BY <1>10 DEF vars, jobs, admin, broker, link
<1> QED
  BY <1>1, <1>2, <1>3, <1>4, <1>5, <1>6, <1>7, <1>8, <1>9, <1>10, <1>11 DEF Next

(* The invariant every other proof of this module rests on. *)
THEOREM TypeInvariant == Spec => []Typed
<1>1. Typed /\ [Next]_vars => Typed'
  BY NextIsTyped
<1> QED BY <1>1, InitIsTyped, PTL DEF Spec

(* Every variable keeps to the values the program gives it. *)
THEOREM TypeCorrect == Spec => []TypeOK
<1>1. Typed => TypeOK
  BY DEF Typed
<1> QED BY <1>1, TypeInvariant, PTL

-----------------------------------------------------------------------------
(* Inserting is what counts, and it is done where nothing was found. *)
LEMMA RowStepCounts ==
  ASSUME Typed, Counted, RowStep \/ RecoveryStep
  PROVE  Counted'
<1> USE DEF Typed, TypeOK, Counted
<1>1. CASE UNCHANGED jobs
  BY <1>1 DEF jobs
<1>2. ASSUME NEW r \in Requests, NEW s \in {"ACCEPTED", "QUEUED"}, Insert(r, s)
      PROVE  Counted'
  <2> SUFFICES ASSUME NEW q \in Requests
               PROVE  created'[q] = IF row'[q] = "NONE" THEN 0 ELSE 1
    OBVIOUS
  <2>1. CASE q = r
    BY <1>2, <2>1 DEF Insert
  <2>2. CASE q # r
    BY <1>2, <2>2 DEF Insert
  <2> QED BY <2>1, <2>2
<1>3. CASE RecoveryStep
  BY <1>3 DEF RecoveryStep
<1> QED BY <1>1, <1>2, <1>3 DEF RowStep

(* However often a request arrives, in whatever order with refusals,       *)
(* failures, reconnections and crashes, one row is created for it.         *)
THEOREM OneJob == Spec => []OneJobPerRequest
<1>1. Init => Counted
  BY DEF Init, Counted
<1>2. Typed /\ Counted /\ [Next]_vars => Counted'
  BY RowsOfNext, RowStepCounts
<1>3. Counted => OneJobPerRequest
  <2> SUFFICES ASSUME Counted, NEW r \in Requests PROVE created[r] <= 1
    BY DEF OneJobPerRequest
  <2>1. created[r] = 0 \/ created[r] = 1
    BY DEF Counted
  <2> QED BY <2>1
<1> QED BY <1>1, <1>2, <1>3, TypeInvariant, PTL DEF Spec

-----------------------------------------------------------------------------
(* The boot recovery of the desktop deployment is part of every boot. *)
LEMMA NextRecovers ==
  ASSUME LocalWorker, Typed, Recovered, [Next]_vars
  PROVE  Recovered'
<1> USE DEF Typed, TypeOK, Recovered
<1>1. CASE Boot
  BY <1>1 DEF Boot, Rows
<1>2. CASE RowStep /\ (up' => up)
  BY <1>2 DEF RowStep, Insert, jobs
<1>3. CASE RecoveryStep
  BY <1>3 DEF RecoveryStep, Rows
<1>4. Boot \/ (up' => up)
  BY DEF Next, Deliver, CopyStep, AnswerStep, Handle, AcceptCopy, RefuseCopy, FailCopy,
         HandlerThrows, Drop, DeadLetter, CallAccepted, CallRefused, CallFails, Connect,
         Disconnect, LoopFails, Reconfigure, BeginMaintenance, EndMaintenance, Crash, vars
<1> QED BY <1>1, <1>2, <1>3, <1>4, RowsOfNext

(* A request that may be answered as accepted, and what that rests on. *)
Good(r) == row[r] = "QUEUED" \/ r \in broken

Known == broken \subseteq {r \in Requests : row[r] # "NONE"}
Dead  == ~up => copies = {} /\ ~online

(* No step takes a queued job back; boot queues the broken ones. *)
LEMMA GoodStaysGood ==
  ASSUME Typed, Known, RowStep \/ RecoveryStep
  PROVE  Known' /\ \A r \in Requests : Good(r) => Good(r)'
<1> USE DEF Typed, TypeOK, Good, Known
<1>1. CASE RowStep
  BY <1>1 DEF RowStep, Insert, jobs
<1>2. CASE RecoveryStep
  BY <1>2 DEF RecoveryStep, Rows
<1> QED BY <1>1, <1>2

(* An acceptance by a serving process is one of a queued row. *)
LEMMA AcceptIsGood ==
  ASSUME Typed, Recovered, up, NEW r \in Requests, Accept(r)
  PROVE  Good(r)'
BY DEF Typed, TypeOK, Recovered, Accept, Insert, Good, Rows, jobs

(* A dead process has neither copies nor a connection. *)
LEMMA DeadStaysDead ==
  ASSUME Dead, [Next]_vars
  PROVE  Dead'
<1> USE DEF Dead
<1>1. CASE Crash
  BY <1>1 DEF Crash
<1>2. CASE Boot
  BY <1>2 DEF Boot
<1>3. CASE Connect \/ Disconnect \/ LoopFails
  BY <1>3 DEF Connect, Disconnect, LoopFails
<1>4. ASSUME NEW m \in Messages, Deliver(m) \/ CopyStep(m) \/ AnswerStep(m)
      PROVE  Dead'
  BY <1>4 DEF Deliver, CopyStep, AnswerStep, Handle, HisTurn, Handled, AcceptCopy, RefuseCopy,
              FailCopy, HandlerThrows, Drop, DeadLetter, link
<1>5. ASSUME NEW h \in Calls, CallAccepted(h) \/ CallRefused(h) \/ CallFails(h)
      PROVE  Dead'
  BY <1>5 DEF CallAccepted, CallRefused, CallFails, link
<1>6. ASSUME NEW r \in Requests, Reconfigure(r) PROVE Dead'
  BY <1>6 DEF Reconfigure, link
<1>7. CASE BeginMaintenance \/ EndMaintenance \/ UNCHANGED vars
  BY <1>7 DEF BeginMaintenance, EndMaintenance, vars, link
<1> QED BY <1>1, <1>2, <1>3, <1>4, <1>5, <1>6, <1>7 DEF Next

(* Who is told of an acceptance in a step has a good row after it. *)
LEMMA NewAcceptances ==
  ASSUME Typed, Recovered, Dead, [Next]_vars
  PROVE  /\ \A m \in Messages : stream'[m] = "ACKED" =>
               stream[m] = "ACKED" \/ Good(RequestOf[m])'
         /\ \A h \in Calls : answer'[h] = "OK" =>
               answer[h] = "OK" \/ Good(CallFor[h])'
<1> USE EveryMessageIsARequest, EveryCallIsARequest
<1> DEFINE NoNews == UNCHANGED <<stream, answer>>
<1>1. ASSUME NEW n \in Messages, Deliver(n) PROVE NoNews
  BY <1>1 DEF Deliver
<1>2. ASSUME NEW x \in copies, AcceptCopy(x)
      PROVE  /\ answer' = answer
             /\ \A m \in Messages : stream'[m] = "ACKED" =>
                  stream[m] = "ACKED" \/ Good(RequestOf[m])'
  <2>1. x[1] \in Messages /\ RequestOf[x[1]] \in Requests /\ up
    BY DEF Typed, TypeOK, Copies, Dead
  <2>2. Good(RequestOf[x[1]])'
    BY <1>2, <2>1, AcceptIsGood DEF AcceptCopy
  <2>3. \A m \in Messages : m # x[1] => stream'[m] = stream[m]
    BY <1>2, <2>1 DEF AcceptCopy, Tell, Typed, TypeOK
  <2> QED BY <1>2, <2>1, <2>2, <2>3 DEF AcceptCopy
<1>3. ASSUME NEW n \in Messages, CopyStep(n), \A x \in copies : ~AcceptCopy(x)
      PROVE  NoNews
  BY <1>3 DEF CopyStep, Handle, RefuseCopy, FailCopy, HandlerThrows, Drop, broker
<1>4. ASSUME NEW n \in Messages, AnswerStep(n)
      PROVE  answer' = answer /\ \A m \in Messages : stream'[m] = "ACKED" => stream[m] = "ACKED"
  BY <1>4 DEF AnswerStep, DeadLetter, Tell, Typed, TypeOK, Copies
<1>5. ASSUME NEW h \in Calls, CallAccepted(h)
      PROVE  /\ stream' = stream
             /\ \A g \in Calls : answer'[g] = "OK" => answer[g] = "OK" \/ Good(CallFor[g])'
  <2>1. Good(CallFor[h])'
    BY <1>5, AcceptIsGood DEF CallAccepted
  <2>2. \A g \in Calls : g # h => answer'[g] = answer[g]
    BY <1>5 DEF CallAccepted, Typed, TypeOK
  <2> QED BY <1>5, <2>1, <2>2 DEF CallAccepted, broker
<1>6. ASSUME NEW h \in Calls, CallRefused(h) \/ CallFails(h)
      PROVE  stream' = stream /\ \A g \in Calls : answer'[g] = "OK" => answer[g] = "OK"
  BY <1>6 DEF CallRefused, CallFails, broker, Typed, TypeOK
<1>7. ASSUME NEW r \in Requests, Reconfigure(r) PROVE NoNews
  BY <1>7 DEF Reconfigure, broker
<1>8. CASE Connect \/ Disconnect \/ LoopFails \/ BeginMaintenance \/ EndMaintenance \/ Crash \/ Boot
  <2>1. NoNews
    BY <1>8 DEF Connect, Disconnect, LoopFails, BeginMaintenance, EndMaintenance, Crash, Boot, broker
  <2> QED BY <2>1
<1>9. CASE UNCHANGED vars
  BY <1>9 DEF vars, broker
<1>10. \A n \in Messages : CopyStep(n) => NoNews \/ \E x \in copies : AcceptCopy(x)
  BY <1>3
<1> QED
  BY <1>1, <1>2, <1>10, <1>4, <1>5, <1>6, <1>7, <1>8, <1>9 DEF Next

(* On the desktop, what was acknowledged or answered OK has a job in the   *)
(* queue, after any number of crashes.                                     *)
THEOREM AcceptanceIsKept ==
  ASSUME LocalWorker
  PROVE  Spec => []AcceptedIsQueued
<1>1. Init => Recovered /\ Known /\ Dead /\ AcceptedIsQueued
  BY DEF Init, Recovered, Known, Dead, AcceptedIsQueued
<1>2. Typed /\ Recovered /\ Known /\ Dead /\ AcceptedIsQueued /\ [Next]_vars =>
        (Recovered /\ Known /\ Dead /\ AcceptedIsQueued)'
  <2> SUFFICES ASSUME Typed, Recovered, Known, Dead, AcceptedIsQueued, [Next]_vars
               PROVE  (Recovered /\ Known /\ Dead /\ AcceptedIsQueued)'
    OBVIOUS
  <2>1. Recovered' /\ Dead'
    BY NextRecovers, DeadStaysDead
  <2>2. Known' /\ \A r \in Requests : Good(r) => Good(r)'
    BY RowsOfNext, GoodStaysGood
  <2>3. AcceptedIsQueued'
    BY <2>2, NewAcceptances, EveryMessageIsARequest, EveryCallIsARequest
       DEF AcceptedIsQueued, Good
  <2> QED BY <2>1, <2>2, <2>3
<1> QED BY <1>1, <1>2, TypeInvariant, PTL DEF Spec
=============================================================================
