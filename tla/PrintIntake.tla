----------------------------- MODULE PrintIntake -----------------------------
(***************************************************************************)
(* How a print request becomes a job: the NATS print-intake consumer with  *)
(* its connection manager, the HTTP print-jobs route, the lookup by        *)
(* request id both share, the admission gate that maintenance closes, and  *)
(* a crash with the recovery of half-created rows.  JetStream redelivers   *)
(* what is not acknowledged and producers repeat themselves, so the same   *)
(* request arrives many times, in several copies.                          *)
(*                                                                         *)
(* From the lookup to the acknowledgement no handler waits for anything    *)
(* but the database, which answers before the event loop turns: that part  *)
(* is one action.  A handler waits for the network only while it reports a *)
(* rejection.  What happens to a QUEUED row is PrintJob's.                 *)
(***************************************************************************)
EXTENDS Naturals

CONSTANTS
  Requests,         \* (request_id, source_system) pairs
  Messages,         \* messages of the stream, an envelope each
  RequestOf,        \* RequestOf[m]: the request in the envelope of m
  NullBodies,       \* messages whose body is the JSON value null
  Calls,            \* HTTP requests
  CallFor,          \* CallFor[h]: the request of call h
  LocalWorker,      \* PRINTOPS_LOCAL_WORKER = 'true': boot recovers rows
  MaxDeliver,       \* PrintIntakeConfig.maxDeliver
  MaxConnections,   \* bound: how often the consumer connects
  MaxCrashes        \* bound: how often the API process dies

ASSUME EveryMessageIsARequest == RequestOf \in [Messages -> Requests]
ASSUME ANullBodyIsAMessage == NullBodies \subseteq Messages
ASSUME EveryCallIsARequest == CallFor \in [Calls -> Requests]
ASSUME TheWorkerIsASwitch == LocalWorker \in BOOLEAN
ASSUME IntakeBounds ==
  MaxDeliver \in Nat \ {0} /\ MaxConnections \in Nat /\ MaxCrashes \in Nat

VARIABLES
  row,         \* row[r]: status of the row findByRequestId returns for r
  created,     \* created[r]: rows inserted for r
  broken,      \* requests whose creation a failing write interrupted
  config,      \* config[r]: what the configuration makes of request r
  closed,      \* PrintAdmissionGate.maintenance
  stream,      \* stream[m]: what JetStream did with message m
  delivered,   \* delivered[m]: how often m was delivered
  copies,      \* <<m, n, k>>: n-th delivery of m, buffered on connection k
  waiting,     \* copies whose handler awaits notifyRejected
  online,      \* a NATS connection is open
  epoch,       \* its number
  ended,       \* connections whose consume loop has ended with an error
  answer,      \* answer[h]: what the caller of h was told
  up,          \* a process serves requests
  crashes      \* number of crashes so far

jobs   == <<row, created, broken>>
admin  == <<config, closed>>
broker == <<stream, delivered>>
link   == <<online, epoch, ended>>
vars   == <<jobs, admin, broker, copies, waiting, link, answer, up, crashes>>

-----------------------------------------------------------------------------
(* "unresolved": binding, template or callback endpoint refuse a request,  *)
(* which is noticed before the lookup; "unprintable": printer, profile or  *)
(* rendering do, which is noticed when there is a job to create.           *)
Configs == {"fine", "unresolved", "unprintable"}

Rows    == {"NONE", "ACCEPTED", "QUEUED"}
Fates   == {"STORED", "ACKED", "DEADLETTERED"}
Answers == {"NONE", "OK", "REFUSED", "ERROR", "LOST"}
Copies  == Messages \X (1 .. MaxDeliver) \X (1 .. MaxConnections)

Init ==
  /\ row = [r \in Requests |-> "NONE"]
  /\ created = [r \in Requests |-> 0]
  /\ broken = {}
  /\ config \in [Requests -> Configs] /\ closed = FALSE
  /\ stream = [m \in Messages |-> "STORED"]
  /\ delivered = [m \in Messages |-> 0]
  /\ copies = {} /\ waiting = {}
  /\ online = FALSE /\ epoch = 0 /\ ended = {}
  /\ answer = [h \in Calls |-> "NONE"]
  /\ up = TRUE /\ crashes = 0

-----------------------------------------------------------------------------
(* CreatePrintJobService: ACCEPTED, VALIDATED, QUEUED; or as far as it got *)
Insert(r, s) ==
  /\ row[r] = "NONE" /\ config[r] = "fine" /\ ~closed
  /\ row' = [row EXCEPT ![r] = s]
  /\ created' = [created EXCEPT ![r] = @ + 1]

(* Mutation: there is no lookup before the INSERT. *)
AcceptWithoutLookup(r) ==
  /\ config[r] = "fine" /\ ~closed
  /\ row' = [row EXCEPT ![r] = "QUEUED"]
  /\ created' = [created EXCEPT ![r] = @ + 1]
  /\ UNCHANGED broken

(* AcceptExternalJobService.execute: a known request gets its job back *)
Accept(r) ==
  \/ Insert(r, "QUEUED") /\ UNCHANGED broken
  \/ row[r] # "NONE" /\ config[r] # "unresolved" /\ UNCHANGED jobs

(* A 4xx AppError; the gate is only asked when there is a job to create. *)
Refused(r) ==
  \/ config[r] = "unresolved"
  \/ row[r] = "NONE" /\ (config[r] = "unprintable" \/ closed)

(* Any other error, from a write that failed before, in or after the rows. *)
Break(r) ==
  \/ UNCHANGED jobs
  \/ Insert(r, "ACCEPTED") /\ broken' = broken \union {r}
  \/ Insert(r, "QUEUED") /\ UNCHANGED broken

(* ack and term are not answered: one sent on a connection that is closed, *)
(* or breaks now, never arrives.                                           *)
Tell(x, fate) ==
  LET m == x[1]
  IN  \/ UNCHANGED stream
      \/ /\ online /\ x[3] = epoch /\ stream[m] = "STORED"
         /\ stream' = [stream EXCEPT ![m] = fate]

-----------------------------------------------------------------------------
(* A consume loop takes copies of the open connection. *)
Consuming == epoch \notin ended

(* JetStream hands out a message that is stored, whenever ack_wait passed, *)
(* to a loop that pulls.                                                   *)
Deliver(m) ==
  /\ online /\ Consuming /\ stream[m] = "STORED" /\ delivered[m] < MaxDeliver
  /\ delivered' = [delivered EXCEPT ![m] = @ + 1]
  /\ copies' = copies \union {<<m, delivered[m] + 1, epoch>>}
  /\ UNCHANGED <<jobs, admin, stream, waiting, link, answer, up, crashes>>

(* One consume loop per connection: the next copy waits for the handler.   *)
(* The loop of a closed connection may still have copies in its buffer.    *)
HisTurn(x) ==
  /\ x \in copies /\ x[3] \notin ended
  /\ \A y \in waiting : y[3] # x[3]

(* The handler gets as far as the checks of the envelope. *)
Handled(x) == HisTurn(x) /\ x[1] \notin NullBodies /\ copies' = copies \ {x}

AcceptCopy(x) ==
  /\ Handled(x)
  /\ Accept(RequestOf[x[1]])
  /\ Tell(x, "ACKED")
  /\ UNCHANGED <<admin, delivered, waiting, link, answer, up, crashes>>

RefuseCopy(x) ==
  /\ Handled(x)
  /\ Refused(RequestOf[x[1]])
  /\ waiting' = waiting \union {x}
  /\ UNCHANGED <<jobs, admin, broker, link, answer, up, crashes>>

(* The message is NAKed, or on its last delivery treated as poison. *)
FailCopy(x) ==
  /\ Handled(x)
  /\ Break(RequestOf[x[1]])
  /\ \/ x[2] < MaxDeliver /\ UNCHANGED waiting
     \/ x[2] >= MaxDeliver /\ waiting' = waiting \union {x}
  /\ UNCHANGED <<admin, broker, link, answer, up, crashes>>

(* null parses, and the first look at the envelope throws.  The error ends *)
(* the loop; it is logged, and the connection stays open.                  *)
HandlerThrows(x) ==
  /\ HisTurn(x) /\ x[1] \in NullBodies /\ copies' = copies \ {x}
  /\ ended' = ended \union {x[3]}
  /\ UNCHANGED <<jobs, admin, broker, waiting, online, epoch, answer, up, crashes>>

(* The iterator over the messages fails. *)
LoopFails ==
  /\ online /\ Consuming
  /\ ended' = ended \union {epoch}
  /\ UNCHANGED <<jobs, admin, broker, copies, waiting, online, epoch, answer, up, crashes>>

(* deadLetter: publish, then term; on a closed connection the publish      *)
(* throws and the NAK after it gets nowhere.                               *)
DeadLetter(x) ==
  /\ x \in waiting /\ waiting' = waiting \ {x}
  /\ Tell(x, "DEADLETTERED")
  /\ UNCHANGED <<jobs, admin, delivered, copies, link, answer, up, crashes>>

-----------------------------------------------------------------------------
(* POST /print-jobs; the response may not reach the caller *)
CallAccepted(h) ==
  /\ up /\ answer[h] = "NONE"
  /\ Accept(CallFor[h])
  /\ \E a \in {"OK", "LOST"} : answer' = [answer EXCEPT ![h] = a]
  /\ UNCHANGED <<admin, broker, copies, waiting, link, up, crashes>>

CallRefused(h) ==
  /\ up /\ answer[h] = "NONE"
  /\ Refused(CallFor[h])
  /\ answer' = [answer EXCEPT ![h] = "REFUSED"]
  /\ UNCHANGED <<jobs, admin, broker, copies, waiting, link, up, crashes>>

CallFails(h) ==
  /\ up /\ answer[h] = "NONE"
  /\ Break(CallFor[h])
  /\ answer' = [answer EXCEPT ![h] = "ERROR"]
  /\ UNCHANGED <<admin, broker, copies, waiting, link, up, crashes>>

-----------------------------------------------------------------------------
(* Mutation: the connection is opened once. *)
ConnectOnce ==
  /\ up /\ ~online /\ epoch = 0 /\ epoch < MaxConnections
  /\ online' = TRUE /\ epoch' = epoch + 1
  /\ UNCHANGED <<jobs, admin, broker, copies, waiting, ended, answer, up, crashes>>

(* NatsConnectionManager.run: connect, set up the consumer, wait for the   *)
(* end of the connection, and so on.                                       *)
Connect ==
  /\ up /\ ~online /\ epoch < MaxConnections
  /\ online' = TRUE /\ epoch' = epoch + 1
  /\ UNCHANGED <<jobs, admin, broker, copies, waiting, ended, answer, up, crashes>>

Disconnect ==
  /\ online /\ epoch < MaxConnections
  /\ online' = FALSE
  /\ UNCHANGED <<jobs, admin, broker, copies, waiting, epoch, ended, answer, up, crashes>>

(* The buffer of a loop that ended, and messages.close() of the connection *)
(* that went away.                                                         *)
Drop(x) ==
  /\ x \in copies /\ (x[3] \in ended \/ ~(online /\ x[3] = epoch))
  /\ copies' = copies \ {x}
  /\ UNCHANGED <<jobs, admin, broker, waiting, link, answer, up, crashes>>

-----------------------------------------------------------------------------
(* An operator publishes, disables or repairs what the request refers to. *)
Reconfigure(r) ==
  /\ up
  /\ \E c \in Configs \ {config[r]} : config' = [config EXCEPT ![r] = c]
  /\ UNCHANGED <<jobs, closed, broker, copies, waiting, link, answer, up, crashes>>

(* beginMaintenance; the creators inside have left when it is scheduled *)
BeginMaintenance ==
  /\ up /\ ~closed
  /\ closed' = TRUE
  /\ UNCHANGED <<jobs, config, broker, copies, waiting, link, answer, up, crashes>>

EndMaintenance ==
  /\ up /\ closed
  /\ closed' = FALSE
  /\ UNCHANGED <<jobs, config, broker, copies, waiting, link, answer, up, crashes>>

-----------------------------------------------------------------------------
Arriving(r) == \/ \E x \in copies : RequestOf[x[1]] = r
               \/ \E h \in Calls : CallFor[h] = r /\ answer[h] = "NONE"

(* The process dies, possibly between the INSERT and the update to QUEUED. *)
Crash ==
  /\ up /\ crashes < MaxCrashes /\ epoch < MaxConnections
  /\ up' = FALSE /\ crashes' = crashes + 1
  /\ copies' = {} /\ waiting' = {} /\ online' = FALSE
  /\ \/ UNCHANGED jobs
     \/ \E r \in Requests : Arriving(r) /\ Insert(r, "ACCEPTED") /\ UNCHANGED broken
  /\ UNCHANGED <<admin, broker, epoch, ended, answer>>

(* Mutation: boot leaves the rows alone. *)
BootWithoutRecovery ==
  /\ ~up
  /\ up' = TRUE
  /\ closed' \in {closed, FALSE}
  /\ UNCHANGED <<jobs, config, broker, copies, waiting, link, answer, crashes>>

(* buildApp: rows are recovered before the consumer starts; the gate is    *)
(* shut again if an installation was under way.                            *)
Boot ==
  /\ ~up
  /\ up' = TRUE
  /\ \/ /\ LocalWorker
        /\ row' = [r \in Requests |-> IF row[r] = "ACCEPTED" THEN "QUEUED" ELSE row[r]]
        /\ broken' = {}
     \/ ~LocalWorker /\ UNCHANGED <<row, broken>>
  /\ closed' \in {closed, FALSE}
  /\ UNCHANGED <<created, config, broker, copies, waiting, link, answer, crashes>>

-----------------------------------------------------------------------------
Handle(x) == AcceptCopy(x) \/ RefuseCopy(x) \/ FailCopy(x) \/ HandlerThrows(x)

CopyStep(m)   == \E x \in copies : x[1] = m /\ (Handle(x) \/ Drop(x))
AnswerStep(m) == \E x \in waiting : x[1] = m /\ DeadLetter(x)

Next ==
  \/ \E m \in Messages : Deliver(m) \/ CopyStep(m) \/ AnswerStep(m)
  \/ \E h \in Calls : CallAccepted(h) \/ CallRefused(h) \/ CallFails(h)
  \/ Connect \/ Disconnect \/ LoopFails
  \/ \E r \in Requests : Reconfigure(r)
  \/ BeginMaintenance \/ EndMaintenance
  \/ Crash \/ Boot

Spec == Init /\ [][Next]_vars

(***************************************************************************)
(* JetStream delivers while a loop pulls, the manager reconnects for ever  *)
(* once a connection is gone, consume loops take the copies in order, the  *)
(* report of a rejection times out, boot goes on.  Nothing brings back a   *)
(* loop that ended but the end of its connection.                          *)
(***************************************************************************)
Fairness ==
  /\ \A m \in Messages : WF_vars(Deliver(m)) /\ WF_vars(CopyStep(m)) /\ WF_vars(AnswerStep(m))
  /\ WF_vars(Connect)
  /\ WF_vars(Boot)

FairSpec == Spec /\ Fairness

-----------------------------------------------------------------------------
TypeOK ==
  /\ row \in [Requests -> Rows]
  /\ created \in [Requests -> Nat]
  /\ broken \in SUBSET Requests
  /\ config \in [Requests -> Configs]
  /\ closed \in BOOLEAN
  /\ stream \in [Messages -> Fates]
  /\ delivered \in [Messages -> 0 .. MaxDeliver]
  /\ copies \in SUBSET Copies
  /\ waiting \in SUBSET Copies
  /\ online \in BOOLEAN
  /\ epoch \in 0 .. MaxConnections
  /\ ended \in SUBSET (1 .. MaxConnections)
  /\ answer \in [Calls -> Answers]
  /\ up \in BOOLEAN
  /\ crashes \in 0 .. MaxCrashes

(***************************************************************************)
(* accept-external-job: a request is printed by one job however often and  *)
(* over whichever transport it arrives; no index of the table enforces it. *)
(***************************************************************************)
OneJobPerRequest == \A r \in Requests : created[r] <= 1

(***************************************************************************)
(* print-intake acknowledges, and the route answers OK, for a job that     *)
(* will be printed: its row is QUEUED, also when the answer was a          *)
(* duplicate's.  The exception is a row whose creation a write broke.      *)
(***************************************************************************)
AcceptedIsQueued ==
  /\ \A m \in Messages : stream[m] = "ACKED" =>
       row[RequestOf[m]] = "QUEUED" \/ RequestOf[m] \in broken
  /\ \A h \in Calls : answer[h] = "OK" =>
       row[CallFor[h]] = "QUEUED" \/ CallFor[h] \in broken

Underway(m) == \E x \in copies \union waiting : x[1] = m

(***************************************************************************)
(* Whatever breaks, a message is settled, or was delivered MaxDeliver      *)
(* times and every copy of it has been dealt with; unless the gateway is   *)
(* left for ever with an open connection and no loop to consume from it.   *)
(***************************************************************************)
EveryMessageIsTried ==
  []<>Consuming =>
    \A m \in Messages :
      (stream[m] = "STORED") ~>
        (stream[m] # "STORED" \/ (delivered[m] = MaxDeliver /\ ~Underway(m)))

(***************************************************************************)
(* print-intake.ts, dynamic-print-invocation.md: only a message that will  *)
(* never succeed, or has used up its deliveries, is given up.              *)
(***************************************************************************)
OnlyPoisonIsGivenUp ==
  [][\A x \in waiting' \ waiting :
       config[RequestOf[x[1]]] # "fine" \/ x[2] >= MaxDeliver]_vars
=============================================================================
