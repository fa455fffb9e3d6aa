-------------------------- MODULE CallbackDelivery --------------------------
(***************************************************************************)
(* Result callbacks: what ResultCallbackDispatcher does with the terminal  *)
(* events of print jobs.  Every job with callbacks has one durable record  *)
(* per transport and destination.  The subscriber creates it and makes the *)
(* first attempt; sweeps started by a timer make the others once their     *)
(* backoff has elapsed, and may overlap.  A crash loses the handlers and   *)
(* the sweeps, never a record.                                             *)
(***************************************************************************)
EXTENDS Naturals, FiniteSets

CONSTANTS
  Jobs,            \* jobs accepted with callbacks enabled
  Records,         \* the delivery keys of those jobs
  JobOf,           \* JobOf[k]: the job whose result record k delivers
  HttpRecords,     \* records of the HTTP transport
  CoreRecords,     \* NATS records published without JetStream
  Sweeps,          \* bound: how many sweeps run at the same time
  NoRecord,        \* what a worker without an attempt works on
  MaxAttempts,     \* RetryPolicy.maxAttempts
  MaxCrashes       \* bound: how often the API process dies

ASSUME TransportsAreDistinct ==
  /\ HttpRecords \subseteq Records
  /\ CoreRecords \subseteq Records \ HttpRecords
ASSUME SweepsAreNotRecords == Sweeps \intersect Records = {}
ASSUME NoRecordIsNotARecord == NoRecord \notin Records
ASSUME EveryRecordHasAJob == JobOf \in [Records -> Jobs]
ASSUME AttemptsAndCrashesAreBounded == MaxAttempts \in Nat \ {0} /\ MaxCrashes \in Nat

VARIABLES
  latest,      \* latest[j]: the verdict of job j announced last
  tasks,       \* <<k, s>>: a subscriber call about to create record k for s
  status,      \* status[k]: delivery_status, "NONE" before the INSERT
  attempts,    \* attempts[k]: attempt_count
  due,         \* due[k]: next_attempt_at is set and has passed
  reports,     \* reports[k]: print_status, the verdict in the payload of k
  guarantee,   \* guarantee[k]: what the last answer proved
  todo,        \* todo[w]: records worker w has read and not yet attempted
  on,          \* on[w]: the record worker w is sending
  count,       \* count[w]: attemptCount in the row w claimed
  got,         \* got[w]: the receiver took the request of w
  heard,       \* heard[k]: the receiver took some request of k
  sends,       \* sends[k]: how often a request of k was sent
  up,          \* a process is running
  crashes      \* number of crashes so far

record   == <<status, attempts, due, reports, guarantee>>
worker   == <<todo, on, count, got>>
receiver == <<heard, sends>>
process  == <<up, crashes>>
vars     == <<latest, tasks, record, worker, receiver, process>>

-----------------------------------------------------------------------------
(* The subscriber's own attempt at record k is made by a worker called k. *)
Workers == Records \union Sweeps

(* Only FAILED may be followed by another verdict, the others are alike. *)
Verdicts == {"FAILED", "SUCCESS"}

Claimable  == {"PENDING", "RETRY_SCHEDULED"}
Settled    == {"DELIVERED", "FAILED"}
Statuses   == {"NONE", "DELIVERING"} \union Claimable \union Settled
Guarantees == {"NONE", "BEST_EFFORT", "ACKNOWLEDGED"}

Init ==
  /\ latest = [j \in Jobs |-> "NONE"]
  /\ tasks = {}
  /\ status = [k \in Records |-> "NONE"]
  /\ attempts = [k \in Records |-> 0]
  /\ due = [k \in Records |-> FALSE]
  /\ reports = [k \in Records |-> "NONE"]
  /\ guarantee = [k \in Records |-> "NONE"]
  /\ todo = [w \in Workers |-> {}]
  /\ on = [w \in Workers |-> NoRecord]
  /\ count = [w \in Workers |-> 0]
  /\ got = [w \in Workers |-> FALSE]
  /\ heard = [k \in Records |-> FALSE]
  /\ sends = [k \in Records |-> 0]
  /\ up = TRUE /\ crashes = 0

-----------------------------------------------------------------------------
(***************************************************************************)
(* PrintJobTerminal, as PrintJob publishes it: a job that FAILED may be    *)
(* executed again and end once more.                                       *)
(***************************************************************************)
Announce(j, s) ==
  /\ up /\ latest[j] \in {"NONE", "FAILED"}
  /\ \A task \in tasks : JobOf[task[1]] # j
  /\ latest' = [latest EXCEPT ![j] = s]
  /\ tasks' = tasks \union {<<k, s>> : k \in {k \in Records : JobOf[k] = j}}
  /\ UNCHANGED <<record, worker, receiver, process>>

(* Mutation: an existing record is armed again with the new event. *)
CreateOrRearm(k, s) ==
  /\ <<k, s>> \in tasks
  /\ tasks' = tasks \ {<<k, s>>}
  /\ status' = [status EXCEPT ![k] = "PENDING"]
  /\ reports' = [reports EXCEPT ![k] = s]
  /\ todo' = [todo EXCEPT ![k] = {k}]
  /\ UNCHANGED <<latest, attempts, due, guarantee, on, count, got, receiver, process>>

(* createIfAbsent: the record that is there already is left alone *)
CreateIfAbsent(k, s) ==
  /\ <<k, s>> \in tasks
  /\ tasks' = tasks \ {<<k, s>>}
  /\ \/ /\ status[k] = "NONE"
        /\ status' = [status EXCEPT ![k] = "PENDING"]
        /\ reports' = [reports EXCEPT ![k] = s]
        /\ todo' = [todo EXCEPT ![k] = {k}]
     \/ /\ status[k] # "NONE"
        /\ UNCHANGED <<status, reports, todo>>
  /\ UNCHANGED <<latest, attempts, due, guarantee, on, count, got, receiver, process>>

-----------------------------------------------------------------------------
(* The clock passes next_attempt_at. *)
BackoffElapses(k) ==
  /\ status[k] = "RETRY_SCHEDULED" /\ ~due[k]
  /\ due' = [due EXCEPT ![k] = TRUE]
  /\ UNCHANGED <<latest, tasks, status, attempts, reports, guarantee,
                 worker, receiver, process>>

(* sweep: the list of due records is read once, before the first attempt.  *)
(* The timer fires while the sweeps before are waiting for an answer; one  *)
(* that has just got it goes on before the timer is looked at.             *)
DueRecords == {k \in Records : status[k] = "RETRY_SCHEDULED" /\ due[k]}

StartSweep(w) ==
  /\ up /\ on[w] = NoRecord /\ todo[w] = {}
  /\ DueRecords # {}
  /\ \A v \in Sweeps : todo[v] # {} => on[v] # NoRecord
  /\ todo' = [todo EXCEPT ![w] = DueRecords]
  /\ UNCHANGED <<latest, tasks, record, on, count, got, receiver, process>>

(* Mutation: the status is not part of the UPDATE's condition. *)
AttemptUnconditionally(w, k) ==
  /\ on[w] = NoRecord /\ k \in todo[w]
  /\ todo' = [todo EXCEPT ![w] = @ \ {k}]
  /\ status' = [status EXCEPT ![k] = "DELIVERING"]
  /\ due' = [due EXCEPT ![k] = FALSE]
  /\ on' = [on EXCEPT ![w] = k]
  /\ count' = [count EXCEPT ![w] = attempts[k]]
  /\ sends' = [sends EXCEPT ![k] = @ + 1]
  /\ UNCHANGED <<latest, tasks, attempts, reports, guarantee, got, heard, process>>

(* attempt: the conditional claim, then the request leaves *)
Attempt(w, k) ==
  /\ on[w] = NoRecord /\ k \in todo[w]
  /\ todo' = [todo EXCEPT ![w] = @ \ {k}]
  /\ \/ /\ status[k] \in Claimable
        /\ status' = [status EXCEPT ![k] = "DELIVERING"]
        /\ due' = [due EXCEPT ![k] = FALSE]
        /\ on' = [on EXCEPT ![w] = k]
        /\ count' = [count EXCEPT ![w] = attempts[k]]
        /\ sends' = [sends EXCEPT ![k] = @ + 1]
     \/ /\ status[k] \notin Claimable
        /\ UNCHANGED <<status, due, on, count, sends>>
  /\ UNCHANGED <<latest, tasks, attempts, reports, guarantee, got, heard, process>>

(* The receiver, or the broker, takes the request. *)
Receive(w) ==
  /\ on[w] # NoRecord /\ ~got[w]
  /\ got' = [got EXCEPT ![w] = TRUE]
  /\ heard' = [heard EXCEPT ![on[w]] = TRUE]
  /\ UNCHANGED <<latest, tasks, record, todo, on, count, sends, process>>

(* The outcome of worker w is written, whatever the row says by now. *)
Settle(w, s, g) ==
  LET k == on[w]
  IN  /\ status' = [status EXCEPT ![k] = s]
      /\ attempts' = [attempts EXCEPT ![k] = count[w] + 1]
      /\ due' = [due EXCEPT ![k] = FALSE]
      /\ guarantee' = [guarantee EXCEPT ![k] = g]
      /\ on' = [on EXCEPT ![w] = NoRecord]
      /\ count' = [count EXCEPT ![w] = 0]
      /\ got' = [got EXCEPT ![w] = FALSE]
      /\ UNCHANGED <<latest, tasks, reports, todo, receiver, process>>

(* Mutation: a publish that did not throw counts as acknowledged. *)
AnswerIsAcknowledged(w) ==
  /\ on[w] # NoRecord
  /\ got[w] \/ on[w] \in CoreRecords
  /\ Settle(w, "DELIVERED", "ACKNOWLEDGED")

(* A 2xx or a PubAck; a Core publish returns without either. *)
Succeed(w) ==
  /\ on[w] # NoRecord
  /\ \/ on[w] \notin CoreRecords /\ got[w] /\ Settle(w, "DELIVERED", "ACKNOWLEDGED")
     \/ on[w] \in CoreRecords /\ Settle(w, "DELIVERED", "BEST_EFFORT")

(* classifyHttpStatus and the address guard: no further attempt helps *)
FailPermanently(w) ==
  /\ on[w] \in HttpRecords /\ ~got[w]
  /\ Settle(w, "FAILED", "NONE")

(* Mutation: one attempt more than the budget. *)
RetryOnceMore(w) ==
  /\ on[w] # NoRecord
  /\ Settle(w, IF count[w] + 1 > MaxAttempts THEN "FAILED" ELSE "RETRY_SCHEDULED", "NONE")

(* A retryable answer, or none at all although the request may have been   *)
(* taken; nextBackoffMs says when, or that the budget is spent.            *)
FailForNow(w) ==
  /\ on[w] # NoRecord
  /\ Settle(w, IF count[w] + 1 >= MaxAttempts THEN "FAILED" ELSE "RETRY_SCHEDULED", "NONE")

-----------------------------------------------------------------------------
(* The process dies; a Core publish in its buffers is lost or not. *)
Crash ==
  /\ up /\ crashes < MaxCrashes
  /\ up' = FALSE /\ crashes' = crashes + 1
  /\ tasks' = {}
  /\ todo' = [w \in Workers |-> {}]
  /\ on' = [w \in Workers |-> NoRecord]
  /\ count' = [w \in Workers |-> 0]
  /\ got' = [w \in Workers |-> FALSE]
  /\ UNCHANGED <<latest, record, receiver>>

(* Mutation: PENDING records are not recovered. *)
RecoverDeliveringOnly ==
  LET stuck == {k \in Records : status[k] = "DELIVERING"}
  IN  /\ ~up
      /\ up' = TRUE
      /\ status' = [k \in Records |-> IF k \in stuck THEN "RETRY_SCHEDULED" ELSE status[k]]
      /\ due' = [k \in Records |-> k \in stuck \/ due[k]]
      /\ UNCHANGED <<latest, tasks, attempts, reports, guarantee, worker, receiver, crashes>>

(* recoverInFlight, at boot before the retry worker is started *)
RecoverInFlight ==
  LET stuck == {k \in Records : status[k] \in {"DELIVERING", "PENDING"}}
  IN  /\ ~up
      /\ up' = TRUE
      /\ status' = [k \in Records |-> IF k \in stuck THEN "RETRY_SCHEDULED" ELSE status[k]]
      /\ due' = [k \in Records |-> k \in stuck \/ due[k]]
      /\ UNCHANGED <<latest, tasks, attempts, reports, guarantee, worker, receiver, crashes>>

-----------------------------------------------------------------------------
AttemptStep(w) == \E k \in Records : Attempt(w, k)
AnswerStep(w)  == Succeed(w) \/ FailPermanently(w) \/ FailForNow(w)

Next ==
  \/ \E j \in Jobs, s \in Verdicts : Announce(j, s)
  \/ \E k \in Records : \/ BackoffElapses(k)
                        \/ \E s \in Verdicts : CreateIfAbsent(k, s)
  \/ \E w \in Sweeps : StartSweep(w)
  \/ \E w \in Workers : AttemptStep(w) \/ Receive(w) \/ AnswerStep(w)
  \/ Crash
  \/ RecoverInFlight

Spec == Init /\ [][Next]_vars

(***************************************************************************)
(* Every request ends (10 s timeout), timers fire, the event loop goes on. *)
(* Nothing is assumed of the receiver.                                     *)
(***************************************************************************)
Fairness ==
  /\ \A k \in Records : /\ WF_vars(\E s \in Verdicts : CreateIfAbsent(k, s))
                        /\ WF_vars(BackoffElapses(k))
  /\ \A w \in Sweeps : WF_vars(StartSweep(w))
  /\ \A w \in Workers : WF_vars(AttemptStep(w)) /\ WF_vars(AnswerStep(w))
  /\ WF_vars(RecoverInFlight)

FairSpec == Spec /\ Fairness

-----------------------------------------------------------------------------
TypeOK ==
  /\ latest \in [Jobs -> {"NONE"} \union Verdicts]
  /\ tasks \in SUBSET (Records \X Verdicts)
  /\ status \in [Records -> Statuses]
  /\ attempts \in [Records -> 0 .. MaxAttempts]
  /\ due \in [Records -> BOOLEAN]
  /\ reports \in [Records -> {"NONE"} \union Verdicts]
  /\ guarantee \in [Records -> Guarantees]
  /\ todo \in [Workers -> SUBSET Records]
  /\ on \in [Workers -> Records \union {NoRecord}]
  /\ count \in [Workers -> 0 .. MaxAttempts]
  /\ got \in [Workers -> BOOLEAN]
  /\ heard \in [Records -> BOOLEAN]
  /\ sends \in [Records -> Nat]
  /\ up \in BOOLEAN
  /\ crashes \in 0 .. MaxCrashes

(***************************************************************************)
(* The claim keeps the subscriber and overlapping sweeps from sending one  *)
(* record at the same time, so the unconditional write of an outcome never *)
(* overwrites somebody else's.                                             *)
(***************************************************************************)
OneSender ==
  \A v, w \in Workers : on[v] # NoRecord /\ on[v] = on[w] => v = w

(***************************************************************************)
(* A delivery with a verdict is never touched again: not by a sweep that   *)
(* read its list before, a second event, or the recovery after a crash.    *)
(***************************************************************************)
SettledStaysSettled ==
  [][\A k \in Records : status[k] \in Settled => status'[k] = status[k]]_vars

(***************************************************************************)
(* callback-delivery.ts, the delivery state machine: whoever writes, and   *)
(* wherever a process dies, a record moves along its edges only.  Every    *)
(* attempt with an outcome is counted once, and neither a second event nor *)
(* a recovery changes what the record tells or gives an attempt back.      *)
(***************************************************************************)
Delivery == INSTANCE DeliveryRecord
FollowsTheRecord == Delivery!Spec

(***************************************************************************)
(* ACKNOWLEDGED is only reported of what the receiver or the broker took.  *)
(***************************************************************************)
AcknowledgedWasReceived ==
  \A k \in Records : guarantee[k] = "ACKNOWLEDGED" => heard[k]

(***************************************************************************)
(* The budget is kept per record, over all workers; a crash costs at most  *)
(* the one request it interrupts.                                          *)
(***************************************************************************)
AttemptsAreBounded ==
  \A k \in Records : sends[k] <= MaxAttempts + crashes

(***************************************************************************)
(* Every record comes to DELIVERED or FAILED, whatever the receiver does   *)
(* and wherever the process dies.                                          *)
(***************************************************************************)
EveryRecordSettles ==
  \A k \in Records : (status[k] # "NONE") ~> (status[k] \in Settled)
=============================================================================
