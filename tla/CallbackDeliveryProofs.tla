----------------------- MODULE CallbackDeliveryProofs -----------------------
(***************************************************************************)
(* Proofs about CallbackDelivery for every number of records, sweeps,      *)
(* attempts and crashes.                                                   *)
(*                                                                         *)
(* The argument is that of a lock.  A worker that sends a record holds it: *)
(* the row says DELIVERING, nobody else holds it, and the count the worker *)
(* read at its claim is still the row's (Held).  So the outcome may be     *)
(* written without a condition, a record that may be sent again has budget *)
(* left (Budgeted), and every request sent is paid for by an attempt, by a *)
(* crash, or is the one in flight (Paid).                                  *)
(***************************************************************************)
EXTENDS CallbackDelivery, TLAPS

Free(k) == \A w \in Workers : on[w] # k

Held ==
  \A w \in Workers : on[w] # NoRecord =>
    /\ status[on[w]] = "DELIVERING"
    /\ count[w] = attempts[on[w]]

Budgeted ==
  \A k \in Records : status[k] \notin Settled => attempts[k] < MaxAttempts

Paid ==
  \A k \in Records :
    /\ sends[k] <= attempts[k] + crashes + 1
    /\ Free(k) => sends[k] <= attempts[k] + crashes

Witnessed ==
  /\ \A w \in Workers : got[w] => on[w] # NoRecord /\ heard[on[w]]
  /\ AcknowledgedWasReceived

Idle ==
  ~up => tasks = {} /\ \A w \in Workers : todo[w] = {} /\ on[w] = NoRecord

IInv == TypeOK /\ OneSender /\ Held /\ Budgeted /\ Paid /\ Witnessed /\ Idle

-----------------------------------------------------------------------------
(* Nothing has been sent when the gateway is installed. *)
LEMMA InitIsGood == Init => IInv
<1> SUFFICES ASSUME Init PROVE IInv
  OBVIOUS
<1> USE AttemptsAndCrashesAreBounded, NoRecordIsNotARecord DEF Init
<1>1. TypeOK
  BY DEF TypeOK, Statuses, Claimable, Settled, Guarantees, Verdicts
<1>2. OneSender /\ Held
  BY DEF OneSender, Held
<1>3. Budgeted /\ Paid
  BY DEF Budgeted, Paid, Settled
<1>4. Witnessed
  BY DEF Witnessed, AcknowledgedWasReceived
<1>5. Idle
  BY DEF Idle
<1> QED BY <1>1, <1>2, <1>3, <1>4, <1>5 DEF IInv

(* The write of an outcome by the worker that holds the record. *)
LEMMA SettleIsGood ==
  ASSUME IInv, NEW w \in Workers, on[w] # NoRecord,
         NEW s \in Settled \union {"RETRY_SCHEDULED"}, NEW g \in Guarantees,
         s \in Settled \/ count[w] + 1 < MaxAttempts,
         g = "ACKNOWLEDGED" => got[w],
         Settle(w, s, g)
  PROVE  IInv'
<1> DEFINE k == on[w]
<1> USE AttemptsAndCrashesAreBounded, NoRecordIsNotARecord
<1>1. /\ k \in Records
      /\ status[k] = "DELIVERING" /\ count[w] = attempts[k]
      /\ attempts[k] \in Nat /\ attempts[k] < MaxAttempts
  BY DEF IInv, TypeOK, Held, Budgeted, Settled
<1>2. /\ status' = [status EXCEPT ![k] = s]
      /\ attempts' = [attempts EXCEPT ![k] = attempts[k] + 1]
      /\ due' = [due EXCEPT ![k] = FALSE]
      /\ guarantee' = [guarantee EXCEPT ![k] = g]
      /\ on' = [on EXCEPT ![w] = NoRecord]
      /\ count' = [count EXCEPT ![w] = 0]
      /\ got' = [got EXCEPT ![w] = FALSE]
      /\ UNCHANGED <<latest, tasks, reports, todo, heard, sends, up, crashes>>
  BY <1>1 DEF Settle, receiver, process
<1> HIDE DEF k
<1>3. TypeOK'
  <2>1. s \in Statuses
    BY DEF Statuses, Claimable, Settled
  <2>2. attempts[k] + 1 \in 0 .. MaxAttempts
    BY <1>1
  <2> QED BY <1>1, <1>2, <2>1, <2>2 DEF IInv, TypeOK
<1>4. \A v \in Workers : v # w => on[v] # k
  BY <1>1 DEF IInv, OneSender, k
<1>5. OneSender'
  BY <1>2 DEF IInv, TypeOK, OneSender
<1>6. Held'
  <2> SUFFICES ASSUME NEW v \in Workers, on'[v] # NoRecord
               PROVE  status'[on'[v]] = "DELIVERING" /\ count'[v] = attempts'[on'[v]]
    BY DEF Held
  <2>1. v # w /\ on'[v] = on[v] /\ on[v] # k /\ count'[v] = count[v]
    BY <1>2, <1>4 DEF IInv, TypeOK
  <2> QED BY <1>1, <1>2, <2>1 DEF IInv, TypeOK, Held
<1>7. Budgeted'
  BY <1>1, <1>2 DEF IInv, TypeOK, Budgeted
<1>8. Paid'
  <2> SUFFICES ASSUME NEW x \in Records
               PROVE  /\ sends'[x] <= attempts'[x] + crashes' + 1
                      /\ Free(x)' => sends'[x] <= attempts'[x] + crashes'
    BY DEF Paid
  <2>1. CASE x = k
    BY <1>1, <1>2, <2>1 DEF IInv, TypeOK, Paid
  <2>2. CASE x # k
    <3>1. Free(x)' => Free(x)
      BY <1>2, <2>2 DEF IInv, TypeOK, Free, k
    <3> QED BY <1>2, <2>2, <3>1 DEF IInv, TypeOK, Paid
  <2> QED BY <2>1, <2>2
<1>9. Witnessed'
  <2>1. \A v \in Workers : got'[v] => on'[v] # NoRecord /\ heard'[on'[v]]
    BY <1>2 DEF IInv, TypeOK, Witnessed
  <2>2. g = "ACKNOWLEDGED" => heard[k]
    BY DEF IInv, Witnessed, k
  <2>3. AcknowledgedWasReceived'
    BY <1>1, <1>2, <2>2 DEF IInv, TypeOK, Witnessed, AcknowledgedWasReceived
  <2> QED BY <2>1, <2>3 DEF Witnessed
<1>10. Idle'
  BY <1>2 DEF IInv, Idle
<1> QED BY <1>3, <1>5, <1>6, <1>7, <1>8, <1>9, <1>10 DEF IInv

(* The claim: nobody held the record, and its budget is not spent. *)
LEMMA AttemptIsGood ==
  ASSUME IInv, NEW w \in Workers, NEW k \in Records, Attempt(w, k)
  PROVE  IInv'
<1> USE AttemptsAndCrashesAreBounded, NoRecordIsNotARecord
<1>1. CASE status[k] \notin Claimable
  <2>1. /\ todo' = [todo EXCEPT ![w] = @ \ {k}]
        /\ UNCHANGED <<latest, tasks, status, attempts, due, reports, guarantee,
                       on, count, got, heard, sends, up, crashes>>
    BY <1>1 DEF Attempt, process
  <2>2. TypeOK'
    BY <2>1 DEF IInv, TypeOK
  <2>3. OneSender' /\ Held' /\ Budgeted'
    BY <2>1 DEF IInv, OneSender, Held, Budgeted
  <2>4. Paid' /\ Witnessed'
    BY <2>1 DEF IInv, Paid, Free, Witnessed, AcknowledgedWasReceived
  <2>5. up
    BY DEF Attempt, IInv, Idle
  <2> QED BY <2>1, <2>2, <2>3, <2>4, <2>5 DEF IInv, Idle
<1>2. CASE status[k] \in Claimable
  <2>1. /\ todo' = [todo EXCEPT ![w] = @ \ {k}]
        /\ status' = [status EXCEPT ![k] = "DELIVERING"]
        /\ due' = [due EXCEPT ![k] = FALSE]
        /\ on' = [on EXCEPT ![w] = k]
        /\ count' = [count EXCEPT ![w] = attempts[k]]
        /\ sends' = [sends EXCEPT ![k] = @ + 1]
        /\ on[w] = NoRecord
        /\ UNCHANGED <<latest, tasks, attempts, reports, guarantee, got, heard, up, crashes>>
    BY <1>2 DEF Attempt, process
  <2>2. Free(k)
    BY <1>2 DEF IInv, Held, Free, Claimable
  <2>3. TypeOK'
    <3>1. attempts[k] \in 0 .. MaxAttempts /\ sends[k] + 1 \in Nat
      BY DEF IInv, TypeOK
    <3> QED BY <2>1, <3>1 DEF IInv, TypeOK, Statuses
  <2>4. OneSender'
    BY <2>1, <2>2 DEF IInv, TypeOK, OneSender, Free
  <2>5. Held'
    <3> SUFFICES ASSUME NEW v \in Workers, on'[v] # NoRecord
                 PROVE  status'[on'[v]] = "DELIVERING" /\ count'[v] = attempts'[on'[v]]
      BY DEF Held
    <3>1. CASE v = w
      BY <2>1, <3>1 DEF IInv, TypeOK
    <3>2. CASE v # w
      BY <2>1, <2>2, <3>2 DEF IInv, TypeOK, Held, Free
    <3> QED BY <3>1, <3>2
  <2>6. Budgeted'
    BY <1>2, <2>1 DEF IInv, TypeOK, Budgeted, Claimable, Settled
  <2>7. Paid'
    <3> SUFFICES ASSUME NEW x \in Records
                 PROVE  /\ sends'[x] <= attempts'[x] + crashes' + 1
                        /\ Free(x)' => sends'[x] <= attempts'[x] + crashes'
      BY DEF Paid
    <3>1. CASE x = k
      <4>1. sends'[x] = sends[x] + 1 /\ sends[x] <= attempts[x] + crashes
        BY <2>1, <2>2, <3>1 DEF IInv, TypeOK, Paid
      <4>2. ~Free(x)'
        BY <2>1, <3>1 DEF IInv, TypeOK, Free
      <4> QED BY <2>1, <4>1, <4>2 DEF IInv, TypeOK
    <3>2. CASE x # k
      <4>1. Free(x)' => Free(x)
        BY <2>1, <3>2 DEF IInv, TypeOK, Free
      <4> QED BY <2>1, <3>2, <4>1 DEF IInv, TypeOK, Paid
    <3> QED BY <3>1, <3>2
  <2>8. Witnessed'
    BY <2>1 DEF IInv, TypeOK, Witnessed, AcknowledgedWasReceived
  <2>9. up
    BY DEF Attempt, IInv, Idle
  <2> QED BY <2>1, <2>3, <2>4, <2>5, <2>6, <2>7, <2>8, <2>9 DEF IInv, Idle
<1> QED BY <1>1, <1>2

(* The receiver takes a request. *)
LEMMA ReceiveIsGood ==
  ASSUME IInv, NEW w \in Workers, Receive(w)
  PROVE  IInv'
<1> USE NoRecordIsNotARecord
<1>1. /\ on[w] \in Records
      /\ got' = [got EXCEPT ![w] = TRUE]
      /\ heard' = [heard EXCEPT ![on[w]] = TRUE]
      /\ UNCHANGED <<latest, tasks, status, attempts, due, reports, guarantee,
                     todo, on, count, sends, up, crashes>>
  BY DEF IInv, TypeOK, Receive, record, process
<1>2. TypeOK'
  BY <1>1 DEF IInv, TypeOK
<1>3. OneSender' /\ Held' /\ Budgeted' /\ Paid'
  BY <1>1 DEF IInv, OneSender, Held, Budgeted, Paid, Free
<1>4. Witnessed'
  BY <1>1 DEF IInv, TypeOK, Witnessed, AcknowledgedWasReceived
<1>5. Idle'
  BY <1>1 DEF IInv, Idle
<1> QED BY <1>2, <1>3, <1>4, <1>5 DEF IInv

(* Everything that neither sends nor settles. *)
LEMMA OtherStepsAreGood ==
  ASSUME IInv,
         \/ \E j \in Jobs, s \in Verdicts : Announce(j, s)
         \/ \E k \in Records : BackoffElapses(k)
         \/ \E k \in Records, s \in Verdicts : CreateIfAbsent(k, s)
         \/ \E w \in Sweeps : StartSweep(w)
         \/ Crash
         \/ RecoverInFlight
         \/ UNCHANGED vars
  PROVE  IInv'
<1> USE AttemptsAndCrashesAreBounded, NoRecordIsNotARecord
<1>1. ASSUME NEW j \in Jobs, NEW s \in Verdicts, Announce(j, s)
      PROVE  IInv'
  <2>1. UNCHANGED <<status, attempts, due, reports, guarantee, todo, on, count, got,
                    heard, sends, up, crashes>>
    BY <1>1 DEF Announce, record, worker, receiver, process
  <2>2. TypeOK'
    <3>1. latest' \in [Jobs -> {"NONE"} \union Verdicts]
      BY <1>1 DEF IInv, TypeOK, Announce
    <3>2. tasks' \in SUBSET (Records \X Verdicts)
      BY <1>1 DEF IInv, TypeOK, Announce
    <3> QED BY <2>1, <3>1, <3>2 DEF IInv, TypeOK
  <2>3. OneSender' /\ Held' /\ Budgeted' /\ Paid' /\ Witnessed'
    BY <2>1 DEF IInv, OneSender, Held, Budgeted, Paid, Free, Witnessed, AcknowledgedWasReceived
  <2>4. Idle'
    BY <1>1, <2>1 DEF IInv, Idle, Announce
  <2> QED BY <2>2, <2>3, <2>4 DEF IInv
<1>2. ASSUME NEW k \in Records, BackoffElapses(k)
      PROVE  IInv'
  <2>1. /\ due' = [due EXCEPT ![k] = TRUE]
        /\ UNCHANGED <<latest, tasks, status, attempts, reports, guarantee, todo, on, count,
                       got, heard, sends, up, crashes>>
    BY <1>2 DEF BackoffElapses, worker, receiver, process
  <2>2. TypeOK'
    BY <2>1 DEF IInv, TypeOK
  <2>3. OneSender' /\ Held' /\ Budgeted' /\ Paid' /\ Witnessed'
    BY <2>1 DEF IInv, OneSender, Held, Budgeted, Paid, Free, Witnessed, AcknowledgedWasReceived
  <2>4. Idle'
    BY <2>1 DEF IInv, Idle
  <2> QED BY <2>2, <2>3, <2>4 DEF IInv
<1>3. ASSUME NEW k \in Records, NEW s \in Verdicts, CreateIfAbsent(k, s)
      PROVE  IInv'
  <2>1. /\ tasks' = tasks \ {<<k, s>>}
        /\ UNCHANGED <<latest, attempts, due, guarantee, on, count, got, heard, sends, up, crashes>>
    BY <1>3 DEF CreateIfAbsent, receiver, process
  <2>2. \/ UNCHANGED <<status, reports, todo>>
        \/ /\ status[k] = "NONE"
           /\ status' = [status EXCEPT ![k] = "PENDING"]
           /\ reports' = [reports EXCEPT ![k] = s]
           /\ todo' = [todo EXCEPT ![k] = {k}]
    BY <1>3 DEF CreateIfAbsent
  <2>3. TypeOK'
    <3>1. status' \in [Records -> Statuses] /\ reports' \in [Records -> {"NONE"} \union Verdicts]
      BY <2>2 DEF IInv, TypeOK, Statuses, Claimable
    <3>2. todo' \in [Workers -> SUBSET Records] /\ tasks' \in SUBSET (Records \X Verdicts)
      BY <2>1, <2>2 DEF IInv, TypeOK, Workers
    <3> QED BY <2>1, <3>1, <3>2 DEF IInv, TypeOK
  <2>4. OneSender' /\ Paid' /\ Witnessed'
    BY <2>1 DEF IInv, OneSender, Paid, Free, Witnessed, AcknowledgedWasReceived
  <2>5. Held'
    BY <2>1, <2>2 DEF IInv, TypeOK, Held
  <2>6. Budgeted'
    BY <2>1, <2>2 DEF IInv, TypeOK, Budgeted, Settled
  <2>7. up /\ up'
    BY <1>3, <2>1 DEF IInv, Idle, CreateIfAbsent
  <2> QED BY <2>3, <2>4, <2>5, <2>6, <2>7 DEF IInv, Idle
<1>4. ASSUME NEW w \in Sweeps, StartSweep(w)
      PROVE  IInv'
  <2>1. /\ todo' = [todo EXCEPT ![w] = DueRecords]
        /\ UNCHANGED <<latest, tasks, status, attempts, due, reports, guarantee, on, count,
                       got, heard, sends, up, crashes>>
    BY <1>4 DEF StartSweep, record, receiver, process
  <2>2. TypeOK'
    BY <2>1 DEF IInv, TypeOK, DueRecords
  <2>3. OneSender' /\ Held' /\ Budgeted' /\ Paid' /\ Witnessed'
    BY <2>1 DEF IInv, OneSender, Held, Budgeted, Paid, Free, Witnessed, AcknowledgedWasReceived
  <2>4. Idle'
    BY <1>4, <2>1 DEF IInv, Idle, StartSweep
  <2> QED BY <2>2, <2>3, <2>4 DEF IInv
<1>5. ASSUME Crash
      PROVE  IInv'
  <2>1. /\ crashes < MaxCrashes /\ crashes' = crashes + 1 /\ up' = FALSE
        /\ tasks' = {}
        /\ todo' = [w \in Workers |-> {}]
        /\ on' = [w \in Workers |-> NoRecord]
        /\ count' = [w \in Workers |-> 0]
        /\ got' = [w \in Workers |-> FALSE]
        /\ UNCHANGED <<latest, status, attempts, due, reports, guarantee, heard, sends>>
    BY <1>5 DEF Crash, record, receiver
  <2>2. TypeOK'
    <3>1. todo' \in [Workers -> SUBSET Records] /\ on' \in [Workers -> Records \union {NoRecord}]
      BY <2>1
    <3>2. count' \in [Workers -> 0 .. MaxAttempts] /\ got' \in [Workers -> BOOLEAN]
      BY <2>1
    <3>3. crashes' \in 0 .. MaxCrashes
      <4>1. crashes \in 0 .. MaxCrashes
        BY DEF IInv, TypeOK
      <4> QED BY <2>1, <4>1
    <3>4. tasks' \in SUBSET (Records \X Verdicts) /\ up' \in BOOLEAN
      BY <2>1
    <3> QED BY <2>1, <3>1, <3>2, <3>3, <3>4 DEF IInv, TypeOK
  <2>3. OneSender' /\ Held' /\ Idle'
    BY <2>1 DEF OneSender, Held, Idle
  <2>4. Budgeted'
    BY <2>1 DEF IInv, Budgeted
  <2>5. Witnessed'
    BY <2>1 DEF IInv, Witnessed, AcknowledgedWasReceived
  <2>6. Paid'
    BY <2>1 DEF IInv, TypeOK, Paid
  <2> QED BY <2>2, <2>3, <2>4, <2>5, <2>6 DEF IInv
<1>6. ASSUME RecoverInFlight
      PROVE  IInv'
  <2> DEFINE stuck == {k \in Records : status[k] \in {"DELIVERING", "PENDING"}}
  <2>1. /\ ~up /\ up' = TRUE
        /\ status' = [k \in Records |-> IF k \in stuck THEN "RETRY_SCHEDULED" ELSE status[k]]
        /\ due' = [k \in Records |-> k \in stuck \/ due[k]]
        /\ UNCHANGED <<latest, tasks, attempts, reports, guarantee, todo, on, count, got,
                       heard, sends, crashes>>
    BY <1>6 DEF RecoverInFlight, worker, receiver
  <2>2. \A w \in Workers : on'[w] = NoRecord
    BY <2>1 DEF IInv, Idle
  <2>3. TypeOK'
    <3>1. status' \in [Records -> Statuses] /\ due' \in [Records -> BOOLEAN]
      BY <2>1 DEF IInv, TypeOK, Statuses, Claimable
    <3> QED BY <2>1, <3>1 DEF IInv, TypeOK
  <2>4. OneSender' /\ Held' /\ Idle'
    BY <2>1, <2>2 DEF OneSender, Held, Idle
  <2>5. Budgeted'
    BY <2>1 DEF IInv, Budgeted, Settled
  <2>6. Paid' /\ Witnessed'
    BY <2>1 DEF IInv, Paid, Free, Witnessed, AcknowledgedWasReceived
  <2> QED BY <2>3, <2>4, <2>5, <2>6 DEF IInv
<1>7. ASSUME UNCHANGED vars
      PROVE  IInv'
  <2>1. UNCHANGED <<latest, tasks, status, attempts, due, reports, guarantee, todo, on, count,
                    got, heard, sends, up, crashes>>
    BY <1>7 DEF vars, record, worker, receiver, process
  <2>2. TypeOK'
    BY <2>1 DEF IInv, TypeOK
  <2>3. OneSender' /\ Held' /\ Budgeted' /\ Paid' /\ Witnessed'
    BY <2>1 DEF IInv, OneSender, Held, Budgeted, Paid, Free, Witnessed, AcknowledgedWasReceived
  <2>4. Idle'
    BY <2>1 DEF IInv, Idle
  <2> QED BY <2>2, <2>3, <2>4 DEF IInv
<1> QED BY <1>1, <1>2, <1>3, <1>4, <1>5, <1>6, <1>7

-----------------------------------------------------------------------------
(* Every step of the dispatcher keeps the invariant. *)
LEMMA Inductive == IInv /\ [Next]_vars => IInv'
<1> SUFFICES ASSUME IInv, [Next]_vars PROVE IInv'
  OBVIOUS
<1>1. ASSUME NEW w \in Workers, AnswerStep(w)
      PROVE  IInv'
  <2>1. on[w] # NoRecord
    BY <1>1, NoRecordIsNotARecord, TransportsAreDistinct
    DEF AnswerStep, Succeed, FailPermanently, FailForNow
  <2>2. CASE Succeed(w)
    <3>1. CASE got[w] /\ Settle(w, "DELIVERED", "ACKNOWLEDGED")
      BY <2>1, <3>1, SettleIsGood DEF Settled, Guarantees
    <3>2. CASE Settle(w, "DELIVERED", "BEST_EFFORT")
      BY <2>1, <3>2, SettleIsGood DEF Settled, Guarantees
    <3> QED BY <2>2, <3>1, <3>2 DEF Succeed
  <2>3. CASE FailPermanently(w)
    BY <2>1, <2>3, SettleIsGood DEF FailPermanently, Settled, Guarantees
  <2>4. CASE FailForNow(w)
    <3>1. CASE count[w] + 1 >= MaxAttempts
      BY <2>1, <2>4, <3>1, SettleIsGood DEF FailForNow, Settled, Guarantees
    <3>2. CASE ~(count[w] + 1 >= MaxAttempts)
      <4>1. count[w] + 1 < MaxAttempts
        BY <3>2, AttemptsAndCrashesAreBounded DEF IInv, TypeOK
      <4> QED BY <2>1, <2>4, <3>2, <4>1, SettleIsGood DEF FailForNow, Settled, Guarantees
    <3> QED BY <3>1, <3>2
  <2> QED BY <1>1, <2>2, <2>3, <2>4 DEF AnswerStep
<1>2. ASSUME NEW w \in Workers, AttemptStep(w)
      PROVE  IInv'
  BY <1>2, AttemptIsGood DEF AttemptStep
<1>3. ASSUME NEW w \in Workers, Receive(w)
      PROVE  IInv'
  BY <1>3, ReceiveIsGood
<1> QED BY <1>1, <1>2, <1>3, OtherStepsAreGood DEF Next

(* The inductive invariant holds at all times. *)
LEMMA AlwaysGood == Spec => []IInv
<1> QED BY InitIsGood, Inductive, PTL DEF Spec

(* Every variable of the dispatcher keeps its type. *)
THEOREM TypeCorrect == Spec => []TypeOK
<1>1. IInv => TypeOK
  BY DEF IInv
<1> QED BY <1>1, AlwaysGood, PTL

(***************************************************************************)
(* ResultCallbackDispatcher.attempt: however many sweeps overlap, one      *)
(* worker at a time sends a record.                                        *)
(***************************************************************************)
THEOREM OneSenderAtATime == Spec => []OneSender
<1>1. IInv => OneSender
  BY DEF IInv
<1> QED BY <1>1, AlwaysGood, PTL

(***************************************************************************)
(* sendHttp and sendNats: ACKNOWLEDGED is only written of a request that   *)
(* was taken.                                                              *)
(***************************************************************************)
THEOREM AcknowledgementsAreHonest == Spec => []AcknowledgedWasReceived
<1>1. IInv => AcknowledgedWasReceived
  BY DEF IInv, Witnessed
<1> QED BY <1>1, AlwaysGood, PTL

(***************************************************************************)
(* nextBackoffMs and recoverInFlight: at most MaxAttempts requests of one  *)
(* record, and one more for every crash.                                   *)
(***************************************************************************)
THEOREM BudgetIsKept == Spec => []AttemptsAreBounded
<1>1. IInv => AttemptsAreBounded
  <2> SUFFICES ASSUME IInv, NEW k \in Records
               PROVE  sends[k] <= MaxAttempts + crashes
    BY DEF AttemptsAreBounded
  <2> USE AttemptsAndCrashesAreBounded
  <2>1. attempts[k] \in 0 .. MaxAttempts /\ sends[k] \in Nat /\ crashes \in Nat
    BY DEF IInv, TypeOK
  <2>2. CASE Free(k)
    BY <2>1, <2>2 DEF IInv, Paid
  <2>3. CASE ~Free(k)
    <3>1. status[k] = "DELIVERING"
      BY <2>3, NoRecordIsNotARecord DEF IInv, Held, Free
    <3>2. attempts[k] < MaxAttempts
      BY <3>1 DEF IInv, Budgeted, Settled
    <3> QED BY <2>1, <3>2 DEF IInv, Paid
  <2> QED BY <2>2, <2>3
<1> QED BY <1>1, AlwaysGood, PTL

-----------------------------------------------------------------------------
(* No step writes the status of a delivery that has its verdict. *)
LEMMA StepsLeaveTheSettled ==
  ASSUME IInv, [Next]_vars, NEW k \in Records, status[k] \in Settled
  PROVE  status'[k] = status[k]
<1> USE DEF Settled, Claimable
<1> USE NoRecordIsNotARecord
<1>1. ASSUME NEW w \in Workers, AnswerStep(w)
      PROVE  status'[k] = status[k]
  <2>1. on[w] # NoRecord
    BY <1>1, TransportsAreDistinct DEF AnswerStep, Succeed, FailPermanently, FailForNow
  <2>2. on[w] # k
    BY <2>1 DEF IInv, Held
  <2>3. \E s \in Statuses : status' = [status EXCEPT ![on[w]] = s]
    BY <1>1 DEF AnswerStep, Succeed, FailPermanently, FailForNow, Settle, Statuses
  <2> QED BY <2>2, <2>3 DEF IInv, TypeOK
<1>2. ASSUME NEW w \in Workers, AttemptStep(w)
      PROVE  status'[k] = status[k]
  BY <1>2 DEF AttemptStep, Attempt, IInv, TypeOK
<1>3. ASSUME NEW x \in Records, NEW s \in Verdicts, CreateIfAbsent(x, s)
      PROVE  status'[k] = status[k]
  BY <1>3 DEF CreateIfAbsent, IInv, TypeOK
<1>4. CASE RecoverInFlight
  BY <1>4 DEF RecoverInFlight
<1>5. CASE \/ \E j \in Jobs, s \in Verdicts : Announce(j, s)
           \/ \E x \in Records : BackoffElapses(x)
           \/ \E w \in Sweeps : StartSweep(w)
           \/ \E w \in Workers : Receive(w)
           \/ Crash
           \/ UNCHANGED vars
  BY <1>5 DEF Announce, BackoffElapses, StartSweep, Receive, Crash, vars, record
<1> QED BY <1>1, <1>2, <1>3, <1>4, <1>5 DEF Next

(***************************************************************************)
(* ResultCallbackDispatcher: a delivery with a verdict is never touched    *)
(* again.                                                                  *)
(***************************************************************************)
THEOREM SettledIsFinal == Spec => SettledStaysSettled
<1>1. IInv /\ [Next]_vars =>
        [\A k \in Records : status[k] \in Settled => status'[k] = status[k]]_vars
  BY StepsLeaveTheSettled
<1> QED BY <1>1, AlwaysGood, PTL DEF Spec, SettledStaysSettled

-----------------------------------------------------------------------------
(* The outcome written by the worker that holds a record is one of the     *)
(* record's moves, with the attempt counted once: the count it read at its *)
(* claim is still the row's.                                               *)
LEMMA SettleIsAMove ==
  ASSUME IInv, NEW w \in Workers, on[w] # NoRecord,
         NEW s \in Settled \union {"RETRY_SCHEDULED"}, NEW g \in Guarantees,
         Settle(w, s, g)
  PROVE  on[w] \in Records /\ Delivery!Attempted(on[w], s, g)
<1>1. on[w] \in Records /\ status[on[w]] = "DELIVERING" /\ count[w] = attempts[on[w]]
  BY DEF IInv, TypeOK, Held
<1>2. attempts[on[w]] < MaxAttempts
  BY <1>1 DEF IInv, Budgeted, Settled
<1> QED BY <1>1, <1>2 DEF Settle, Delivery!Attempted

LEMMA StepFollowsTheRecord ==
  ASSUME IInv, [Next]_vars
  PROVE  [Delivery!Next]_(Delivery!vars)
<1> USE DEF Delivery!vars
<1>1. ASSUME NEW w \in Workers, AnswerStep(w)
      PROVE  Delivery!Next
  <2>1. on[w] # NoRecord
    BY <1>1, NoRecordIsNotARecord, TransportsAreDistinct
    DEF AnswerStep, Succeed, FailPermanently, FailForNow
  <2>2. CASE Succeed(w)
    <3>1. PICK g \in {"BEST_EFFORT", "ACKNOWLEDGED"} : Settle(w, "DELIVERED", g)
      BY <2>2 DEF Succeed
    <3>2. on[w] \in Records /\ Delivery!Attempted(on[w], "DELIVERED", g)
      BY <2>1, <3>1, SettleIsAMove DEF Settled, Guarantees
    <3> QED BY <3>2 DEF Delivery!Deliver, Delivery!Next
  <2>3. CASE Settle(w, "FAILED", "NONE")
    <3>1. on[w] \in Records /\ Delivery!Attempted(on[w], "FAILED", "NONE")
      BY <2>1, <2>3, SettleIsAMove DEF Settled, Guarantees
    <3> QED BY <3>1 DEF Delivery!GiveUp, Delivery!Next
  <2>4. CASE ~(count[w] + 1 >= MaxAttempts) /\ Settle(w, "RETRY_SCHEDULED", "NONE")
    <3>1. on[w] \in Records /\ Delivery!Attempted(on[w], "RETRY_SCHEDULED", "NONE")
      BY <2>1, <2>4, SettleIsAMove DEF Guarantees
    <3>2. attempts[on[w]] + 1 < MaxAttempts
      <4>1. count[w] = attempts[on[w]] /\ count[w] \in Nat
        BY <2>1 DEF IInv, TypeOK, Held
      <4> QED BY <2>4, <4>1, AttemptsAndCrashesAreBounded
    <3> QED BY <3>1, <3>2 DEF Delivery!PutOff, Delivery!Next
  <2> QED BY <1>1, <2>2, <2>3, <2>4 DEF AnswerStep, FailPermanently, FailForNow
<1>2. ASSUME NEW w \in Workers, NEW k \in Records, Attempt(w, k)
      PROVE  Delivery!Next \/ UNCHANGED <<status, attempts, reports, guarantee>>
  <2>1. CASE status[k] \in Claimable
    <3>1. Delivery!Claim(k)
      BY <1>2, <2>1 DEF Attempt, Claimable, Delivery!Claim
    <3> QED BY <3>1 DEF Delivery!Next
  <2>2. CASE status[k] \notin Claimable
    BY <1>2, <2>2 DEF Attempt
  <2> QED BY <2>1, <2>2
<1>3. ASSUME NEW k \in Records, NEW s \in Verdicts, CreateIfAbsent(k, s)
      PROVE  Delivery!Next \/ UNCHANGED <<status, attempts, reports, guarantee>>
  <2>1. CASE status[k] = "NONE"
    <3>1. Delivery!Create(k, s)
      BY <1>3, <2>1 DEF CreateIfAbsent, Delivery!Create
    <3> QED BY <3>1 DEF Delivery!Next
  <2>2. CASE status[k] # "NONE"
    BY <1>3, <2>2 DEF CreateIfAbsent
  <2> QED BY <2>1, <2>2
<1>4. ASSUME RecoverInFlight
      PROVE  Delivery!Recover
  BY <1>4 DEF RecoverInFlight, Delivery!Recover
<1>5. ASSUME \/ \E j \in Jobs, s \in Verdicts : Announce(j, s)
             \/ \E k \in Records : BackoffElapses(k)
             \/ \E w \in Sweeps : StartSweep(w)
             \/ \E w \in Workers : Receive(w)
             \/ Crash
             \/ UNCHANGED vars
      PROVE  UNCHANGED <<status, attempts, reports, guarantee>>
  BY <1>5 DEF Announce, BackoffElapses, StartSweep, Receive, Crash, vars, record
<1> QED
  BY <1>1, <1>2, <1>3, <1>4, <1>5 DEF Next, AttemptStep, Delivery!Next

(***************************************************************************)
(* callback-delivery.ts: CallbackDelivery implements DeliveryRecord, for   *)
(* every number of records, sweeps, attempts and crashes.                  *)
(***************************************************************************)
THEOREM RecordIsImplemented == Spec => FollowsTheRecord
<1>1. Init => Delivery!Init
  BY DEF Init, Delivery!Init
<1>2. IInv /\ [Next]_vars => [Delivery!Next]_(Delivery!vars)
  BY StepFollowsTheRecord
<1> QED BY <1>1, <1>2, AlwaysGood, PTL DEF Spec, FollowsTheRecord, Delivery!Spec

-----------------------------------------------------------------------------
(* A record that waits for its first attempt, or for an answer, has the    *)
(* worker that will get on with it.                                        *)
Attended ==
  /\ \A w \in Records : todo[w] \subseteq {w}
  /\ up => \A k \in Records :
             /\ status[k] = "PENDING" => k \in todo[k]
             /\ status[k] = "DELIVERING" => \E w \in Workers : on[w] = k

LEMMA NextAttended == IInv /\ Attended /\ [Next]_vars => Attended'
<1> SUFFICES ASSUME IInv, Attended, [Next]_vars PROVE Attended'
  OBVIOUS
<1> USE NoRecordIsNotARecord
<1>a. /\ status \in [Records -> Statuses] /\ todo \in [Workers -> SUBSET Records]
      /\ on \in [Workers -> Records \union {NoRecord}]
      /\ Records \subseteq Workers /\ Sweeps \intersect Records = {}
  BY SweepsAreNotRecords DEF IInv, TypeOK, Workers
<1>1. ASSUME NEW w \in Workers, AnswerStep(w)
      PROVE  Attended'
  <2>1. on[w] # NoRecord
    BY <1>1, TransportsAreDistinct DEF AnswerStep, Succeed, FailPermanently, FailForNow
  <2>2. PICK s \in {"DELIVERED", "FAILED", "RETRY_SCHEDULED"} :
          /\ status' = [status EXCEPT ![on[w]] = s]
          /\ on' = [on EXCEPT ![w] = NoRecord]
          /\ UNCHANGED <<todo, up>>
    BY <1>1 DEF AnswerStep, Succeed, FailPermanently, FailForNow, Settle, process
  <2>3. \A k \in Records, v \in Workers : k # on[w] /\ on[v] = k => on'[v] = k
    BY <1>a, <2>2
  <2> QED BY <1>a, <2>1, <2>2, <2>3 DEF Attended
<1>2. ASSUME NEW w \in Workers, NEW k \in Records, Attempt(w, k)
      PROVE  Attended'
  <2>1. todo' = [todo EXCEPT ![w] = @ \ {k}] /\ on[w] = NoRecord /\ up' = up
    BY <1>2 DEF Attempt, process
  <2>2. todo'[w] = todo[w] \ {k} /\ \A v \in Workers : v # w => todo'[v] = todo[v]
    BY <1>a, <2>1
  <2>3. \A x \in Records : x # k /\ x \in todo[x] => x \in todo'[x]
    BY <1>a, <2>2
  <2>4. \A x \in Records : todo'[x] \subseteq {x}
    BY <1>a, <2>2 DEF Attended
  <2>5. CASE status[k] \in Claimable
    <3>1. /\ status' = [status EXCEPT ![k] = "DELIVERING"]
          /\ on' = [on EXCEPT ![w] = k]
      BY <1>2, <2>5 DEF Attempt
    <3>2. on'[w] = k /\ \A x \in Records, v \in Workers : on[v] = x => on'[v] = x
      BY <1>a, <2>1, <3>1
    <3> QED BY <1>a, <2>1, <2>3, <2>4, <3>1, <3>2 DEF Attended
  <2>6. CASE status[k] \notin Claimable
    <3>1. UNCHANGED <<status, on>> /\ status[k] # "PENDING"
      BY <1>2, <2>6 DEF Attempt, Claimable
    <3> QED BY <2>1, <2>3, <2>4, <3>1 DEF Attended
  <2> QED BY <2>5, <2>6
<1>3. ASSUME NEW k \in Records, NEW s \in Verdicts, CreateIfAbsent(k, s)
      PROVE  Attended'
  <2>1. UNCHANGED <<on, up>> BY <1>3 DEF CreateIfAbsent, process
  <2>2. CASE UNCHANGED <<status, todo>>
    BY <2>1, <2>2 DEF Attended
  <2>3. CASE status' = [status EXCEPT ![k] = "PENDING"] /\ todo' = [todo EXCEPT ![k] = {k}]
    BY <1>a, <2>1, <2>3 DEF Attended
  <2> QED BY <1>3, <2>2, <2>3 DEF CreateIfAbsent
<1>4. ASSUME NEW w \in Sweeps, StartSweep(w)
      PROVE  Attended'
  <2>1. UNCHANGED <<status, on, up>> /\ \A x \in Records : todo'[x] = todo[x]
    BY <1>4, <1>a DEF StartSweep, record, process
  <2> QED BY <2>1 DEF Attended
<1>5. ASSUME Crash
      PROVE  Attended'
  <2>1. ~up' /\ \A w \in Workers : todo'[w] = {}
    BY <1>5 DEF Crash
  <2> QED BY <1>a, <2>1 DEF Attended
<1>6. ASSUME RecoverInFlight
      PROVE  Attended'
  <2>1. todo' = todo /\ \A k \in Records : status'[k] \notin {"PENDING", "DELIVERING"}
    BY <1>6 DEF RecoverInFlight, worker
  <2> QED BY <2>1 DEF Attended
<1>7. ASSUME \/ \E j \in Jobs, s \in Verdicts : Announce(j, s)
             \/ \E k \in Records : BackoffElapses(k)
             \/ \E w \in Workers : Receive(w)
             \/ UNCHANGED vars
      PROVE  Attended'
  <2>1. UNCHANGED <<status, todo, on, up>>
    BY <1>7 DEF Announce, BackoffElapses, Receive, vars, record, worker, process
  <2> QED BY <2>1 DEF Attended
<1> QED BY <1>1, <1>2, <1>3, <1>4, <1>5, <1>6, <1>7 DEF Next, AttemptStep

(***************************************************************************)
(* ResultCallbackDispatcher and recoverInFlight: no record is stranded.    *)
(* While the API runs a PENDING record is still before its subscriber and  *)
(* a DELIVERING one has a sender, whatever sweeps overlap and wherever the *)
(* API died before; a record that is RETRY_SCHEDULED waits for the clock.  *)
(***************************************************************************)
THEOREM NoRecordIsStranded == Spec => []Attended
<1>1. Init => Attended
  BY DEF Init, Attended, Workers
<1> QED BY <1>1, NextAttended, AlwaysGood, PTL DEF Spec

-----------------------------------------------------------------------------
(* What is about to be recorded is the job's latest verdict, and what has  *)
(* been recorded as a success still is.                                    *)
TellsTheVerdict ==
  /\ \A k \in Records, s \in Verdicts : <<k, s>> \in tasks => s = latest[JobOf[k]]
  /\ \A k \in Records : reports[k] = "SUCCESS" => latest[JobOf[k]] = "SUCCESS"

LEMMA NextTellsTheVerdict == IInv /\ TellsTheVerdict /\ [Next]_vars => TellsTheVerdict'
<1> SUFFICES ASSUME IInv, TellsTheVerdict, [Next]_vars PROVE TellsTheVerdict'
  OBVIOUS
<1>a. /\ JobOf \in [Records -> Jobs] /\ latest \in [Jobs -> {"NONE"} \union Verdicts]
      /\ reports \in [Records -> {"NONE"} \union Verdicts]
      /\ tasks \in SUBSET (Records \X Verdicts)
  BY EveryRecordHasAJob DEF IInv, TypeOK
<1>1. ASSUME NEW j \in Jobs, NEW s \in Verdicts, Announce(j, s)
      PROVE  TellsTheVerdict'
  <2>1. /\ latest[j] \in {"NONE", "FAILED"} /\ latest' = [latest EXCEPT ![j] = s]
        /\ \A task \in tasks : JobOf[task[1]] # j
        /\ tasks' = tasks \union {<<k, s>> : k \in {k \in Records : JobOf[k] = j}}
        /\ reports' = reports
    BY <1>1 DEF Announce, record
  <2>2. \A k \in Records, x \in Verdicts : <<k, x>> \in tasks' => x = latest'[JobOf[k]]
    <3> SUFFICES ASSUME NEW k \in Records, NEW x \in Verdicts, <<k, x>> \in tasks'
                 PROVE  x = latest'[JobOf[k]]
      OBVIOUS
    <3>1. CASE <<k, x>> \in tasks
      <4>1. JobOf[k] # j BY <2>1, <3>1
      <4> QED BY <1>a, <2>1, <3>1, <4>1 DEF TellsTheVerdict
    <3>2. CASE <<k, x>> \notin tasks
      BY <1>a, <2>1, <3>2
    <3> QED BY <3>1, <3>2
  <2>3. \A k \in Records : reports'[k] = "SUCCESS" => latest'[JobOf[k]] = "SUCCESS"
    BY <1>a, <2>1 DEF TellsTheVerdict
  <2> QED BY <2>2, <2>3 DEF TellsTheVerdict
<1>2. ASSUME NEW k \in Records, NEW s \in Verdicts, CreateIfAbsent(k, s)
      PROVE  TellsTheVerdict'
  <2>1. /\ <<k, s>> \in tasks /\ tasks' \subseteq tasks /\ latest' = latest
        /\ reports' = reports \/ reports' = [reports EXCEPT ![k] = s]
    BY <1>2 DEF CreateIfAbsent
  <2>2. s = latest[JobOf[k]] BY <2>1 DEF TellsTheVerdict
  <2> QED BY <1>a, <2>1, <2>2 DEF TellsTheVerdict
<1>3. ASSUME \/ \E w \in Workers : AttemptStep(w) \/ Receive(w) \/ AnswerStep(w)
             \/ \E k \in Records : BackoffElapses(k)
             \/ \E w \in Sweeps : StartSweep(w)
             \/ RecoverInFlight \/ UNCHANGED vars
      PROVE  TellsTheVerdict'
  <2>1. UNCHANGED <<latest, tasks, reports>>
    BY <1>3
    DEF AttemptStep, Attempt, Receive, AnswerStep, Succeed, FailPermanently, FailForNow, Settle,
        BackoffElapses, StartSweep, RecoverInFlight, vars, record
  <2> QED BY <2>1 DEF TellsTheVerdict
<1>4. ASSUME Crash
      PROVE  TellsTheVerdict'
  BY <1>4 DEF Crash, record, TellsTheVerdict
<1> QED BY <1>1, <1>2, <1>3, <1>4 DEF Next

(***************************************************************************)
(* handleTerminal: a record is made for the verdict announced last, and a  *)
(* success it tells is the job's verdict for good.  A FAILED one may tell  *)
(* of a job that was executed again since and printed.                     *)
(***************************************************************************)
THEOREM SuccessToldIsTheVerdict == Spec => []TellsTheVerdict
<1>1. Init => TellsTheVerdict
  BY EveryRecordHasAJob DEF Init, TellsTheVerdict
<1> QED BY <1>1, NextTellsTheVerdict, AlwaysGood, PTL DEF Spec
=============================================================================
