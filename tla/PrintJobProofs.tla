--------------------------- MODULE PrintJobProofs ---------------------------
(* Theorems about PrintJob for every value of its constants. *)
EXTENDS PrintJob, FiniteSetTheorems, TLAPS

(* The case split every preservation proof of this module begins with. *)
LEMMA NextCases ==
  ASSUME Next
  PROVE  \/ \E j \in Jobs : CreateStep(j)
         \/ \E j \in Jobs : SchedulerStep(j)
         \/ \E j \in Jobs : CancelStep(j)
         \/ \E j \in Jobs : PublishStep(j)
         \/ \E j \in Jobs : BootStep(j)
         \/ \E j \in Jobs, c \in Calls : DirectExecute(c, j)
         \/ \E j \in Jobs, w \in Runners : RunnerStep(w, j)
         \/ \E r \in Runs : ExecutorStep(r)
         \/ \E r \in Runs : AdapterStep(r)
         \/ Crash
         \/ BootDone
BY DEF Next

-----------------------------------------------------------------------------
(* Every execution that has left "idle" works on some job, the scheduler's *)
(* on its own: the subscripts jobOf[r] used all over the module are jobs.  *)
Targeted ==
  /\ \A j \in Jobs : jobOf[j] = j
  /\ \A r \in Runs : pc[r] # "idle" \/ dev[r] # "none" => jobOf[r] \in Jobs
  /\ \A r \in Runs : pc[r] \in {"announcing", "handling"} => verdict[r] \in Terminal

Typed == TypeOK /\ Targeted

LEMMA TypedInit == Init => Typed
BY JobsAndCallsAreDistinct, CrashesAreBounded, NoJobIsNotAJob
   DEF Init, Typed, TypeOK, Targeted, Runs, Statuses, PCs, DevStates, Terminal,
       MayHavePrinted, PreDispatch

LEMMA TypedNext == Typed /\ [Next]_vars => Typed'
<1> SUFFICES ASSUME Typed, [Next]_vars PROVE Typed'
  OBVIOUS
<1> USE DEF Typed, TypeOK, Targeted, vars, store, memory, executor, field, news, paper,
            process, Statuses, PreDispatch, MayHavePrinted, Terminal, Results,
            PCs, Busy, DevStates, OnThePrinter, Goto
<1>1. ASSUME NEW j \in Jobs, CreateStep(j) PROVE Typed'
  BY <1>1 DEF CreateStep, Accept, Validate, PersistQueued, Enqueue, CreationAborts
<1>2. ASSUME NEW j \in Jobs, SchedulerStep(j) PROVE Typed'
  BY <1>2 DEF SchedulerStep, Dequeue, TakeTurn, Runs
<1>3. ASSUME NEW j \in Jobs, CancelStep(j) PROVE Typed'
  <2>1. CASE Cancel(j)
    BY <2>1 DEF Cancel
  <2>2. CASE RequestCancel(j)
    BY <2>2 DEF RequestCancel
  <2> QED BY <1>3, <2>1, <2>2 DEF CancelStep
<1>4. ASSUME NEW j \in Jobs, PublishStep(j) PROVE Typed'
  BY <1>4 DEF PublishStep, Publish, PublicationAborts
<1>5. ASSUME NEW j \in Jobs, BootStep(j) PROVE Typed'
  BY <1>5 DEF BootStep, RecoverPreDispatch, RecoverStale, Rehydrate
<1>6. ASSUME NEW j \in Jobs, NEW c \in Calls, DirectExecute(c, j) PROVE Typed'
  BY <1>6, JobsAndCallsAreDistinct DEF DirectExecute, Runs
<1>7. ASSUME NEW j \in Jobs, NEW w \in Runners, RunnerStep(w, j) PROVE Typed'
  <2>1. CASE RunnerClaim(w, j) \/ RunnerPrints(w, j) \/ RunnerLosesJob(w, j)
    BY <2>1 DEF RunnerClaim, RunnerPrints, RunnerLosesJob, Executors
  <2>2. ASSUME NEW s \in Results,
               RunnerFinishes(w, j, s) \/ ResultArrives(w, j, s) \/ ResultLost(w, j, s)
        PROVE  Typed'
    BY <2>2 DEF RunnerFinishes, ResultArrives, ResultLost
  <2> QED BY <1>7, <2>1, <2>2 DEF RunnerStep
<1>8. ASSUME NEW r \in Runs, ExecutorStep(r) PROVE Typed'
  <2>1. CASE ReadJob(r) \/ Claim(r) \/ Start(r)
    BY <2>1 DEF ReadJob, Claim, Start
  <2>2. CASE AdapterAnswers(r)
    BY <2>2 DEF AdapterAnswers, Persist
  <2>3. CASE AdapterThrows(r) \/ Watchdog(r) \/ BookkeepingFails(r)
    BY <2>3 DEF AdapterThrows, Watchdog, BookkeepingFails, Persist
  <2>4. CASE Announce(r)
    BY <2>4 DEF Announce
  <2> QED BY <1>8, <2>1, <2>2, <2>3, <2>4 DEF ExecutorStep
<1>9. ASSUME NEW r \in Runs, AdapterStep(r) PROVE Typed'
  <2>1. CASE GrantPrinter(r) \/ AbandonedCallReturns(r)
    BY <2>1 DEF GrantPrinter, AbandonedCallReturns
  <2>2. CASE Submit(r)
    BY <2>2 DEF Submit, Executors
  <2>3. CASE Progress(r)
    BY <2>3 DEF Progress
  <2> QED BY <1>9, <2>1, <2>2, <2>3 DEF AdapterStep
<1>10. CASE Crash
  BY <1>10, CrashesAreBounded DEF Crash, Executors
<1>11. CASE BootDone
  BY <1>11 DEF BootDone
<1>12. CASE UNCHANGED vars
  BY <1>12
<1>13. CASE Next
  BY <1>13, <1>1, <1>2, <1>3, <1>4, <1>5, <1>6, <1>7, <1>8, <1>9, <1>10, <1>11, NextCases
<1> QED BY <1>12, <1>13

(***************************************************************************)
(* The variables keep their types, whatever the deployment, the number of  *)
(* jobs, calls, runners and crashes, and whichever store writes fail.      *)
(***************************************************************************)
THEOREM TypeCorrect == Spec => []TypeOK
<1>1. Spec => []Typed
  BY TypedInit, TypedNext, PTL DEF Spec
<1> QED BY <1>1, PTL DEF Typed

-----------------------------------------------------------------------------
(***************************************************************************)
(* CancelledNeverPrints is not inductive: nothing in it says that a row    *)
(* that can still be cancelled is untouched.  Untouched does.  A row       *)
(* leaves these statuses through a claim and no step ever brings it back.  *)
(***************************************************************************)
Undispatched == {"NONE", "CANCELLED"} \union PreDispatch
PastClaim    == {"starting", "running", "announcing", "handling"}

Untouched ==
  /\ \A j \in Jobs : row[j] \in Undispatched =>
       /\ printed[j] = {}
       /\ \A w \in Runners : <<w, j>> \notin held
       /\ \A r \in Runs : jobOf[r] = j => dev[r] = "none" /\ pc[r] \notin PastClaim
  /\ \A c \in Calls : pc[c] = "idle" => dev[c] = "none"

LEMMA UntouchedInit == Init => Untouched
BY DEF Init, Untouched, PastClaim, Runs

LEMMA UntouchedNext == Typed /\ Untouched /\ [Next]_vars => Untouched'
<1> SUFFICES ASSUME Typed, Untouched, [Next]_vars PROVE Untouched'
  OBVIOUS
<1> USE DEF Typed, TypeOK, Targeted, Untouched, Undispatched, PastClaim, PreDispatch,
            vars, store, memory, executor, field, news, paper, process, Goto
<1>1. ASSUME NEW j \in Jobs, CreateStep(j) PROVE Untouched'
  BY <1>1 DEF CreateStep, Accept, Validate, PersistQueued, Enqueue, CreationAborts
<1>2. ASSUME NEW j \in Jobs, SchedulerStep(j) PROVE Untouched'
  BY <1>2, JobsAndCallsAreDistinct DEF SchedulerStep, Dequeue, TakeTurn, Runs
<1>3. ASSUME NEW j \in Jobs, CancelStep(j) PROVE Untouched'
  BY <1>3 DEF CancelStep, Cancel, RequestCancel, Cancellable
<1>4. ASSUME NEW j \in Jobs, PublishStep(j) PROVE Untouched'
  BY <1>4 DEF PublishStep, Publish, PublicationAborts
<1>5. ASSUME NEW j \in Jobs, BootStep(j) PROVE Untouched'
  BY <1>5 DEF BootStep, RecoverPreDispatch, RecoverStale, Rehydrate
<1>6. ASSUME NEW j \in Jobs, NEW c \in Calls, DirectExecute(c, j) PROVE Untouched'
  BY <1>6, JobsAndCallsAreDistinct DEF DirectExecute, Runs
<1>7. ASSUME NEW j \in Jobs, NEW w \in Runners, RunnerStep(w, j) PROVE Untouched'
  <2>1. CASE RunnerClaim(w, j) \/ RunnerPrints(w, j) \/ RunnerLosesJob(w, j)
    BY <2>1 DEF RunnerClaim, RunnerPrints, RunnerLosesJob
  <2>2. ASSUME NEW s \in Results,
               RunnerFinishes(w, j, s) \/ ResultArrives(w, j, s) \/ ResultLost(w, j, s)
        PROVE  Untouched'
    BY <2>2 DEF RunnerFinishes, ResultArrives, ResultLost, Results, InProgress
  <2> QED BY <1>7, <2>1, <2>2 DEF RunnerStep
<1>8. ASSUME NEW r \in Runs, ExecutorStep(r) PROVE Untouched'
  <2> DEFINE i == jobOf[r]
  <2>a. pc[r] # "idle" /\ i \in Jobs
    BY <1>8 DEF ExecutorStep, ReadJob, Claim, Start, AdapterAnswers, AdapterThrows,
                Watchdog, Announce, BookkeepingFails
  <2>b. pc[r] \in PastClaim => row[i] \notin Undispatched
    BY <2>a
  <2>1. CASE ReadJob(r)
    BY <2>1, <2>a DEF ReadJob, Runs
  <2>5. CASE Claim(r)
    BY <2>5, <2>a DEF Claim, Executable, Runs
  <2>6. CASE Start(r)
    BY <2>6, <2>a, <2>b DEF Start, Runs
  <2>2. CASE AdapterAnswers(r)
    BY <2>2 DEF AdapterAnswers, Persist, Results
  <2>3. CASE AdapterThrows(r)
    BY <2>3, <2>a DEF AdapterThrows, Persist
  <2>7. CASE Watchdog(r)
    BY <2>7, <2>a DEF Watchdog, Persist
  <2>8. CASE BookkeepingFails(r)
    BY <2>8, <2>a, <2>b DEF BookkeepingFails, Persist, Runs
  <2>4. CASE Announce(r)
    BY <2>4 DEF Announce
  <2> QED BY <1>8, <2>1, <2>2, <2>3, <2>4, <2>5, <2>6, <2>7, <2>8 DEF ExecutorStep
<1>9. ASSUME NEW r \in Runs, AdapterStep(r) PROVE Untouched'
  <2>1. CASE GrantPrinter(r)
    BY <2>1 DEF GrantPrinter
  <2>4. CASE AbandonedCallReturns(r)
    BY <2>4 DEF AbandonedCallReturns, OnThePrinter
  <2>2. CASE Submit(r)
    BY <2>2 DEF Submit
  <2>3. CASE Progress(r)
    BY <2>3 DEF Progress
  <2> QED BY <1>9, <2>1, <2>2, <2>3, <2>4 DEF AdapterStep
<1>10. CASE Crash
  <2>1. PICK S \in SUBSET {r \in Runs : dev[r] = "working"} :
          printed' = [j \in Jobs |-> printed[j] \union {r \in S : jobOf[r] = j}]
    BY <1>10 DEF Crash
  <2>2. ASSUME NEW j \in Jobs, row[j] \in Undispatched
        PROVE  printed'[j] = {}
    BY <2>1, <2>2
  <2>3. ASSUME NEW r \in Runs
        PROVE  /\ dev[r] = "none" => dev'[r] = "none"
               /\ pc'[r] \notin PastClaim
    BY <1>10 DEF Crash
  <2>4. ASSUME NEW c \in Calls, pc'[c] = "idle" PROVE dev'[c] = "none"
    BY <1>10, <2>4, JobsAndCallsAreDistinct DEF Crash, Runs
  <2> QED BY <1>10, <2>2, <2>3, <2>4 DEF Crash
<1>11. CASE BootDone
  BY <1>11 DEF BootDone
<1>12. CASE UNCHANGED vars
  BY <1>12
<1>13. CASE Next
  BY <1>13, <1>1, <1>2, <1>3, <1>4, <1>5, <1>6, <1>7, <1>8, <1>9, <1>10, <1>11, NextCases
<1> QED BY <1>12, <1>13

(***************************************************************************)
(* A job reported as cancelled has no document on the wire and nobody left *)
(* who could put one there: for any number of jobs, racing executions,     *)
(* runners, crashes, rejected store writes and repeated results.           *)
(***************************************************************************)
THEOREM CancellationIsGuaranteed == Spec => []CancelledNeverPrints
<1>1. Init => Typed /\ Untouched
  BY TypedInit, UntouchedInit
<1>2. Typed /\ Untouched /\ [Next]_vars => (Typed /\ Untouched)'
  BY TypedNext, UntouchedNext
<1>3. Untouched => CancelledNeverPrints
  BY DEF Untouched, CancelledNeverPrints, Undispatched, PastClaim, ClaimantsOf
<1> QED BY <1>1, <1>2, <1>3, PTL DEF Spec

-----------------------------------------------------------------------------
(***************************************************************************)
(* Exclusive ownership.  The right to write a job's row after its claim is *)
(* a token: an execution past its claim, a runner holding the job, or the  *)
(* runner's result on the wire.  Exclusive says that a job has at most one *)
(* token and that its row shows it, so that no claim can make a second.    *)
(* The argument needs a store whose writes are not rejected half way: the  *)
(* run server_failures shows what still holds without.                     *)
(***************************************************************************)
Reliable == ~StoreMayFail

Active(r) == pc[r] \in {"starting", "running"}

Exclusive ==
  /\ \A r, k \in Runs : Active(r) /\ Active(k) /\ jobOf[r] = jobOf[k] => r = k
  /\ \A r \in Runs, w \in Runners : Active(r) => <<w, jobOf[r]>> \notin held
  /\ \A r \in Runs, w \in Runners, s \in Results : Active(r) => <<w, jobOf[r], s>> \notin wire
  /\ \A j \in Jobs, w, v \in Runners : <<w, j>> \in held /\ <<v, j>> \in held => w = v
  /\ \A j \in Jobs, w, v \in Runners, s \in Results : <<w, j>> \in held => <<v, j, s>> \notin wire
  /\ \A j \in Jobs, w, v \in Runners, s, t \in Results :
       <<w, j, s>> \in wire /\ <<v, j, t>> \in wire => w = v /\ s = t

Marked ==
  /\ \A r \in Runs : Active(r) => row[jobOf[r]] \in InProgress
  /\ \A j \in Jobs, w \in Runners :
       <<w, j>> \in held => row[j] \in InProgress \union {"UNVERIFIED"}
  /\ \A j \in Jobs, w \in Runners, s \in Results :
       <<w, j, s>> \in wire => row[j] \in InProgress \union {"UNVERIFIED"}
  /\ up = "booting" => \A r \in Runs : pc[r] \in {"idle", "over"}

Owned == Exclusive /\ Marked

LEMMA OwnedInit == Init => Owned
BY DEF Init, Owned, Exclusive, Marked, Active, Runs

LEMMA OwnedNext ==
  ASSUME Reliable, Typed, Owned, [Next]_vars
  PROVE  Owned'
<1> USE DEF Reliable, Typed, TypeOK, Targeted, Owned, Exclusive, Marked, Active, InProgress,
            vars, store, memory, executor, field, news, paper, process, Goto
<1>1. ASSUME NEW j \in Jobs, CreateStep(j) PROVE Owned'
  <2>1. CASE Accept(j)
    BY <2>1 DEF Accept
  <2>2. CASE Validate(j)
    BY <2>2 DEF Validate
  <2>3. CASE PersistQueued(j)
    BY <2>3 DEF PersistQueued
  <2>4. CASE Enqueue(j)
    BY <2>4 DEF Enqueue
  <2>5. CASE CreationAborts(j)
    BY <2>5 DEF CreationAborts
  <2> QED BY <1>1, <2>1, <2>2, <2>3, <2>4, <2>5 DEF CreateStep
<1>2. ASSUME NEW j \in Jobs, SchedulerStep(j) PROVE Owned'
  <2>1. CASE Dequeue(j)
    BY <2>1 DEF Dequeue, Runs
  <2>2. CASE TakeTurn(j)
    BY <2>2 DEF TakeTurn, Runs
  <2> QED BY <1>2, <2>1, <2>2 DEF SchedulerStep
<1>3. ASSUME NEW j \in Jobs, CancelStep(j) PROVE Owned'
  <2>1. CASE Cancel(j)
    BY <2>1 DEF Cancel, Cancellable, PreDispatch
  <2>2. CASE RequestCancel(j)
    BY <2>2 DEF RequestCancel
  <2> QED BY <1>3, <2>1, <2>2 DEF CancelStep
<1>4. ASSUME NEW j \in Jobs, PublishStep(j) PROVE Owned'
  BY <1>4 DEF PublishStep, Publish, PublicationAborts
<1>5. ASSUME NEW j \in Jobs, BootStep(j) PROVE Owned'
  <2>1. CASE RecoverPreDispatch(j)
    BY <2>1 DEF RecoverPreDispatch
  <2>2. CASE RecoverStale(j)
    BY <2>2 DEF RecoverStale
  <2>3. CASE Rehydrate(j)
    BY <2>3 DEF Rehydrate
  <2> QED BY <1>5, <2>1, <2>2, <2>3 DEF BootStep
<1>6. ASSUME NEW j \in Jobs, NEW c \in Calls, DirectExecute(c, j) PROVE Owned'
  BY <1>6 DEF DirectExecute, Runs
<1>7. ASSUME NEW j \in Jobs, NEW w \in Runners, RunnerStep(w, j) PROVE Owned'
  <2>1. CASE RunnerClaim(w, j)
    BY <2>1 DEF RunnerClaim
  <2>2. CASE RunnerPrints(w, j) \/ RunnerLosesJob(w, j)
    BY <2>2 DEF RunnerPrints, RunnerLosesJob
  <2>3. ASSUME NEW s \in Results, RunnerFinishes(w, j, s) PROVE Owned'
    BY <2>3 DEF RunnerFinishes
  <2>4. ASSUME NEW s \in Results, ResultArrives(w, j, s) PROVE Owned'
    BY <2>4 DEF ResultArrives
  <2>5. ASSUME NEW s \in Results, ResultLost(w, j, s) PROVE Owned'
    BY <2>5 DEF ResultLost
  <2> QED BY <1>7, <2>1, <2>2, <2>3, <2>4, <2>5 DEF RunnerStep
<1>8. ASSUME NEW r \in Runs, ExecutorStep(r) PROVE Owned'
  <2>a. pc[r] # "idle" /\ jobOf[r] \in Jobs
    BY <1>8 DEF ExecutorStep, ReadJob, Claim, Start, AdapterAnswers, AdapterThrows,
                Watchdog, Announce, BookkeepingFails
  <2>1. CASE ReadJob(r)
    BY <2>1, <2>a DEF ReadJob
  <2>2. CASE Claim(r)
    <3>1. CASE row[jobOf[r]] \in Executable
      <4> DEFINE i == jobOf[r]
      <4>1. /\ \A k \in Runs : jobOf[k] = i => ~Active(k)
            /\ \A w \in Runners : <<w, i>> \notin held
            /\ \A w \in Runners, s \in Results : <<w, i, s>> \notin wire
        BY <3>1, <2>a DEF Executable, PreDispatch
      <4>2. /\ row' = [row EXCEPT ![i] = "DISPATCHED"]
            /\ pc' = [pc EXCEPT ![r] = "starting"]
            /\ UNCHANGED <<jobOf, held, wire, up>>
        BY <2>2, <3>1 DEF Claim
      <4>3. Exclusive'
        BY <4>1, <4>2, <2>a
      <4>4. up # "booting"
        BY <2>2 DEF Claim
      <4> QED BY <4>1, <4>2, <4>3, <4>4, <2>a
    <3>2. CASE row[jobOf[r]] \notin Executable
      BY <2>2, <3>2, <2>a DEF Claim
    <3> QED BY <3>1, <3>2
  <2>3. CASE Start(r)
    BY <2>3, <2>a DEF Start
  <2>4. CASE AdapterAnswers(r)
    BY <2>4, <2>a DEF AdapterAnswers, Persist
  <2>5. CASE AdapterThrows(r)
    BY <2>5, <2>a DEF AdapterThrows, Persist
  <2>6. CASE Watchdog(r)
    BY <2>6, <2>a DEF Watchdog, Persist
  <2>7. CASE Announce(r)
    BY <2>7, <2>a DEF Announce
  <2>8. CASE BookkeepingFails(r)
    BY <2>8 DEF BookkeepingFails
  <2> QED BY <1>8, <2>1, <2>2, <2>3, <2>4, <2>5, <2>6, <2>7, <2>8 DEF ExecutorStep
<1>9. ASSUME NEW r \in Runs, AdapterStep(r) PROVE Owned'
  <2>1. CASE GrantPrinter(r) \/ AbandonedCallReturns(r) \/ Submit(r)
    BY <2>1 DEF GrantPrinter, AbandonedCallReturns, Submit
  <2>2. CASE Progress(r)
    BY <2>2 DEF Progress
  <2> QED BY <1>9, <2>1, <2>2 DEF AdapterStep
<1>10. CASE Crash
  BY <1>10 DEF Crash
<1>11. CASE BootDone
  BY <1>11 DEF BootDone
<1>12. CASE UNCHANGED vars
  BY <1>12
<1>13. CASE Next
  BY <1>13, <1>1, <1>2, <1>3, <1>4, <1>5, <1>6, <1>7, <1>8, <1>9, <1>10, <1>11, NextCases
<1> QED BY <1>12, <1>13

LEMMA OwnedAlways ==
  ASSUME Reliable
  PROVE  Spec => [](Typed /\ Owned)
<1>1. Init => Typed /\ Owned
  BY TypedInit, OwnedInit
<1>2. Typed /\ Owned /\ [Next]_vars => (Typed /\ Owned)'
  BY TypedNext, OwnedNext
<1> QED BY <1>1, <1>2, PTL DEF Spec

(***************************************************************************)
(* The conditional claim works: the scheduler, direct calls and any number *)
(* of runners never own one job together, across crashes and recoveries.   *)
(***************************************************************************)
THEOREM ClaimIsExclusive ==
  ASSUME Reliable
  PROVE  Spec => []OneExecutor
<1>1. Typed /\ Owned => OneExecutor
  BY DEF Typed, TypeOK, Owned, Exclusive, Active, OneExecutor, ClaimantsOf
<1> QED BY <1>1, OwnedAlways, PTL

(* While an execution runs, nothing else has moved the row it will write. *)
THEOREM RunningRowIsOwned ==
  ASSUME Reliable
  PROVE  Spec => []ExecutorOwnsRow
<1>1. Owned => ExecutorOwnsRow
  BY DEF Owned, Marked, Active, ExecutorOwnsRow
<1> QED BY <1>1, OwnedAlways, PTL

-----------------------------------------------------------------------------
(***************************************************************************)
(* Refinement: every step of the gateway moves a row along one edge of the *)
(* documented state machine, or moves no row.                              *)
(***************************************************************************)
LEMMA StepFollowsLifecycle ==
  ASSUME Reliable, Typed, Owned, [Next]_vars
  PROVE  [Lifecycle!Next]_row
<1> USE DEF Reliable, Typed, TypeOK, Targeted, Owned, Marked, Active, InProgress,
            PreDispatch, MayHavePrinted, Terminal, Executable, Results,
            vars, store, memory, executor, field, news, paper, process, Goto
<1> DEFINE Edge(j, from, to) == row[j] \in from /\ row' = [row EXCEPT ![j] = to]
<1>a. ASSUME NEW j \in Jobs,
             \/ Edge(j, {"NONE"}, "ACCEPTED")
             \/ Edge(j, {"ACCEPTED"}, "VALIDATED")
             \/ Edge(j, {"ACCEPTED", "VALIDATED"}, "QUEUED")
             \/ Edge(j, PreDispatch, "CANCELLED")
             \/ Edge(j, Executable, "DISPATCHED")
             \/ Edge(j, {"DISPATCHED"}, "PRINTING")
             \/ \E s \in MayHavePrinted \union {"FAILED"} : Edge(j, InProgress, s)
      PROVE  Lifecycle!Next
  BY <1>a DEF Lifecycle!Next, Lifecycle!Accept, Lifecycle!Validate, Lifecycle!Queue,
              Lifecycle!Cancel, Lifecycle!Dispatch, Lifecycle!StartPrinting, Lifecycle!Resolve,
              Lifecycle!Move, Lifecycle!PreDispatch, Lifecycle!Dispatched,
              Lifecycle!MayHavePrinted, Lifecycle!Executable
<1>1. ASSUME NEW j \in Jobs, CreateStep(j) PROVE [Lifecycle!Next]_row
  BY <1>1, <1>a DEF CreateStep, Accept, Validate, PersistQueued, Enqueue, CreationAborts
<1>2. ASSUME NEW j \in Jobs, SchedulerStep(j) PROVE [Lifecycle!Next]_row
  BY <1>2 DEF SchedulerStep, Dequeue, TakeTurn
<1>3. ASSUME NEW j \in Jobs, CancelStep(j) PROVE [Lifecycle!Next]_row
  BY <1>3, <1>a DEF CancelStep, Cancel, RequestCancel, Cancellable
<1>4. ASSUME NEW j \in Jobs, PublishStep(j) PROVE [Lifecycle!Next]_row
  BY <1>4 DEF PublishStep, Publish, PublicationAborts
<1>5. ASSUME NEW j \in Jobs, BootStep(j) PROVE [Lifecycle!Next]_row
  BY <1>5, <1>a DEF BootStep, RecoverPreDispatch, RecoverStale, Rehydrate
<1>6. ASSUME NEW j \in Jobs, NEW c \in Calls, DirectExecute(c, j)
      PROVE  [Lifecycle!Next]_row
  BY <1>6 DEF DirectExecute
<1>7. ASSUME NEW j \in Jobs, NEW w \in Runners, RunnerStep(w, j)
      PROVE  [Lifecycle!Next]_row
  <2>1. CASE RunnerClaim(w, j)
    BY <2>1, <1>a DEF RunnerClaim
  <2>2. CASE RunnerPrints(w, j) \/ RunnerLosesJob(w, j)
    BY <2>2 DEF RunnerPrints, RunnerLosesJob
  <2>3. ASSUME NEW s \in Results, RunnerFinishes(w, j, s) \/ ResultLost(w, j, s)
        PROVE  [Lifecycle!Next]_row
    BY <2>3 DEF RunnerFinishes, ResultLost
  <2>4. ASSUME NEW s \in Results, ResultArrives(w, j, s)
        PROVE  [Lifecycle!Next]_row
    BY <2>4, <1>a DEF ResultArrives
  <2> QED BY <1>7, <2>1, <2>2, <2>3, <2>4 DEF RunnerStep
<1>8. ASSUME NEW r \in Runs, ExecutorStep(r) PROVE [Lifecycle!Next]_row
  <2>a. jobOf[r] \in Jobs
    BY <1>8 DEF ExecutorStep, ReadJob, Claim, Start, AdapterAnswers, AdapterThrows,
                Watchdog, Announce, BookkeepingFails
  <2>1. CASE Claim(r)
    BY <2>1, <2>a, <1>a DEF Claim
  <2>2. ASSUME NEW s \in MayHavePrinted \union {"FAILED"}, pc[r] = "running", Persist(r, s)
        PROVE  Lifecycle!Next
    BY <2>2, <2>a, <1>a DEF Persist
  <2>3. CASE AdapterAnswers(r) \/ AdapterThrows(r) \/ Watchdog(r)
    BY <2>3, <2>2 DEF AdapterAnswers, AdapterThrows, Watchdog
  <2>4. CASE ReadJob(r) \/ Start(r) \/ Announce(r) \/ BookkeepingFails(r)
    BY <2>4 DEF ReadJob, Start, Announce, BookkeepingFails
  <2> QED BY <1>8, <2>1, <2>3, <2>4 DEF ExecutorStep
<1>9. ASSUME NEW r \in Runs, AdapterStep(r) PROVE [Lifecycle!Next]_row
  <2>1. CASE GrantPrinter(r) \/ AbandonedCallReturns(r) \/ Submit(r)
    BY <2>1 DEF GrantPrinter, AbandonedCallReturns, Submit
  <2>2. CASE Progress(r)
    <3>1. jobOf[r] \in Jobs /\ row[jobOf[r]] \in {"DISPATCHED", "PRINTING"}
      BY <2>2 DEF Progress
    <3>2. row' = [row EXCEPT ![jobOf[r]] = "PRINTING"]
      BY <2>2 DEF Progress
    <3>3. CASE row[jobOf[r]] = "PRINTING"
      BY <3>1, <3>2, <3>3
    <3>4. CASE row[jobOf[r]] = "DISPATCHED"
      BY <3>1, <3>2, <3>4, <1>a
    <3> QED BY <3>1, <3>3, <3>4
  <2> QED BY <1>9, <2>1, <2>2 DEF AdapterStep
<1>10. CASE Crash
  BY <1>10 DEF Crash
<1>11. CASE BootDone
  BY <1>11 DEF BootDone
<1>12. CASE UNCHANGED vars
  BY <1>12
<1>13. CASE Next
  BY <1>13, <1>1, <1>2, <1>3, <1>4, <1>5, <1>6, <1>7, <1>8, <1>9, <1>10, <1>11, NextCases
<1> QED BY <1>12, <1>13

(***************************************************************************)
(* PrintJob implements JobLifecycle: with every crash, race, recovery and  *)
(* late answer, the status column only moves as documented.                *)
(***************************************************************************)
THEOREM LifecycleIsImplemented ==
  ASSUME Reliable
  PROVE  Spec => FollowsTheLifecycle
<1>1. Init => Lifecycle!Init
  BY DEF Init, Lifecycle!Init
<1>2. Typed /\ Owned /\ [Next]_vars => [Lifecycle!Next]_row
  BY StepFollowsLifecycle
<1> QED BY <1>1, <1>2, OwnedAlways, PTL DEF Spec, FollowsTheLifecycle, Lifecycle!Spec

(* An edge of the state machine never leaves a final status. *)
LEMMA LifecycleKeepsFinal ==
  ASSUME Typed, [Lifecycle!Next]_row, NEW j \in Jobs,
         row[j] \in MayHavePrinted \union {"CANCELLED"}
  PROVE  row'[j] = row[j]
BY DEF Typed, TypeOK, MayHavePrinted,
       Lifecycle!Next, Lifecycle!Accept, Lifecycle!Validate, Lifecycle!Queue,
       Lifecycle!Cancel, Lifecycle!Dispatch, Lifecycle!StartPrinting, Lifecycle!Resolve,
       Lifecycle!Move, Lifecycle!PreDispatch, Lifecycle!Dispatched, Lifecycle!Executable

(***************************************************************************)
(* Once a page may exist, or was promised not to, the row is settled: no   *)
(* progress call, result, cancellation or boot recovery moves it again.    *)
(***************************************************************************)
THEOREM FinalIsFinal ==
  ASSUME Reliable
  PROVE  Spec => FinalStatusIsFinal
<1>1. Typed /\ Owned /\ [Next]_vars =>
        [\A j \in Jobs : row[j] \in MayHavePrinted \union {"CANCELLED"} => row'[j] = row[j]]_vars
  BY StepFollowsLifecycle, LifecycleKeepsFinal
<1> QED BY <1>1, OwnedAlways, PTL DEF Spec, FinalStatusIsFinal

-----------------------------------------------------------------------------
(***************************************************************************)
(* What is announced stays true.  A verdict on its way to the event bus,   *)
(* in an execution or in a handler, already agrees with the row.           *)
(***************************************************************************)
InAgreement ==
  /\ AnnouncedStaysTrue
  /\ \A j \in Jobs, s \in Terminal : <<j, s>> \in pending /\ s # "FAILED" => row[j] = s
  /\ \A r \in Runs : pc[r] \in {"announcing", "handling"} /\ verdict[r] # "FAILED" =>
       row[jobOf[r]] = verdict[r]

Final == MayHavePrinted \union {"CANCELLED"}

LEMMA InAgreementNext ==
  ASSUME Reliable, Typed, Owned, InAgreement, [Next]_vars
  PROVE  InAgreement'
<1>1. \A j \in Jobs : row[j] \in Final => row'[j] = row[j]
  BY StepFollowsLifecycle, LifecycleKeepsFinal DEF Final
<1>0. \A s \in Terminal : s # "FAILED" => s \in Final
  BY DEF Terminal, Final
<1> DEFINE Kept ==
       /\ \A j \in Jobs, s \in Terminal : s \in heard'[j] /\ s # "FAILED" => row'[j] = s
       /\ \A j \in Jobs, s \in Terminal : <<j, s>> \in pending' /\ s # "FAILED" => row'[j] = s
       /\ \A r \in Runs : pc'[r] \in {"announcing", "handling"} /\ verdict'[r] # "FAILED" =>
            row'[jobOf'[r]] = verdict'[r]
<1> SUFFICES Kept
  <2>1. Typed'
    BY TypedNext
  <2> QED BY <2>1 DEF Typed, TypeOK, InAgreement, AnnouncedStaysTrue
<1> USE DEF Reliable, Typed, TypeOK, Targeted, InAgreement, AnnouncedStaysTrue,
            vars, store, memory, executor, field, news, paper, process, Goto
<1>2. ASSUME NEW j \in Jobs, CreateStep(j) PROVE Kept
  BY <1>0, <1>1, <1>2 DEF CreateStep, Accept, Validate, PersistQueued, Enqueue, CreationAborts
<1>3. ASSUME NEW j \in Jobs, SchedulerStep(j) PROVE Kept
  BY <1>0, <1>1, <1>3 DEF SchedulerStep, Dequeue, TakeTurn, Runs
<1>4. ASSUME NEW j \in Jobs, CancelStep(j) PROVE Kept
  BY <1>0, <1>1, <1>4 DEF CancelStep, Cancel, RequestCancel
<1>5. ASSUME NEW j \in Jobs, PublishStep(j) PROVE Kept
  BY <1>0, <1>1, <1>5 DEF PublishStep, Publish, PublicationAborts
<1>6. ASSUME NEW j \in Jobs, BootStep(j) PROVE Kept
  BY <1>0, <1>1, <1>6 DEF BootStep, RecoverPreDispatch, RecoverStale, Rehydrate
<1>7. ASSUME NEW j \in Jobs, NEW c \in Calls, DirectExecute(c, j) PROVE Kept
  BY <1>0, <1>1, <1>7 DEF DirectExecute, Runs
<1>8. ASSUME NEW j \in Jobs, NEW w \in Runners, RunnerStep(w, j) PROVE Kept
  <2>1. CASE RunnerClaim(w, j) \/ RunnerPrints(w, j) \/ RunnerLosesJob(w, j)
    BY <1>0, <1>1, <2>1 DEF RunnerClaim, RunnerPrints, RunnerLosesJob
  <2>2. ASSUME NEW s \in Results,
               RunnerFinishes(w, j, s) \/ ResultArrives(w, j, s) \/ ResultLost(w, j, s)
        PROVE  Kept
    BY <1>0, <1>1, <2>2 DEF RunnerFinishes, ResultArrives, ResultLost
  <2> QED BY <1>8, <2>1, <2>2 DEF RunnerStep
<1>9. ASSUME NEW r \in Runs, ExecutorStep(r) PROVE Kept
  <2>a. pc[r] # "idle" /\ jobOf[r] \in Jobs
    BY <1>9 DEF ExecutorStep, ReadJob, Claim, Start, AdapterAnswers, AdapterThrows,
                Watchdog, Announce, BookkeepingFails
  <2>1. CASE ReadJob(r) \/ Start(r)
    BY <1>0, <1>1, <2>1, <2>a DEF ReadJob, Start
  <2>2. CASE Claim(r)
    BY <1>0, <1>1, <2>2, <2>a DEF Claim
  <2>3. CASE AdapterAnswers(r)
    BY <1>0, <1>1, <2>3, <2>a DEF AdapterAnswers, Persist
  <2>4. CASE AdapterThrows(r)
    BY <1>0, <1>1, <2>4, <2>a DEF AdapterThrows, Persist
  <2>5. CASE Watchdog(r)
    BY <1>0, <1>1, <2>5, <2>a DEF Watchdog, Persist
  <2>6. CASE Announce(r)
    BY <1>0, <1>1, <2>6, <2>a DEF Announce
  <2>7. CASE BookkeepingFails(r)
    BY <2>7 DEF BookkeepingFails
  <2> QED BY <1>9, <2>1, <2>2, <2>3, <2>4, <2>5, <2>6, <2>7 DEF ExecutorStep
<1>10. ASSUME NEW r \in Runs, AdapterStep(r) PROVE Kept
  <2>1. CASE GrantPrinter(r) \/ AbandonedCallReturns(r) \/ Submit(r)
    BY <1>0, <1>1, <2>1 DEF GrantPrinter, AbandonedCallReturns, Submit
  <2>2. CASE Progress(r)
    BY <1>0, <1>1, <2>2 DEF Progress
  <2> QED BY <1>10, <2>1, <2>2 DEF AdapterStep
<1>11. CASE Crash
  BY <1>0, <1>1, <1>11 DEF Crash
<1>12. CASE BootDone
  BY <1>0, <1>1, <1>12 DEF BootDone
<1>13. CASE UNCHANGED vars
  BY <1>13
<1>14. CASE Next
  BY <1>14, <1>2, <1>3, <1>4, <1>5, <1>6, <1>7, <1>8, <1>9, <1>10, <1>11, <1>12, NextCases
<1> QED BY <1>13, <1>14

(***************************************************************************)
(* A caller that was told SUCCESS, UNVERIFIED, TIMEOUT or CANCELLED was    *)
(* told what the row says and will go on saying.                           *)
(***************************************************************************)
THEOREM AnnouncementsStayTrue ==
  ASSUME Reliable
  PROVE  Spec => []AnnouncedStaysTrue
<1>1. Init => InAgreement
  BY DEF Init, InAgreement, AnnouncedStaysTrue
<1>2. Typed /\ Owned /\ InAgreement /\ [Next]_vars => InAgreement'
  BY InAgreementNext
<1>3. InAgreement => AnnouncedStaysTrue
  BY DEF InAgreement
<1> QED BY <1>1, <1>2, <1>3, OwnedAlways, PTL DEF Spec

-----------------------------------------------------------------------------
(***************************************************************************)
(* Messages and rows.  The create handler persists before it enqueues and  *)
(* boot rebuilds the queue before it serves, so that the volatile queue    *)
(* never runs ahead of the durable row and never falls behind it.          *)
(***************************************************************************)
Backed ==
  /\ MessageIsDurable
  /\ NoLostJob
  /\ \A j \in creating : row[j] # "NONE"

LEMMA BackedNext ==
  ASSUME Typed, Backed, [Next]_vars
  PROVE  Backed'
<1> USE DEF Typed, TypeOK, Targeted, Backed, MessageIsDurable, NoLostJob,
            vars, store, memory, executor, field, news, paper, process, Goto
<1>1. ASSUME NEW j \in Jobs, CreateStep(j) PROVE Backed'
  <2>1. CASE Accept(j) \/ Validate(j)
    BY <2>1 DEF Accept, Validate
  <2>2. CASE PersistQueued(j)
    BY <2>2 DEF PersistQueued
  <2>3. CASE Enqueue(j) \/ CreationAborts(j)
    BY <2>3 DEF Enqueue, CreationAborts
  <2> QED BY <1>1, <2>1, <2>2, <2>3 DEF CreateStep
<1>2. ASSUME NEW j \in Jobs, SchedulerStep(j) PROVE Backed'
  BY <1>2 DEF SchedulerStep, Dequeue, TakeTurn, Runs
<1>3. ASSUME NEW j \in Jobs, CancelStep(j) PROVE Backed'
  BY <1>3 DEF CancelStep, Cancel, RequestCancel
<1>4. ASSUME NEW j \in Jobs, PublishStep(j) PROVE Backed'
  BY <1>4 DEF PublishStep, Publish, PublicationAborts
<1>5. ASSUME NEW j \in Jobs, BootStep(j) PROVE Backed'
  BY <1>5 DEF BootStep, RecoverPreDispatch, RecoverStale, Rehydrate, InProgress
<1>6. ASSUME NEW j \in Jobs, NEW c \in Calls, DirectExecute(c, j) PROVE Backed'
  BY <1>6, JobsAndCallsAreDistinct DEF DirectExecute, Runs
<1>7. ASSUME NEW j \in Jobs, NEW w \in Runners, RunnerStep(w, j) PROVE Backed'
  <2>1. CASE RunnerClaim(w, j) \/ RunnerPrints(w, j) \/ RunnerLosesJob(w, j)
    BY <2>1 DEF RunnerClaim, RunnerPrints, RunnerLosesJob
  <2>2. ASSUME NEW s \in Results,
               RunnerFinishes(w, j, s) \/ ResultArrives(w, j, s) \/ ResultLost(w, j, s)
        PROVE  Backed'
    BY <2>2 DEF RunnerFinishes, ResultArrives, ResultLost, Results
  <2> QED BY <1>7, <2>1, <2>2 DEF RunnerStep
<1>8. ASSUME NEW r \in Runs, ExecutorStep(r) PROVE Backed'
  <2>a. pc[r] # "idle" /\ jobOf[r] \in Jobs
    BY <1>8 DEF ExecutorStep, ReadJob, Claim, Start, AdapterAnswers, AdapterThrows,
                Watchdog, Announce, BookkeepingFails
  <2>1. CASE ReadJob(r)
    BY <2>1, <2>a DEF ReadJob, NotExecutable, Executable, PreDispatch, Runs
  <2>2. CASE Claim(r)
    BY <2>2, <2>a DEF Claim, Executable, PreDispatch, Runs
  <2>3. CASE Start(r)
    BY <2>3, <2>a DEF Start, Runs
  <2>4. CASE Announce(r)
    BY <2>4, <2>a DEF Announce, Runs
  <2>5. ASSUME NEW s \in MayHavePrinted \union {"FAILED"}, NEW l \in {"announcing", "handling"},
               pc[r] \in {"running", "announcing"}, Persist(r, s), Goto(r, l),
               UNCHANGED <<memory, up>>
        PROVE  Backed'
    BY <2>5, <2>a DEF Persist, MayHavePrinted, Runs
  <2>6. CASE AdapterAnswers(r) \/ AdapterThrows(r) \/ Watchdog(r)
    BY <2>5, <2>6 DEF AdapterAnswers, AdapterThrows, Watchdog, MayHavePrinted, Results
  <2>7. CASE BookkeepingFails(r)
    <3>1. CASE pc[r] = "announcing"
      BY <2>5, <2>7, <3>1 DEF BookkeepingFails, MayHavePrinted
    <3>2. CASE pc[r] = "handling"
      BY <2>7, <3>2, <2>a DEF BookkeepingFails, Runs
    <3> QED BY <2>7, <3>1, <3>2 DEF BookkeepingFails
  <2> QED BY <1>8, <2>1, <2>2, <2>3, <2>4, <2>6, <2>7 DEF ExecutorStep
<1>9. ASSUME NEW r \in Runs, AdapterStep(r) PROVE Backed'
  <2>1. CASE GrantPrinter(r) \/ AbandonedCallReturns(r) \/ Submit(r)
    BY <2>1 DEF GrantPrinter, AbandonedCallReturns, Submit
  <2>2. CASE Progress(r)
    BY <2>2 DEF Progress
  <2> QED BY <1>9, <2>1, <2>2 DEF AdapterStep
<1>10. CASE Crash
  BY <1>10 DEF Crash
<1>11. CASE BootDone
  BY <1>11 DEF BootDone
<1>12. CASE UNCHANGED vars
  BY <1>12
<1>13. CASE Next
  BY <1>13, <1>1, <1>2, <1>3, <1>4, <1>5, <1>6, <1>7, <1>8, <1>9, <1>10, <1>11, NextCases
<1> QED BY <1>12, <1>13

LEMMA BackedAlways == Spec => []Backed
<1>1. Init => Typed /\ Backed
  BY TypedInit DEF Init, Backed, MessageIsDurable, NoLostJob
<1>2. Typed /\ Backed /\ [Next]_vars => (Typed /\ Backed)'
  BY TypedNext, BackedNext
<1> QED BY <1>1, <1>2, PTL DEF Spec

(***************************************************************************)
(* On the desktop, whenever requests are served, every QUEUED row has its  *)
(* message or its place on the chain: after any number of crashes, and     *)
(* whichever writes to the traces or the audit log were rejected.          *)
(***************************************************************************)
THEOREM NoQueuedJobIsLost == Spec => []NoLostJob
BY BackedAlways, PTL DEF Backed

(* No message is ever ahead of the row it stands for. *)
THEOREM MessagesAreDurable == Spec => []MessageIsDurable
BY BackedAlways, PTL DEF Backed

(***************************************************************************)
(* The scheduler's execution of job j bears the name of the job; that is   *)
(* sound only if no second message of j can reach the chain meanwhile.     *)
(***************************************************************************)
OneTurn == \A j \in queue : pc[j] = "idle"

Fresh ==
  /\ \A j \in creating \union queue : row[j] # "NONE" /\ pc[j] = "idle"
  /\ \A j \in Jobs : row[j] = "NONE" => pc[j] = "idle"
  /\ creating \intersect queue = {}
  /\ up = "booting" => creating = {} /\ \A j \in Jobs : pc[j] = "idle"

LEMMA FreshNext ==
  ASSUME Typed, Fresh, [Next]_vars
  PROVE  Fresh'
<1> USE DEF Typed, TypeOK, Targeted, Fresh,
            vars, store, memory, executor, field, news, paper, process, Goto
<1>1. ASSUME NEW j \in Jobs, CreateStep(j) PROVE Fresh'
  BY <1>1, JobsAndCallsAreDistinct DEF CreateStep, Accept, Validate, PersistQueued, Enqueue,
     CreationAborts
<1>2. ASSUME NEW j \in Jobs, SchedulerStep(j) PROVE Fresh'
  <2>1. CASE Dequeue(j)
    BY <2>1 DEF Dequeue, Runs
  <2>2. CASE TakeTurn(j)
    BY <2>2 DEF TakeTurn, Runs
  <2> QED BY <1>2, <2>1, <2>2 DEF SchedulerStep
<1>3. ASSUME NEW j \in Jobs, CancelStep(j) PROVE Fresh'
  BY <1>3 DEF CancelStep, Cancel, RequestCancel, Cancellable, PreDispatch
<1>4. ASSUME NEW j \in Jobs, PublishStep(j) PROVE Fresh'
  BY <1>4 DEF PublishStep, Publish, PublicationAborts
<1>5. ASSUME NEW j \in Jobs, BootStep(j) PROVE Fresh'
  BY <1>5 DEF BootStep, RecoverPreDispatch, RecoverStale, Rehydrate, InProgress
<1>6. ASSUME NEW j \in Jobs, NEW c \in Calls, DirectExecute(c, j) PROVE Fresh'
  BY <1>6, JobsAndCallsAreDistinct DEF DirectExecute, Runs
<1>7. ASSUME NEW j \in Jobs, NEW w \in Runners, RunnerStep(w, j) PROVE Fresh'
  <2>1. CASE RunnerClaim(w, j) \/ RunnerPrints(w, j) \/ RunnerLosesJob(w, j)
    BY <2>1 DEF RunnerClaim, RunnerPrints, RunnerLosesJob
  <2>2. ASSUME NEW s \in Results,
               RunnerFinishes(w, j, s) \/ ResultArrives(w, j, s) \/ ResultLost(w, j, s)
        PROVE  Fresh'
    BY <2>2 DEF RunnerFinishes, ResultArrives, ResultLost, Results
  <2> QED BY <1>7, <2>1, <2>2 DEF RunnerStep
<1>8. ASSUME NEW r \in Runs, ExecutorStep(r) PROVE Fresh'
  <2>1. /\ pc[r] # "idle"
        /\ \E l \in PCs : pc' = [pc EXCEPT ![r] = l]
        /\ creating' = creating /\ queue' = queue /\ up' = up
    BY <1>8 DEF ExecutorStep, ReadJob, Claim, Start, AdapterAnswers, AdapterThrows,
                Watchdog, Announce, BookkeepingFails, PCs, Busy
  <2>2. row' = row \/ \E s \in Statuses \ {"NONE"} : row' = [row EXCEPT ![jobOf[r]] = s]
    BY <1>8 DEF ExecutorStep, ReadJob, Claim, Start, AdapterAnswers, AdapterThrows,
                Watchdog, Announce, BookkeepingFails, Persist, Statuses, Terminal,
                MayHavePrinted, Results
  <2> QED BY <2>1, <2>2 DEF Runs
<1>9. ASSUME NEW r \in Runs, AdapterStep(r) PROVE Fresh'
  <2>1. CASE GrantPrinter(r) \/ AbandonedCallReturns(r) \/ Submit(r)
    BY <2>1 DEF GrantPrinter, AbandonedCallReturns, Submit
  <2>2. CASE Progress(r)
    BY <2>2 DEF Progress
  <2> QED BY <1>9, <2>1, <2>2 DEF AdapterStep
<1>10. CASE Crash
  BY <1>10 DEF Crash, Runs
<1>11. CASE BootDone
  BY <1>11 DEF BootDone
<1>12. CASE UNCHANGED vars
  BY <1>12
<1>13. CASE Next
  BY <1>13, <1>1, <1>2, <1>3, <1>4, <1>5, <1>6, <1>7, <1>8, <1>9, <1>10, <1>11, NextCases
<1> QED BY <1>12, <1>13

LEMMA FreshAlways == Spec => [](Typed /\ Fresh)
<1>1. Init => Typed /\ Fresh
  BY TypedInit DEF Init, Fresh, Runs
<1>2. Typed /\ Fresh /\ [Next]_vars => (Typed /\ Fresh)'
  BY TypedNext, FreshNext
<1> QED BY <1>1, <1>2, PTL DEF Spec

(* The queue holds no message of a job that is on the chain or executed by *)
(* the scheduler, so one process executes each of its messages once.       *)
THEOREM OneTurnPerMessage == Spec => []OneTurn
<1>1. Fresh => OneTurn
  BY DEF Fresh, OneTurn
<1> QED BY <1>1, FreshAlways, PTL

-----------------------------------------------------------------------------
(***************************************************************************)
(* Pages.  OnePagePerVerdict counts documents on the wire; what has to be  *)
(* bounded is those plus the ones that may still follow: an execution      *)
(* between its claim and its submission (the watchdog may long have        *)
(* declared it FAILED) and a job in a runner's hands.  Budgeted allows one *)
(* of them for each FAILED verdict, and one more only once the row has     *)
(* left the statuses a claim starts from: a claim spends what it grants,   *)
(* and only a FAILED verdict, which adds to the failures, leads back.      *)
(***************************************************************************)
MayYetPrint(j) ==
  {r \in Runs : jobOf[r] = j /\ (pc[r] = "starting" \/ dev[r] \in {"waiting", "working"})}
    \union {w \in Runners : <<w, j>> \in held}

Pages(j)     == printed[j] \union MayYetPrint(j)
Allowance(j) == failures[j] + (IF row[j] \in Executable \union {"NONE"} THEN 0 ELSE 1)

Budgeted == \A j \in Jobs : IsFiniteSet(Pages(j)) /\ Cardinality(Pages(j)) <= Allowance(j)

LEMMA AllowanceIsNat ==
  ASSUME TypeOK, NEW j \in Jobs
  PROVE  Allowance(j) \in Nat
BY DEF TypeOK, Allowance

(* A set with at most one element that the other does not have. *)
LEMMA AtMostOneMore ==
  ASSUME NEW S, IsFiniteSet(S), NEW x, NEW T, T \subseteq S \union {x}
  PROVE  IsFiniteSet(T) /\ Cardinality(T) <= Cardinality(S) + 1
<1>a. Cardinality(S) \in Nat
  BY FS_CardinalityType
<1>b. /\ IsFiniteSet(S \union {x})
      /\ Cardinality(S \union {x}) = IF x \in S THEN Cardinality(S) ELSE Cardinality(S) + 1
  BY FS_AddElement, Zenon
<1>1. IsFiniteSet(S \union {x}) /\ Cardinality(S \union {x}) <= Cardinality(S) + 1
  BY <1>a, <1>b
<1>2. T \in SUBSET (S \union {x})
  OBVIOUS
<1>3. IsFiniteSet(T) /\ Cardinality(T) <= Cardinality(S \union {x})
  BY <1>1, <1>2, FS_Subset
<1>4. /\ Cardinality(S) \in Nat
      /\ Cardinality(T) \in Nat
      /\ Cardinality(S \union {x}) \in Nat
  BY <1>1, <1>3, FS_CardinalityType
<1> QED BY <1>1, <1>3, <1>4

(* The two ways a step keeps a job within its budget. *)
LEMMA NoNewPage ==
  ASSUME Typed, Typed', Budgeted, NEW j \in Jobs,
         Pages(j)' \subseteq Pages(j), Allowance(j) <= Allowance(j)'
  PROVE  IsFiniteSet(Pages(j)') /\ Cardinality(Pages(j)') <= Allowance(j)'
<1>1. IsFiniteSet(Pages(j)) /\ Cardinality(Pages(j)) <= Allowance(j)
  BY DEF Budgeted
<1>2. Allowance(j) \in Nat /\ Allowance(j)' \in Nat
  BY AllowanceIsNat DEF Typed, TypeOK, Allowance
<1>3. Pages(j)' \in SUBSET Pages(j)
  OBVIOUS
<1>4. IsFiniteSet(Pages(j)') /\ Cardinality(Pages(j)') <= Cardinality(Pages(j))
  BY <1>1, <1>3, FS_Subset
<1>5. Cardinality(Pages(j)) \in Nat /\ Cardinality(Pages(j)') \in Nat
  BY <1>1, <1>4, FS_CardinalityType
<1> QED BY <1>1, <1>2, <1>4, <1>5

LEMMA OneNewPage ==
  ASSUME Typed, Typed', Budgeted, NEW j \in Jobs, NEW x,
         Pages(j)' \subseteq Pages(j) \union {x}, Allowance(j)' = Allowance(j) + 1
  PROVE  IsFiniteSet(Pages(j)') /\ Cardinality(Pages(j)') <= Allowance(j)'
<1>1. IsFiniteSet(Pages(j)) /\ Cardinality(Pages(j)) <= Allowance(j)
  BY DEF Budgeted
<1>2. Allowance(j) \in Nat
  BY AllowanceIsNat DEF Typed
<1>3. IsFiniteSet(Pages(j)') /\ Cardinality(Pages(j)') <= Cardinality(Pages(j)) + 1
  BY <1>1, AtMostOneMore
<1>4. Cardinality(Pages(j)) \in Nat /\ Cardinality(Pages(j)') \in Nat
  BY <1>1, <1>3, FS_CardinalityType
<1> QED BY <1>1, <1>2, <1>3, <1>4

(* What a step may do to the pages of a job. *)
WithinBudget(j) ==
  \/ Pages(j)' \subseteq Pages(j) /\ Allowance(j) <= Allowance(j)'
  \/ /\ \E x : Pages(j)' \subseteq Pages(j) \union {x}
     /\ Allowance(j)' = Allowance(j) + 1

(* A step that moves no page, and rows only within the statuses a claim    *)
(* starts from or out of them, keeps every job within its budget.          *)
LEMMA QuietStep ==
  ASSUME Typed, Typed', UNCHANGED <<jobOf, held, printed, failures>>,
         \A r \in Runs : /\ pc'[r] = "starting" => pc[r] = "starting"
                         /\ dev'[r] \in {"waiting", "working"} =>
                              dev[r] \in {"waiting", "working"},
         \A j \in Jobs : \/ row'[j] = row[j]
                         \/ row[j] \in Executable \union {"NONE"}
                         \/ row'[j] \notin Executable \union {"NONE"}
  PROVE  \A j \in Jobs : WithinBudget(j)
<1> TAKE j \in Jobs
<1>1. Pages(j)' \subseteq Pages(j)
  BY DEF Pages, MayYetPrint
<1>2. Allowance(j) <= Allowance(j)'
  BY DEF Allowance, Typed, TypeOK
<1> QED BY <1>1, <1>2 DEF WithinBudget

(* A verdict, FAILED being counted as it is persisted. *)
LEMMA VerdictStep ==
  ASSUME Typed, Typed', UNCHANGED <<jobOf, held, printed>>,
         \A r \in Runs : /\ pc'[r] = "starting" => pc[r] = "starting"
                         /\ dev'[r] \in {"waiting", "working"} =>
                              dev[r] \in {"waiting", "working"},
         NEW i \in Jobs, NEW s \in MayHavePrinted \union {"FAILED"},
         row' = [row EXCEPT ![i] = s],
         failures' = [failures EXCEPT ![i] = @ + (IF s = "FAILED" THEN 1 ELSE 0)]
  PROVE  \A j \in Jobs : WithinBudget(j)
<1> TAKE j \in Jobs
<1>1. Pages(j)' \subseteq Pages(j)
  BY DEF Pages, MayYetPrint
<1>2. Allowance(j) <= Allowance(j)'
  BY DEF Allowance, Typed, TypeOK, MayHavePrinted, Executable, PreDispatch
<1> QED BY <1>1, <1>2 DEF WithinBudget

LEMMA StepStaysWithinBudget ==
  ASSUME Typed, Typed', Untouched, [Next]_vars
  PROVE  \A j \in Jobs : WithinBudget(j)
<1> USE DEF vars, store, memory, executor, field, news, paper, process, Goto,
            Executable, PreDispatch
<1> DEFINE Goal == \A j \in Jobs : WithinBudget(j)
<1> HIDE DEF Goal
<1>a. TypeOK /\ Targeted
  BY DEF Typed
<1>1. ASSUME NEW j \in Jobs, CreateStep(j) PROVE Goal
  BY <1>1, <1>a, QuietStep DEF Goal, TypeOK, CreateStep, Accept, Validate, PersistQueued,
     Enqueue, CreationAborts
<1>2. ASSUME NEW j \in Jobs, SchedulerStep(j) PROVE Goal
  BY <1>2, <1>a, QuietStep DEF Goal, TypeOK, SchedulerStep, Dequeue, TakeTurn, Runs
<1>3. ASSUME NEW j \in Jobs, CancelStep(j) PROVE Goal
  BY <1>3, <1>a, QuietStep DEF Goal, TypeOK, CancelStep, Cancel, RequestCancel, Cancellable
<1>4. ASSUME NEW j \in Jobs, PublishStep(j) PROVE Goal
  BY <1>4, <1>a, QuietStep DEF Goal, PublishStep, Publish, PublicationAborts
<1>5. ASSUME NEW j \in Jobs, BootStep(j) PROVE Goal
  BY <1>5, <1>a, QuietStep DEF Goal, TypeOK, BootStep, RecoverPreDispatch, RecoverStale,
     Rehydrate
<1>6. ASSUME NEW j \in Jobs, NEW c \in Calls, DirectExecute(c, j) PROVE Goal
  <2>1. c \in Runs /\ pc[c] = "idle" /\ dev[c] = "none"
    BY <1>6 DEF DirectExecute, Untouched, Runs
  <2>2. /\ pc' = [pc EXCEPT ![c] = "reading"]
        /\ jobOf' = [jobOf EXCEPT ![c] = j]
        /\ UNCHANGED <<row, dev, held, printed, failures>>
    BY <1>6 DEF DirectExecute
  <2> SUFFICES ASSUME NEW i \in Jobs PROVE WithinBudget(i)
    BY DEF Goal
  <2>3. Pages(i)' \subseteq Pages(i)
    BY <2>1, <2>2, <1>a DEF Pages, MayYetPrint, TypeOK
  <2>4. Allowance(i)' = Allowance(i) /\ Allowance(i) \in Nat
    BY <2>2, <1>a, AllowanceIsNat DEF Allowance
  <2> QED BY <2>3, <2>4 DEF WithinBudget
<1>7. ASSUME NEW j \in Jobs, NEW w \in Runners, RunnerStep(w, j) PROVE Goal
  <2>1. CASE RunnerClaim(w, j)
    <3> SUFFICES ASSUME NEW i \in Jobs PROVE WithinBudget(i)
      BY DEF Goal
    <3>1. CASE i = j
      <4>1. Pages(i)' \subseteq Pages(i) \union {w}
        BY <2>1, <3>1 DEF RunnerClaim, Pages, MayYetPrint
      <4>2. Allowance(i)' = Allowance(i) + 1
        BY <2>1, <3>1, <1>a DEF RunnerClaim, Allowance, TypeOK
      <4> QED BY <4>1, <4>2 DEF WithinBudget
    <3>2. CASE i # j
      <4>1. Pages(i)' \subseteq Pages(i)
        BY <2>1, <3>2 DEF RunnerClaim, Pages, MayYetPrint
      <4>2. Allowance(i)' = Allowance(i) /\ Allowance(i) \in Nat
        BY <2>1, <3>2, <1>a, AllowanceIsNat DEF RunnerClaim, Allowance, TypeOK
      <4> QED BY <4>1, <4>2 DEF WithinBudget
    <3> QED BY <3>1, <3>2
  <2>2. CASE RunnerPrints(w, j)
    <3> SUFFICES ASSUME NEW i \in Jobs PROVE WithinBudget(i)
      BY DEF Goal
    <3>1. Pages(i)' \subseteq Pages(i)
      BY <2>2, <1>a DEF RunnerPrints, Pages, MayYetPrint, TypeOK
    <3>2. Allowance(i)' = Allowance(i) /\ Allowance(i) \in Nat
      BY <2>2, <1>a, AllowanceIsNat DEF RunnerPrints, Allowance
    <3> QED BY <3>1, <3>2 DEF WithinBudget
  <2>3. ASSUME UNCHANGED <<row, failures, pc, jobOf, dev, printed>>, held' \subseteq held
        PROVE  Goal
    <3> SUFFICES ASSUME NEW i \in Jobs PROVE WithinBudget(i)
      BY DEF Goal
    <3>1. Pages(i)' \subseteq Pages(i)
      BY <2>3 DEF Pages, MayYetPrint
    <3>2. Allowance(i)' = Allowance(i) /\ Allowance(i) \in Nat
      BY <2>3, <1>a, AllowanceIsNat DEF Allowance
    <3> QED BY <3>1, <3>2 DEF WithinBudget
  <2>4. CASE RunnerLosesJob(w, j)
    BY <2>4, <2>3 DEF RunnerLosesJob
  <2>5. ASSUME NEW s \in Results, RunnerFinishes(w, j, s) \/ ResultLost(w, j, s) PROVE Goal
    BY <2>5, <2>3 DEF RunnerFinishes, ResultLost
  <2>6. ASSUME NEW s \in Results, ResultArrives(w, j, s) PROVE Goal
    <3>1. CASE row[j] \in InProgress
      BY <2>6, <3>1, VerdictStep DEF Goal, ResultArrives, Results, MayHavePrinted
    <3>2. CASE row[j] \notin InProgress
      BY <2>6, <3>2, <2>3 DEF ResultArrives
    <3> QED BY <3>1, <3>2
  <2> QED BY <1>7, <2>1, <2>2, <2>4, <2>5, <2>6 DEF RunnerStep
<1>8. ASSUME NEW r \in Runs, ExecutorStep(r) PROVE Goal
  <2>a. jobOf[r] \in Jobs
    BY <1>8, <1>a DEF Targeted, ExecutorStep, ReadJob, Claim, Start, AdapterAnswers,
       AdapterThrows, Watchdog, Announce, BookkeepingFails
  <2>1. CASE ReadJob(r) \/ Announce(r)
    BY <2>1, <1>a, QuietStep DEF Goal, TypeOK, ReadJob, Announce
  <2>2. CASE Claim(r)
    <3>1. CASE row[jobOf[r]] \in Executable
      <4>1. /\ row' = [row EXCEPT ![jobOf[r]] = "DISPATCHED"]
            /\ pc' = [pc EXCEPT ![r] = "starting"]
            /\ UNCHANGED <<jobOf, dev, held, printed, failures>>
        BY <2>2, <3>1 DEF Claim
      <4> SUFFICES ASSUME NEW i \in Jobs PROVE WithinBudget(i)
        BY DEF Goal
      <4>2. CASE i = jobOf[r]
        <5>1. Pages(i)' \subseteq Pages(i) \union {r}
          BY <4>1, <1>a DEF Pages, MayYetPrint, TypeOK
        <5>2. Allowance(i)' = Allowance(i) + 1
          BY <4>1, <4>2, <3>1, <1>a DEF Allowance, TypeOK
        <5> QED BY <5>1, <5>2 DEF WithinBudget
      <4>3. CASE i # jobOf[r]
        <5>1. Pages(i)' \subseteq Pages(i)
          BY <4>1, <4>3, <1>a DEF Pages, MayYetPrint, TypeOK
        <5>2. Allowance(i)' = Allowance(i) /\ Allowance(i) \in Nat
          BY <4>1, <4>3, <1>a, AllowanceIsNat DEF Allowance, TypeOK
        <5> QED BY <5>1, <5>2 DEF WithinBudget
      <4> QED BY <4>2, <4>3
    <3>2. CASE row[jobOf[r]] \notin Executable
      BY <2>2, <3>2, <1>a, QuietStep DEF Goal, TypeOK, Claim
    <3> QED BY <3>1, <3>2
  <2>3. CASE Start(r)
    <3>1. /\ pc[r] = "starting"
          /\ \/ pc' = [pc EXCEPT ![r] = "running"] /\ dev' = [dev EXCEPT ![r] = "waiting"]
             \/ pc' = [pc EXCEPT ![r] = "over"] /\ dev' = dev
          /\ UNCHANGED <<row, jobOf, held, printed, failures>>
      BY <2>3 DEF Start
    <3> SUFFICES ASSUME NEW i \in Jobs PROVE WithinBudget(i)
      BY DEF Goal
    <3>2. Pages(i)' \subseteq Pages(i)
      BY <3>1, <1>a DEF Pages, MayYetPrint, TypeOK
    <3>3. Allowance(i)' = Allowance(i) /\ Allowance(i) \in Nat
      BY <3>1, <1>a, AllowanceIsNat DEF Allowance
    <3> QED BY <3>2, <3>3 DEF WithinBudget
  <2>4. ASSUME NEW s \in MayHavePrinted \union {"FAILED"}, Persist(r, s),
               NEW l \in {"announcing", "handling"}, pc' = [pc EXCEPT ![r] = l],
               dev' = dev \/ dev' = [dev EXCEPT ![r] = "returned"],
               UNCHANGED <<jobOf, held, printed>>
        PROVE  Goal
    <3>1. /\ row' = [row EXCEPT ![jobOf[r]] = s]
          /\ failures' = [failures EXCEPT ![jobOf[r]] = @ + (IF s = "FAILED" THEN 1 ELSE 0)]
      BY <2>4 DEF Persist
    <3>2. \A k \in Runs : /\ pc'[k] = "starting" => pc[k] = "starting"
                          /\ dev'[k] \in {"waiting", "working"} =>
                               dev[k] \in {"waiting", "working"}
      BY <2>4, <1>a DEF TypeOK
    <3> QED BY <2>4, <2>a, <3>1, <3>2, VerdictStep DEF Goal
  <2>5. CASE AdapterAnswers(r)
    <3>1. PICK s \in Results : Persist(r, s)
      BY <2>5 DEF AdapterAnswers
    <3>2. s \in MayHavePrinted \union {"FAILED"}
      BY DEF Results, MayHavePrinted
    <3> QED BY <2>5, <2>4, <3>1, <3>2 DEF AdapterAnswers
  <2>6. CASE AdapterThrows(r)
    <3>1. (IF accepted[r] THEN "UNVERIFIED" ELSE "FAILED") \in MayHavePrinted \union {"FAILED"}
      BY DEF MayHavePrinted
    <3> QED BY <2>6, <2>4, <3>1 DEF AdapterThrows
  <2>7. CASE Watchdog(r)
    <3>1. (IF accepted[r] THEN "TIMEOUT" ELSE "FAILED") \in MayHavePrinted \union {"FAILED"}
      BY DEF MayHavePrinted
    <3> QED BY <2>7, <2>4, <3>1 DEF Watchdog
  <2>8. CASE BookkeepingFails(r)
    <3>1. (IF accepted[r] THEN "UNVERIFIED" ELSE "FAILED") \in MayHavePrinted \union {"FAILED"}
      BY DEF MayHavePrinted
    <3>2. CASE pc[r] = "announcing"
      BY <2>8, <2>4, <3>1, <3>2 DEF BookkeepingFails
    <3>3. CASE pc[r] = "handling"
      BY <2>8, <3>3, <1>a, QuietStep DEF Goal, TypeOK, BookkeepingFails
    <3> QED BY <2>8, <3>2, <3>3 DEF BookkeepingFails
  <2> QED BY <1>8, <2>1, <2>2, <2>3, <2>5, <2>6, <2>7, <2>8 DEF ExecutorStep
<1>9. ASSUME NEW r \in Runs, AdapterStep(r) PROVE Goal
  <2>1. CASE GrantPrinter(r) \/ AbandonedCallReturns(r)
    BY <2>1, <1>a, QuietStep DEF Goal, TypeOK, GrantPrinter, AbandonedCallReturns
  <2>2. CASE Submit(r)
    <3>1. /\ dev[r] = "working"
          /\ dev' = [dev EXCEPT ![r] = "submitted"]
          /\ printed' = [printed EXCEPT ![jobOf[r]] = @ \union {r}]
          /\ UNCHANGED <<row, pc, jobOf, held, failures>>
      BY <2>2 DEF Submit
    <3> SUFFICES ASSUME NEW i \in Jobs PROVE WithinBudget(i)
      BY DEF Goal
    <3>2. Pages(i)' \subseteq Pages(i)
      BY <3>1, <1>a DEF Pages, MayYetPrint, TypeOK
    <3>3. Allowance(i)' = Allowance(i) /\ Allowance(i) \in Nat
      BY <3>1, <1>a, AllowanceIsNat DEF Allowance
    <3> QED BY <3>2, <3>3 DEF WithinBudget
  <2>3. CASE Progress(r)
    <3>1. UNCHANGED <<pc, dev, jobOf, held, printed, failures>>
      BY <2>3 DEF Progress
    <3>2. \A j \in Jobs : row'[j] = row[j] \/ row'[j] \notin Executable \union {"NONE"}
      BY <2>3, <1>a DEF Progress, TypeOK
    <3> QED BY <3>1, <3>2, QuietStep DEF Goal
  <2> QED BY <1>9, <2>1, <2>2, <2>3 DEF AdapterStep
<1>10. CASE Crash
  <2>1. PICK S \in SUBSET {r \in Runs : dev[r] = "working"} :
          printed' = [j \in Jobs |-> printed[j] \union {r \in S : jobOf[r] = j}]
    BY <1>10 DEF Crash
  <2>2. /\ \A r \in Runs : pc'[r] # "starting" /\ dev'[r] \notin {"waiting", "working"}
        /\ UNCHANGED <<row, jobOf, held, failures>>
    BY <1>10 DEF Crash
  <2> SUFFICES ASSUME NEW i \in Jobs PROVE WithinBudget(i)
    BY DEF Goal
  <2>3. Pages(i)' \subseteq Pages(i)
    BY <2>1, <2>2 DEF Pages, MayYetPrint
  <2>4. Allowance(i)' = Allowance(i) /\ Allowance(i) \in Nat
    BY <2>2, <1>a, AllowanceIsNat DEF Allowance
  <2> QED BY <2>3, <2>4 DEF WithinBudget
<1>11. CASE BootDone
  BY <1>11, QuietStep DEF Goal, BootDone
<1>12. CASE UNCHANGED vars
  BY <1>12, QuietStep DEF Goal
<1>13. CASE Next
  BY <1>13, <1>1, <1>2, <1>3, <1>4, <1>5, <1>6, <1>7, <1>8, <1>9, <1>10, <1>11, NextCases
     DEF Goal
<1> QED BY <1>12, <1>13 DEF Goal

LEMMA BudgetedInit == Init => Budgeted
<1> SUFFICES ASSUME Init, NEW j \in Jobs
             PROVE  IsFiniteSet(Pages(j)) /\ Cardinality(Pages(j)) <= Allowance(j)
  BY DEF Budgeted
<1>1. Pages(j) = {}
  BY DEF Init, Pages, MayYetPrint
<1>2. Allowance(j) = 0
  BY DEF Init, Allowance
<1> QED BY <1>1, <1>2, FS_EmptySet

LEMMA BudgetedNext ==
  ASSUME Typed, Untouched, Budgeted, [Next]_vars
  PROVE  Budgeted'
<1>1. Typed'
  BY TypedNext
<1>2. ASSUME NEW j \in Jobs
      PROVE  IsFiniteSet(Pages(j)') /\ Cardinality(Pages(j)') <= Allowance(j)'
  BY <1>1, StepStaysWithinBudget, NoNewPage, OneNewPage DEF WithinBudget
<1> QED BY <1>2 DEF Budgeted

(***************************************************************************)
(* However schedulers, direct calls, runners, abandoned adapter calls and  *)
(* restarts interleave, and whichever bookkeeping writes are rejected, a   *)
(* job has at most one document on the wire more than FAILED verdicts.     *)
(***************************************************************************)
THEOREM OnePageForEachVerdict == Spec => []OnePagePerVerdict
<1>1. Init => Typed /\ Untouched /\ Budgeted
  BY TypedInit, UntouchedInit, BudgetedInit
<1>2. Typed /\ Untouched /\ Budgeted /\ [Next]_vars => (Typed /\ Untouched /\ Budgeted)'
  BY TypedNext, UntouchedNext, BudgetedNext
<1>3. Typed /\ Budgeted => OnePagePerVerdict
  <2> SUFFICES ASSUME Typed, Budgeted, NEW j \in Jobs
               PROVE  Cardinality(printed[j]) <= failures[j] + 1
    BY DEF OnePagePerVerdict
  <2>1. IsFiniteSet(Pages(j)) /\ Cardinality(Pages(j)) <= Allowance(j)
    BY DEF Budgeted
  <2>2. printed[j] \in SUBSET Pages(j)
    BY DEF Pages
  <2>3. IsFiniteSet(printed[j]) /\ Cardinality(printed[j]) <= Cardinality(Pages(j))
    BY <2>1, <2>2, FS_Subset
  <2>4. Cardinality(printed[j]) \in Nat /\ Cardinality(Pages(j)) \in Nat
    BY <2>1, <2>3, FS_CardinalityType
  <2>5. failures[j] \in Nat /\ Allowance(j) <= failures[j] + 1
    BY DEF Typed, TypeOK, Allowance
  <2>6. Allowance(j) \in Nat
    BY AllowanceIsNat DEF Typed
  <2> QED BY <2>1, <2>3, <2>4, <2>5, <2>6
<1> QED BY <1>1, <1>2, <1>3, PTL DEF Spec

-----------------------------------------------------------------------------
(***************************************************************************)
(* What a verdict says of the paper.  SUCCESS and TIMEOUT are written, and *)
(* announced, by whoever saw the document go; the evidence is passed from  *)
(* the adapter call to the execution, or from the runner to its result and *)
(* the handler that publishes it.  Grounded says that each holder has it.  *)
(***************************************************************************)
Certain == {"SUCCESS", "TIMEOUT"}

CertainIsOnPaper ==
  \A j \in Jobs : row[j] \in Certain \/ heard[j] \intersect Certain # {} => printed[j] # {}

Grounded ==
  /\ \A r \in Runs : dev[r] = "submitted" \/ accepted[r] => r \in printed[jobOf[r]]
  /\ \A r \in Runs : pc[r] = "idle" => ~accepted[r]
  /\ \A r \in Runs : pc[r] \in {"announcing", "handling"} /\ verdict[r] \in Certain =>
       printed[jobOf[r]] # {}
  /\ \A w \in Runners, j \in Jobs : <<w, j, "SUCCESS">> \in wire => w \in printed[j]
  /\ \A j \in Jobs, s \in Certain : <<j, s>> \in pending => printed[j] # {}
  /\ CertainIsOnPaper

LEMMA GroundedInit == Init => Grounded
BY DEF Init, Grounded, Certain, CertainIsOnPaper

LEMMA GroundedNext ==
  ASSUME Typed, Untouched, Grounded, [Next]_vars
  PROVE  Grounded'
<1> USE DEF Typed, TypeOK, Targeted, Grounded, Certain, CertainIsOnPaper,
            vars, store, memory, executor, field, news, paper, process, Goto
<1>1. ASSUME NEW j \in Jobs, CreateStep(j) PROVE Grounded'
  BY <1>1 DEF CreateStep, Accept, Validate, PersistQueued, Enqueue, CreationAborts
<1>2. ASSUME NEW j \in Jobs, SchedulerStep(j) PROVE Grounded'
  BY <1>2 DEF SchedulerStep, Dequeue, TakeTurn, Runs
<1>3. ASSUME NEW j \in Jobs, CancelStep(j) PROVE Grounded'
  BY <1>3 DEF CancelStep, Cancel, RequestCancel
<1>4. ASSUME NEW j \in Jobs, PublishStep(j) PROVE Grounded'
  <2>1. ASSUME NEW s \in Terminal, Publish(j, s) PROVE Grounded'
    <3>1. s \in Certain => printed[j] # {}
      BY <2>1 DEF Publish
    <3>2. \A i \in Jobs : heard'[i] = IF i = j THEN heard[i] \union {s} ELSE heard[i]
      BY <2>1 DEF Publish
    <3>3. CertainIsOnPaper'
      BY <2>1, <3>1, <3>2 DEF Publish
    <3> QED BY <2>1, <3>3 DEF Publish
  <2>2. ASSUME NEW s \in Terminal, PublicationAborts(j, s) PROVE Grounded'
    BY <2>2 DEF PublicationAborts
  <2> QED BY <1>4, <2>1, <2>2 DEF PublishStep
<1>5. ASSUME NEW j \in Jobs, BootStep(j) PROVE Grounded'
  BY <1>5 DEF BootStep, RecoverPreDispatch, RecoverStale, Rehydrate
<1>6. ASSUME NEW j \in Jobs, NEW c \in Calls, DirectExecute(c, j) PROVE Grounded'
  <2>1. c \in Runs /\ dev[c] = "none" /\ ~accepted[c] /\ pc'[c] = "reading"
    BY <1>6 DEF DirectExecute, Untouched, Runs
  <2> QED BY <1>6, <2>1 DEF DirectExecute
<1>7. ASSUME NEW j \in Jobs, NEW w \in Runners, RunnerStep(w, j) PROVE Grounded'
  <2>1. CASE RunnerClaim(w, j) \/ RunnerPrints(w, j) \/ RunnerLosesJob(w, j)
    BY <2>1 DEF RunnerClaim, RunnerPrints, RunnerLosesJob
  <2>2. ASSUME NEW s \in Results, RunnerFinishes(w, j, s) PROVE Grounded'
    BY <2>2 DEF RunnerFinishes
  <2>3. ASSUME NEW s \in Results, ResultArrives(w, j, s) PROVE Grounded'
    BY <2>3 DEF ResultArrives, Results
  <2>4. ASSUME NEW s \in Results, ResultLost(w, j, s) PROVE Grounded'
    BY <2>4 DEF ResultLost
  <2> QED BY <1>7, <2>1, <2>2, <2>3, <2>4 DEF RunnerStep
<1>8. ASSUME NEW r \in Runs, ExecutorStep(r) PROVE Grounded'
  <2>a. jobOf[r] \in Jobs
    BY <1>8 DEF ExecutorStep, ReadJob, Claim, Start, AdapterAnswers, AdapterThrows,
                Watchdog, Announce, BookkeepingFails
  <2>1. CASE ReadJob(r) \/ Claim(r) \/ Start(r)
    BY <2>1, <2>a DEF ReadJob, Claim, Start
  <2>2. ASSUME NEW s \in Terminal, Persist(r, s), s \in Certain => printed[jobOf[r]] # {},
               pc[r] # "idle", NEW l \in {"announcing", "handling"}, pc' = [pc EXCEPT ![r] = l],
               dev' = dev \/ dev' = [dev EXCEPT ![r] = "returned"],
               UNCHANGED <<jobOf, accepted, wire, pending, heard, printed>>
        PROVE  Grounded'
    BY <2>2, <2>a DEF Persist
  <2>3. CASE AdapterAnswers(r)
    <3>1. PICK s \in Results : Persist(r, s) /\ (s = "SUCCESS" => dev[r] = "submitted")
      BY <2>3 DEF AdapterAnswers
    <3>2. s \in Terminal /\ (s \in Certain => printed[jobOf[r]] # {})
      BY <3>1, <2>a DEF Results, Terminal, MayHavePrinted
    <3> QED BY <2>3, <2>2, <3>1, <3>2 DEF AdapterAnswers
  <2>4. CASE AdapterThrows(r)
    BY <2>4, <2>2 DEF AdapterThrows, Terminal, MayHavePrinted
  <2>5. CASE Watchdog(r)
    BY <2>5, <2>2, <2>a DEF Watchdog, Terminal, MayHavePrinted
  <2>6. CASE Announce(r)
    BY <2>6, <2>a DEF Announce
  <2>7. CASE BookkeepingFails(r)
    <3>1. CASE pc[r] = "announcing"
      BY <2>7, <3>1, <2>2 DEF BookkeepingFails, Terminal, MayHavePrinted
    <3>2. CASE pc[r] = "handling"
      BY <2>7, <3>2 DEF BookkeepingFails
    <3> QED BY <2>7, <3>1, <3>2 DEF BookkeepingFails
  <2> QED BY <1>8, <2>1, <2>3, <2>4, <2>5, <2>6, <2>7 DEF ExecutorStep
<1>9. ASSUME NEW r \in Runs, AdapterStep(r) PROVE Grounded'
  <2>1. CASE GrantPrinter(r) \/ AbandonedCallReturns(r)
    BY <2>1 DEF GrantPrinter, AbandonedCallReturns
  <2>2. CASE Submit(r)
    BY <2>2 DEF Submit
  <2>3. CASE Progress(r)
    BY <2>3 DEF Progress
  <2> QED BY <1>9, <2>1, <2>2, <2>3 DEF AdapterStep
<1>10. CASE Crash
  <2>1. /\ \A r \in Runs : dev'[r] # "submitted" /\ ~accepted'[r]
        /\ \A r \in Runs : pc'[r] \notin {"announcing", "handling"}
        /\ pending' = {}
        /\ UNCHANGED <<row, wire, heard>>
    BY <1>10 DEF Crash
  <2>2. \A j \in Jobs : printed[j] \subseteq printed'[j]
    BY <1>10 DEF Crash
  <2> QED BY <2>1, <2>2
<1>11. CASE BootDone
  BY <1>11 DEF BootDone
<1>12. CASE UNCHANGED vars
  BY <1>12
<1>13. CASE Next
  BY <1>13, <1>1, <1>2, <1>3, <1>4, <1>5, <1>6, <1>7, <1>8, <1>9, <1>10, <1>11, NextCases
<1> QED BY <1>12, <1>13

(***************************************************************************)
(* SUCCESS and TIMEOUT, in the row or announced to a caller, are about a   *)
(* document that somebody did put on the wire, whoever executed the job    *)
(* and whatever was lost, late, rejected or restarted on the way.          *)
(***************************************************************************)
THEOREM SuccessWasPrinted == Spec => []CertainIsOnPaper
<1>1. Init => Typed /\ Untouched /\ Grounded
  BY TypedInit, UntouchedInit, GroundedInit
<1>2. Typed /\ Untouched /\ Grounded /\ [Next]_vars => (Typed /\ Untouched /\ Grounded)'
  BY TypedNext, UntouchedNext, GroundedNext
<1>3. Grounded => CertainIsOnPaper
  BY DEF Grounded
<1> QED BY <1>1, <1>2, <1>3, PTL DEF Spec

-----------------------------------------------------------------------------
(***************************************************************************)
(* The part of EveryJobResolves that is not about fairness: on a desktop   *)
(* without runners, whose store does not reject writes, every job that has *)
(* no verdict yet is in the hands of a handler, a message, the chain or an *)
(* execution of this very process, all of which the event loop runs on.    *)
(***************************************************************************)
Tended ==
  up = "up" => \A j \in Jobs :
    /\ row[j] \in {"ACCEPTED", "VALIDATED"} => j \in creating
    /\ row[j] = "QUEUED" =>
         j \in creating \union queue \/ pc[j] \in {"chained", "reading", "claiming"}
    /\ row[j] \in InProgress => \E r \in Runs : jobOf[r] = j /\ Active(r)

InHand ==
  up = "up" => \A j \in Jobs :
    /\ row[j] \in {"ACCEPTED", "VALIDATED"} => j \in creating
    /\ row[j] \in InProgress => \E r \in Runs : jobOf[r] = j /\ Active(r)

LEMMA InHandNext ==
  ASSUME Reliable, LocalWorker, Runners = {}, Typed, Fresh, InHand, [Next]_vars
  PROVE  InHand'
<1> USE DEF Reliable, Typed, TypeOK, Targeted, InHand, Active, InProgress,
            vars, store, memory, executor, field, news, paper, process, Goto
<1>1. ASSUME NEW j \in Jobs, CreateStep(j) PROVE InHand'
  BY <1>1 DEF CreateStep, Accept, Validate, PersistQueued, Enqueue, CreationAborts
<1>2. ASSUME NEW j \in Jobs, SchedulerStep(j) PROVE InHand'
  <2>1. pc[j] \in {"idle", "chained"} /\ \E l \in PCs : pc' = [pc EXCEPT ![j] = l]
    BY <1>2 DEF SchedulerStep, Dequeue, TakeTurn, Fresh, PCs, Busy
  <2>2. UNCHANGED <<row, creating, jobOf, up>>
    BY <1>2 DEF SchedulerStep, Dequeue, TakeTurn
  <2> QED BY <2>1, <2>2 DEF Runs
<1>3. ASSUME NEW j \in Jobs, CancelStep(j) PROVE InHand'
  BY <1>3 DEF CancelStep, Cancel, RequestCancel
<1>4. ASSUME NEW j \in Jobs, PublishStep(j) PROVE InHand'
  BY <1>4 DEF PublishStep, Publish, PublicationAborts
<1>5. ASSUME NEW j \in Jobs, BootStep(j) PROVE InHand'
  BY <1>5 DEF BootStep, RecoverPreDispatch, RecoverStale, Rehydrate
<1>6. ASSUME NEW j \in Jobs, NEW c \in Calls, DirectExecute(c, j) PROVE InHand'
  BY <1>6 DEF DirectExecute, Runs
<1>7. ASSUME NEW j \in Jobs, NEW w \in Runners, RunnerStep(w, j) PROVE InHand'
  OBVIOUS
<1>8. ASSUME NEW r \in Runs, ExecutorStep(r) PROVE InHand'
  <2>a. jobOf[r] \in Jobs
    BY <1>8 DEF ExecutorStep, ReadJob, Claim, Start, AdapterAnswers, AdapterThrows,
                Watchdog, Announce, BookkeepingFails
  <2>1. CASE ReadJob(r) \/ Announce(r)
    BY <2>1, <2>a DEF ReadJob, Announce
  <2>2. CASE Claim(r)
    BY <2>2, <2>a DEF Claim, Executable, PreDispatch
  <2>3. CASE Start(r)
    BY <2>3, <2>a DEF Start
  <2>4. ASSUME NEW s \in Terminal, Persist(r, s), UNCHANGED <<jobOf, creating, up>>,
               NEW l \in PCs, pc' = [pc EXCEPT ![r] = l]
        PROVE  InHand'
    <3>1. row' = [row EXCEPT ![jobOf[r]] = s] /\ s \notin InProgress \union {"ACCEPTED", "VALIDATED"}
      BY <2>4 DEF Persist, Terminal, MayHavePrinted
    <3>2. \A k \in Runs : k # r /\ Active(k) => Active(k)'
      BY <2>4
    <3> QED BY <2>4, <2>a, <3>1, <3>2
  <2>5. CASE AdapterAnswers(r)
    <3>1. PICK s \in Results : Persist(r, s)
      BY <2>5 DEF AdapterAnswers
    <3>2. s \in Terminal /\ "announcing" \in PCs
      BY DEF Results, Terminal, MayHavePrinted, PCs, Busy
    <3> QED BY <2>5, <2>4, <3>1, <3>2 DEF AdapterAnswers
  <2>6. CASE AdapterThrows(r)
    BY <2>6, <2>4 DEF AdapterThrows, Terminal, MayHavePrinted, PCs, Busy
  <2>7. CASE Watchdog(r)
    BY <2>7, <2>4 DEF Watchdog, Terminal, MayHavePrinted, PCs, Busy
  <2>8. CASE BookkeepingFails(r)
    BY <2>8 DEF BookkeepingFails
  <2> QED BY <1>8, <2>1, <2>2, <2>3, <2>5, <2>6, <2>7, <2>8 DEF ExecutorStep
<1>9. ASSUME NEW r \in Runs, AdapterStep(r) PROVE InHand'
  <2>1. CASE GrantPrinter(r) \/ AbandonedCallReturns(r) \/ Submit(r)
    BY <2>1 DEF GrantPrinter, AbandonedCallReturns, Submit
  <2>2. CASE Progress(r)
    BY <2>2 DEF Progress
  <2> QED BY <1>9, <2>1, <2>2 DEF AdapterStep
<1>10. CASE Crash
  BY <1>10 DEF Crash
<1>11. CASE BootDone
  BY <1>11 DEF BootDone, Recovered
<1>12. CASE UNCHANGED vars
  BY <1>12
<1>13. CASE Next
  BY <1>13, <1>1, <1>2, <1>3, <1>4, <1>5, <1>6, <1>7, <1>8, <1>9, <1>10, <1>11, NextCases
<1> QED BY <1>12, <1>13

(***************************************************************************)
(* No job is ever stranded: as long as nothing outside the process holds   *)
(* jobs and no write is rejected, each open row has somebody to resolve it *)
(* whenever requests are served, after any number of crashes.              *)
(***************************************************************************)
THEOREM OpenJobsAreTended ==
  ASSUME Reliable, LocalWorker, Runners = {}
  PROVE  Spec => []Tended
<1>1. Init => InHand
  BY DEF Init, InHand, InProgress
<1>2. Typed /\ Fresh /\ InHand /\ [Next]_vars => InHand'
  BY InHandNext
<1>3. InHand /\ NoLostJob => Tended
  BY DEF InHand, NoLostJob, Tended
<1> QED BY <1>1, <1>2, <1>3, FreshAlways, NoQueuedJobIsLost, PTL DEF Spec

(***************************************************************************)
(* The same part of VerdictIsAnnounced: somebody who has yet to announce a *)
(* verdict remembers it, or it has been announced.                         *)
(***************************************************************************)
Owed(j, s) ==
  \/ s \in heard[j]
  \/ <<j, s>> \in pending
  \/ \E r \in Runs : jobOf[r] = j /\ pc[r] \in {"announcing", "handling"} /\ verdict[r] = s

(* A verdict is owed from the step that writes it, and as long as the row  *)
(* has it: only the end of the process makes anybody forget it.            *)
VerdictStaysOwed ==
  \A j \in Jobs, s \in Terminal :
    row'[j] = s /\ (row[j] = s => Owed(j, s)) /\ crashes' = crashes => Owed(j, s)'

LEMMA StepKeepsVerdictsOwed ==
  ASSUME Reliable, Typed, Fresh, [Next]_vars
  PROVE  VerdictStaysOwed
<1> USE DEF Reliable, Typed, TypeOK, Targeted, VerdictStaysOwed, Owed,
            vars, store, memory, executor, field, news, paper, process, Goto,
            Terminal, MayHavePrinted
<1>1. ASSUME NEW j \in Jobs, CreateStep(j) PROVE VerdictStaysOwed
  BY <1>1 DEF CreateStep, Accept, Validate, PersistQueued, Enqueue, CreationAborts
<1>2. ASSUME NEW j \in Jobs, SchedulerStep(j) PROVE VerdictStaysOwed
  <2>1. pc[j] \in {"idle", "chained"} /\ \E l \in PCs : pc' = [pc EXCEPT ![j] = l]
    BY <1>2 DEF SchedulerStep, Dequeue, TakeTurn, Fresh, PCs, Busy
  <2>2. UNCHANGED <<row, jobOf, verdict, heard, pending>>
    BY <1>2 DEF SchedulerStep, Dequeue, TakeTurn
  <2> QED BY <2>1, <2>2 DEF Runs
<1>3. ASSUME NEW j \in Jobs, CancelStep(j) PROVE VerdictStaysOwed
  BY <1>3 DEF CancelStep, Cancel, RequestCancel
<1>4. ASSUME NEW j \in Jobs, PublishStep(j) PROVE VerdictStaysOwed
  BY <1>4 DEF PublishStep, Publish, PublicationAborts
<1>5. ASSUME NEW j \in Jobs, BootStep(j) PROVE VerdictStaysOwed
  BY <1>5 DEF BootStep, RecoverPreDispatch, RecoverStale, Rehydrate
<1>6. ASSUME NEW j \in Jobs, NEW c \in Calls, DirectExecute(c, j) PROVE VerdictStaysOwed
  BY <1>6 DEF DirectExecute, Runs
<1>7. ASSUME NEW j \in Jobs, NEW w \in Runners, RunnerStep(w, j) PROVE VerdictStaysOwed
  <2>1. CASE RunnerClaim(w, j) \/ RunnerPrints(w, j) \/ RunnerLosesJob(w, j)
    BY <2>1 DEF RunnerClaim, RunnerPrints, RunnerLosesJob
  <2>2. ASSUME NEW s \in Results,
               RunnerFinishes(w, j, s) \/ ResultArrives(w, j, s) \/ ResultLost(w, j, s)
        PROVE  VerdictStaysOwed
    BY <2>2 DEF RunnerFinishes, ResultArrives, ResultLost
  <2> QED BY <1>7, <2>1, <2>2 DEF RunnerStep
<1>8. ASSUME NEW r \in Runs, ExecutorStep(r) PROVE VerdictStaysOwed
  <2>a. jobOf[r] \in Jobs
    BY <1>8 DEF ExecutorStep, ReadJob, Claim, Start, AdapterAnswers, AdapterThrows,
                Watchdog, Announce, BookkeepingFails
  <2>1. CASE ReadJob(r) \/ Claim(r) \/ Start(r)
    BY <2>1, <2>a DEF ReadJob, Claim, Start
  <2>2. ASSUME NEW s \in Terminal, Persist(r, s), UNCHANGED <<jobOf, heard, pending>>,
               pc[r] = "running",
               NEW l \in {"announcing", "handling"}, pc' = [pc EXCEPT ![r] = l]
        PROVE  VerdictStaysOwed
    BY <2>2, <2>a DEF Persist
  <2>3. CASE AdapterAnswers(r)
    <3>1. PICK s \in Results : Persist(r, s)
      BY <2>3 DEF AdapterAnswers
    <3>2. s \in Terminal
      BY DEF Results
    <3> QED BY <2>3, <2>2, <3>1, <3>2 DEF AdapterAnswers
  <2>4. CASE AdapterThrows(r)
    BY <2>4, <2>2 DEF AdapterThrows
  <2>5. CASE Watchdog(r)
    BY <2>5, <2>2 DEF Watchdog
  <2>6. CASE Announce(r)
    BY <2>6, <2>a DEF Announce
  <2>7. CASE BookkeepingFails(r)
    BY <2>7 DEF BookkeepingFails
  <2> QED BY <1>8, <2>1, <2>3, <2>4, <2>5, <2>6, <2>7 DEF ExecutorStep
<1>9. ASSUME NEW r \in Runs, AdapterStep(r) PROVE VerdictStaysOwed
  <2>1. CASE GrantPrinter(r) \/ AbandonedCallReturns(r) \/ Submit(r)
    BY <2>1 DEF GrantPrinter, AbandonedCallReturns, Submit
  <2>2. CASE Progress(r)
    BY <2>2 DEF Progress
  <2> QED BY <1>9, <2>1, <2>2 DEF AdapterStep
<1>10. CASE Crash
  <2>1. crashes' # crashes
    BY <1>10 DEF Crash
  <2> QED BY <2>1
<1>11. CASE BootDone
  BY <1>11 DEF BootDone
<1>12. CASE UNCHANGED vars
  BY <1>12
<1>13. CASE Next
  BY <1>13, <1>1, <1>2, <1>3, <1>4, <1>5, <1>6, <1>7, <1>8, <1>9, <1>10, <1>11, NextCases
<1> QED BY <1>12, <1>13

(***************************************************************************)
(* Between two crashes no verdict is forgotten before it was announced,    *)
(* neither by an execution nor by a handler that cancels, recovers or      *)
(* takes a runner's result.                                                *)
(***************************************************************************)
THEOREM VerdictsStayOwed ==
  ASSUME Reliable
  PROVE  Spec => [][VerdictStaysOwed]_vars
<1>1. Typed /\ Fresh /\ [Next]_vars => [VerdictStaysOwed]_vars
  BY StepKeepsVerdictsOwed
<1> QED BY <1>1, FreshAlways, PTL DEF Spec
=============================================================================
