------------------------------ MODULE PrintJob ------------------------------
(***************************************************************************)
(* The life of print jobs inside the gateway: the create handler, the      *)
(* in-memory queue and the per-printer scheduler of the desktop worker,    *)
(* ExecuteJobService with its adapter call and watchdog, direct executions *)
(* over HTTP, operator cancellation, Go runners that claim and report over *)
(* the network, and a crash of the API process with its boot recovery.     *)
(*                                                                         *)
(* An action is the code between two awaits of a port.  The row of a job   *)
(* is durable when the repository call returns; the queue, the promise     *)
(* chains and every handler in flight die with the process.                *)
(***************************************************************************)
EXTENDS Naturals, FiniteSets

CONSTANTS
  Jobs,            \* jobs that may be submitted
  Calls,           \* direct execute calls (POST /jobs/:id/execute, sandbox, webhook)
  Runners,         \* Go runners polling POST /runners/:id/jobs/next
  Printers,        \* physical printers
  PrinterOf,       \* PrinterOf[j]: the printer job j is addressed to
  NoJob,           \* the target of a call that has not been made
  LocalWorker,     \* PRINTOPS_LOCAL_WORKER = 'true': the desktop deployment
  StoreMayFail,    \* a write to the traces or the audit log may be rejected
  MaxCrashes       \* bound: how often the API process dies

ASSUME JobsAndCallsAreDistinct == Jobs \intersect Calls = {}
ASSUME NoJobIsNotAJob == NoJob \notin Jobs
ASSUME EveryJobHasAPrinter == PrinterOf \in [Jobs -> Printers]
ASSUME TheSwitchesAreBoolean ==
  /\ LocalWorker \in BOOLEAN
  /\ StoreMayFail \in BOOLEAN
ASSUME CrashesAreBounded == MaxCrashes \in Nat

VARIABLES
  row,         \* row[j]: status column of job j, "NONE" before the INSERT
  cancelReq,   \* cancelReq[j]: the row's metadata holds cancelRequested
  creating,    \* jobs whose create handler has not returned
  queue,       \* jobs with a message in the in-memory queue
  inflight,    \* jobs whose message was dequeued and not acknowledged
  pc,          \* pc[r]: where execution r stands
  jobOf,       \* jobOf[r]: the job execution r works on
  readCancel,  \* readCancel[r]: cancelReq in the snapshot of the row r read
  accepted,    \* accepted[r]: r heard SPOOLER_ACCEPTED (acceptedProgress)
  dev,         \* dev[r]: how far the adapter call of r got
  verdict,     \* verdict[r]: the terminal status r persisted last
  held,        \* <<w, j>>: runner w was handed job j and has not finished
  wire,        \* <<w, j, s>>: result s of job j sent by runner w, not delivered
  pending,     \* <<j, s>>: status s persisted by a handler yet to publish it
  heard,       \* heard[j]: statuses PrintJobTerminal announced for j
  printed,     \* printed[j]: who put the document of j on the wire
  failures,    \* failures[j]: how often FAILED was persisted for j
  up,          \* "up" once requests are served, "booting" before
  crashes      \* number of crashes so far

store    == <<row, cancelReq>>
memory   == <<creating, queue, inflight>>
executor == <<pc, jobOf, readCancel, accepted, dev, verdict>>
field    == <<held, wire>>
news     == <<pending, heard>>
paper    == <<printed, failures>>
process  == <<up, crashes>>
vars     == <<store, memory, executor, field, news, paper, process>>

-----------------------------------------------------------------------------
(***************************************************************************)
(* Executions.  The scheduler executes a job at most once per process, so  *)
(* its execution of job j is called j; every direct call is one more.      *)
(***************************************************************************)
Runs      == Jobs \union Calls
Executors == Runs \union Runners

PreDispatch    == {"ACCEPTED", "VALIDATED", "QUEUED"}
MayHavePrinted == {"SUCCESS", "UNVERIFIED", "TIMEOUT"}
Terminal       == MayHavePrinted \union {"FAILED", "CANCELLED"}
Statuses       == {"NONE", "DISPATCHED", "PRINTING"} \union PreDispatch \union Terminal
Results        == {"SUCCESS", "UNVERIFIED", "FAILED"}

(* Mutation: a job may be executed after the watchdog declared TIMEOUT     *)
(* (once the behaviour of the code).                                       *)
ExecutableAlsoTimeout == PreDispatch \union {"FAILED", "TIMEOUT"}

Executable    == PreDispatch \union {"FAILED"}
NotExecutable == Statuses \ Executable
Cancellable   == PreDispatch
InProgress    == {"DISPATCHED", "PRINTING"}

(* A run between its turn on the chain and the settling of its promise *)
Busy == {"reading", "claiming", "starting", "running", "announcing", "handling"}
PCs  == {"idle", "chained", "over"} \union Busy

(* The adapter call waits for the lock of its printer, works, has handed   *)
(* the document to the spooler, or has returned.                           *)
OnThePrinter == {"working", "submitted"}
DevStates    == {"none", "waiting", "returned"} \union OnThePrinter

SamePrinter(r, k) == PrinterOf[jobOf[r]] = PrinterOf[jobOf[k]]

(***************************************************************************)
(* handleFailure and the success branch persist a terminal status with an  *)
(* unconditional update whose metadata is spread from the row read before  *)
(* the claim.                                                              *)
(***************************************************************************)
Persist(r, s) ==
  LET j == jobOf[r]
  IN  /\ row' = [row EXCEPT ![j] = s]
      /\ cancelReq' = [cancelReq EXCEPT ![j] = readCancel[r]]
      /\ verdict' = [verdict EXCEPT ![r] = s]
      /\ failures' = [failures EXCEPT ![j] = @ + (IF s = "FAILED" THEN 1 ELSE 0)]

Goto(r, l) == pc' = [pc EXCEPT ![r] = l]

Init ==
  /\ row = [j \in Jobs |-> "NONE"]
  /\ cancelReq = [j \in Jobs |-> FALSE]
  /\ creating = {} /\ queue = {} /\ inflight = {}
  /\ pc = [r \in Runs |-> "idle"]
  /\ jobOf = [r \in Runs |-> IF r \in Jobs THEN r ELSE NoJob]
  /\ readCancel = [r \in Runs |-> FALSE]
  /\ accepted = [r \in Runs |-> FALSE]
  /\ dev = [r \in Runs |-> "none"]
  /\ verdict = [r \in Runs |-> "NONE"]
  /\ held = {} /\ wire = {}
  /\ pending = {}
  /\ heard = [j \in Jobs |-> {}]
  /\ printed = [j \in Jobs |-> {}]
  /\ failures = [j \in Jobs |-> 0]
  /\ up = "up" /\ crashes = 0

-----------------------------------------------------------------------------
(***************************************************************************)
(* CreatePrintJobService.execute: INSERT as ACCEPTED, VALIDATED, the trace,*)
(* QUEUED in the row, and only then the message.                           *)
(***************************************************************************)
Accept(j) ==
  /\ up = "up" /\ row[j] = "NONE"
  /\ row' = [row EXCEPT ![j] = "ACCEPTED"]
  /\ creating' = creating \union {j}
  /\ UNCHANGED <<cancelReq, queue, inflight, executor, field, news, paper, process>>

Validate(j) ==
  /\ j \in creating /\ row[j] = "ACCEPTED"
  /\ row' = [row EXCEPT ![j] = "VALIDATED"]
  /\ UNCHANGED <<cancelReq, memory, executor, field, news, paper, process>>

PersistQueued(j) ==
  /\ j \in creating /\ row[j] = "VALIDATED"
  /\ row' = [row EXCEPT ![j] = "QUEUED"]
  /\ UNCHANGED <<cancelReq, memory, executor, field, news, paper, process>>

Enqueue(j) ==
  /\ j \in creating /\ row[j] \notin {"ACCEPTED", "VALIDATED"}
  /\ queue' = queue \union {j}
  /\ creating' = creating \ {j}
  /\ UNCHANGED <<store, inflight, executor, field, news, paper, process>>

(* traces.create rejects: the handler throws and leaves a VALIDATED row *)
CreationAborts(j) ==
  /\ StoreMayFail
  /\ j \in creating /\ row[j] = "VALIDATED"
  /\ creating' = creating \ {j}
  /\ UNCHANGED <<store, queue, inflight, executor, field, news, paper, process>>

-----------------------------------------------------------------------------
(***************************************************************************)
(* LocalPrintScheduler: drainAvailable hands every message to the chain of *)
(* its printer; the chain starts the next execution when the one before it *)
(* has settled.  A job that is no longer QUEUED is acknowledged and left.  *)
(***************************************************************************)
(* Mutation: a message whose job is no longer QUEUED is left in the queue. *)
DequeueQueuedOnly(j) ==
  /\ up = "up" /\ LocalWorker /\ j \in queue /\ row[j] = "QUEUED"
  /\ queue' = queue \ {j}
  /\ inflight' = inflight \union {j}
  /\ Goto(j, "chained")
  /\ UNCHANGED <<store, creating, jobOf, readCancel, accepted, dev, verdict,
                 field, news, paper, process>>

Dequeue(j) ==
  /\ up = "up" /\ LocalWorker /\ j \in queue
  /\ queue' = queue \ {j}
  /\ inflight' = inflight \union {j}
  /\ Goto(j, "chained")
  /\ UNCHANGED <<store, creating, jobOf, readCancel, accepted, dev, verdict,
                 field, news, paper, process>>

ChainIsFree(j) ==
  \A k \in Jobs : PrinterOf[k] = PrinterOf[j] => pc[k] \notin Busy

TakeTurn(j) ==
  /\ pc[j] = "chained" /\ ChainIsFree(j)
  /\ \/ /\ row[j] = "QUEUED"
        /\ Goto(j, "reading")
        /\ UNCHANGED inflight
     \/ /\ row[j] # "QUEUED"
        /\ inflight' = inflight \ {j}
        /\ Goto(j, "over")
  /\ UNCHANGED <<store, creating, queue, jobOf, readCancel, accepted, dev, verdict,
                 field, news, paper, process>>

-----------------------------------------------------------------------------
(***************************************************************************)
(* ExecuteJobService.execute.                                              *)
(***************************************************************************)
DirectExecute(c, j) ==
  /\ up = "up" /\ pc[c] = "idle"
  /\ row[j] # "NONE" /\ j \notin creating
  /\ Goto(c, "reading")
  /\ jobOf' = [jobOf EXCEPT ![c] = j]
  /\ UNCHANGED <<store, memory, readCancel, accepted, dev, verdict,
                 field, news, paper, process>>

(* findById and the fast-path check; the whole row is kept as `job` *)
ReadJob(r) ==
  /\ pc[r] = "reading"
  /\ \/ /\ row[jobOf[r]] \notin NotExecutable
        /\ readCancel' = [readCancel EXCEPT ![r] = cancelReq[jobOf[r]]]
        /\ Goto(r, "claiming")
     \/ /\ row[jobOf[r]] \in NotExecutable
        /\ Goto(r, "over")
        /\ UNCHANGED readCancel
  /\ UNCHANGED <<store, memory, jobOf, accepted, dev, verdict, field, news, paper, process>>

(* Mutation: the check made before the claim is trusted. *)
ClaimUnconditionally(r) ==
  /\ pc[r] = "claiming"
  /\ row' = [row EXCEPT ![jobOf[r]] = "DISPATCHED"]
  /\ Goto(r, "starting")
  /\ UNCHANGED <<cancelReq, memory, jobOf, readCancel, accepted, dev, verdict,
                 field, news, paper, process>>

(* The conditional write that decides who prints; the loser gets a         *)
(* ConflictError and, on the scheduler's chain, leaves its message unacked.*)
Claim(r) ==
  /\ pc[r] = "claiming"
  /\ \/ /\ row[jobOf[r]] \in Executable
        /\ row' = [row EXCEPT ![jobOf[r]] = "DISPATCHED"]
        /\ Goto(r, "starting")
     \/ /\ row[jobOf[r]] \notin Executable
        /\ Goto(r, "over")
        /\ UNCHANGED row
  /\ UNCHANGED <<cancelReq, memory, jobOf, readCancel, accepted, dev, verdict,
                 field, news, paper, process>>

(* startedAt and the trace are outside the try block: if either rejects,   *)
(* the exception leaves execute and the row stays DISPATCHED.              *)
Start(r) ==
  /\ pc[r] = "starting"
  /\ \/ /\ Goto(r, "running")
        /\ dev' = [dev EXCEPT ![r] = "waiting"]
     \/ /\ StoreMayFail
        /\ Goto(r, "over")
        /\ UNCHANGED dev
  /\ UNCHANGED <<store, memory, jobOf, readCancel, accepted, verdict,
                 field, news, paper, process>>

-----------------------------------------------------------------------------
(***************************************************************************)
(* The adapter call.  sendAndVerify serialises the calls of one printer on *)
(* a lock of its own, which an abandoned call keeps.                       *)
(***************************************************************************)
GrantPrinter(r) ==
  /\ dev[r] = "waiting"
  /\ \A k \in Runs : dev[k] \in OnThePrinter => ~SamePrinter(k, r)
  /\ dev' = [dev EXCEPT ![r] = "working"]
  /\ UNCHANGED <<store, memory, pc, jobOf, readCancel, accepted, verdict,
                 field, news, paper, process>>

Submit(r) ==
  /\ dev[r] = "working"
  /\ dev' = [dev EXCEPT ![r] = "submitted"]
  /\ printed' = [printed EXCEPT ![jobOf[r]] = @ \union {r}]
  /\ UNCHANGED <<store, memory, pc, jobOf, readCancel, accepted, verdict,
                 field, news, failures, process>>

(* Mutation: onProgress does not ask whether the watchdog fired. *)
ProgressAfterWatchdog(r) ==
  /\ pc[r] \notin {"idle", "chained"} /\ dev[r] = "submitted" /\ ~accepted[r]
  /\ accepted' = [accepted EXCEPT ![r] = TRUE]
  /\ row' = [row EXCEPT ![jobOf[r]] = "PRINTING"]
  /\ cancelReq' = [cancelReq EXCEPT ![jobOf[r]] = readCancel[r]]
  /\ UNCHANGED <<memory, pc, jobOf, readCancel, dev, verdict, field, news, paper, process>>

(* onProgress: the write that makes the row PRINTING is best effort *)
Progress(r) ==
  /\ pc[r] = "running" /\ dev[r] = "submitted" /\ ~accepted[r]
  /\ accepted' = [accepted EXCEPT ![r] = TRUE]
  /\ \/ /\ row' = [row EXCEPT ![jobOf[r]] = "PRINTING"]
        /\ cancelReq' = [cancelReq EXCEPT ![jobOf[r]] = readCancel[r]]
     \/ StoreMayFail /\ UNCHANGED store
  /\ UNCHANGED <<memory, pc, jobOf, readCancel, dev, verdict, field, news, paper, process>>

(* The adapter answers in time: confirmed output is SUCCESS unless the     *)
(* Windows gate asks for more evidence, a refused submission is FAILED,    *)
(* anything in between is UNVERIFIED.                                      *)
AdapterAnswers(r) ==
  /\ pc[r] = "running"
  /\ dev[r] \in OnThePrinter
  /\ \E s \in Results :
       /\ s = "SUCCESS" => dev[r] = "submitted"
       /\ s = "FAILED" => dev[r] = "working"
       /\ Persist(r, s)
  /\ dev' = [dev EXCEPT ![r] = "returned"]
  /\ Goto(r, "announcing")
  /\ UNCHANGED <<memory, jobOf, readCancel, accepted, field, news, printed, process>>

(* The adapter call throws: before it submitted anything, or after the     *)
(* spooler accepted the document.                                          *)
AdapterThrows(r) ==
  /\ pc[r] = "running"
  /\ dev[r] = "working" \/ accepted[r]
  /\ Persist(r, IF accepted[r] THEN "UNVERIFIED" ELSE "FAILED")
  /\ dev' = [dev EXCEPT ![r] = "returned"]
  /\ Goto(r, "handling")
  /\ UNCHANGED <<memory, jobOf, readCancel, accepted, field, news, printed, process>>

(* Mutation: the deadline is only set once the spooler has the document. *)
WatchdogAfterSpooler(r) ==
  /\ pc[r] = "running" /\ accepted[r]
  /\ Persist(r, "TIMEOUT")
  /\ Goto(r, "handling")
  /\ UNCHANGED <<memory, jobOf, readCancel, accepted, dev, field, news, printed, process>>

(* The watchdog wins the race; the adapter call is abandoned, not stopped. *)
Watchdog(r) ==
  /\ pc[r] = "running"
  /\ Persist(r, IF accepted[r] THEN "TIMEOUT" ELSE "FAILED")
  /\ Goto(r, "handling")
  /\ UNCHANGED <<memory, jobOf, readCancel, accepted, dev, field, news, printed, process>>

(* An abandoned adapter call returns and nobody listens. *)
AbandonedCallReturns(r) ==
  /\ pc[r] \in {"handling", "over"} /\ dev[r] \in OnThePrinter
  /\ dev' = [dev EXCEPT ![r] = "returned"]
  /\ UNCHANGED <<store, memory, pc, jobOf, readCancel, accepted, verdict,
                 field, news, paper, process>>

(* Trace and audit are written: publish the verdict and acknowledge. *)
Announce(r) ==
  /\ pc[r] \in {"announcing", "handling"}
  /\ heard' = [heard EXCEPT ![jobOf[r]] = @ \union {verdict[r]}]
  /\ inflight' = inflight \ {jobOf[r]}
  /\ Goto(r, "over")
  /\ UNCHANGED <<store, creating, queue, jobOf, readCancel, accepted, dev, verdict,
                 field, pending, paper, process>>

(* Trace or audit rejects.  Inside the try block the generic catch writes  *)
(* a second verdict over the first; inside the catch the exception leaves  *)
(* execute before the verdict was published.                               *)
BookkeepingFails(r) ==
  /\ StoreMayFail
  /\ \/ /\ pc[r] = "announcing"
        /\ Persist(r, IF accepted[r] THEN "UNVERIFIED" ELSE "FAILED")
        /\ Goto(r, "handling")
     \/ /\ pc[r] = "handling"
        /\ Goto(r, "over")
        /\ UNCHANGED <<store, verdict, failures>>
  /\ UNCHANGED <<memory, jobOf, readCancel, accepted, dev, field, news, printed, process>>

-----------------------------------------------------------------------------
(***************************************************************************)
(* CancelJobService.execute: a conditional write before dispatch, a note   *)
(* in the metadata after it.                                               *)
(***************************************************************************)
(* Mutations: a cancellation by plain update, and one that tells nobody. *)
CancelAnyTime(j) ==
  /\ up = "up" /\ j \notin creating
  /\ row[j] \in Cancellable \union InProgress
  /\ row' = [row EXCEPT ![j] = "CANCELLED"]
  /\ pending' = pending \union {<<j, "CANCELLED">>}
  /\ UNCHANGED <<cancelReq, memory, executor, field, heard, paper, process>>

CancelSilently(j) ==
  /\ up = "up" /\ j \notin creating
  /\ row[j] \in Cancellable
  /\ row' = [row EXCEPT ![j] = "CANCELLED"]
  /\ UNCHANGED <<cancelReq, memory, executor, field, news, paper, process>>

Cancel(j) ==
  /\ up = "up" /\ j \notin creating
  /\ row[j] \in Cancellable
  /\ row' = [row EXCEPT ![j] = "CANCELLED"]
  /\ pending' = pending \union {<<j, "CANCELLED">>}
  /\ UNCHANGED <<cancelReq, memory, executor, field, heard, paper, process>>

RequestCancel(j) ==
  /\ up = "up" /\ row[j] \in InProgress /\ ~cancelReq[j]
  /\ cancelReq' = [cancelReq EXCEPT ![j] = TRUE]
  /\ UNCHANGED <<row, memory, executor, field, news, paper, process>>

-----------------------------------------------------------------------------
(***************************************************************************)
(* The runner endpoints and the Go runner behind them.                     *)
(***************************************************************************)
(* Mutation: a runner is handed a candidate whatever its row says by now. *)
RunnerClaimUnconditionally(w, j) ==
  /\ up = "up" /\ row[j] \in {"QUEUED", "DISPATCHED"}
  /\ row' = [row EXCEPT ![j] = "DISPATCHED"]
  /\ held' = held \union {<<w, j>>}
  /\ UNCHANGED <<cancelReq, memory, executor, wire, news, paper, process>>

RunnerClaim(w, j) ==
  /\ up = "up" /\ row[j] = "QUEUED"
  /\ row' = [row EXCEPT ![j] = "DISPATCHED"]
  /\ held' = held \union {<<w, j>>}
  /\ UNCHANGED <<cancelReq, memory, executor, wire, news, paper, process>>

RunnerPrints(w, j) ==
  /\ <<w, j>> \in held /\ w \notin printed[j]
  /\ printed' = [printed EXCEPT ![j] = @ \union {w}]
  /\ UNCHANGED <<store, memory, executor, field, news, failures, process>>

(* Run reports once; an executor may see an error after the bytes left. *)
RunnerFinishes(w, j, s) ==
  /\ <<w, j>> \in held
  /\ s = "SUCCESS" => w \in printed[j]
  /\ held' = held \ {<<w, j>>}
  /\ wire' = wire \union {<<w, j, s>>}
  /\ UNCHANGED <<store, memory, executor, news, paper, process>>

(* The claim's reply is lost, or the runner dies: it keeps no state. *)
RunnerLosesJob(w, j) ==
  /\ <<w, j>> \in held
  /\ held' = held \ {<<w, j>>}
  /\ UNCHANGED <<store, memory, executor, wire, news, paper, process>>

(* POST .../result: applied while DISPATCHED or PRINTING, 409 otherwise *)
ResultArrives(w, j, s) ==
  /\ up = "up" /\ <<w, j, s>> \in wire
  /\ wire' = wire \ {<<w, j, s>>}
  /\ \/ /\ row[j] \in InProgress
        /\ row' = [row EXCEPT ![j] = s]
        /\ pending' = pending \union {<<j, s>>}
        /\ failures' = [failures EXCEPT ![j] = @ + (IF s = "FAILED" THEN 1 ELSE 0)]
     \/ /\ row[j] \notin InProgress
        /\ UNCHANGED <<row, pending, failures>>
  /\ UNCHANGED <<cancelReq, memory, executor, held, heard, printed, process>>

(* The runner logs the error of its only attempt and moves on. *)
ResultLost(w, j, s) ==
  /\ <<w, j, s>> \in wire
  /\ wire' = wire \ {<<w, j, s>>}
  /\ UNCHANGED <<store, memory, executor, held, news, paper, process>>

(* A handler reaches emitPrintJobTerminal, or throws on the way there. *)
Publish(j, s) ==
  /\ <<j, s>> \in pending
  /\ pending' = pending \ {<<j, s>>}
  /\ heard' = [heard EXCEPT ![j] = @ \union {s}]
  /\ UNCHANGED <<store, memory, executor, field, paper, process>>

PublicationAborts(j, s) ==
  /\ StoreMayFail /\ <<j, s>> \in pending
  /\ pending' = pending \ {<<j, s>>}
  /\ UNCHANGED <<store, memory, executor, field, heard, paper, process>>

-----------------------------------------------------------------------------
(***************************************************************************)
(* The API process dies with everything it held in memory; a document an   *)
(* adapter was about to submit may still reach the spooler.  On the        *)
(* desktop, boot completes the pre-dispatch rows, closes the ambiguous     *)
(* ones and rebuilds the queue before it serves requests.                  *)
(***************************************************************************)
Crash ==
  /\ crashes < MaxCrashes
  /\ crashes' = crashes + 1
  /\ up' = "booting"
  /\ creating' = {} /\ queue' = {} /\ inflight' = {}
  /\ pending' = {}
  /\ pc' = [r \in Runs |-> IF pc[r] = "idle" \/ r \in Jobs THEN "idle" ELSE "over"]
  /\ readCancel' = [r \in Runs |-> FALSE]
  /\ accepted' = [r \in Runs |-> FALSE]
  /\ dev' = [r \in Runs |-> IF dev[r] = "none" THEN "none" ELSE "returned"]
  /\ \E S \in SUBSET {r \in Runs : dev[r] = "working"} :
       printed' = [j \in Jobs |-> printed[j] \union {r \in S : jobOf[r] = j}]
  /\ UNCHANGED <<store, jobOf, verdict, field, heard, failures>>

RecoverPreDispatch(j) ==
  /\ up = "booting" /\ LocalWorker
  /\ row[j] \in {"ACCEPTED", "VALIDATED"}
  /\ row' = [row EXCEPT ![j] = "QUEUED"]
  /\ UNCHANGED <<cancelReq, memory, executor, field, news, paper, process>>

(* Mutation: recovery replays what was dispatched. *)
RecoverByReplay(j) ==
  /\ up = "booting" /\ LocalWorker
  /\ row[j] \in InProgress
  /\ row' = [row EXCEPT ![j] = "QUEUED"]
  /\ UNCHANGED <<cancelReq, memory, executor, field, news, paper, process>>

RecoverStale(j) ==
  /\ up = "booting" /\ LocalWorker
  /\ row[j] \in InProgress
  /\ row' = [row EXCEPT ![j] = "UNVERIFIED"]
  /\ pending' = pending \union {<<j, "UNVERIFIED">>}
  /\ UNCHANGED <<cancelReq, memory, executor, field, heard, paper, process>>

Recovered == \A j \in Jobs : row[j] \notin {"ACCEPTED", "VALIDATED"} \union InProgress

Rehydrate(j) ==
  /\ up = "booting" /\ LocalWorker /\ Recovered
  /\ row[j] = "QUEUED" /\ j \notin queue
  /\ queue' = queue \union {j}
  /\ UNCHANGED <<store, creating, inflight, executor, field, news, paper, process>>

(* Mutation: requests are served before the queue is rebuilt. *)
BootWithoutQueue ==
  /\ up = "booting"
  /\ LocalWorker => Recovered
  /\ up' = "up"
  /\ UNCHANGED <<store, memory, executor, field, news, paper, crashes>>

BootDone ==
  /\ up = "booting"
  /\ LocalWorker => Recovered /\ \A j \in Jobs : row[j] = "QUEUED" => j \in queue
  /\ up' = "up"
  /\ UNCHANGED <<store, memory, executor, field, news, paper, crashes>>

-----------------------------------------------------------------------------
CreateStep(j)    == Accept(j) \/ Validate(j) \/ PersistQueued(j) \/ Enqueue(j) \/ CreationAborts(j)
SchedulerStep(j) == Dequeue(j) \/ TakeTurn(j)
ExecutorStep(r)  == \/ ReadJob(r) \/ Claim(r) \/ Start(r)
                    \/ AdapterAnswers(r) \/ AdapterThrows(r) \/ Watchdog(r)
                    \/ Announce(r) \/ BookkeepingFails(r)
AdapterStep(r)   == GrantPrinter(r) \/ Submit(r) \/ Progress(r) \/ AbandonedCallReturns(r)
CancelStep(j)    == Cancel(j) \/ RequestCancel(j)
RunnerStep(w, j) == \/ RunnerClaim(w, j) \/ RunnerPrints(w, j) \/ RunnerLosesJob(w, j)
                    \/ \E s \in Results : \/ RunnerFinishes(w, j, s)
                                          \/ ResultArrives(w, j, s)
                                          \/ ResultLost(w, j, s)
PublishStep(j)   == \E s \in Terminal : Publish(j, s) \/ PublicationAborts(j, s)
BootStep(j)      == RecoverPreDispatch(j) \/ RecoverStale(j) \/ Rehydrate(j)

Next ==
  \/ \E j \in Jobs : \/ CreateStep(j) \/ SchedulerStep(j) \/ CancelStep(j)
                     \/ PublishStep(j) \/ BootStep(j)
                     \/ \E c \in Calls : DirectExecute(c, j)
                     \/ \E w \in Runners : RunnerStep(w, j)
  \/ \E r \in Runs : ExecutorStep(r) \/ AdapterStep(r)
  \/ Crash
  \/ BootDone

Spec == Init /\ [][Next]_vars

(***************************************************************************)
(* What the event loop guarantees: a handler, a chain and an execution go  *)
(* on once what they await has settled, and the watchdog timer fires.      *)
(* Nothing is assumed of clients, of runners, of the network, or of the    *)
(* adapter.  A chain serves finitely many jobs, one at a time, so weak     *)
(* fairness of each turn is enough.                                        *)
(***************************************************************************)
Fairness ==
  /\ \A j \in Jobs : /\ WF_vars(Validate(j) \/ PersistQueued(j) \/ Enqueue(j) \/ CreationAborts(j))
                     /\ WF_vars(Dequeue(j))
                     /\ WF_vars(TakeTurn(j))
                     /\ WF_vars(PublishStep(j))
                     /\ WF_vars(BootStep(j))
  /\ \A r \in Runs : WF_vars(ExecutorStep(r))
  /\ WF_vars(BootDone)

FairSpec == Spec /\ Fairness

-----------------------------------------------------------------------------
TypeOK ==
  /\ row \in [Jobs -> Statuses]
  /\ cancelReq \in [Jobs -> BOOLEAN]
  /\ creating \in SUBSET Jobs
  /\ queue \in SUBSET Jobs
  /\ inflight \in SUBSET Jobs
  /\ pc \in [Runs -> PCs]
  /\ jobOf \in [Runs -> Jobs \union {NoJob}]
  /\ readCancel \in [Runs -> BOOLEAN]
  /\ accepted \in [Runs -> BOOLEAN]
  /\ dev \in [Runs -> DevStates]
  /\ verdict \in [Runs -> {"NONE"} \union Terminal]
  /\ held \in SUBSET (Runners \X Jobs)
  /\ wire \in SUBSET (Runners \X Jobs \X Results)
  /\ pending \in SUBSET (Jobs \X Terminal)
  /\ heard \in [Jobs -> SUBSET Terminal]
  /\ printed \in [Jobs -> SUBSET Executors]
  /\ failures \in [Jobs -> Nat]
  /\ up \in {"up", "booting"}
  /\ crashes \in 0 .. MaxCrashes

(* Who may put the document of j on the wire on the strength of a claim *)
ClaimantsOf(j) ==
  {r \in Runs : jobOf[r] = j /\ pc[r] \in {"starting", "running"}}
    \union {w \in Runners : <<w, j>> \in held}

(***************************************************************************)
(* The conditional claim: the scheduler, direct calls and runners draw on  *)
(* the same rows, yet never do two of them own a job at the same time.     *)
(***************************************************************************)
OneExecutor == \A j \in Jobs : \A x, y \in ClaimantsOf(j) : x = y

(***************************************************************************)
(* The unconditional writes of an execution (PRINTING, the verdict) are    *)
(* safe only because nothing else moves the row of a job being executed.   *)
(***************************************************************************)
ExecutorOwnsRow ==
  \A r \in Runs : pc[r] \in {"starting", "running"} => row[jobOf[r]] \in InProgress

(***************************************************************************)
(* A cancellation the caller was told is guaranteed: no document of the    *)
(* job is on the wire and nobody is left who could put one there.          *)
(***************************************************************************)
CancelledNeverPrints ==
  \A j \in Jobs : row[j] = "CANCELLED" =>
    /\ printed[j] = {}
    /\ ClaimantsOf(j) = {}
    /\ \A r \in Runs : jobOf[r] = j => dev[r] \notin {"waiting", "working"}

(***************************************************************************)
(* A second document needs a FAILED verdict in between: no race of         *)
(* schedulers, calls, runners and restarts prints one acceptance twice.    *)
(***************************************************************************)
OnePagePerVerdict ==
  \A j \in Jobs : Cardinality(printed[j]) <= failures[j] + 1

(***************************************************************************)
(* What PrintJobTerminal told the callers stays true of the row; FAILED is *)
(* the exception, an execution may take the job up again.                  *)
(***************************************************************************)
AnnouncedStaysTrue ==
  \A j \in Jobs : \A s \in heard[j] : s # "FAILED" => row[j] = s

(***************************************************************************)
(* QUEUED is persisted before the message is sent: whatever the queue or   *)
(* the scheduler holds has left the create handler's own statuses.         *)
(***************************************************************************)
MessageIsDurable ==
  \A j \in queue \union inflight : row[j] \notin {"NONE", "ACCEPTED", "VALIDATED"}

(***************************************************************************)
(* While the desktop serves requests, a QUEUED job has a message in the    *)
(* queue or a place on the chain, after every crash and boot recovery too. *)
(***************************************************************************)
NoLostJob ==
  LocalWorker /\ up = "up" =>
    \A j \in Jobs : row[j] = "QUEUED" =>
      j \in creating \union queue \/ pc[j] \in {"chained", "reading", "claiming"}

(***************************************************************************)
(* A job whose page may exist, or was promised not to, is never moved      *)
(* again: not by a late progress call, a second result, or recovery.       *)
(***************************************************************************)
FinalStatusIsFinal ==
  [][\A j \in Jobs : row[j] \in MayHavePrinted \union {"CANCELLED"} => row'[j] = row[j]]_vars

(***************************************************************************)
(* The row follows the documented state machine although most of the       *)
(* writes to it are unconditional.                                         *)
(***************************************************************************)
Lifecycle == INSTANCE JobLifecycle WITH status <- row
FollowsTheLifecycle == Lifecycle!Spec

(***************************************************************************)
(* job-lifecycle.md: "no accepted job can hang forever".                   *)
(***************************************************************************)
EveryJobResolves ==
  \A j \in Jobs : (row[j] # "NONE") ~> (row[j] \in Terminal)

(***************************************************************************)
(* Every verdict a row receives is announced to the callers, unless the    *)
(* process dies between the write and the event.                           *)
(***************************************************************************)
VerdictIsAnnounced ==
  \A j \in Jobs, s \in Terminal, n \in 0 .. MaxCrashes :
    [](row[j] # s /\ crashes = n =>
         []((row[j] = s /\ crashes = n) => <>(s \in heard[j] \/ crashes > n)))

(***************************************************************************)
(* The retention sweep defers while the queue has a message: it runs again *)
(* and again only if the queue is empty again and again.                   *)
(***************************************************************************)
QueueDrains == []<>(queue = {})

(***************************************************************************)
(* job-lifecycle.md on FAILED: "Nothing printed, or the failure happened   *)
(* before submission" and so a retry is safe.                              *)
(***************************************************************************)
FailedMeansNothingPrinted ==
  \A j \in Jobs : row[j] = "FAILED" => printed[j] = {}
=============================================================================
