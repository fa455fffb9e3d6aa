# A verification project for print_ops

print_ops is a print gateway. An HTTP API (`apps/api`) accepts print requests over several
intakes, keeps each as a row of the `jobs` table, and has it printed by its own in-process
worker (the desktop deployment, `PRINTOPS_LOCAL_WORKER=true`) or by Go runners that poll it
(`apps/runner-go`). The verdict of every print is published as an event and delivered to the
system that asked. A native updater (`apps/updater-go`) replaces the desktop build.

The project models the parts whose correctness depends on the order of steps of several actors,
checks them with TLC and proves the core safety properties with TLAPS. Line numbers below and in
`PROJECT.json` are those of this commit.

## 1. Inventory

| Part | State it keeps | Operations | Correct when |
|---|---|---|---|
| Job lifecycle (`create-print-job`, `execute-job`, `cancel-job`, `emit-terminal-event`) | the row of the job: status, metadata, error, timestamps | create, execute, cancel, publish the verdict | one executor at a time; no second page without a FAILED verdict; a granted cancellation never prints; a final status stays; every verdict is announced |
| Local queue and scheduler (`in-memory-queue`, `local-print-scheduler`) | queued messages, messages in flight, a promise chain per printer | enqueue, drain, execute in order, acknowledge | no QUEUED job is forgotten; one execution per printer; the queue drains |
| Windows adapter (`windows-spooler.adapter`, `ipp-printer-client`) | a lock per printer; per send the baselines of queue, page counter and IPP job list, and what it saw since | wait for the lock, take baselines, submit the copies, watch queue and printer, answer | one send per printer at a time; SUCCESS stands for pages of this send; nothing after submission is called FAILED; every send answers |
| Runner endpoints and Go runner (`runner-jobs.routes`, `internal/jobs`) | none but the row; the runner keeps the one job it works on | claim next, report result | two runners never hold one job; a late result changes nothing |
| Boot recovery (`app.ts` 601-708) | the rows a dead process left | requeue pre-dispatch rows, close ambiguous ones, rebuild the queue | nothing that may have printed is replayed; nothing is lost |
| Result callbacks (`result-callback-dispatcher`, `callback-retry-policy`, delivery repository) | one durable delivery record per job, transport and destination | create, attempt, classify, retry, sweep, recover | a record is sent by one attempt at a time, a settled record stays settled, attempts are bounded, every record settles |
| Intake (`print-intake`, `accept-external-job`, `dynamic-intake`, `dynamic-print`) | request ids in the jobs table, JetStream delivery counts | accept once, acknowledge, redeliver, dead-letter | one job per request; what is accepted is queued; only poison is given up |
| Admission gate and OTA (`print-admission-gate`, `ota-update.service`, `external-updater-installer`) | gate flag and creations inside, the update row, one operation at a time, the updater's state file | check, download, install, roll back, hand off, hear or reconcile the outcome | nothing prints or is created under an installer; the gate is shut as long as an update is pending and opens again |
| Update policy (`ota-update-policy`) | a state record in memory and in a file: candidate, failures, block, the hand-over whose outcome is due | look, try, hand over, hear the outcome, save | what the file blocks is not tried; a release is blocked for failures of its own; an outcome counts once and comes before the next try |
| Native updater (`apps/updater-go`, the boot of `apps/desktop`) | install tree, database, a backup of each, state file | verify, stop Desktop, copy, install, start, probe, roll back, recover, roll back by hand | whatever fails, the old release can be put back; the recorded outcome is the one on disk; an interrupted update ends |
| Database file (`infra/db/sqlite.ts`) | the file, the copy in memory, an endpoint of the operating system (named pipe, abstract socket) as the lock, a generation counter, a queued save | open, save, close | one writer; what was answered is in the file; every call of `initDatabase` returns; the endpoint is not leaked |
| NATS connection manager | connection, consumers, generation | connect, consume, reconfigure, test | what is in the stream is consumed, whatever broke before; only the consumers of the last configuration run |
| Retention, printers, templates, paper profiles, webhooks, users, web UI, MCP server | plain CRUD over rows | | no interleaving to check |

How they interact: intakes call the create service; the create service enqueues a message; the
scheduler, a direct call or a runner claims the row with one conditional UPDATE and executes it;
the terminal write is followed by an event on the in-process bus; the callback dispatcher
subscribes to it and keeps its own durable records; the OTA service closes the admission gate and
waits for queue, scheduler and bus to settle; the updater it launches stops Desktop with the API in it,
replaces the files, starts Desktop again and reports to the new API.

What is hard in this system:

* every `await` of a port lets other handlers run, so a row read before an `await` may be stale;
* the adapter call is raced against a watchdog and cannot be stopped: it goes on after the verdict;
* the process dies at any point, the rows survive, the queue and every handler do not;
* runners are on the far side of a network and report once;
* the updater outlives the API that launched it, and either may die at any step: what is left is a
  row, a state file and whatever is on the disk;
* callbacks are retried over a network whose failures do not say whether the receiver heard.

## 2. Modules

### `JobLifecycle`: the abstract specification of a job row

One variable, `status`, and the moves the statuses may make. It says what a reader of the
`jobs` table may rely on; `FAILED` is terminal but executable, the four statuses in `Final` are
never left. `PrintJob` implements it (`FollowsTheLifecycle`, refinement mapping `status <- row`).

Four more promises are stated in this way and implemented by the module that follows the code:
`DeliveryRecord` by `CallbackDelivery`, `AdapterCall` by `PrintVerdict`, `SingleWriterFile` by
`DatabaseFile`, `UpdateTransaction` by `Updater`. TLC checks each refinement on a run, TLAPS proves it.

### `PrintJob`: the gateway around it

State and code:

| Variable | Code |
|---|---|
| `row`, `cancelReq` | `jobs.status`, `jobs.metadata.cancelRequested` |
| `creating` | create handlers that have not returned |
| `queue`, `inflight` | the two collections of `InMemoryJobQueue` (their order is not kept) |
| `pc`, `jobOf`, `readCancel`, `accepted`, `verdict` | one execution: where it stands, the job, the row it read before the claim, `acceptedProgress`, the terminal status it wrote |
| `dev` | the adapter call: waiting for the printer lock, working, submitted, returned |
| `held`, `wire` | what runners hold, results on the network |
| `pending`, `heard` | handlers between the terminal write and `emitPrintJobTerminal`, events published |
| `printed`, `failures` | documents on the wire and FAILED verdicts per job (observations) |
| `up`, `crashes` | serving or booting, number of crashes |

An action is the code between two awaits. sql.js and the in-memory repositories finish a write
before the caller continues, so a row is durable when the repository call returns. The actions of
the create handler, of the scheduler, of an execution, of the adapter, of the cancellation, of the
runner endpoints with the runner behind them, and of a crash with its recovery each carry a
comment naming the code; `PROJECT.json` maps every one to its lines.

Choices worth knowing:

* A crash may still let an adapter submit the document it was working on (a subset of the working
  calls), because the print command runs in another process.
* Boot recovery exists only with the local worker; the server deployment has none.
* `StoreMayFail` lets a trace or audit write be rejected where the code does not catch it: outside
  the `try` block of `execute` (the row stays DISPATCHED), inside it (the catch writes a second
  verdict), or on the way to an event.
* A job created by a client cannot be cancelled or executed by it before its create call returned
  (clients have no id before), but runners and boot recovery do not wait for that.
* Executions of a runner through the legacy endpoint are direct calls.

### `CallbackDelivery` and `DeliveryRecord`: delivery of the verdict

`DeliveryRecord` is one row of the delivery table for a reader: which statuses follow which, that an
attempt is counted when it is claimed, that the payload and its guarantee are written once, and that
what is settled stays so. `CallbackDelivery` implements it for every record (`FollowsTheRecord`; the
variables are the columns, so the mapping is the identity); `SettledStaysSettled` follows.

What `ResultCallbackDispatcher` does with the events `PrintJob` publishes. `Announce` is that
environment: a verdict comes once, or again after FAILED.

| Variable | Code |
|---|---|
| `latest` | the verdict announced last (observation) |
| `tasks` | `handleTerminal` calls that have not created their record |
| `status`, `attempts`, `due`, `reports`, `guarantee` | `delivery_status`, `attempt_count`, `next_attempt_at <= now`, `print_status`, `guarantee` of a record |
| `todo`, `on`, `count`, `got` | a worker, which is the subscriber's own first attempt or a sweep: the list it read, the record it is sending, `attemptCount` of the row it claimed, whether the receiver took the request |
| `heard`, `sends` | what receivers got and how often it was sent (observations) |

A sweep that has just received an answer continues before a timer starts the next one (microtasks
run before timers), hence the last guard of `StartSweep`. Time is one bit per record, so the order
in which several records become due is free. Left out: the page size of a sweep (50), the attempt
log, signatures and payloads, and that retention deletes old settled records.

### `PrintIntake`: from a request to a row

The NATS consumer with its connection manager and the HTTP route, in front of the create handler.

| Variable | Code |
|---|---|
| `row`, `created`, `broken` | the row found by `findByRequestId`, how many there are, creations interrupted by a failing write |
| `config` | whether templates, bindings, endpoints and printers let the request through, and if not, before or after the lookup |
| `closed` | `PrintAdmissionGate.maintenance` |
| `stream`, `delivered` | the message in JetStream and its delivery count (external) |
| `copies`, `waiting` | deliveries buffered by a connection's consume loop, handlers that await `notifyRejected` |
| `online`, `epoch` | the connection of `NatsConnectionManager.run` and its number |
| `ended` | connections whose consume loop has ended with an error, `consumeLoopActive` being false |
| `answer` | what the HTTP caller was told |

Between the lookup and the acknowledgement no handler waits for anything but the in-process
database, so acceptance is one action. This is what keeps a request to one row: `jobs` has a plain
index on `(request_id, source_system)`, not a unique one. `PrintJob` has the finer steps of the
creation; here only a crash (`Crash`) and a failing write (`Break`) stop it half way.
What a connection had buffered when it closed may still be handled for a while, or dropped.
The loop ends when the iterator fails (`LoopFails`) or a handler throws (`HandlerThrows`), as it does of a
message in `NullBodies`; a message says what its envelope says, so `RequestOf` of such a message is not looked at.
Deliveries are counted as the code and its tests count them, `redeliveryCount` being 0 at the first;
if the library counts from 1, the consumer gives up one delivery earlier than modelled.

### `PrintVerdict` and `AdapterCall`: did it print?

`sendAndVerify` of the Windows adapter, which `PrintJob` sees as one call that waits, works and
returns, with the Windows queue, the printer, other programs and operators around it.

`AdapterCall` is the contract between the two: a call hands its copies over one by one while it has
the printer, none after its answer; FAILED is the answer of a call that handed over nothing, SUCCESS
of one that handed over all. The guards of `GrantPrinter`, `Submit` and `AdapterAnswers` in `PrintJob`
take it for granted, for one copy. `PrintVerdict` implements it (`IsAnAdapterCall`): the printer is
had from the lock to the answer (`Dev`), a copy is handed over when Windows has it or a helper that was
not stopped may still submit it (`Handed`), and `Result` is what the service makes of `success` and
`errorCode`. Two things the contract has and `PrintJob` simplifies: a request may be refused before it
waits for the printer, and a copy that a helper still has is on the wire at the latest when the call
answers UNVERIFIED.

| Variable | Code |
|---|---|
| `place` | where each document is: with a helper nobody listens to any more, in the Windows queue, in the printer, on paper, aborted, deleted (external) |
| `pc` | the stage of a send: waiting for the lock, the two halves of the IPP baseline, submission, queue watch, confirmation, answered |
| `ev` | its local variables: `beforeIds`, `preexistingUnsafeJobs`, `pagesBefore`, `baselineKeys`, `submittedCopies`, `observedJobIds`, `competingJobIds`, the spooler outcome, `observedJobs`; `arrived` is history |
| `verdict`, `credit` | the answer and on whose word it was given; the documents whose IPP jobs confirmed it (observation) |

The baseline of the IPP jobs is two requests, first the jobs that are not completed and then the
completed ones, and a document may finish in between: hence two actions. Everything else that is
read is read in one step. A copy is a page, and a document without the name of an HTML send is
printed in one step, because the job list is searched for those names only. A copy
that a timed-out helper still has may reach Windows while the next send runs, under its name; then
the retry is confirmed by its predecessor's page, which no property forbids: it is a page of
the job, it was not there before, and it confirms nothing else. Left out: queue rows that Windows
retains after printing, fault texts, the evidence kept for operators, and rendering.

### `DatabaseFile` and `SingleWriterFile`: one writer

`SingleWriterFile` is the promise: at most one process has a copy, it starts as what was saved last,
and nothing is saved over. `DatabaseFile` is `infra/db/sqlite.ts` and implements it (`SingleWriter`,
mapping `saved <- file, copy <- mem`).

| Variable | Code |
|---|---|
| `file`, `mem` | the changes in the file and in `_db` of each process |
| `lock`, `holds`, `closing` | whose endpoint exists, `_dbLockServer` is set, `_dbLockRelease` is pending |
| `gen`, `active`, `running` | `_lifecycleGeneration`, `_activeGeneration`, `_initialising.generation` |
| `stage` | where the initialisation of a generation is: waiting for the release or the endpoint, loading the runtime, in its catch |
| `at`, `asks` | a call of `initDatabase` and its `requestedGeneration` |
| `queued`, `pending`, `answered` | `_saveQueued`, changes whose handlers have not answered, and those that have |

Each await of `initDatabase` and of its task ends an action, so that `closeDatabase` and other calls
come in between. Two tasks of one generation are one in the model. Left out: `closeDatabase` with
`save: false` (tests), the backup before a migration, and the removal of a stale socket file on
macOS.

### `Maintenance`: making room for an update

The admission gate with the creations inside, the OTA operation that shuts it, and what the API
makes of the row and the state file, before and after the restart.

| Variable | Code |
|---|---|
| `maintenance`, `inside` | `PrintAdmissionGate.maintenance`, the creations `activeAdmissions` counts |
| `status`, `message` | a job's row and queue message; `again` is an execution of a job that FAILED before, `leaked` a message whose execution threw before the claim |
| `ota` | the `ota_update_state` row; `told`: its error text is the one the state file gives |
| `op` | what `runExclusive` has let in: the await it is at, manual, automatic or rollback, whether it has the gate's release closure, and which of the two looks |
| `file`, `updater`, `report` | state file, native updater, outcome on its way to `POST /ota/recovery` |
| `api`, `current` | Desktop with its API, the installed release |
| `touched` | history: an operation or a status read wrote the row while an update was under way |

Deployment: Desktop, with the artifact already downloaded or not to be had. `FETCHED` and
`FETCH_FAILED` stand for the states of check, download and verification, and the file is that of the
latest update. The updater is what the API sees of it: it stops and starts Desktop and leaves a
phase; `Updater` has the rest. The policy worker is a client here, `UpdatePolicy` has what it remembers.
The installer that runs inside the API's process does not exist on Desktop.

### `UpdatePolicy`: which release is tried again

`OtaUpdatePolicyWorker`, which asks for the automatic operations of `Maintenance`. Every update it
starts ends its process, so its memory is a file.

| Variable | Code |
|---|---|
| `memory`, `disk` | `state` and the policy file: `failureCount`, `failureVersion`, `blockedVersion`, `pendingVersion`, `operatorRecoveryRequired` |
| `usable` | `persistenceUnavailable` is not set |
| `at`, `then` | the await at which `runOnce` is, stopped or down; where it goes on after a save |
| `asked`, `file` | the target of the `ota_update_state` row; the updater's state file |
| `bad` | history: failures of a release since the file named it last |

Memory changes first, then the file, and the process may end in between. The outcome is heard if the
row is still about the pending release, which an operator's check or download changes. Left out: times
(an expired and a running backoff differ in nothing but when the next run is), the number of failed
checks in a row, an operator's own installs, and the updater that is launched to undo a launch that failed.

### `Updater` and `UpdateTransaction`: replacing the files

`UpdateTransaction` is what the state file promises about the disk, without workers or crashes: the
phases come in their order, nothing is replaced before whole backups are saved and named, and a final
phase is written of a disk that has that outcome. `Updater` implements it (`IsATransaction`; `saved`
is: the state file names the backups and they are whole). `OutcomeIsTrue` and both restorability
properties follow from it, which is proved as well (`TransactionsAreTrue`).

`Apply`, `Recover` and `Rollback` of `internal/updater`, and the Desktop boot that finds the state
file (`ota_recovery_is_stale`, `launch_stale_ota_recovery` in `lib.rs`).

| Variable | Code |
|---|---|
| `phase`, `recorded`, `stale` | the state file: `Phase`, `BackupPath` is set, written 30 s ago or more |
| `tree`, `aside`, `backup` | the install root, `.failed-install`, the backup: `none`, the old release, the new one, or part of it |
| `db`, `dbAside`, `dbBackup` | the same of the database, by schema |
| `desktop` | the Desktop process: which release, who started it (as far as that decides who may stop it), whether it boots, its `server.exe` starts (again) or serves, and the database image which that has in memory |
| `pc` | the next step of each worker; one that the API launches, others that Desktop launches |
| `migrates` | the release changes the schema |

Every rename, copy and write of the state file is a step, fails or is followed by a crash. A sidecar
that cannot open the database is started again every 2 s (`lib.rs` 924-956), and one that serves writes its
whole image over the database file whenever it saves.

The file gets old whoever is at work on what (`TimePasses`): a copy of a release, the wait for a process tree and a
restore have no bound, and the worker starts Desktop after them without writing the file again. That Desktop,
or one that a user started, may then start a recovery under the live worker. The model follows both as long
as the first has nothing left but to start a release and to report (`Spent`), which is where the updater's
own restarts of Desktop come, or nothing was replaced yet. Otherwise the update is `Overtaken`: two workers copy into and rename the
same staging directories, and the behaviour ends there, with every property checked up to that state. What
the two do to the disk from there on is not modelled, and nothing is claimed of it.

A behaviour is one update and a manual rollback of it. Left out further: validation of requests,
signatures, re-use of process ids, loss of renames at power failure, and
a second rename of `writeJSONAtomic` that fails (`json.go` 24-30), which loses the state file.

### The MC modules

They give values to the constants that are functions. `MCPrintJob` sends every job to one printer,
the interesting case for the chain and the lock; `MCCallbackDelivery` attaches every record to one
job; `MCPrintIntake` gives every message and call the same request; `MCPrintVerdict` makes
the second HTML send a retry of the first; `MCDatabaseFile` gives two of three calls to one process. `Maintenance`,
`UpdatePolicy` and `Updater` need no such values and are checked as they are.

## 3. Runs

| Run | Question | Bounds |
|---|---|---|
| `desktop` | do ownership, the single page, announcements and the lifecycle hold for one job that the scheduler, two direct calls and a runner compete for, with a cancellation and a crash anywhere? | 1 job, 2 calls, 1 runner, 1 crash |
| `server_failures` | without the local worker, and with store writes rejected half way, does a cancelled job print, or any job twice? | 1 job, 2 calls, 2 runners, 1 crash |
| `liveness` | does every job end, is every verdict announced, does the queue drain? | 2 jobs, 2 crashes |
| `failed_but_printed` | does FAILED mean that nothing printed, as the docs say? (no) | 1 job |
| `callbacks` | is a record sent by one worker at a time, within its budget, reported honestly, settled for good, and is it the record its readers expect? | 1 HTTP and 1 Core NATS record of 1 job, 2 sweeps, 2 attempts, 1 crash |
| `intake` | does a request get one job however it arrives, is what was accepted queued, and is every message tried as long as a loop consumes? | 1 request, a message of 2 deliveries, 1 call, a message whose body is null, 2 connections, 1 crash |
| `maintenance_dead_letters` | is only poison dead-lettered, as the consumer's comment says? (no) | as `intake`, with 2 valid messages |
| `verdict` | what does a confirmation of the adapter stand for, does a send keep the contract of an adapter call, and does every HTML send answer? | 2 of 3 sends: a one-copy HTML job, its retry, a two-copy text; 1 foreign document |
| `database` | is there one writer, does a change that was answered stay, does every call return? | 2 processes, 3 calls, 1 change, 2 closes of each process, 1 crash |
| `maintenance` | is nothing printed or created under an installer, is the gate shut while an update is pending, and does it open? | 1 job, 1 release on offer, 2 operations of any kind, 1 crash |
| `update_policy` | is a release left alone while the file blocks it, is it blocked for failures of its own, does a due outcome come first? | 2 releases, a budget of 2 failures, 3 failures of a release while the file names it |
| `updater` | can the old release always be put back, is an update a transaction whose outcome is true, does an interrupted update end? | 2 recovery workers, 2 failures, 2 crashes; ends when a recovery overtakes a worker that is not done |

A type invariant that TLAPS proves for every instance is not checked by a run as well. Nor is a
property that follows from a refinement the run checks: `SettledStaysSettled` (from
`FollowsTheRecord`), `FailedWasNeverSent` (from `IsAnAdapterCall`) and `OutcomeIsTrue` (from
`IsATransaction`); the last two implications are theorems themselves.

Why the bounds are enough: ownership is a matter of one row and of those who want it, and the
executors come in three kinds (scheduler, call, runner) that race pairwise; two calls give a pair
of one kind. Jobs interact only through the printer's chain, its lock and the boot loop, where two
jobs show waiting, overtaking and replay. One crash reaches every step, the second one dies during
the recovery of the first.

A record matters to the workers that have it in their list, and to nothing else, so two sweeps and
the subscriber show every overlap; two records make a sweep's list go stale while it sends the other
one; two attempts have a first, a retry and the end of the budget. For the intake, idempotency is a
matter of one request; a message and a call are repetition across transports (two valid messages are in the
proofs, and in `maintenance_dead_letters`), the null body ends a loop that has or has not taken the other message, two
deliveries are a redelivery and a last one, and two connections leave copies of the first behind
while the second serves. The process dies or the connection breaks in a behaviour of `intake`, the
second connection serves what either left.

A send meets others through the lock, the names in the printer's job list and the queue: a send and
its retry share a name, a text send shares neither name nor confirmation, and one foreign document can
be taken for an own row, be a rival, move the page counter, or be there before. Two
copies have a first, which is observed or followed by a failure, and a last.

For the database file, two calls of one process share or replace a task, a third is the other
process at the lock; with two closes a task is made stale, and so is the one that waits for it. For
`maintenance`, two operations are an update and a retry, a rollback, or a check that meets the first;
one job is being created, waits, prints, is cancelled or tried again while the other things go on
(two jobs without crashes were checked once, and two releases on offer). For `update_policy`, two
releases are a candidate and the next one, and two failures a first and a last; ends of the process,
failing saves and unreadable files are not bounded. For the updater, two
failures are one of the update and one of its rollback, and two crashes stop the update and the recovery of it; a
third recovery would find what the second left.

`CHECK_DEADLOCK FALSE`: every job, request or update of an instance ends, and then the system rests.
After a crash between the two renames of `restoreBackup` there is no Desktop left to start at all.

Fairness (`FairSpec`) is weak and only for what the event loop drives: a handler continues when
its await has settled, a chain starts its next job, the watchdog timer fires, boot goes on. Nothing
is assumed of clients, runners, the network or the adapter, which may hang for ever. That an
execution ends at all is therefore due to the watchdog alone.

For callbacks: a claimed request ends (both transports give up, HTTP after 10 s), the retry timer
fires, the subscriber and the sweeps go on; the receiver may refuse or be silent for ever. For the
intake: the manager reconnects for ever, JetStream delivers to a consumer that is connected, a
consume loop takes its copies in order, the report of a rejection times out. Nothing restarts a loop that
ended with an error but the end of its connection, and no connection has to end: `EveryMessageIsTried` is
therefore about behaviours in which a loop consumes again and again (`[]<>Consuming`). Callers, operators and
the network owe nothing.

For the adapter: an HTML send goes on, since all it waits for has a timeout (60 s for the helper, 5 s
for a queue query, 4 s for an IPP query, 30 s and 90 s for the watches). `Out-Printer` has none, so
nothing is assumed of text and raw sends, nor of Windows, printer and operators.

For the database file: Node delivers the events it has accepted (the end of a release, of the
wait for the endpoint, of loading) and runs queued microtasks. For maintenance: what Node has begun
goes on, a creation and an execution end, the wait for idle printing meets its deadline (strongly
fair, since the poll alternates), and somebody looks at the status now and then, an operator's page or
the policy worker of an API started after the hand-over; the native updater, its report, Desktop and its user owe nothing. For the updater: a
worker that lives goes on, Desktop boots and its supervisor starts the sidecar, time passes, and a user starts
Desktop again when nothing runs. `InterruptedUpdateEnds` is not about a tree that is no release, where nothing
starts, nor about an update that was overtaken.

## 4. Proofs

`PrintJobProofs` proves, for any number of jobs, calls, runners, printers and crashes, every
invariant and action property of the run `desktop`, and the refinement.

1. `Typed` is `TypeOK` and the fact that an execution past its start has a job; it is inductive
   by itself and gives `TypeCorrect`.
2. `Untouched` strengthens `CancelledNeverPrints`: a row that is still before dispatch, or was
   cancelled there, has no claimant, no document and no adapter call waiting or working, unless a
   FAILED verdict came before. It needs no assumption about the store.
3. `Owned` is `Exclusive` and `Marked`. The right to write a row after its claim is a token: an
   execution past its claim, a runner holding the job, its result on the network. A job has at
   most one token, and a token means that the row is DISPATCHED or PRINTING, from which nothing
   can be claimed. `OneExecutor` alone is not inductive: a result on the wire is no executor, yet
   its arrival would end somebody else's execution. This needs `Reliable`, that no store write is
   rejected half way.
4. The refinement and `FinalStatusIsFinal` follow from `Owned`, action by action.
5. `InAgreement` ties every verdict on its way to an event (`pending`, an execution that is
   announcing) to the row, and gives `AnnouncedStaysTrue`.
6. `Backed` gives `NoLostJob` and `MessageIsDurable`: a QUEUED row has a creator, a message or a
   place on a chain, and after a crash the boot does not finish before it has one again. `Fresh`, that
   a message whose job has a turn on a chain is no longer in the queue, gives `OneTurn`.
7. `Budgeted` gives `OnePagePerVerdict`, also when the store fails. It counts the documents of a job
   together with those that may yet follow: of an execution between its claim and its submission, although
   the watchdog may long have declared it FAILED, and of a runner that holds the job. They are at most
   the FAILED verdicts, and one more once the row has left the statuses that a claim starts from:
   a claim spends what it grants, and only a FAILED verdict, which adds to the count, leads back.
8. `Grounded` gives `SuccessWasPrinted`: a row that is SUCCESS or TIMEOUT, and such an event, is of
   a job of which a document was handed over.
9. `InHand` and `Owed` are the safety halves of two liveness properties, where the store does not fail.
   With the local worker and no runners, a job that is not final is always in somebody's hands: its
   creator, a message, a chain, an execution or the boot (`Tended`, for `EveryJobResolves`). And a verdict that
   was written stays owed to the bus, by the execution or by a pending publication, until it is heard or the process
   dies (`VerdictStaysOwed`, for `VerdictIsAnnounced`). What is left to fairness is that those who
   hold the job or the debt go on.

`CallbackDeliveryProofs` proves every safety property of the run `callbacks` for any number of
records, sweeps, attempts and crashes. The argument is that of a lock:

1. `Held`: a worker that sends a record holds it. The row is DELIVERING, nobody else is sending it
   (`OneSender`), and the count read at the claim is still the row's. Therefore the unconditional
   write of the outcome is safe, which `OneSender` alone does not say.
2. `Budgeted`: a record that is not settled has budget left. With `Held` this bounds `attempts`.
3. `Paid`: a request that was sent is counted by `attempts`, was interrupted by a crash, or is the
   one in flight; this gives `AttemptsAreBounded`.
4. `Witnessed`: what a worker took for an answer was received; this gives `AcknowledgedWasReceived`.
5. `RecordIsImplemented`, the refinement of `DeliveryRecord`, goes through the actions: with `Held` whoever
   writes an outcome writes it over DELIVERING, hence a settled record stays settled.
6. `Attended`, the safety half of `EveryRecordSettles`: while the process is up, a PENDING record is on
   the list of the subscriber that created it, and a DELIVERING one has a worker that sends it.
7. `TellsTheVerdict`: a record that reports SUCCESS is of a job whose latest verdict is SUCCESS.

`PrintIntakeProofs` proves every safety property of the run `intake` for any number of requests,
messages, calls, deliveries, connections and crashes. `RowsOfNext` reduces every step to what it may
do to the rows; `Counted` (a request has no row or exactly one) gives `OneJobPerRequest`.
`AcceptedIsQueued` assumes the local worker and needs `Recovered`: a row that is still ACCEPTED is a
broken one, or its process is dead and nobody serves (`Dead`), so an acceptance always finds or
makes a QUEUED row.

`PrintVerdictProofs` proves every safety property of the run `verdict` for any number of sends,
copies, jobs and foreign documents, `DocsAreFinite` and `AliensAreOthers` being the assumptions
on the documents. Three lemmas carry it: a step of one send leaves what is known of the others
(`BystanderSound`), and what an answer and new evidence must be for the invariant to survive
(`AnswerKeepsIInv`, `LearnKeepsIInv`). The invariant's parts:

1. `Unsent`: a copy that was not submitted is nowhere, which makes FAILED safe to retry.
2. `Covered`: between the two halves of the baseline, what had arrived at the beginning is known or
   completed by now, because nothing that is completed leaves that list. Read in the other order
   this would fail. It gives `OldPagesProveNothing`.
3. `Credited`: the baseline of a running send contains every page that was ever credited under its
   name. `Alone`, the lock, keeps it so while the send runs. With `Seen` it gives `NoPageProvesTwice`.
4. `Watched`: if the watch ended well without rivals or old rows, the whole queue was empty, so no
   copy of the send was in it, whoever's rows were watched; with `Told` (no helper has a copy) this is
   `DeliveredHasLeft`.
5. The refinement of `AdapterCall` needs one more part, `Submitted`: the copies counted as
   submitted are out, and a send that watches has submitted all. `Kind` is the step of a send as its
   caller sees it (refused, granted, learning, handing over, answering); each is a step of the contract or
   a stutter. `ContractIsHonest` derives from the contract alone what callers build on.

`DatabaseFileProofs` proves every safety property of the run `database` and the refinement, for any
number of processes, calls, changes, closes and crashes. `Locked` and `OpenHolds` say that an open
database means its process has the endpoint, which one process has. That the task which opens the
database has it (`Loading`) needs that no second task of the process is at work (`Tasks`), and this
that a call which was woken finds no task but one of its own generation (`Asked`). `Stored` relates the
file, the copies and the queued saves, and gives `AnsweredIsSaved` and the refinement.
`NobodyWaitsInVain` is the safety half of `EveryInitSettles`: a call that waits has a task at work that
will settle its promise, since the end of the only task is told to the calls of its generation and to the newer ones.

`UpdaterProofs` proves every safety property of the run `updater` for any number of recovery workers,
failures and crashes, up to the state in which a recovery overtakes a worker that is not done. Nothing in it rests
on the age of the state file.

1. `Untouched` or `Touched`: before INSTALLING is written nothing was replaced, and nobody is at a step that
   replaces; afterwards the state file names whole backups, and nobody is at a step before that.
2. `Apart`: whoever prepares, installs or confirms is alone; whoever puts back has next to him only workers that
   are `Spent`. A recovery that starts breaks it at most in an `Overtaken` state, hence the disjunction in `IndInv`;
   `StaysApart` shows that no step of a worker leads out of it (`Leads`).
3. `PhaseMeans` (what the state file says of the disk), `PlaceMeans` (what the next step of a worker takes
   for granted) and `DiskAgrees` (disk, state file and Desktop with its image) are carried through each step: those
   that only walk (`Walks`), write a phase (`Writes`), replace files (`Replaces`), and what Desktop does.
4. `AsBefore` is what a spent worker may report although another undoes the update a second time next to it: the tree
   is the old one or set aside, and the new data are nowhere, neither in the file nor in an image that may be saved. It
   is all that `OutcomeIsTrue` says of ROLLED_BACK; that the database file has the old data is not true (section 5).

The refinement of `UpdateTransaction` goes by the kinds of steps: a phase that is written (`WritingIsAMove`), the last
backup, a file that is replaced, or nothing the state file speaks of.

`MaintenanceProofs` proves every invariant of the run `maintenance` for any number of jobs, releases,
operations and crashes. Its invariant says what four places of the protocol are good for, each unless
somebody has written the row behind the operation's back, which the history `touched` records:

1. `Held`: an operation that got past the drain keeps the gate shut and empty.
2. `Clear`: behind the second look, and under an updater that was launched, nothing waits or prints
   either. `InstallsOverNothing` itself says less: a launch that fails is rolled back under the same gate, so
   the places in between (`Handing`) have to be in it. `Shape` adds which places have the gate's
   release closure.
3. `Pending`: a launched update is in the row, in a state that shuts the gate of the next API, before the
   updater starts; and its file stays open until it has an outcome. This carries `FailsClosed` over a restart.
4. `Reason`: an operation without the gate has not shut it; it gives `GateHasAReason`.
5. `Awaited`, the safety half of `EveryOperationEnds`: an operation that waits for creations to leave the gate
   waits for one that is inside. The last one to leave wakes it in the same step, so no wake-up is
   lost.

`UpdatePolicyProofs` proves every property of the run `update_policy` for any releases, any budget and
any number of restarts, failing saves and unreadable files. `InStep`: memory
and file differ only between a change and its save, or when the worker has paused, and then only by a
new candidate. With `Sound`, what one record may be, it gives `BlockedIsNotTried` and `OneOutcomeAtATime`: a
candidate that could not be saved is another than the one the file blocks. `Blamed` is an account: the count
has no failure that is not one of the release, and room for the one whose outcome is due.

Every proof assumes only the named assumptions on the constants in the modules, and what its theorem
states (`Reliable`, the local worker, no runners).
Not proved: liveness (the prover does not do fairness) and which actions are enabled, so from
`Tended`, `Attended`, `Awaited` and `NobodyWaitsInVain` the last step to the liveness properties stays with TLC. The
other properties of the passing runs are all theorems. Some theorems are about properties that no
run checks: `RunningRowIsOwned`, `FinalIsFinal`, `MessagesAreDurable`, `OneTurnPerMessage`,
`SuccessWasPrinted`, `OpenJobsAreTended`, `VerdictsStayOwed`, `NoWakeUpIsLost`, `NoRecordIsStranded`,
`SuccessToldIsTheVerdict`, `NoCallIsStranded`, `SettledIsFinal`, `RetriesAreSafe`, `DeliveredLeft`, `ContractIsHonest`,
`OutcomesAreTrue`, `TransactionsAreTrue`, `OneTaskAtATime`, `OpenedIsOpenAlways` and those about types;
TLC found no counterexample to the properties before they were proved. Nothing in the proof modules is recursive.

## 5. Where code and docs part

Shown by a run:

* `failed_but_printed`: the watchdog writes FAILED when no SPOOLER_ACCEPTED was heard, and the
  abandoned adapter call prints later, possibly after waiting for the printer lock.
  `docs/architecture/job-lifecycle.md` calls FAILED safe to retry.
* `maintenance_dead_letters`: a closed admission gate answers 409, and the NATS consumer takes every
  4xx for poison. A valid message that arrives during an update is dead-lettered.

In the models, and shown by no run:

* A consume loop that ends with an error logs "NATS intake consume loop ended; reconnecting"
  (`nats-connection-manager.ts` 408), but nothing reconnects: `run` waits for the end of the connection (362),
  which stays open. One message whose body is the JSON value `null` is enough, since the first look at the envelope
  throws outside of every `try` (`print-intake.ts` 269). `EveryMessageIsTried` excludes that by its premise.
* A restore that takes 30 s leaves an old state file when the worker starts Desktop (`updater.go` 268-277, 232-241,
  168-184, 320). Desktop takes the update for abandoned (`lib.rs` 623-645), starts a second recovery under
  the live worker and exits (881-890). The first one reports ROLLBACK_FAILED while the second one replaces
  the tree again; a worker that is still copying is joined in the same way when a user starts Desktop. In `Updater`
  up to `Overtaken`.
* An API that opened an absent database, between the two renames of a restore (`copy.go` 87-95), has an empty image
  in memory and writes it over the restored file with its next save (`sqlite.ts` 48-55, 191-205): ROLLED_BACK is then
  recorded of an empty database, whose old data are in the backup only (`ServerSaves`; `OutcomeIsTrue` says no more).
* A recovery of an update that had replaced nothing starts Desktop before it writes the state file
  (`updater.go` 153). Desktop finds the same old file, starts another recovery and exits (`lib.rs` 880).
  No API comes up, and ROLLBACK_FAILED is recorded of a release nobody touched, where the updater's test
  expects ROLLED_BACK (`updater_test.go` 248). `Updater` has these steps; TLC reaches the state with one
  crash and no failure.
* The policy forgets a block, and the count, when a check fails or has nothing to offer: a release that
  was blocked is tried again after the next failed check, although
  `docs/ota/OTA-architecture-contracts.md` 292-295 asks for a newer release or an operator
  (`RecordFailedLook` and `RecordSuccess` in `UpdatePolicy`; the test 'resets the failure budget only when the
  candidate version changes' says the same as the document). There is no bound on the tries of one release over all
  restarts, and no property claims one: `BlockedIsNotTried` is about what the file says now.
* A policy file that cannot be read is taken for none and written over, with the block and a due outcome
  in it; a save that fails before an install does not stop that install (`Start` and `Save`; against
  the same document, 296-297, "fails closed").
* A hand-over whose process ends before `pendingVersion` is saved is never counted (`Stop` before `NoteHandOver`
  is saved); a
  status that cannot be read drops a due outcome (`Observe`); a check by hand between the restart and the
  policy's next look leaves it waiting for ever (`Operator`).
* The verdict of an execution writes `metadata` spread from the row read before the claim, so a
  `cancelRequested` stored meanwhile is lost (`Persist` in `PrintJob`; `job-lifecycle.md` 117).
* `claim` of a callback tests the status and not `next_attempt_at`, and a sweep works through a list it
  read at its start: a record that another sweep has just rescheduled is sent again at once
  (`Attempt` in `CallbackDelivery`; `callback-retry-policy.ts` 25-27).
* A delivery record is unique per job and destination, but a FAILED job may be executed again: its
  second verdict is delivered to nobody (`CreateIfAbsent`; `callback-delivery.ts` 154-156).
* Without an IPP baseline an HTML send is a SUCCESS when the rows it observed have left the Windows
  queue (`Vouched` in `PrintVerdict`; against `job-lifecycle.md` 76-78 and
  `windows-spooler.adapter.ts` 367-368; a later comment defends the branch for WSD printers).
* A rejected trace or audit write before the `try` of `execute` leaves a DISPATCHED job to the next
  boot; one after SUCCESS was stored lets the generic catch store FAILED over it; one between a verdict and its
  event drops the event, and with it the callback (`VerdictIsAnnounced` fails with `StoreMayFail`).
* Without the local worker `EveryJobResolves` and `QueueDrains` do not hold: the result of a runner
  that is lost leaves its job DISPATCHED, and nobody dequeues, so that the retention sweep waits for
  an empty queue for ever.
* A request that was accepted, lost its acknowledgement and lost its template since is reported
  REJECTED although it prints; a dead-letter publish that fails on the last delivery leaves a message
  that was neither printed nor reported.
* The state file of an update is kept after it has ended. A status read while the same version is
  tried again, or rolled back by hand, takes the old outcome for the new one and opens the gate
  under the operation (against `ota-update.service.ts` 1662-1664). `InstallsOverNothing` and
  `FailsClosed` except it by `touched`.
* A second install or download while an update is pending overwrites the row, and the next API does
  not shut the gate (against `app.ts` 333-334); excepted likewise.
* `POST /jobs/:id/execute` of a FAILED job passes no gate and may print under the installer (against
  `docs/ota/OTA-architecture-contracts.md` 569); `InstallsOverNothing` leaves `again` out.
* A launch that fails before it has written the state file is followed by `installer.rollback` with
  the file of the previous update, which rolls a healthy release back (against
  `ota-update.service.ts` 1073-1075); one that fails afterwards leaves RESTART_PENDING with nobody to
  end it. So does an updater that dies before it reports, until a Desktop finds its file;
  ROLLBACK_FAILED keeps the gate shut over every restart.
* A crash between the two renames of the database, and a Desktop that starts within 30 s, serve an empty
  database until the recovery, or for good (above); an old release may meet the newer schema (against
  `OTA-architecture-contracts.md` 3.3).
* A COMPLETED that cannot be written leaves HEALTH_CHECK, and a later boot rolls a healthy release back.
* `launch_stale_ota_recovery` starts the worker with the install root as its working directory, which
  the installer avoids for the sake of the rename (`external-updater-installer.ts` 135-138): `SwapOut` of a
  recovery may fail at any time.

## 6. Plan and limits

Done, in this order: `JobLifecycle`, `PrintJob`, `CallbackDelivery`, `PrintIntake`, `PrintVerdict`,
`DatabaseFile`, `Updater`, `Maintenance`, `UpdatePolicy`, the proofs about each of them, and the
abstract promises `SingleWriterFile`, `DeliveryRecord`, `UpdateTransaction` and `AdapterCall` with their refinements.

Next: an abstract promise of the intake, which `PrintIntake` composed with
the creation of `PrintJob` implements; the order in which the queue serves jobs (priorities,
rehydration); `PrintJob` composed with `AdapterCall` in place of its own adapter actions; the wording of `report` and
`file` shared by `Maintenance` and `Updater`, as a refinement of the updater that `Maintenance` sees.

### Not modelled

Template rendering, printer drivers and device protocols are pure functions or device I/O, for golden
files and hardware. Printers, templates, profiles, users and service accounts are edits of single
rows. Runner registration, heartbeat and discovery overwrite status rows with the latest report. The
web UI and the MCP server are clients of the API. The repository also holds a large vendored set of
agent skills (`.agents`, `.agentsroom`, `.hermes`, `.impeccable`), translations and test data, which are no part of the
program. `PROJECT.json` gives the reason for each component.
