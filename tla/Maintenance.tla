---------------------------- MODULE Maintenance ----------------------------
(***************************************************************************)
(* How the API makes room for an update: the gate through which every new  *)
(* print job passes, the OTA operation that shuts it, waits for the        *)
(* printing to end and hands over to the native updater, and what the next *)
(* API makes of the row and of the updater's state file.                   *)
(*                                                                         *)
(* The Desktop deployment.  The native updater is reduced to what the API  *)
(* can see of it: that it stops and starts Desktop, and the phases it      *)
(* leaves in the state file (module Updater has the rest).                 *)
(***************************************************************************)
EXTENDS Naturals

CONSTANTS
  Jobs,            \* print jobs
  Versions,        \* releases that may be offered; release 0 is installed
  MaxOperations,   \* bound: OTA requests made
  MaxCrashes       \* bound: how often Desktop or an updater stops by itself

ASSUME VersionsAreNewer == Versions \subseteq Nat \ {0}
ASSUME MaintenanceBounds == MaxOperations \in Nat /\ MaxCrashes \in Nat

VARIABLES
  maintenance,  \* PrintAdmissionGate.maintenance
  inside,       \* the creations that run inside the gate
  status,       \* status[j]: the row of job j
  message,      \* message[j]: where the queue message of j is
  ota,          \* the ota_update_state row
  op,           \* the operation runExclusive has let in
  file,         \* the updater's state file
  updater,      \* the native updater
  report,       \* the outcome on its way to POST /ota/recovery, or NONE
  api,          \* "up" or "down": Desktop and the API within it
  current,      \* the installed release
  touched,      \* history: what has touched the update since it was asked for
  operations, crashes

gate   == <<maintenance, inside>>
prints == <<status, message>>
native == <<file, updater, report>>
spent  == <<operations, crashes>>
vars   == <<gate, prints, ota, op, native, api, current, touched, spent>>

-----------------------------------------------------------------------------
(* Mutation: a handed-over update is no reason to shut the gate. *)
HandedOverIsOpen == {"INSTALLING", "ROLLING_BACK", "ROLLBACK_FAILED"}

(* otaMaintenanceStates, less the two that only an installer within the    *)
(* API's process leads to.                                                 *)
MaintenanceStates == {"INSTALLING", "ROLLING_BACK", "RESTART_PENDING", "ROLLBACK_FAILED"}

InProgress == {"RESTART_PENDING", "INSTALLING", "ROLLING_BACK"}

\* FETCHED and FETCH_FAILED stand for the states of check, download and verify.
RowStates ==
  MaintenanceStates \union
  {"IDLE", "FETCHING", "FETCHED", "FETCH_FAILED", "WAITING_FOR_IDLE",
   "COMPLETED", "ROLLED_BACK", "INSTALL_FAILED"}

Terminal == {"COMPLETED", "ROLLED_BACK", "ROLLBACK_FAILED", "FAILED"}

Places ==
  {"free", "fetch", "shut", "drain", "queue", "rows", "settle", "fail", "install", "launch",
   "handover", "installFailed", "rollingBack", "undo", "rollbackFailed"}
Kinds == {"fetch", "manual", "automatic", "rollback"}
Installs == {"manual", "automatic"}

NoOp == [at |-> "free", kind |-> "fetch", version |-> 0, holds |-> FALSE, round |-> 1]
NoFile == [phase |-> "NONE", version |-> 0, previous |-> 0]
NoUpdater == [at |-> "none", kind |-> "apply"]

Init ==
  /\ maintenance = FALSE /\ inside = {}
  /\ status = [j \in Jobs |-> "none"] /\ message = [j \in Jobs |-> "unsent"]
  /\ ota = [state |-> "IDLE", target |-> 0, told |-> FALSE]
  /\ op = NoOp
  /\ file = NoFile /\ updater = NoUpdater /\ report = "NONE"
  /\ api = "up" /\ current = 0
  /\ touched = {} /\ operations = 0 /\ crashes = 0

-----------------------------------------------------------------------------
(* Print jobs.  Only their creation passes the gate. *)

PrintStep == api = "up" /\ UNCHANGED <<ota, native, api, current, touched, spent>>

Enter(j) ==
  /\ PrintStep /\ ~maintenance
  /\ status[j] = "none" /\ j \notin inside
  /\ inside' = inside \union {j}
  /\ UNCHANGED <<maintenance, prints, op>>

Persist(j) ==
  /\ PrintStep /\ j \in inside /\ status[j] = "none"
  /\ status' = [status EXCEPT ![j] = "waiting"]
  /\ UNCHANGED <<gate, message, op>>

Enqueue(j) ==
  /\ PrintStep /\ j \in inside /\ status[j] # "none" /\ message[j] = "unsent"
  /\ message' = [message EXCEPT ![j] = "queued"]
  /\ UNCHANGED <<gate, status, op>>

(* beginMaintenance returns once the gate is empty, with its closure. *)
Idling == [op EXCEPT !.at = "queue", !.holds = TRUE, !.round = 1]

(* Mutation: only a creation that went well wakes beginMaintenance. *)
WakesIfItEnqueued(j) ==
  IF inside = {j} /\ op.at = "drain" /\ message[j] # "unsent" THEN Idling ELSE op

(* The last creator to leave wakes beginMaintenance. *)
Wakes(j) == IF inside = {j} /\ op.at = "drain" THEN Idling ELSE op

(* The creation returns or throws, wherever it is. *)
Leave(j) ==
  /\ PrintStep /\ j \in inside
  /\ inside' = inside \ {j} /\ op' = Wakes(j)
  /\ UNCHANGED <<maintenance, prints>>

Executed(j) ==
  status' = [status EXCEPT ![j] = IF @ = "failed" THEN "again" ELSE "running"]

(* LocalPrintScheduler: dequeue, read the row, claim the job.  A message   *)
(* whose row is no longer QUEUED is acknowledged; one whose job somebody   *)
(* else claimed after the read stays in flight.                            *)
Serve(j) ==
  /\ PrintStep /\ UNCHANGED <<gate, op>>
  /\ \/ /\ message[j] = "queued" /\ message' = [message EXCEPT ![j] = "taken"]
        /\ UNCHANGED status
     \/ /\ message[j] = "taken" /\ UNCHANGED status
        /\ message' = [message EXCEPT ![j] = IF status[j] = "waiting" THEN "claiming" ELSE "none"]
     \/ /\ message[j] = "claiming" /\ status[j] \in {"waiting", "failed"} /\ Executed(j)
        /\ message' = [message EXCEPT ![j] = "held"]
     \/ /\ message[j] = "claiming" /\ status[j] \notin {"waiting", "failed"} /\ UNCHANGED status
        /\ message' = [message EXCEPT ![j] = IF status[j] = "done" THEN "none" ELSE "leaked"]

(* POST /jobs/:id/execute, the sandbox and webhooks: no gate.  "again" is  *)
(* an execution of a job that FAILED before.                               *)
Execute(j) ==
  /\ PrintStep /\ status[j] \in {"waiting", "failed"} /\ Executed(j)
  /\ UNCHANGED <<gate, message, op>>

(* The verdict, and the acknowledgement of the message in flight. *)
Finish(j) ==
  /\ PrintStep /\ status[j] \in {"running", "again"}
  /\ \E s \in {"failed", "done"} : status' = [status EXCEPT ![j] = s]
  /\ message' = [message EXCEPT ![j] = IF @ \in {"held", "leaked"} THEN "none" ELSE @]
  /\ UNCHANGED <<gate, op>>

Cancel(j) ==
  /\ PrintStep /\ status[j] = "waiting"
  /\ status' = [status EXCEPT ![j] = "cancelled"]
  /\ UNCHANGED <<gate, message, op>>

-----------------------------------------------------------------------------
(* The outcome of a native update. *)

OutcomeOf(phase) == IF phase = "FAILED" THEN "INSTALL_FAILED" ELSE phase

(* reconcileExternalUpdaterState: the file has an outcome of the target    *)
(* that the row does not tell, in these words.                             *)
Due ==
  /\ file.phase \in Terminal /\ file.version = ota.target
  /\ ~(ota.state = OutcomeOf(file.phase) /\ ota.told)

Reconciled == [state |-> OutcomeOf(file.phase), target |-> file.version, told |-> TRUE]

(* Mutation: the row is written, the gate is forgotten. *)
StaysShut(outcome) == maintenance

(* resumeMaintenance, unless the rollback failed *)
ShutAfter(outcome) == maintenance /\ outcome = "ROLLBACK_FAILED"

(* An update has been asked for and has no outcome yet. *)
UpdateIsOn ==
  op.at \notin {"free", "fetch"} \/ updater.at # "none" \/ file.phase = "open"

Outcome(row) ==
  /\ ota' = row /\ ota # row
  /\ maintenance' = ShutAfter(row.state)
  /\ touched' = IF UpdateIsOn THEN touched \union {"status"} ELSE touched
  /\ UNCHANGED <<inside, prints, op, file, updater, api, current, spent>>

(* Somebody looks at the status of the update. *)
GetStatus == api = "up" /\ Due /\ Outcome(Reconciled) /\ UNCHANGED report

(* recordExternalOutcome: the same news, in the words of the updater; it   *)
(* is lost, no news any more, or refused when the row has another target.  *)
Reported == [state |-> report, target |-> file.version,
             told |-> report \in {"INSTALL_FAILED", "ROLLBACK_FAILED"}]

HearReport ==
  /\ api = "up" /\ report # "NONE" /\ report' = "NONE"
  /\ ota.target = file.version /\ Outcome(Reported)

LoseReport ==
  /\ report # "NONE" /\ report' = "NONE"
  /\ UNCHANGED <<gate, prints, ota, op, file, updater, api, current, touched, spent>>

-----------------------------------------------------------------------------
(* OTA operations, one at a time. *)

OpStep == api = "up" /\ UNCHANGED <<inside, prints, api, current, crashes>>

Row(s) == [ota EXCEPT !.state = s, !.told = FALSE]

(* An operation is let in: it touches an update that has no outcome yet,   *)
(* and one whose gate is still shut.                                       *)
LetIn ==
  /\ OpStep /\ op.at = "free"
  /\ operations < MaxOperations /\ operations' = operations + 1
  /\ touched' = IF maintenance \/ UpdateIsOn THEN touched \union {"operation"} ELSE {}

(* checkForUpdate reconciles first, and leaves a running update alone. *)
Check ==
  /\ LetIn /\ ~Due /\ ota.state \notin InProgress
  /\ ota' = [state |-> "FETCHING", target |-> 0, told |-> FALSE]
  /\ op' = [NoOp EXCEPT !.at = "fetch"]
  /\ UNCHANGED <<maintenance, native>>

(* downloadUpdate does not look at the row. *)
Download(v) ==
  /\ LetIn /\ UNCHANGED <<maintenance, native>>
  /\ \/ /\ v > current
        /\ ota' = [state |-> "FETCHING", target |-> v, told |-> FALSE]
        /\ op' = [NoOp EXCEPT !.at = "fetch", !.version = v]
     \/ /\ v <= current
        /\ ota' = [state |-> "IDLE", target |-> 0, told |-> FALSE]
        /\ UNCHANGED op

(* A check that finds a release writes its version as the target. *)
Fetched ==
  /\ OpStep /\ op.at = "fetch" /\ op' = NoOp
  /\ \/ ota' = Row("FETCH_FAILED")
     \/ op.version # 0 /\ ota' = Row("FETCHED")
     \/ op.version = 0 /\ \E v \in Versions : v > current /\ ota' = [Row("FETCHED") EXCEPT !.target = v]
     \/ op.version = 0 /\ ota' = Row("IDLE")
  /\ UNCHANGED <<maintenance, native, touched, operations>>

Install(kind, v) ==
  /\ LetIn /\ v > current
  /\ \/ /\ ota' = [state |-> "WAITING_FOR_IDLE", target |-> v, told |-> FALSE]
        /\ op' = [NoOp EXCEPT !.at = IF kind = "automatic" THEN "queue" ELSE "shut",
                              !.kind = kind, !.version = v]
     \/ ota' = Row("FETCH_FAILED") /\ UNCHANGED op   \* the artifact is damaged
  /\ UNCHANGED <<maintenance, native>>

Rollback ==
  /\ LetIn /\ ota' = Row("ROLLING_BACK")
  /\ op' = [NoOp EXCEPT !.at = "shut", !.kind = "rollback"]
  /\ UNCHANGED <<maintenance, native>>

(* Mutation: nobody waits for the creations inside. *)
ShutAndGoOn == Idling

(* beginMaintenance waits for the creations inside. *)
Shut == IF inside = {} THEN Idling ELSE [op EXCEPT !.at = "drain"]

BeginMaintenance ==
  /\ OpStep /\ op.at = "shut" /\ UNCHANGED <<ota, native, touched, operations>>
  /\ \/ /\ ~maintenance /\ maintenance' = TRUE /\ op' = Shut
     \/ /\ maintenance /\ op' = [op EXCEPT !.at = "fail"]
        /\ UNCHANGED maintenance

-----------------------------------------------------------------------------
(* printQueueIsIdle reads the queue, then the rows; both idle checks take  *)
(* a second look when the scheduler has settled.                           *)
QueueIsIdle == \A j \in Jobs : message[j] \in {"unsent", "none"}
RowsAreIdle == \A j \in Jobs : status[j] \notin {"waiting", "running", "again"}

Passed ==
  IF op.kind = "automatic" /\ ~op.holds THEN [op EXCEPT !.at = "shut"]
  ELSE [op EXCEPT !.at = IF op.kind = "rollback" THEN "launch" ELSE "install"]

Look ==
  /\ OpStep /\ UNCHANGED <<maintenance, ota, native, touched, operations>>
  /\ \/ op.at = "queue" /\ QueueIsIdle /\ op' = [op EXCEPT !.at = "rows"]
     \/ op.at = "rows" /\ RowsAreIdle /\ op.round = 1 /\ op' = [op EXCEPT !.at = "settle"]
     \/ op.at = "rows" /\ RowsAreIdle /\ op.round = 2 /\ op' = [Passed EXCEPT !.round = 1]
     \/ op.at = "settle" /\ (\A j \in Jobs : message[j] \notin {"taken", "claiming", "held"})
        /\ op' = [op EXCEPT !.at = "queue", !.round = 2]

Busy == \/ op.at = "queue" /\ ~QueueIsIdle
        \/ op.at = "rows" /\ ~RowsAreIdle

(* printSystemIsIdle is FALSE: an automatic install is put off. *)
Defer ==
  /\ OpStep /\ Busy /\ op.kind = "automatic" /\ op' = NoOp
  /\ maintenance' = (maintenance /\ ~op.holds)
  /\ UNCHANGED <<ota, native, touched, operations>>

(* waitForPrintIdle polls until its deadline has passed. *)
Poll ==
  /\ OpStep /\ Busy /\ op.kind # "automatic"
  /\ op' = [op EXCEPT !.at = "queue", !.round = 1]
  /\ UNCHANGED <<maintenance, ota, native, touched, operations>>

TimeOut ==
  /\ OpStep /\ Busy /\ op.kind # "automatic"
  /\ op' = [op EXCEPT !.at = "fail"]
  /\ UNCHANGED <<maintenance, ota, native, touched, operations>>

(* Mutation: an install that fails early keeps the gate. *)
Keeps(kind) == maintenance

(* finally: an install that never started releases the gate it holds; a    *)
(* failed rollback keeps it.                                               *)
Releases(kind) == maintenance /\ ~(kind \in Installs /\ op.holds)

Fail ==
  /\ OpStep /\ op.at = "fail" /\ op' = NoOp
  /\ ota' = Row(IF op.kind \in Installs THEN "INSTALL_FAILED" ELSE "ROLLBACK_FAILED")
  /\ maintenance' = Releases(op.kind)
  /\ UNCHANGED <<native, touched, operations>>

-----------------------------------------------------------------------------
Writes(from, s, to) ==
  /\ OpStep /\ op.at = from /\ ota' = Row(s)
  /\ op' = IF to = "free" THEN NoOp ELSE [op EXCEPT !.at = to]
  /\ UNCHANGED <<maintenance, native, touched, operations>>

(* ExternalUpdaterInstaller.install writes the state file and spawns the   *)
(* updater; when it fails the file is gone, or was never written.          *)
LaunchInstall ==
  /\ OpStep /\ op.at = "launch" /\ op.kind \in Installs
  /\ \/ /\ file' = [phase |-> "open", version |-> op.version, previous |-> current]
        /\ updater' = [at |-> "launched", kind |-> "apply"]
        /\ report' = "NONE"   \* an older operation's is refused from now on
        /\ op' = [op EXCEPT !.at = "handover"]
     \/ /\ file' \in {file, NoFile} /\ UNCHANGED updater
        /\ report' = IF file' = NoFile THEN "NONE" ELSE report
        /\ op' = [op EXCEPT !.at = "installFailed"]
  /\ UNCHANGED <<maintenance, ota, touched, operations>>

(* rollback, asked for or after a launch that failed *)
LaunchRollback ==
  /\ OpStep /\ \/ op.at = "launch" /\ op.kind = "rollback"
               \/ op.at = "undo"
  /\ \/ /\ updater' = [at |-> "launched", kind |-> "rollback"]
        /\ op' = [op EXCEPT !.at = "handover"]
     \/ /\ UNCHANGED updater
        /\ op' = [op EXCEPT !.at = "rollbackFailed"]
  /\ UNCHANGED <<maintenance, ota, file, report, touched, operations>>

(* Handed over, or given up: the gate stays as it is. *)
Record ==
  \/ Writes("install", "INSTALLING", "launch")
  \/ Writes("installFailed", "INSTALL_FAILED", "rollingBack")
  \/ Writes("rollingBack", "ROLLING_BACK", "undo")
  \/ Writes("handover", "RESTART_PENDING", "free")
  \/ Writes("rollbackFailed", "ROLLBACK_FAILED", "free")

-----------------------------------------------------------------------------
(* The native updater, and Desktop around it. *)

Stopped ==
  /\ api' = "down" /\ op' = NoOp /\ inside' = {}
  /\ message' = [j \in Jobs |-> IF status[j] = "none" THEN "unsent" ELSE "none"]
  /\ UNCHANGED <<maintenance, status, ota>>

(* A new API: recovery of the rows, the gate by the row of the update, and *)
(* one look at the state file before the first request.                    *)
Started ==
  /\ api' = "up"
  /\ status' = [j \in Jobs |-> IF status[j] \in {"running", "again"} THEN "done" ELSE status[j]]
  /\ message' = [j \in Jobs |-> IF status[j] = "waiting" THEN "queued" ELSE message[j]]
  /\ ota' = IF Due THEN Reconciled ELSE ota
  /\ maintenance' = (ota.state \in MaintenanceStates
                       /\ (Due => OutcomeOf(file.phase) = "ROLLBACK_FAILED"))
  /\ UNCHANGED <<inside, op, touched>>

UpdaterStep == updater.at # "none" /\ UNCHANGED spent

(* Apply refuses the request and says so; Rollback just ends. *)
Refuses ==
  /\ UpdaterStep /\ updater.at = "launched" /\ updater' = NoUpdater
  /\ \/ /\ updater.kind = "apply"
        /\ file' = [file EXCEPT !.phase = "FAILED"] /\ report' = "INSTALL_FAILED"
     \/ updater.kind = "rollback" /\ UNCHANGED <<file, report>>
  /\ UNCHANGED <<gate, prints, ota, op, api, current, touched>>

(* The updater stops Desktop to begin, or since the new release is ill. *)
StopsDesktop ==
  /\ UpdaterStep
  /\ \/ /\ updater.at = "launched" /\ updater.kind = "apply" /\ UNCHANGED file
        /\ updater' = [updater EXCEPT !.at = "stopped"]
     \/ /\ updater.at = "launched" /\ updater.kind = "rollback" /\ file.phase = "COMPLETED"
        /\ updater' = [updater EXCEPT !.at = "stopped"]
        /\ file' = [file EXCEPT !.phase = "open"]
     \/ /\ updater.at \in {"stopped", "started"} /\ updater.kind = "apply" /\ UNCHANGED file
        /\ updater' = [at |-> "stopped", kind |-> "rollback"]
  /\ Stopped /\ UNCHANGED <<report, current, touched>>

StartsDesktop ==
  /\ UpdaterStep /\ updater.at = "stopped" /\ api = "down"
  /\ updater' = [updater EXCEPT !.at = "started"]
  /\ current' = IF updater.kind = "apply" THEN file.version ELSE file.previous
  /\ Started /\ UNCHANGED <<file, report>>

(* A Desktop that could not be stopped goes on serving. *)
Ends ==
  /\ UpdaterStep /\ updater' = NoUpdater
  /\ \E p \in Terminal \ {"FAILED"} :
       /\ \/ p = "COMPLETED" /\ updater = [at |-> "started", kind |-> "apply"]
          \/ p = "ROLLED_BACK" /\ updater \in {[at |-> "started", kind |-> "rollback"],
                                              [at |-> "launched", kind |-> "apply"]}
          \/ p = "ROLLBACK_FAILED" /\ updater.kind = "rollback"
               /\ (updater.at = "launched" => file.phase = "COMPLETED")
          \/ p = "ROLLBACK_FAILED" /\ updater = [at |-> "launched", kind |-> "apply"]
       /\ file' = [file EXCEPT !.phase = p] /\ report' = p
  /\ UNCHANGED <<gate, prints, ota, op, api, current, touched>>

Crash ==
  /\ crashes < MaxCrashes /\ crashes' = crashes + 1
  /\ \/ api = "up" /\ Stopped /\ UNCHANGED updater
     \/ updater.at # "none" /\ updater' = NoUpdater
        /\ UNCHANGED <<gate, prints, ota, op, api>>
  /\ UNCHANGED <<file, report, current, touched, operations>>

(* Desktop is started by hand: it serves, or finds the file of an updater  *)
(* that died and starts another one, which puts the previous release back. *)
UserStarts ==
  /\ api = "down" /\ updater.at = "none" /\ UNCHANGED <<file, report, spent>>
  /\ \/ /\ Started /\ UNCHANGED updater
        /\ current' \in {current} \union (IF file.phase = "open" THEN {file.version} ELSE {})
     \/ /\ file.phase = "open" /\ updater' = [at |-> "stopped", kind |-> "rollback"]
        /\ UNCHANGED <<gate, prints, ota, op, api, current, touched>>

-----------------------------------------------------------------------------
PrintsStep(j) == \/ Enter(j) \/ Persist(j) \/ Enqueue(j) \/ Leave(j) \/ Serve(j)
                 \/ Execute(j) \/ Finish(j) \/ Cancel(j)
Request == \/ Check \/ Rollback
           \/ \E v \in Versions : Download(v) \/ \E k \in Installs : Install(k, v)
Proceed == \/ Fetched \/ BeginMaintenance \/ Look \/ Defer \/ Fail
           \/ LaunchInstall \/ LaunchRollback \/ Record
NativeStep == Refuses \/ StopsDesktop \/ StartsDesktop \/ Ends

Next ==
  \/ \E j \in Jobs : PrintsStep(j)
  \/ Request \/ Proceed \/ Poll \/ TimeOut
  \/ GetStatus \/ HearReport \/ LoseReport
  \/ NativeStep \/ Crash \/ UserStarts

Spec == Init /\ [][Next]_vars

(***************************************************************************)
(* Node runs what it has begun, a creation and an execution end (timeouts  *)
(* and the watchdog bound them), a wait for idle printing meets its        *)
(* deadline, and somebody looks at the status of an update now and then:   *)
(* an operator's pages, or the policy worker of an API that was started    *)
(* after the hand-over (the one that handed over has stopped).             *)
(***************************************************************************)
Fairness ==
  /\ WF_vars(Proceed) /\ SF_vars(TimeOut) /\ WF_vars(GetStatus)
  /\ \A j \in Jobs : WF_vars(Leave(j)) /\ WF_vars(Serve(j)) /\ WF_vars(Finish(j))

FairSpec == Spec /\ Fairness

-----------------------------------------------------------------------------
TypeOK ==
  /\ maintenance \in BOOLEAN /\ inside \in SUBSET Jobs
  /\ status \in [Jobs -> {"none", "waiting", "running", "failed", "again", "done", "cancelled"}]
  /\ message \in [Jobs -> {"unsent", "queued", "taken", "claiming", "held", "leaked", "none"}]
  /\ ota \in [state : RowStates, target : {0} \union Versions, told : BOOLEAN]
  /\ op \in [at : Places, kind : Kinds, version : {0} \union Versions,
             holds : BOOLEAN, round : {1, 2}]
  /\ file \in [phase : {"NONE", "open"} \union Terminal,
               version : {0} \union Versions, previous : {0} \union Versions]
  /\ updater \in [at : {"none", "launched", "stopped", "started"}, kind : {"apply", "rollback"}]
  /\ report \in {"NONE", "INSTALL_FAILED"} \union (Terminal \ {"FAILED"})
  /\ api \in {"up", "down"} /\ current \in {0} \union Versions
  /\ touched \in SUBSET {"status", "operation"}
  /\ operations \in 0 .. MaxOperations /\ crashes \in 0 .. MaxCrashes

(***************************************************************************)
(* print-admission-gate.ts: OTA closes admission and waits for the last    *)
(* creator before it drains the queue.  From the second look on, until     *)
(* Desktop is stopped, no job is being created, waits or prints: not one   *)
(* that passed the gate as it shut.  An execution of a FAILED job passes   *)
(* no gate, and a status read may have opened it; both are excepted.       *)
(***************************************************************************)
InstallsOverNothing ==
  /\ "status" \notin touched
  /\ op.at \in {"install", "launch", "handover"} \/ updater.at = "launched"
  => inside = {} /\ \A j \in Jobs : status[j] \notin {"waiting", "running"}

(***************************************************************************)
(* app.ts: no print is accepted until the updater reports an outcome, by   *)
(* the old API, by the one the updater starts, or by one a user starts     *)
(* after a crash; unless another operation or an outcome of an earlier     *)
(* attempt has touched the row.                                            *)
(***************************************************************************)
FailsClosed ==
  updater.at # "none" /\ api = "up" /\ touched = {} => maintenance

(***************************************************************************)
(* Nobody is turned away for nothing: behind a shut gate there is an       *)
(* operation that will release it, or a row that says what is pending.     *)
(***************************************************************************)
GateHasAReason ==
  maintenance /\ api = "up" /\ "operation" \notin touched
  => op.at = "drain" \/ op.holds \/ ota.state \in MaintenanceStates

(***************************************************************************)
(* A request for maintenance is answered: the wait for the creations in    *)
(* the gate, the looks at the queue and the failures all come to an end.   *)
(***************************************************************************)
EveryOperationEnds == []<>(op.at = "free")

(***************************************************************************)
(* When the updater has left an outcome other than a failed rollback, the  *)
(* gate opens, although the report of it may be lost.                      *)
(***************************************************************************)
GateReopens ==
  maintenance /\ api = "up" /\ ota.state = "RESTART_PENDING"
    /\ file.phase \in Terminal \ {"ROLLBACK_FAILED"} /\ file.version = ota.target
    /\ updater.at = "none"
  ~> ~maintenance \/ api = "down" \/ "operation" \in touched
=============================================================================
