---------------------------- MODULE JobLifecycle ----------------------------
(***************************************************************************)
(* What the gateway promises about one row of the `jobs` table: the        *)
(* statuses a job may take and the moves between them.  It is the state    *)
(* machine of docs/architecture/job-lifecycle.md read off the code, with   *)
(* no executor, runner, queue or restart in sight.  PrintJob implements it.*)
(***************************************************************************)
CONSTANT Jobs           \* the jobs that may be submitted

VARIABLE status         \* status[j]: the status column of job j

(***************************************************************************)
(* JOB_STATUSES.  "NONE" is a row that has not been inserted yet;          *)
(* DUPLICATE_RETURNED is an answer to the caller and is never stored.      *)
(***************************************************************************)
PreDispatch    == {"ACCEPTED", "VALIDATED", "QUEUED"}
Dispatched     == {"DISPATCHED", "PRINTING"}
MayHavePrinted == {"SUCCESS", "UNVERIFIED", "TIMEOUT"}
Terminal       == MayHavePrinted \union {"FAILED", "CANCELLED"}
Statuses       == {"NONE"} \union PreDispatch \union Dispatched \union Terminal

(* Final: no operation of the gateway moves the row again.  FAILED is      *)
(* terminal, yet an explicit execution may pick the job up once more.      *)
Final == MayHavePrinted \union {"CANCELLED"}

(* EXECUTABLE_STATUSES of execute-job.service.ts *)
Executable == PreDispatch \union {"FAILED"}

Move(j, from, to) ==
  /\ status[j] \in from
  /\ status' = [status EXCEPT ![j] = to]

Accept(j)        == Move(j, {"NONE"}, "ACCEPTED")
Validate(j)      == Move(j, {"ACCEPTED"}, "VALIDATED")
Queue(j)         == Move(j, {"ACCEPTED", "VALIDATED"}, "QUEUED")
Cancel(j)        == Move(j, PreDispatch, "CANCELLED")
Dispatch(j)      == Move(j, Executable, "DISPATCHED")
StartPrinting(j) == Move(j, {"DISPATCHED"}, "PRINTING")
Resolve(j)       == \E s \in MayHavePrinted \union {"FAILED"} : Move(j, Dispatched, s)

Init == status = [j \in Jobs |-> "NONE"]

Next == \E j \in Jobs : \/ Accept(j)
                        \/ Validate(j)
                        \/ Queue(j)
                        \/ Cancel(j)
                        \/ Dispatch(j)
                        \/ StartPrinting(j)
                        \/ Resolve(j)

Spec == Init /\ [][Next]_status
=============================================================================
