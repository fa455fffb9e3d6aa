---------------------------- MODULE PrintVerdict ----------------------------
(***************************************************************************)
(* How the Windows adapter decides whether a document was printed.         *)
(* sendAndVerify, one call at a time per printer, takes baselines of the   *)
(* Windows queue, the page counter and the printer's own IPP job list,     *)
(* submits the copies, and watches queue and printer until one of them     *)
(* vouches for its documents or the time is up.  Meanwhile other programs  *)
(* and hosts print, operators delete queue rows, and queries fail.         *)
(*                                                                         *)
(* One printer; a copy is one page.  Finished rows that Windows retains,   *)
(* fault texts and the evidence kept for operators are left out: none of   *)
(* them makes a SUCCESS.  A poll of the queue or of the printer is one     *)
(* reading; the baseline of the IPP jobs is two, as its order matters.     *)
(***************************************************************************)
EXTENDS Naturals, FiniteSets

CONSTANTS
  Sends,      \* calls of sendAndVerify for the printer
  JobOf,      \* JobOf[s]: the print job, and so the IPP name of the documents
  CopiesOf,   \* CopiesOf[s]: copies asked for
  Html,       \* sends that require an IPP confirmation; the others are text or raw
  Aliens,     \* documents of other programs, under other names
  MaxTurns    \* bound: how many of the sends are made

ASSUME CopiesArePositive == CopiesOf \in [Sends -> Nat \ {0}]
ASSUME SomeSendsAreHtml == Html \subseteq Sends
ASSUME TurnsAreBounded == MaxTurns \in Nat

VARIABLES
  place,      \* place[d]: where document d is
  pc,         \* pc[s]: progress of send s
  ev,         \* ev[s]: what s has observed, while it runs
  verdict,    \* verdict[s]: its answer, and on whose word
  credit      \* credit[s]: the documents whose IPP jobs confirmed s

vars == <<place, pc, ev, verdict, credit>>

-----------------------------------------------------------------------------
Own(s) == {s} \X (1 .. CopiesOf[s])

Docs == Aliens \union UNION {Own(s) : s \in Sends}

ASSUME DocsAreFinite == IsFiniteSet(Docs)
ASSUME AliensAreOthers == \A s \in Sends : Own(s) \intersect Aliens = {}

Listable == UNION {Own(s) : s \in Html}

(* A retry has the name of the first attempt: PrintOps:<job id>. *)
Named(s) == UNION {Own(t) : t \in {u \in Html : JobOf[u] = JobOf[s]}}

(* "helper": a WebView2 helper has it that nobody listens to any more. *)
Places == {"none", "helper", "queue", "device", "paper", "aborted", "deleted"}

InWindows == {d \in Docs : place[d] = "queue"}
Active    == {d \in Docs : place[d] = "device"}
Completed == {d \in Docs : place[d] \in {"paper", "aborted"}}
Pages     == Cardinality({d \in Docs : place[d] = "paper"})

(* "begun" and "listed" read the two halves of the IPP job list. *)
Locked == {"begun", "listed", "emitting", "watching", "confirming"}

(* SUCCESS because the printer's IPP jobs, the queue or the page counter   *)
(* said so; retryable FAILED; PRINT_NOT_VERIFIABLE.                        *)
Verdicts == {"none", "confirmed", "delivered", "counted", "failed", "unverified"}

(***************************************************************************)
(* rows: beforeIds; dirty: preexistingUnsafeJobs; pages: pagesBefore;      *)
(* ipp: there is an endpoint with a baseline; known: baselineKeys;         *)
(* sent: submittedCopies; ids: observedJobIds; rivals: competingJobIds;    *)
(* left: spooler outcome left-queue or finished; seen: observedJobs, done: *)
(* those last reported in a terminal state.  arrived is history: documents *)
(* that had reached the printer when the send began.                       *)
(***************************************************************************)
Blank == [rows |-> {}, dirty |-> FALSE, pages |-> 0, ipp |-> FALSE, known |-> {},
          sent |-> 0, ids |-> {}, rivals |-> FALSE, left |-> FALSE,
          seen |-> {}, done |-> {}, arrived |-> {}]

Init ==
  /\ place = [d \in Docs |-> "none"]
  /\ pc = [s \in Sends |-> "waiting"]
  /\ ev = [s \in Sends |-> Blank]
  /\ verdict = [s \in Sends |-> "none"]
  /\ credit = [s \in Sends |-> {}]

-----------------------------------------------------------------------------
(***************************************************************************)
(* The world: Windows hands documents over or an operator deletes them,    *)
(* the printer prints or gives up, others print.  The printer's list is    *)
(* only searched for the names of HTML sends; other documents are printed  *)
(* in one step.  One that no poll sees might as well come from elsewhere.  *)
(***************************************************************************)
Move(d, from, to) == place[d] = from /\ place' = [place EXCEPT ![d] = to]

World ==
  /\ \/ \E d \in Docs : Move(d, "queue", "deleted")
     \/ \E d \in Listable : \/ Move(d, "helper", "queue")
                            \/ Move(d, "queue", "device")
                            \/ Move(d, "device", "paper")
                            \/ Move(d, "device", "aborted")
     \/ \E d \in Docs \ Listable : Move(d, "queue", "paper")
     \/ \E d \in Aliens : Move(d, "none", "queue")
  /\ UNCHANGED <<pc, ev, verdict, credit>>

-----------------------------------------------------------------------------
(* Going to the next stage, and leaving with an answer. *)
Goto(s, l) == pc' = [pc EXCEPT ![s] = l] /\ UNCHANGED <<verdict, credit>>

Answer(s, v, c) ==
  /\ pc' = [pc EXCEPT ![s] = "answered"]
  /\ ev' = [ev EXCEPT ![s] = Blank]
  /\ verdict' = [verdict EXCEPT ![s] = v]
  /\ credit' = [credit EXCEPT ![s] = c]

Turns == Cardinality({t \in Sends : pc[t] # "waiting"})

(* executeCommand: no content, paper profile or printer; never chained *)
Refuse(s) ==
  /\ pc[s] = "waiting" /\ Turns < MaxTurns
  /\ Answer(s, "failed", {})
  /\ UNCHANGED place

(* The queue snapshot (a failed one is empty) and the counter. *)
Snapshot(s, rows) ==
  ev' = [ev EXCEPT ![s].rows = rows, ![s].dirty = (rows # {}),
                   ![s].pages = IF s \in Html THEN 0 ELSE Pages]

Begin(s) ==
  /\ pc[s] = "waiting" /\ Turns < MaxTurns
  /\ \A t \in Sends : pc[t] \notin Locked
  /\ Goto(s, IF s \in Html THEN "begun" ELSE "emitting")
  /\ \E rows \in {InWindows, {}} : Snapshot(s, rows)
  /\ UNCHANGED place

(* Mutation: the jobs in progress are not asked for. *)
ReadNothingActive(s) ==
  /\ pc[s] = "begun" /\ Goto(s, "listed")
  /\ ev' = [ev EXCEPT ![s].arrived = (Active \union Completed) \intersect Named(s)]
  /\ UNCHANGED place

(* queryIppJobs as the baseline: not-completed first, completed after it *)
ReadActive(s) ==
  /\ pc[s] = "begun" /\ Goto(s, "listed")
  /\ ev' = [ev EXCEPT ![s].known = Active \intersect Named(s),
                      ![s].arrived = (Active \union Completed) \intersect Named(s)]
  /\ UNCHANGED place

(* Mutation: the completed jobs are not asked for. *)
ReadNothingCompleted(s) ==
  /\ pc[s] = "listed" /\ Goto(s, "emitting")
  /\ ev' = [ev EXCEPT ![s].ipp = TRUE]
  /\ UNCHANGED place

ReadCompleted(s) ==
  /\ pc[s] = "listed" /\ Goto(s, "emitting")
  /\ ev' = [ev EXCEPT ![s].ipp = TRUE, ![s].known = @ \union (Completed \intersect Named(s))]
  /\ UNCHANGED place

(* No address, or no endpoint answers both halves: baselineError is set.   *)
(* One that answers a half only is as good as not asked.                   *)
NoBaseline(s) ==
  /\ pc[s] \in {"begun", "listed"} /\ Goto(s, "emitting")
  /\ ev' = [ev EXCEPT ![s].known = {}, ![s].arrived = {}]
  /\ UNCHANGED place

-----------------------------------------------------------------------------
Due(s) == <<s, ev[s].sent + 1>>      \* the copy to submit next

(***************************************************************************)
(* The helper's script takes every queue row that appears while it prints  *)
(* for its own, under whatever name, and any row at all when its first     *)
(* look at the queue failed; it may miss its own.  Out-Printer and raw     *)
(* writes report no rows.                                                  *)
(***************************************************************************)
Observable(s) ==
  IF s \in Html THEN SUBSET ({Due(s)} \union InWindows) ELSE {{}}

Emit(s) ==
  /\ pc[s] = "emitting" /\ ev[s].sent < CopiesOf[s]
  /\ place' = [place EXCEPT ![Due(s)] = "queue"]
  /\ \E new \in Observable(s) :
       ev' = [ev EXCEPT ![s].sent = @ + 1, ![s].ids = @ \union new]
  /\ UNCHANGED <<pc, verdict, credit>>

(* Mutation: the error text alone decides. *)
EmitRefusedAlways(s) ==
  /\ pc[s] = "emitting" /\ ev[s].sent < CopiesOf[s]
  /\ Answer(s, "failed", {})
  /\ UNCHANGED place

(* An error that is known to come before the submission of this copy. *)
EmitRefused(s) ==
  /\ pc[s] = "emitting" /\ ev[s].sent < CopiesOf[s]
  /\ Answer(s, IF ev[s].sent = 0 THEN "failed" ELSE "unverified", {})
  /\ UNCHANGED place

(* Any other error: the copy is in Windows or not, or a helper that was    *)
(* not recycled may still submit it.                                       *)
EmitBreaks(s) ==
  /\ pc[s] = "emitting" /\ ev[s].sent < CopiesOf[s]
  /\ Answer(s, "unverified", {})
  /\ \/ UNCHANGED place
     \/ place' = [place EXCEPT ![Due(s)] = "queue"]
     \/ s \in Html /\ place' = [place EXCEPT ![Due(s)] = "helper"]

(* captureExpectedIppJobs on what the printer lists now *)
Reported(s) == (Named(s) \intersect (Active \union Completed)) \ ev[s].known

Capture(s) ==
  [ev[s] EXCEPT !.seen = @ \union Reported(s),
                !.done = @ \union (Reported(s) \intersect Completed)]

(* observeExpectedIppJobs after a copy; what it misses is seen later *)
Observe(s) ==
  /\ pc[s] = "emitting" /\ ev[s].ipp /\ ev[s].sent > 0
  /\ ev' = [ev EXCEPT ![s] = Capture(s)]
  /\ UNCHANGED <<place, pc, verdict, credit>>

EmissionEnds(s) ==
  /\ pc[s] = "emitting" /\ ev[s].sent = CopiesOf[s]
  /\ Goto(s, "watching")
  /\ UNCHANGED <<place, ev>>

-----------------------------------------------------------------------------
(* waitForSpooler: rows that are neither old nor observed compete *)
Rivals(s) == ev[s].rivals \/ (ev[s].ids # {} /\ InWindows \ (ev[s].rows \union ev[s].ids) # {})

Ours(s) == IF ev[s].ids # {} THEN InWindows \intersect ev[s].ids ELSE InWindows \ ev[s].rows

(* The watch is over; with an IPP baseline its outcome is only evidence. *)
WatchEnds(s, rivals, left) ==
  /\ Goto(s, "confirming")
  /\ ev' = [ev EXCEPT ![s] =
       IF ev[s].ipp THEN [ev[s] EXCEPT !.rows = {}, !.ids = {}, !.dirty = FALSE, !.rivals = FALSE]
       ELSE [ev[s] EXCEPT !.rows = {}, !.rivals = rivals, !.left = left]]

PollQueue(s) ==
  /\ pc[s] = "watching"
  /\ \/ /\ Ours(s) # {}
        /\ ev' = [ev EXCEPT ![s].rivals = Rivals(s)]
        /\ UNCHANGED <<pc, verdict, credit>>
     \/ Ours(s) = {} /\ WatchEnds(s, Rivals(s), ev[s].ids # {})
  /\ UNCHANGED place

(* 30 s: blocked, timeout, not-observed or a gap in the telemetry *)
QueueDeadline(s) ==
  /\ pc[s] = "watching" /\ WatchEnds(s, ev[s].rivals, FALSE)
  /\ UNCHANGED place

-----------------------------------------------------------------------------
(* Mutation: completion is not waited for. *)
ConfirmedBySight(s, e) ==
  Cardinality(e.seen) = CopiesOf[s]

(* As many new jobs of the name as copies, each completed and printed. *)
Confirmed(s, e) ==
  /\ Cardinality(e.seen) = CopiesOf[s]
  /\ e.seen \subseteq e.done /\ \A d \in e.seen : place[d] = "paper"

(* More jobs than copies, or one that was canceled or aborted. *)
Hopeless(s, e) ==
  \/ Cardinality(e.seen) > CopiesOf[s]
  \/ Cardinality(e.seen) = CopiesOf[s] /\ \E d \in e.seen \intersect e.done : place[d] = "aborted"

(***************************************************************************)
(* waitForIppConfirmation: a query fails or is captured, and then decides. *)
(* A completed job may lack its reason or its impression count.            *)
(***************************************************************************)
PollIpp(s) ==
  /\ pc[s] = "confirming" /\ s \in Html /\ ev[s].ipp
  /\ \E e \in {ev[s], Capture(s)} :
       \/ Confirmed(s, e) /\ Answer(s, "confirmed", e.seen)
       \/ Confirmed(s, e) /\ Answer(s, "unverified", {})
       \/ Hopeless(s, e) /\ Answer(s, "unverified", {})
       \/ /\ ~Confirmed(s, e) /\ ~Hopeless(s, e)
          /\ ev' = [ev EXCEPT ![s] = e] /\ UNCHANGED <<pc, verdict, credit>>
  /\ UNCHANGED place

(* Mutation: the poll has no deadline. *)
IppWaits(s) ==
  /\ pc[s] = "confirming" /\ s \in Html /\ ev[s].ipp /\ FALSE
  /\ Answer(s, "unverified", {})
  /\ UNCHANGED place

(* 90 s *)
IppDeadline(s) ==
  /\ pc[s] = "confirming" /\ s \in Html /\ ev[s].ipp
  /\ Answer(s, "unverified", {})
  /\ UNCHANGED place

(* The queue is believed where the printer offers no IPP baseline. *)
Vouched(s) ==
  ev[s].left /\ Cardinality(ev[s].ids) = CopiesOf[s] /\ ~ev[s].rivals /\ ~ev[s].dirty

QueueDecides(s) ==
  /\ pc[s] = "confirming" /\ s \in Html /\ ~ev[s].ipp
  /\ Answer(s, IF Vouched(s) THEN "delivered" ELSE "unverified", {})
  /\ UNCHANGED place

(* No correlationIssues: text and raw have no job-specific confirmation. *)
Attributable(s) ==
  /\ s \in Html /\ Cardinality(ev[s].ids) = CopiesOf[s]
  /\ ~ev[s].dirty /\ ~ev[s].rivals

(***************************************************************************)
(* waitForDeviceConfirmation; the counter may also stay silent, or its     *)
(* 90 s pass before it has moved by the number of copies.                  *)
(***************************************************************************)
CounterDecides(s) ==
  /\ pc[s] = "confirming" /\ s \notin Html
  /\ \E exact \in {Pages = ev[s].pages + CopiesOf[s], FALSE} :
       Answer(s, IF exact /\ Attributable(s) THEN "counted" ELSE "unverified", {})
  /\ UNCHANGED place

-----------------------------------------------------------------------------
Submitting(s) ==
  Emit(s) \/ EmitRefused(s) \/ EmitBreaks(s) \/ Observe(s) \/ EmissionEnds(s)

Confirming(s) == PollIpp(s) \/ IppDeadline(s) \/ QueueDecides(s) \/ CounterDecides(s)

Proceed(s) ==
  \/ ReadActive(s) \/ ReadCompleted(s) \/ NoBaseline(s)
  \/ Submitting(s)
  \/ PollQueue(s) \/ QueueDeadline(s)
  \/ Confirming(s)

Next == World \/ \E s \in Sends : Refuse(s) \/ Begin(s) \/ Proceed(s)

Spec == Init /\ [][Next]_vars

(***************************************************************************)
(* What an HTML send waits for has a timeout: 60 s for the helper, 5 s for *)
(* a queue query, 4 s for an IPP query, 30 and 90 s for the two watches.   *)
(* Out-Printer has none, so nothing is assumed of the other sends, nor of  *)
(* Windows, printer and operators.                                         *)
(***************************************************************************)
FairSpec == Spec /\ \A s \in Html : WF_vars(Proceed(s))

-----------------------------------------------------------------------------
Evidence ==
  [rows : SUBSET Docs, dirty : BOOLEAN, pages : Nat, ipp : BOOLEAN, known : SUBSET Docs,
   sent : Nat, ids : SUBSET Docs, rivals : BOOLEAN, left : BOOLEAN,
   seen : SUBSET Docs, done : SUBSET Docs, arrived : SUBSET Docs]

TypeOK ==
  /\ place \in [Docs -> Places]
  /\ pc \in [Sends -> {"waiting", "answered"} \union Locked]
  /\ ev \in [Sends -> Evidence]
  /\ \A s \in Sends : ev[s].sent <= CopiesOf[s]
  /\ verdict \in [Sends -> Verdicts]
  /\ credit \in [Sends -> SUBSET Docs]

(***************************************************************************)
(* The printer's word: a SUCCESS that did not come from the queue stands   *)
(* for as many pages of this job as copies were asked for, whatever else   *)
(* moved the page counter.                                                 *)
(***************************************************************************)
ConfirmedIsOnPaper ==
  \A s \in Sends : verdict[s] \in {"confirmed", "counted"} =>
    /\ Cardinality(credit[s]) = CopiesOf[s]
    /\ \A d \in credit[s] : d \in Named(s) /\ place[d] = "paper"

(***************************************************************************)
(* sendAndVerify, queryIppJobs: what had reached the printer before a send *)
(* began cannot confirm it, although a retry has the name of its           *)
(* predecessor.                                                            *)
(***************************************************************************)
OldPagesProveNothing ==
  [][\A s \in Sends : verdict'[s] # verdict[s] => credit'[s] \intersect ev[s].arrived = {}]_vars

(***************************************************************************)
(* The lock and the baseline together: no page confirms two sends.         *)
(***************************************************************************)
NoPageProvesTwice ==
  \A s, t \in Sends : s # t => credit[s] \intersect credit[t] = {}

(***************************************************************************)
(* FAILED may be retried: not one copy of the send is, or will be, in      *)
(* Windows or in the printer.                                              *)
(***************************************************************************)
FailedWasNeverSent ==
  \A s \in Sends : verdict[s] = "failed" => \A d \in Own(s) : place[d] = "none"

(***************************************************************************)
(* A SUCCESS on the queue's word: although the observed ids may be those   *)
(* of other programs, no copy of the send still waits in Windows.          *)
(***************************************************************************)
DeliveredHasLeft ==
  \A s \in Sends : verdict[s] = "delivered" => \A d \in Own(s) : place[d] # "queue"

(***************************************************************************)
(* An HTML send that has the printer answers, whatever Windows, printer    *)
(* and network do, and leaves the printer to the next one.                 *)
(***************************************************************************)
HtmlSendsAnswer ==
  \A s \in Html : (pc[s] \in Locked) ~> (pc[s] = "answered")

(***************************************************************************)
(* The adapter's contract with executeJob, whose adapter call is opaque in *)
(* PrintJob: a copy is handed over when Windows gets it or a helper that   *)
(* was not stopped may still submit it.                                    *)
(***************************************************************************)
Dev(s) ==
  IF pc[s] = "waiting" THEN "waiting" ELSE IF pc[s] = "answered" THEN "returned" ELSE "working"

Handed(s) == {i \in 1 .. CopiesOf[s] : place[<<s, i>>] # "none"}

(* What the caller makes of the answer: success, errorCode or neither. *)
Result(s) ==
  CASE verdict[s] \in {"confirmed", "delivered", "counted"} -> "SUCCESS"
    [] verdict[s] = "failed" -> "FAILED"
    [] verdict[s] = "unverified" -> "UNVERIFIED"
    [] OTHER -> "none"

Adapter == INSTANCE AdapterCall WITH
             Calls <- Sends, dev <- [s \in Sends |-> Dev(s)],
             handed <- [s \in Sends |-> Handed(s)], result <- [s \in Sends |-> Result(s)]

(***************************************************************************)
(* sendAndVerify keeps the contract: no copy without the lock, none after  *)
(* the answer, FAILED only with none and SUCCESS only with all of them     *)
(* handed over.                                                            *)
(***************************************************************************)
IsAnAdapterCall == Adapter!Spec
=============================================================================
