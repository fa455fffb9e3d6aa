--------------------------- MODULE UpdatePolicy ---------------------------
(***************************************************************************)
(* The automatic update policy of Desktop: a worker that looks for a       *)
(* release, has it installed when printing is idle, and remembers in a     *)
(* file, over the restarts that every update brings, which release failed  *)
(* how often and which hand-over it still owes an outcome.                 *)
(*                                                                         *)
(* The OTA service and the native updater are what the worker hears of     *)
(* them (modules Maintenance and Updater have the rest).  Time is left     *)
(* out: nextAttemptAt, jitter and backoff only say when the next run is.   *)
(***************************************************************************)
EXTENDS Naturals

CONSTANTS
  Versions,      \* releases that may be offered; 0 is no release
  MaxFailures,   \* config.maxFailures
  MaxBad         \* bound: failures of one release while the file names it

ASSUME VersionsAreReleases == Versions \subseteq Nat \ {0}
ASSUME PolicyBounds == MaxFailures \in Nat \ {0} /\ MaxBad \in Nat

VARIABLES
  memory,   \* OtaUpdatePolicyWorker.state
  disk,     \* the policy file; a missing one is an empty state
  usable,   \* ~persistenceUnavailable
  at,       \* where runOnce is, or that the worker has stopped, or the API
  then,     \* where it goes on when the state has been saved
  asked,    \* the target of the ota_update_state row
  file,     \* the updater's state file
  bad       \* history: failures of a release since the file named it last

policy == <<memory, disk, usable, at, then>>
vars   == <<policy, asked, file, bad>>

None == 0
Releases == {None} \union Versions
Outcomes == {"completed", "failed", "rollbackFailed"}

Empty == [count |-> 0, failed |-> None, blocked |-> None, pending |-> None, recovery |-> FALSE]

Init ==
  /\ memory = Empty /\ disk = Empty /\ usable = TRUE
  /\ at = "down" /\ then = "idle"
  /\ asked = None /\ file = [version |-> None, phase |-> "none"]
  /\ bad = [v \in Versions |-> 0]

-----------------------------------------------------------------------------
(* What the worker makes of its state.  Every record* is saved at once. *)

Remember(state, next) ==
  /\ memory' = state /\ at' = "save" /\ then' = next
  /\ UNCHANGED <<disk, usable>>

RecordSuccess == Remember(Empty, "idle")

BlockedAt(n) == n >= MaxFailures

(* Mutation: the outcome of a hand-over stays due. *)
FailureStillDue(v) ==
  LET n == IF memory.failed = v THEN memory.count + 1 ELSE 1 IN
  Remember([Empty EXCEPT !.count = n, !.failed = v, !.pending = memory.pending,
                         !.blocked = IF BlockedAt(n) THEN v ELSE None], "idle")

RecordFailure(v) ==
  LET n == IF memory.failed = v THEN memory.count + 1 ELSE 1 IN
  Remember([Empty EXCEPT !.count = n, !.failed = v,
                         !.blocked = IF BlockedAt(n) THEN v ELSE None], "idle")

(* A failure of no release: its count only stretches the backoff. *)
RecordFailedLook == Remember([Empty EXCEPT !.count = 1], "idle")

RecordRollbackFailure(v) ==
  Remember([count |-> IF memory.count = 0 THEN 1 ELSE memory.count,
            failed |-> v, blocked |-> v, pending |-> None, recovery |-> TRUE], "idle")

-----------------------------------------------------------------------------
(* The policy file. *)

(* Failures of a release that the file does not name any more are forgotten *)
(* with it, as the policy forgets them.                                     *)
Kept == [v \in Versions |-> IF memory.failed = v THEN bad[v] ELSE 0]

(* Mutation: a state that cannot be saved is no reason to pause. *)
StaysUsable == usable

Paused == FALSE

(* saveState renames a whole file into its place.  After a save that fails *)
(* the run goes on, and the next one does not begin.                       *)
Save ==
  /\ at = "save" /\ at' = then
  /\ \/ usable /\ disk' = memory /\ bad' = Kept /\ UNCHANGED usable
     \/ usable' = Paused /\ UNCHANGED <<disk, bad>>
  /\ UNCHANGED <<memory, then, asked, file>>

(* ensureState: load never fails, a file that cannot be read is none. *)
Start ==
  /\ at = "down" /\ usable' = TRUE
  /\ memory' \in {disk, Empty} /\ at' = "save" /\ then' = "idle"
  /\ UNCHANGED <<disk, asked, file, bad>>

(* The updater stops Desktop, or Desktop ends by itself. *)
Stop ==
  /\ at # "down" /\ at' = "down" /\ memory' = Empty
  /\ UNCHANGED <<disk, usable, then, asked, file, bad>>

-----------------------------------------------------------------------------
(* runOnce *)

(* getStatus takes up the updater's outcome, if the row is still about it. *)
Heard == IF asked = memory.pending /\ file.version = asked THEN file.phase ELSE "none"

(* observePendingHandoff; without an outcome, the run waits for the next.  *)
(* The status may be impossible to read.                                   *)
Observe ==
  /\ at = "idle" /\ usable /\ memory.pending # None
  /\ \/ Heard = "completed" /\ RecordSuccess
     \/ Heard = "failed" /\ RecordFailure(memory.pending)
     \/ Heard = "rollbackFailed" /\ RecordRollbackFailure(memory.pending)
     \/ RecordFailedLook
  /\ UNCHANGED <<asked, file, bad>>

BeginCheck ==
  /\ at = "idle" /\ usable /\ memory.pending = None /\ ~memory.recovery
  /\ at' = "check"
  /\ UNCHANGED <<memory, disk, usable, then, asked, file, bad>>

(* checkForUpdate leaves an update in progress alone. *)
InProgress == file.phase = "open" /\ asked = file.version

(* The check fails, or has nothing to offer. *)
NothingOffered ==
  /\ at = "check" /\ (RecordSuccess \/ RecordFailedLook)
  /\ asked' = IF InProgress THEN asked ELSE None
  /\ UNCHANGED <<file, bad>>

IsNew(v) == memory.failed # v \/ memory.blocked # None

(* Any release may be offered: which one is installed is not kept, since   *)
(* an operator may put an older one back.  From here on, failureVersion is *)
(* the candidate.                                                          *)
Offered(v) ==
  /\ at = "check" /\ ~InProgress /\ asked' = v
  /\ \/ /\ memory.blocked = v /\ at' = "idle"
        /\ UNCHANGED <<memory, disk, usable, then>>
     \/ /\ memory.blocked # v /\ IsNew(v)
        /\ Remember([memory EXCEPT !.count = 0, !.failed = v, !.blocked = None], "install")
     \/ /\ memory.blocked # v /\ ~IsNew(v) /\ at' = "install"
        /\ UNCHANGED <<memory, disk, usable, then>>
  /\ UNCHANGED <<file, bad>>

Candidate == memory.failed

Failed(v) == bad' = [bad EXCEPT ![v] = @ + 1]

(* downloadUpdate or installUpdate throws; the row may have been reset. *)
TryFails ==
  /\ at = "install" /\ bad[Candidate] < MaxBad
  /\ RecordFailure(Candidate) /\ Failed(Candidate)
  /\ UNCHANGED <<asked, file>>

(* A print is on its way: the automatic install is put off. *)
Deferred ==
  /\ at = "install" /\ at' = "idle" /\ asked' = Candidate
  /\ UNCHANGED <<memory, disk, usable, then, file, bad>>

(* The updater is launched, and the row says so. *)
HandOver ==
  /\ at = "install" /\ at' = "accepted"
  /\ asked' = Candidate /\ file' = [version |-> Candidate, phase |-> "open"]
  /\ UNCHANGED <<memory, disk, usable, then, bad>>

(* The worker stops: the next process hears the outcome. *)
NoteHandOver ==
  /\ at = "accepted"
  /\ Remember([memory EXCEPT !.pending = Candidate], "stopped")
  /\ UNCHANGED <<asked, file, bad>>

-----------------------------------------------------------------------------
(* The updater writes how it ended; a release that is not installed has    *)
(* failed.                                                                 *)
UpdaterEnds ==
  /\ file.phase = "open"
  /\ \E o \in Outcomes :
       /\ file' = [file EXCEPT !.phase = o]
       /\ IF o = "completed" THEN UNCHANGED bad
          ELSE bad[file.version] < MaxBad /\ Failed(file.version)
  /\ UNCHANGED <<policy, asked>>

(* An operator checks or downloads by hand, which writes the row. *)
Operator ==
  /\ at # "down" /\ asked' \in Releases
  /\ UNCHANGED <<policy, file, bad>>

-----------------------------------------------------------------------------
Next ==
  \/ Start \/ Stop \/ Save
  \/ Observe \/ BeginCheck \/ NothingOffered
  \/ \E v \in Versions : Offered(v)
  \/ TryFails \/ Deferred \/ HandOver \/ NoteHandOver
  \/ UpdaterEnds \/ Operator

Spec == Init /\ [][Next]_vars

-----------------------------------------------------------------------------
States ==
  [count : Nat, failed : Releases, blocked : Releases, pending : Releases, recovery : BOOLEAN]

TypeOK ==
  /\ memory \in States /\ disk \in States /\ usable \in BOOLEAN
  /\ at \in {"down", "save", "idle", "check", "install", "accepted", "stopped"}
  /\ then \in {"idle", "install", "stopped"}
  /\ asked \in Releases
  /\ file \in [version : Releases, phase : {"none", "open"} \union Outcomes]
  /\ bad \in [Versions -> Nat]

(***************************************************************************)
(* ota-update-policy.ts 151-153, 293-296: a release that the file blocks   *)
(* is not tried, also when the worker has forgotten the block in memory    *)
(* and could not save that it did.  A block the file forgot is none.       *)
(***************************************************************************)
BlockedIsNotTried ==
  at \in {"install", "accepted"} => disk.blocked # Candidate

(***************************************************************************)
(* ota-update-policy.ts 184-186: an outcome counts against this exact      *)
(* release, and once.  A release is blocked for as many failures of its    *)
(* own, although a process may end between hearing of one and saving it,   *)
(* and the next one hears of it again.                                     *)
(***************************************************************************)
BlockedForItsFailures ==
  \A v \in Versions :
    disk.blocked = v /\ ~disk.recovery => bad[v] >= MaxFailures

(***************************************************************************)
(* ota-update-policy.ts 129-131, 338: while the file says that an outcome  *)
(* is due or that an operator has to recover the installation, nothing is  *)
(* looked for or installed, also when what the worker made of the outcome  *)
(* could not be saved.  It says so until it is written over: one that      *)
(* cannot be read is taken for none (Start), and its outcome is dropped.   *)
(***************************************************************************)
OneOutcomeAtATime ==
  at \in {"check", "install", "accepted"}
  => disk.pending = None /\ ~disk.recovery
=============================================================================
