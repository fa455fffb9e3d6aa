------------------------------ MODULE Updater ------------------------------
(***************************************************************************)
(* The native updater (apps/updater-go) and the Desktop that starts again  *)
(* around it.  A worker replaces the install tree in phases which it       *)
(* records in a state file outside the tree; after a failure it puts the   *)
(* backup of the tree, and of the database when the release migrates it,   *)
(* back.  A Desktop that finds an unfinished phase at least 30 s old does  *)
(* not serve: it starts a recovery worker and exits.                       *)
(*                                                                         *)
(* One update.  pc names the step a worker is about to take; every change  *)
(* of the disk and of the state file is a step of its own, so a crash may  *)
(* come between any two.                                                   *)
(*                                                                         *)
(* The age of the state file says nothing of the worker that wrote it: a   *)
(* recovery may be started under a live one.  The module follows both when *)
(* the first has nothing left but to start a release and to report; when   *)
(* it is Overtaken before that, two workers share staging directories, and *)
(* the behaviour ends.                                                     *)
(***************************************************************************)
EXTENDS Naturals

CONSTANTS
  Apply,         \* the worker the API launches, to update or to roll back
  Recoverers,    \* the workers Desktop launches
  MaxFailures,   \* bound: calls of the operating system that fail
  MaxCrashes     \* bound: how often the machine or its updaters stop

ASSUME ApplyIsNoRecoverer == Apply \notin Recoverers
ASSUME UpdaterBounds == MaxFailures \in Nat /\ MaxCrashes \in Nat

VARIABLES
  phase,      \* Phase in the state file, NONE while there is no file
  recorded,   \* BackupPath in the state file is set
  stale,      \* the state file was written 30 s ago or more
  tree,       \* what the install root holds
  aside,      \* what the .failed-install directory holds
  backup,     \* what the backup directory holds
  db,         \* the schema of the database file
  dbAside,    \* what the .failed-restore file holds
  dbBackup,   \* what the backup of the database holds
  desktop,    \* the Desktop process; its sidecar, the API, has a database
              \* image in memory once it is up
  pc,         \* pc[w]: the step worker w is about to take
  migrates,   \* TargetSchemaVersion > DatabaseSchemaVersion
  failures, crashes

file    == <<phase, recorded, stale>>
trees   == <<tree, aside, backup>>
data    == <<db, dbAside, dbBackup>>
vars    == <<file, trees, data, desktop, pc, migrates, failures, crashes>>

-----------------------------------------------------------------------------
Workers == {Apply} \union Recoverers

BeforeInstall == {"RECEIVED", "VERIFYING", "WAITING_FOR_SHUTDOWN", "BACKING_UP"}
Replacing == {"INSTALLING", "STARTING", "HEALTH_CHECK", "ROLLING_BACK"}
Unfinished == BeforeInstall \union Replacing
Finished == {"COMPLETED", "ROLLED_BACK", "ROLLBACK_FAILED", "FAILED"}

Places ==
  {"idle", "receive", "verify", "check", "fail", "wait", "stop", "back",
   "copy", "copyDb", "install", "run", "installing", "start", "launch",
   "health", "probe", "kill", "complete", "undo", "swapOut", "swapIn", "dbOut",
   "dbIn", "relaunch", "reprobe", "finish", "again", "giveUp", "recover", "halt"}

(* What a worker does after its last change of the disk. *)
Spent == {"again", "relaunch", "reprobe", "finish", "giveUp"}

NoDesktop == [at |-> "none", runs |-> "none", by |-> "nobody", image |-> "none"]

NewDesktop(s) == [at |-> "booting", runs |-> tree, by |-> s, image |-> "none"]

Init ==
  /\ phase = "NONE" /\ recorded = FALSE /\ stale = FALSE
  /\ tree = "old" /\ aside = "none" /\ backup = "none"
  /\ db = "old" /\ dbAside = "none" /\ dbBackup = "none"
  /\ desktop = [at |-> "up", runs |-> "old", by |-> "user", image |-> "old"]
  /\ pc = [w \in Workers |-> "idle"]
  /\ migrates \in BOOLEAN
  /\ failures = 0 /\ crashes = 0

-----------------------------------------------------------------------------
AllIdle == \A w \in Workers : pc[w] = "idle"

Goes(w, from, to) == pc[w] = from /\ pc' = [pc EXCEPT ![w] = to]

(* A call of the operating system, or the new release, fails. *)
Fails == failures < MaxFailures /\ failures' = failures + 1

(* Mutation: the state file does not name the backup. *)
RecordsNothing(p) == recorded

(* BackupPath and DatabaseBackupPath are first written with BACKING_UP. *)
Records(p) == recorded \/ p = "BACKING_UP"

(* transition: the phase is written, or the write fails and the file stays. *)
Transition(w, from, p, to, otherwise) ==
  /\ \/ /\ Goes(w, from, to)
        /\ phase' = p /\ stale' = FALSE /\ recorded' = Records(p)
        /\ UNCHANGED failures
     \/ /\ Goes(w, from, otherwise) /\ Fails
        /\ UNCHANGED file
  /\ UNCHANGED <<trees, data, desktop, migrates, crashes>>

Persist(w) ==
  \/ Transition(w, "receive", "RECEIVED", "verify", "idle")
  \/ Transition(w, "verify", "VERIFYING", "check", "idle")
  \/ Transition(w, "fail", "FAILED", "idle", "idle")
  \/ Transition(w, "wait", "WAITING_FOR_SHUTDOWN", "stop", "idle")
  \/ Transition(w, "back", "BACKING_UP", "copy", "idle")
  \/ Transition(w, "install", "INSTALLING", "run", "idle")
  \/ Transition(w, "start", "STARTING", "launch", "undo")
  \/ Transition(w, "health", "HEALTH_CHECK", "probe", "kill")
  \/ Transition(w, "complete", "COMPLETED", "idle", "idle")
  \/ Transition(w, "undo", "ROLLING_BACK", "swapOut", "idle")
  \/ Transition(w, "finish", "ROLLED_BACK", "idle", "idle")
  \/ Transition(w, "giveUp", "ROLLBACK_FAILED", "idle", "idle")

-----------------------------------------------------------------------------
(* Apply, up to the installer. *)

(* verifyArtifact, validateDesktopProcess *)
Check(w) ==
  /\ \/ Goes(w, "check", "wait") /\ UNCHANGED failures
     \/ Goes(w, "check", "fail") /\ Fails
  /\ UNCHANGED <<file, trees, data, desktop, migrates, crashes>>

(* The Desktop when the process that one of S started is killed. *)
Without(S) == IF desktop.by \in S THEN NoDesktop ELSE desktop

(* StopProcessTree of the Desktop that handed the update over. *)
Stop(w) ==
  /\ \/ Goes(w, "stop", "back") /\ desktop' = Without({"first"}) /\ UNCHANGED failures
     \/ Goes(w, "stop", "again") /\ Fails /\ desktop' \in {desktop, Without({"first"})}
  /\ UNCHANGED <<file, trees, data, migrates, crashes>>

(* createBackup stages a copy and renames it. *)
Copy(w) ==
  /\ \/ /\ Goes(w, "copy", IF migrates THEN "copyDb" ELSE "install")
        /\ backup' = tree /\ UNCHANGED failures
     \/ Goes(w, "copy", "again") /\ Fails /\ UNCHANGED backup
  /\ UNCHANGED <<file, tree, aside, data, desktop, migrates, crashes>>

(* Mutation: the update goes on without the backup. *)
CopyDbOrNot(w) ==
  /\ \/ Goes(w, "copyDb", "install") /\ db # "none" /\ dbBackup' = db /\ UNCHANGED failures
     \/ Goes(w, "copyDb", "install") /\ Fails /\ UNCHANGED dbBackup
  /\ UNCHANGED <<file, trees, db, dbAside, desktop, migrates, crashes>>

(* createDatabaseBackup *)
CopyDb(w) ==
  /\ \/ Goes(w, "copyDb", "install") /\ db # "none" /\ dbBackup' = db /\ UNCHANGED failures
     \/ Goes(w, "copyDb", "again") /\ Fails /\ UNCHANGED dbBackup
  /\ UNCHANGED <<file, trees, db, dbAside, desktop, migrates, crashes>>

(* Only Apply keeps the process it started, to kill it; who else started   *)
(* one is all the same.                                                    *)
Starter(w) == IF w = Apply THEN w ELSE "user"

(* StartDesktop: a second instance gives way to the first. *)
Starts(w) ==
  /\ tree # "none"
  /\ desktop' = IF desktop = NoDesktop THEN NewDesktop(Starter(w)) ELSE desktop
  /\ UNCHANGED failures

DoesNotStart ==
  /\ IF tree = "none" THEN UNCHANGED failures ELSE Fails
  /\ UNCHANGED desktop

(* rollbackBeforeInstall, unless the Desktop was never stopped *)
Again(w) ==
  /\ \/ Goes(w, "again", "reprobe") /\ desktop.by = "first" /\ UNCHANGED <<desktop, failures>>
     \/ Goes(w, "again", "reprobe") /\ desktop.by # "first" /\ Starts(w)
     \/ Goes(w, "again", "giveUp") /\ desktop.by # "first" /\ DoesNotStart
  /\ UNCHANGED <<file, trees, data, migrates, crashes>>

(* RunInstaller writes over the tree file by file. *)
RunInstaller(w) ==
  /\ \/ Goes(w, "run", "installing") /\ tree' = "mixed" /\ UNCHANGED failures
     \/ Goes(w, "run", "undo") /\ Fails /\ UNCHANGED tree
     \/ Goes(w, "installing", "start") /\ tree' = "new" /\ UNCHANGED failures
     \/ Goes(w, "installing", "undo") /\ Fails /\ UNCHANGED tree
  /\ UNCHANGED <<file, aside, backup, data, desktop, migrates, crashes>>

-----------------------------------------------------------------------------
(* From the start of a release to its verdict. *)

Launch(w) ==
  /\ \/ Goes(w, "launch", "health") /\ Starts(w)
     \/ Goes(w, "launch", "undo") /\ DoesNotStart
     \/ Goes(w, "relaunch", "reprobe") /\ Starts(w)
     \/ Goes(w, "relaunch", "giveUp") /\ DoesNotStart
  /\ UNCHANGED <<file, trees, data, migrates, crashes>>

(* Mutation: the probe does not compare the version. *)
AnyVersion(v) == desktop.at = "up"

(* The health and readiness endpoints answer with version v. *)
Serves(v) == desktop.at = "up" /\ desktop.runs = v

(* ota_recovery_is_stale *)
RecoveryIsStale == stale /\ phase \in Unfinished

(* A release refuses a newer schema; half a release does not run. *)
CanServe == desktop.runs = "new" \/ (desktop.runs = "old" /\ db # "new")

(* Left alone, Desktop answers with version v: if not in time, or not as   *)
(* healthy and ready, that is a failure of the release.                    *)
WouldServe(v) ==
  desktop.runs = v /\ CanServe /\ ~(desktop.at = "booting" /\ RecoveryIsStale)

(* Probe.Wait *)
ProbeWait(w, from, v, ok, otherwise) ==
  \/ Goes(w, from, ok) /\ Serves(v) /\ UNCHANGED failures
  \/ /\ Goes(w, from, otherwise)
     /\ IF WouldServe(v) THEN Fails ELSE UNCHANGED failures

Probe(w) ==
  /\ \/ ProbeWait(w, "probe", "new", "complete", "kill")
     \/ ProbeWait(w, "reprobe", "old", "finish", "giveUp")
  /\ UNCHANGED <<file, trees, data, desktop, migrates, crashes>>

(* KillProcessTree: of the Desktop this worker started, whose failure is   *)
(* ignored, or, in Rollback, of the Desktop that runs.                     *)
Kill(w) ==
  /\ \/ Goes(w, "kill", "undo") /\ desktop' = Without({w}) /\ UNCHANGED failures
     \/ Goes(w, "kill", "undo") /\ UNCHANGED desktop /\ Fails
     \/ Goes(w, "halt", "undo") /\ desktop' = NoDesktop /\ UNCHANGED failures
     \/ Goes(w, "halt", "giveUp") /\ UNCHANGED desktop /\ Fails
  /\ UNCHANGED <<file, trees, data, migrates, crashes>>

-----------------------------------------------------------------------------
(* restoreBackup and restoreDatabaseBackup. *)

(* A tree that a process runs from cannot be renamed, nor perhaps one that *)
(* a process works in: the install root is the working directory of every  *)
(* recovery worker.                                                        *)
InUse == desktop # NoDesktop

(* The copy of the backup is staged, then the tree is moved aside. *)
SwapOut(w) ==
  /\ \/ /\ Goes(w, "swapOut", "swapIn") /\ backup # "none" /\ ~InUse
        /\ aside' = tree /\ tree' = "none" /\ UNCHANGED failures
     \/ /\ Goes(w, "swapOut", "giveUp") /\ UNCHANGED <<tree, aside>>
        /\ IF backup = "none" \/ InUse \/ w \in Recoverers THEN UNCHANGED failures ELSE Fails
  /\ UNCHANGED <<file, backup, data, desktop, migrates, crashes>>

(* The staged copy takes its place, or the tree that was there comes back. *)
SwapIn(w) ==
  /\ \/ /\ Goes(w, "swapIn", IF migrates THEN "dbOut" ELSE "relaunch")
        /\ tree' = backup /\ aside' = "none" /\ UNCHANGED failures
     \/ Goes(w, "swapIn", "giveUp") /\ Fails /\ tree' = aside /\ aside' = "none"
  /\ UNCHANGED <<file, backup, data, desktop, migrates, crashes>>

DbOut(w) ==
  /\ \/ /\ Goes(w, "dbOut", "dbIn") /\ dbBackup # "none"
        /\ dbAside' = db /\ db' = "none" /\ UNCHANGED failures
     \/ /\ Goes(w, "dbOut", "giveUp") /\ UNCHANGED <<db, dbAside>>
        /\ IF dbBackup = "none" THEN UNCHANGED failures ELSE Fails
  /\ UNCHANGED <<file, trees, dbBackup, desktop, migrates, crashes>>

DbIn(w) ==
  /\ \/ Goes(w, "dbIn", "relaunch") /\ db' = dbBackup /\ UNCHANGED failures
     \/ Goes(w, "dbIn", "giveUp") /\ Fails /\ db' = IF dbAside = "none" THEN db ELSE dbAside
  /\ dbAside' = "none"
  /\ UNCHANGED <<file, trees, dbBackup, desktop, migrates, crashes>>

-----------------------------------------------------------------------------
(* The ways a worker begins. *)

(* The API of the running Desktop launches the updater. *)
Handoff ==
  /\ phase = "NONE" /\ desktop.at = "up" /\ Goes(Apply, "idle", "receive")
  /\ desktop' = [desktop EXCEPT !.by = "first"]
  /\ UNCHANGED <<file, trees, data, migrates, failures, crashes>>

(* Rollback, which an operator may order once the update is complete *)
Rollback ==
  /\ phase = "COMPLETED" /\ recorded /\ desktop.at = "up" /\ Goes(Apply, "idle", "halt")
  /\ UNCHANGED <<file, trees, data, desktop, migrates, failures, crashes>>

(* Mutation: the backup is asked for before the phase. *)
NeedsABackup(w) ==
  /\ \/ Goes(w, "recover", "relaunch") /\ phase \in BeforeInstall /\ recorded
     \/ Goes(w, "recover", "undo") /\ phase \in Replacing /\ recorded
     \/ Goes(w, "recover", "idle") /\ ~(phase \in Unfinished /\ recorded)
  /\ UNCHANGED <<file, trees, data, desktop, migrates, failures, crashes>>

(* Recover; before the installer ran it only starts the tree again. *)
Recover(w) ==
  /\ \/ Goes(w, "recover", "relaunch") /\ phase \in BeforeInstall
     \/ Goes(w, "recover", "undo") /\ phase \in Replacing /\ recorded
     \/ /\ Goes(w, "recover", "idle")
        /\ phase \notin BeforeInstall /\ ~(phase \in Replacing /\ recorded)
  /\ UNCHANGED <<file, trees, data, desktop, migrates, failures, crashes>>

WorkerStep(w) ==
  /\ pc[w] # "idle"
  /\ \/ Persist(w) \/ Check(w) \/ Stop(w) \/ Copy(w) \/ CopyDb(w) \/ Again(w)
     \/ RunInstaller(w) \/ Launch(w) \/ Probe(w) \/ Kill(w)
     \/ SwapOut(w) \/ SwapIn(w) \/ DbOut(w) \/ DbIn(w) \/ Recover(w)

-----------------------------------------------------------------------------
(* Desktop. *)

(* launch_stale_ota_recovery, and Desktop exits.  The age of the file is   *)
(* all it looks at.                                                        *)
HandOver ==
  /\ desktop.at = "booting" /\ RecoveryIsStale
  /\ \E w \in Recoverers : Goes(w, "idle", "recover")
  /\ desktop' = NoDesktop
  /\ UNCHANGED <<file, trees, data, migrates, failures, crashes>>

(* Desktop starts the API: without a stale file, or when the recovery      *)
(* could not be launched.                                                  *)
Boot ==
  /\ desktop.at = "booting"
  /\ IF RecoveryIsStale THEN Fails ELSE UNCHANGED failures
  /\ desktop' = [desktop EXCEPT !.at = "starting"]
  /\ UNCHANGED <<file, trees, data, pc, migrates, crashes>>

(* What opening the database does to it: an absent file is created, an old *)
(* one is migrated by the release that brings a schema.                    *)
Opened == IF db = "none" THEN "empty"
          ELSE IF db = "old" /\ desktop.runs = "new" /\ migrates THEN "new" ELSE db

(* server.exe opens the database and listens.  One that cannot ends, and   *)
(* the supervisor of Desktop starts it again every 2 s.                    *)
ServerStarts ==
  /\ desktop.at = "starting" /\ CanServe
  /\ db' = Opened
  /\ desktop' = [desktop EXCEPT !.at = "up", !.image = Opened]
  /\ UNCHANGED <<file, trees, dbAside, dbBackup, pc, migrates, failures, crashes>>

(* saveDb writes the whole image over whatever is in its place by now. *)
ServerSaves ==
  /\ desktop.at = "up" /\ db # desktop.image
  /\ db' = desktop.image
  /\ UNCHANGED <<file, trees, dbAside, dbBackup, desktop, pc, migrates, failures, crashes>>

(* Desktop, or server.exe alone, ends while an updater counts on it. *)
DesktopDies ==
  /\ desktop # NoDesktop /\ Fails
  /\ \/ desktop' = NoDesktop
     \/ /\ desktop.at = "up"
        /\ desktop' = [desktop EXCEPT !.at = "starting", !.image = "none"]
  /\ UNCHANGED <<file, trees, data, pc, migrates, crashes>>

UserStarts ==
  /\ desktop = NoDesktop /\ tree # "none"
  /\ desktop' = NewDesktop("user")
  /\ UNCHANGED <<file, trees, data, pc, migrates, failures, crashes>>

UserQuits ==
  /\ desktop.at \in {"up", "starting"} /\ AllIdle /\ desktop' = NoDesktop
  /\ UNCHANGED <<file, trees, data, pc, migrates, failures, crashes>>

(* The state file gets old, whoever is at work on what. *)
TimePasses ==
  /\ phase # "NONE" /\ ~stale /\ stale' = TRUE
  /\ UNCHANGED <<phase, recorded, trees, data, desktop, pc, migrates, failures, crashes>>

(* The updaters die, with or without the machine. *)
Crash ==
  /\ ~AllIdle /\ crashes < MaxCrashes /\ crashes' = crashes + 1
  /\ pc' = [w \in Workers |-> "idle"]
  /\ desktop' \in {desktop, NoDesktop}
  /\ UNCHANGED <<file, trees, data, migrates, failures>>

(* A recovery was started that will change the disk, or what is staged     *)
(* for it, together with another worker.                                   *)
Harmless(w) ==
  pc[w] \in {"idle"} \union Spent \/ (pc[w] = "recover" /\ phase \notin Replacing)

Overtaken ==
  /\ phase \in Unfinished
  /\ \E v, w \in Workers : v # w /\ pc[v] = "recover" /\ ~Harmless(w)

DesktopStep == HandOver \/ Boot \/ ServerStarts
UserStep    == UserStarts \/ UserQuits

Next ==
  /\ ~Overtaken
  /\ \/ Handoff \/ Rollback \/ \E w \in Workers : WorkerStep(w)
     \/ DesktopStep \/ ServerSaves \/ DesktopDies
     \/ UserStep \/ TimePasses \/ Crash

Spec == Init /\ [][Next]_vars

(* Workers, Desktop and API go on, and somebody restarts Desktop. *)
FairSpec ==
  /\ Spec
  /\ WF_vars(~Overtaken /\ \E w \in Workers : WorkerStep(w))
  /\ WF_vars(~Overtaken /\ DesktopStep)
  /\ WF_vars(~Overtaken /\ UserStep)
  /\ WF_vars(~Overtaken /\ TimePasses)

-----------------------------------------------------------------------------
Releases == {"old", "new"}
Contents == Releases \union {"mixed", "none"}
Schemas  == {"old", "new", "empty", "none"}

TypeOK ==
  /\ phase \in {"NONE"} \union Unfinished \union Finished
  /\ recorded \in BOOLEAN /\ stale \in BOOLEAN
  /\ tree \in Contents /\ aside \in Contents /\ backup \in {"none", "old"}
  /\ db \in Schemas /\ dbAside \in Schemas /\ dbBackup \in {"none", "old"}
  /\ desktop \in {NoDesktop} \union
       [at : {"booting", "starting", "up"}, runs : Contents \ {"none"},
        by : {"first", "user"} \union Workers, image : Schemas]
  /\ pc \in [Workers -> Places]
  /\ migrates \in BOOLEAN
  /\ failures \in Nat /\ crashes \in Nat

(* Whatever fails or stops, an install root without a whole release has a  *)
(* whole backup that the state file names.  (ROLLED_BACK: a worker that    *)
(* was done reports while a second recovery is between its renames.)       *)
TreeIsRestorable ==
  tree \notin Releases =>
    /\ recorded /\ backup = "old"
    /\ phase \in Replacing \union {"ROLLBACK_FAILED", "ROLLED_BACK"}

(* The data of the old release are in the database file or in the backup   *)
(* the state file names: no rollback, and no API that was up meanwhile,    *)
(* leaves only the migrated, or an empty database.                         *)
DatabaseIsRestorable ==
  db # "old" => migrates /\ recorded /\ dbBackup = "old"

(* What the outcome that the API reads from the state file says of the     *)
(* disk.  ROLLED_BACK promises less than it seems to: a second recovery    *)
(* may have the tree aside, and an API that opened an absent database may  *)
(* have saved its empty image over the restored one.                       *)
OutcomeIsTrue ==
  /\ phase = "COMPLETED" => tree = "new" /\ (migrates => db = "new")
  /\ phase = "FAILED" => tree = "old" /\ db = "old"
  /\ phase = "ROLLED_BACK" =>
       /\ tree \in {"old", "none"}
       /\ db = "old" \/ (migrates /\ db # "new" /\ recorded /\ dbBackup = "old")

(* updater.go, Apply, Rollback and Recover: whichever worker fails or is   *)
(* stopped, the update is a transaction.  The phases keep their order,     *)
(* nothing is replaced before whole backups are named or outside of the    *)
(* phases that say so, and an outcome is written of a disk that has it.    *)
(* OutcomeIsTrue is a consequence.                                         *)
Transaction ==
  INSTANCE UpdateTransaction
  WITH saved <- recorded /\ backup = "old" /\ (migrates => dbBackup = "old")
IsATransaction == Transaction!Spec

(* An update that began reaches an outcome, or leaves nothing to start a   *)
(* recovery from; unless a recovery joins a worker that is not done.       *)
InterruptedUpdateEnds ==
  phase \in Unfinished ~> (phase \in Finished \/ tree \notin Releases \/ Overtaken)

=============================================================================
