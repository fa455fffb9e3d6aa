------------------------- MODULE UpdateTransaction --------------------------
(***************************************************************************)
(* What the state file of the native updater promises about the disk, with *)
(* no worker, process or crash in sight: an update is a transaction.  The  *)
(* release and its data are the old ones until their backups are whole and *)
(* named; only then are they replaced; and the outcome that is written is  *)
(* the one the disk has.  Updater implements it.                           *)
(***************************************************************************)
VARIABLES
  phase,     \* Phase in the state file, NONE while there is no file
  tree,      \* what the install root holds
  db,        \* the schema of the database file
  saved,     \* the state file names whole backups of what is replaced
  migrates   \* the new release has a schema of its own

disk == <<tree, db, saved, migrates>>
vars == <<phase, disk>>

-----------------------------------------------------------------------------
Begun     == {"RECEIVED", "VERIFYING", "WAITING_FOR_SHUTDOWN", "BACKING_UP"}
Replacing == {"INSTALLING", "STARTING", "HEALTH_CHECK", "ROLLING_BACK"}

Init ==
  /\ phase = "NONE" /\ tree = "old" /\ db = "old"
  /\ saved = FALSE /\ migrates \in BOOLEAN

Goes(from, to) == phase \in from /\ phase' = to /\ UNCHANGED disk

Prepare ==
  \/ Goes({"NONE"}, "RECEIVED")
  \/ Goes({"RECEIVED"}, "VERIFYING")
  \/ Goes({"VERIFYING"}, "WAITING_FOR_SHUTDOWN")
  \/ Goes({"WAITING_FOR_SHUTDOWN"}, "BACKING_UP")

Reject == Goes({"VERIFYING"}, "FAILED")

Save ==
  /\ phase = "BACKING_UP" /\ saved' = TRUE
  /\ UNCHANGED <<phase, tree, db, migrates>>

Install == saved /\ Goes({"BACKING_UP"}, "INSTALLING")

(* The outcomes of a rollback.  The one who wrote it was done, but a       *)
(* second recovery may be replacing files.                                 *)
Restored == {"ROLLED_BACK", "ROLLBACK_FAILED"}

(* The installer and the rollback replace files; after ROLLED_BACK only    *)
(* the old release by itself.                                              *)
ReplaceTree ==
  /\ phase \in Replacing \union Restored /\ saved
  /\ tree' \in {"old", "none"} \union
       (IF phase = "ROLLED_BACK" THEN {} ELSE {"new", "mixed"})
  /\ UNCHANGED <<phase, db, saved, migrates>>

(* The rollback replaces the database; a release that starts migrates it,  *)
(* or creates one where it is missing, and saves what it has in memory.    *)
ReplaceData ==
  /\ phase \in Replacing \union Restored /\ saved /\ migrates
  /\ db' \in {"old", "empty", "none"} \union
       (IF phase = "ROLLED_BACK" THEN {} ELSE {"new"})
  /\ UNCHANGED <<phase, tree, saved, migrates>>

Confirm ==
  /\ tree = "new"
  /\ \/ Goes({"INSTALLING"}, "STARTING")
     \/ Goes({"STARTING"}, "HEALTH_CHECK")
     \/ (migrates => db = "new") /\ Goes({"HEALTH_CHECK"}, "COMPLETED")

(* After a failure, since an operator asks for it, or once more. *)
Undo ==
  \/ Goes(Replacing \union {"COMPLETED"}, "ROLLING_BACK")
  \/ saved /\ Goes(Restored, "ROLLING_BACK")

(* The old release served, and its database is there, or its backup is.    *)
Undone ==
  /\ tree \in {"old", "none"} /\ (db = "old" \/ (migrates /\ saved /\ db # "new"))
  /\ Goes(Begun \union {"ROLLING_BACK"} \union Restored, "ROLLED_BACK")

GiveUp ==
  Goes(Begun \union {"ROLLING_BACK", "COMPLETED"} \union Restored, "ROLLBACK_FAILED")

Next ==
  \/ Prepare \/ Reject \/ Save \/ Install \/ ReplaceTree \/ ReplaceData
  \/ Confirm \/ Undo \/ Undone \/ GiveUp

Spec == Init /\ [][Next]_vars
=============================================================================
