--------------------------- MODULE UpdaterProofs ----------------------------
(***************************************************************************)
(* Proofs about Updater, for any number of recovery workers, failures and  *)
(* crashes.                                                                *)
(*                                                                         *)
(* The argument.  Before INSTALLING is written nothing was touched, and    *)
(* afterwards the state file names the backups of all that is replaced     *)
(* (Untouched, Touched).  Until a recovery overtakes a worker that is not  *)
(* done, one worker at most changes the disk, and it is alone when it does *)
(* not undo the update (Apart); next to one that does, others only start   *)
(* the old release and report.  What they report stays true whatever is    *)
(* undone a second time next to them (AsBefore): the place of the worker   *)
(* says so, not the age of the state file, which says nothing.             *)
(***************************************************************************)
EXTENDS Updater, TLAPS

Saved == recorded /\ backup = "old" /\ (migrates => dbBackup = "old")

Reported == {"ROLLED_BACK", "ROLLBACK_FAILED"}
Early   == {"verify", "check", "fail", "wait", "stop", "back", "copy", "copyDb", "install"}
Late    == {"run", "installing", "start", "launch", "health", "probe", "kill", "complete"}
Undoing == {"undo", "swapOut", "swapIn", "dbOut", "dbIn"}
Served  == {"relaunch", "reprobe", "finish"}
Solitary == {"receive", "halt"} \union Early \union Late

(* The old release serves, or will when a second recovery is done; the     *)
(* data of the new one are gone.                                           *)
AsBefore ==
  /\ tree = "old" \/ (tree = "none" /\ aside = "old")
  /\ "new" \notin {db, dbAside, desktop.image}

(* The new release serves. *)
IsNew ==
  /\ tree = "new" /\ desktop.runs \in {"none", "new"}
  /\ migrates => db = "new" /\ desktop.image \in {"none", "new"}

(* Nothing was replaced, and nobody is about to. *)
Untouched ==
  /\ tree = "old" /\ db = "old" /\ dbAside = "none" /\ desktop.image \in {"none", "old"}
  /\ phase \in {"NONE", "FAILED"} \union BeforeInstall \union Reported
  /\ \A w \in Workers : pc[w] \in {"idle", "receive", "recover"} \union Early \union Spent

(* The tree and the data are replaced, or put back. *)
Touched ==
  /\ Saved /\ phase \in {"COMPLETED"} \union Replacing \union Reported
  /\ \A w \in Workers : pc[w] \notin {"receive", "again"} \union Early

(* Who may be at work at the same time. *)
Apart ==
  \A v, w \in Workers : v # w =>
    /\ pc[w] \in Solitary => pc[v] = "idle"
    /\ pc[w] \in Undoing \/ (pc[w] = "recover" /\ phase \in Replacing) =>
         pc[v] \in {"idle"} \union Spent

(* What a phase says. *)
PhaseMeans ==
  /\ phase \in {"NONE", "COMPLETED"} => \A w \in Recoverers : pc[w] = "idle"
  /\ phase = "COMPLETED" => IsNew
  /\ phase = "ROLLED_BACK" => AsBefore

(* What a step a worker is about to take says. *)
PlaceMeans(w) ==
  /\ pc[w] = "receive" => phase = "NONE"
  /\ pc[w] = "verify" => phase = "RECEIVED"
  /\ pc[w] \in {"check", "fail", "wait"} => phase = "VERIFYING"
  /\ pc[w] \in {"stop", "back"} => phase = "WAITING_FOR_SHUTDOWN"
  /\ pc[w] \in {"copy", "copyDb", "install"} => phase = "BACKING_UP" /\ recorded
  /\ pc[w] = "copyDb" => migrates /\ backup = "old"
  /\ pc[w] = "install" => Saved
  /\ pc[w] = "again" => phase \in {"WAITING_FOR_SHUTDOWN", "BACKING_UP"} \union Reported
  /\ pc[w] \in {"run", "installing", "start"} => phase = "INSTALLING"
  /\ pc[w] = "run" => tree = "old"
  /\ pc[w] = "installing" => tree = "mixed"
  /\ pc[w] \in {"run", "installing"} => db = "old" /\ desktop.image \in {"none", "old"}
  /\ pc[w] \in {"launch", "health"} => phase = "STARTING"
  /\ pc[w] \in {"probe", "complete"} => phase = "HEALTH_CHECK"
  /\ pc[w] \in {"start", "launch", "health", "probe", "kill"} => tree = "new"
  /\ pc[w] = "complete" => IsNew
  /\ pc[w] = "kill" => phase \in {"STARTING", "HEALTH_CHECK"}
  /\ pc[w] = "halt" => phase = "COMPLETED"
  /\ pc[w] = "undo" => phase \in Replacing \union {"COMPLETED"} \union Reported
  /\ pc[w] \in {"swapOut", "swapIn", "dbOut", "dbIn"} => phase \in {"ROLLING_BACK"} \union Reported
  /\ pc[w] \in {"recover", "undo", "swapOut"} => tree # "none"
  /\ pc[w] = "swapIn" => tree = "none"
  /\ pc[w] \in {"dbOut", "dbIn"} => migrates /\ tree = "old"
  /\ pc[w] \in Served =>
       AsBefore /\ phase \in BeforeInstall \union {"ROLLING_BACK"} \union Reported
  /\ pc[w] = "giveUp" =>
       phase \in BeforeInstall \union {"ROLLING_BACK", "COMPLETED"} \union Reported

(* What the disk, the state file and the Desktop say of each other. *)
DiskAgrees ==
  /\ backup # "none" => recorded
  /\ tree # "none" => aside = "none"
  /\ tree = "none" => desktop = NoDesktop
  /\ tree = "old" => desktop.runs \in {"none", "old"}
  /\ desktop.runs = "new" => tree = "new"
  /\ desktop.at = "up" <=> desktop.image # "none"
  /\ desktop.image = "new" => desktop.runs = "new"
  /\ desktop.at = "up" /\ desktop.runs = "new" /\ migrates => db = "new" /\ desktop.image = "new"
  /\ db \in {"none", "empty"} \/ desktop.image = "empty" =>
       tree \in {"old", "none"} /\ aside \in {"old", "none"}
  /\ ~migrates => db = "old" /\ dbAside = "none" /\ desktop.image \in {"none", "old"}

IndInv ==
  /\ TypeOK /\ PhaseMeans /\ DiskAgrees
  /\ Untouched \/ Touched
  /\ \A w \in Workers : PlaceMeans(w)
  /\ Overtaken \/ Apart

(* Desktop ends or starts, and the disk stays as it is. *)
Restarts ==
  /\ UNCHANGED <<phase, recorded, trees, data, migrates>>
  /\ \/ desktop' \in {desktop, NoDesktop}
     \/ /\ desktop = NoDesktop /\ tree # "none"
        /\ \E s \in {"user"} \union Workers : desktop' = NewDesktop(s)
     \/ desktop.at = "booting" /\ desktop' = [desktop EXCEPT !.at = "starting"]
     \/ desktop.at = "up" /\ desktop' = [desktop EXCEPT !.by = "first"]
     \/ desktop.at = "up" /\ desktop' = [desktop EXCEPT !.at = "starting", !.image = "none"]

(* Where a worker may go from a place, whoever else is at work. *)
Leads(a, b) ==
  /\ b \in Early \union {"again"} => a \in {"receive"} \union Early
  /\ \/ b \in {"idle"} \union Spent
     \/ a \in Solitary /\ b \in Early \union Late \union Undoing
     \/ (a \in Undoing \/ (a = "recover" /\ phase \in Replacing)) /\ b \in Undoing

-----------------------------------------------------------------------------
(* A worker took a step from one place to another. *)
LEMMA Moved ==
  ASSUME pc \in [Workers -> Places], NEW w \in Workers, NEW a, NEW b \in Places, Goes(w, a, b)
  PROVE  /\ pc[w] = a /\ pc'[w] = b
         /\ \A v \in Workers \ {w} : pc'[v] = pc[v]
         /\ pc' \in [Workers -> Places]
BY DEF Goes

(* A worker that goes where its place leads joins nobody it must not. *)
LEMMA StaysApart ==
  ASSUME pc \in [Workers -> Places], Apart, NEW w \in Workers,
         NEW a \in Places \ {"idle"}, NEW b \in Places, Goes(w, a, b), Leads(a, b),
         phase' \in Replacing => phase \in Replacing \/ a \in Solitary \union Undoing
  PROVE  Apart'
<1>1. /\ pc[w] = a /\ pc'[w] = b
      /\ \A v \in Workers \ {w} : pc'[v] = pc[v]
  BY Moved
<1>2. b \notin {"receive", "halt", "recover"}
  BY DEF Leads, Spent, Early, Late, Undoing
<1>3. ASSUME NEW v \in Workers \ {w}
      PROVE  /\ b \in Solitary => pc[v] = "idle"
             /\ b \in Undoing => pc[v] \in {"idle"} \union Spent
  BY <1>1 DEF Apart, Leads, Solitary, Early, Late, Undoing, Spent
<1>4. ASSUME NEW v \in Workers \ {w}
      PROVE  /\ pc[v] \notin Solitary
             /\ pc[v] \in Undoing \/ (pc[v] = "recover" /\ phase' \in Replacing) =>
                  b \in {"idle"} \union Spent
  <2>1. /\ pc[v] \in Solitary => a = "idle"
        /\ pc[v] \in Undoing \/ (pc[v] = "recover" /\ phase \in Replacing) =>
             a \in {"idle"} \union Spent
        /\ a \in Solitary => pc[v] = "idle"
        /\ a \in Undoing \/ (a = "recover" /\ phase \in Replacing) => pc[v] \in {"idle"} \union Spent
    BY <1>1 DEF Apart
  <2> QED BY <2>1 DEF Leads, Solitary, Early, Late, Undoing, Spent
<1>5. ASSUME NEW u \in Workers, NEW v \in Workers, u # v
      PROVE  /\ pc'[v] \in Solitary => pc'[u] = "idle"
             /\ pc'[v] \in Undoing \/ (pc'[v] = "recover" /\ phase' \in Replacing) =>
                  pc'[u] \in {"idle"} \union Spent
  <2>1. CASE v = w BY <1>1, <1>2, <1>3, <1>5, <2>1
  <2>2. CASE u = w BY <1>1, <1>4, <1>5, <2>2
  <2>3. CASE u # w /\ v # w
    <3>1. pc'[u] = pc[u] /\ pc'[v] = pc[v] BY <1>1, <2>3
    <3>2. CASE phase' \in Replacing /\ phase \notin Replacing
      <4>1. pc[v] # "recover"
        BY <1>1, <2>3, <3>2 DEF Apart, Spent
      <4> QED BY <1>5, <3>1, <4>1 DEF Apart
    <3>3. CASE ~(phase' \in Replacing /\ phase \notin Replacing)
      BY <1>5, <3>1, <3>3 DEF Apart
    <3> QED BY <3>2, <3>3
  <2> QED BY <2>1, <2>2, <2>3
<1> QED BY <1>5 DEF Apart

(* What a Desktop that ends or starts cannot change. *)
LEMMA DesktopMoves ==
  ASSUME TypeOK, DiskAgrees, Restarts
  PROVE  /\ desktop' \in {NoDesktop} \union
              [at : {"booting", "starting", "up"}, runs : Contents \ {"none"},
               by : {"first", "user"} \union Workers, image : Schemas]
         /\ desktop'.image \in {desktop.image, "none"}
         /\ desktop'.runs \in {desktop.runs, "none", tree}
         /\ DiskAgrees'
<1> USE DEF trees, data
<1>1. CASE desktop' = desktop
  BY <1>1 DEF TypeOK, DiskAgrees, Restarts
<1>2. CASE desktop' = NoDesktop
  BY <1>2 DEF TypeOK, DiskAgrees, Restarts, NoDesktop
<1>3. CASE desktop = NoDesktop /\ tree # "none"
           /\ \E s \in {"user"} \union Workers : desktop' = NewDesktop(s)
  <2>1. PICK s \in {"user"} \union Workers :
          desktop' = [at |-> "booting", runs |-> tree, by |-> s, image |-> "none"]
    BY <1>3 DEF NewDesktop
  <2> QED BY <1>3, <2>1 DEF TypeOK, DiskAgrees, Restarts, Schemas, NoDesktop
<1>4. CASE /\ desktop.at \in {"booting", "starting", "up"}
           /\ \/ desktop' = [desktop EXCEPT !.at = "starting"] /\ desktop.at = "booting"
              \/ desktop' = [desktop EXCEPT !.by = "first"]
              \/ desktop' = [desktop EXCEPT !.at = "starting", !.image = "none"]
  <2>1. desktop \in [at : {"booting", "starting", "up"}, runs : Contents \ {"none"},
                     by : {"first", "user"} \union Workers, image : Schemas]
    BY <1>4 DEF TypeOK, NoDesktop
  <2>2. /\ desktop' \in [at : {"booting", "starting", "up"}, runs : Contents \ {"none"},
                         by : {"first", "user"} \union Workers, image : Schemas]
        /\ desktop'.runs = desktop.runs
        /\ \/ desktop'.at = desktop.at /\ desktop'.image = desktop.image
           \/ desktop'.at = "starting" /\ desktop'.image = "none"
    BY <1>4, <2>1 DEF Schemas, DiskAgrees
  <2>3. tree # "none" BY <1>4 DEF DiskAgrees, NoDesktop
  <2> QED BY <2>2, <2>3 DEF DiskAgrees, Restarts, TypeOK
<1> QED BY <1>1, <1>2, <1>3, <1>4 DEF Restarts

LEMMA StillMeans ==
  ASSUME TypeOK, DiskAgrees, Restarts
  PROVE  /\ AsBefore => AsBefore'
         /\ IsNew => IsNew'
         /\ \A v \in Workers : PlaceMeans(v) /\ pc'[v] \in {pc[v], "idle"} => PlaceMeans(v)'
<1> USE DEF trees, data
<1>1. desktop'.image \in {desktop.image, "none"} /\ desktop'.runs \in {desktop.runs, "none", tree}
  BY DesktopMoves
<1>2. AsBefore => AsBefore' BY <1>1 DEF AsBefore, Restarts
<1>3. IsNew => IsNew' BY <1>1 DEF IsNew, Restarts
<1>4. UNCHANGED <<phase, recorded, tree, aside, backup, db, dbAside, dbBackup, migrates>>
  BY DEF Restarts
<1>5. Saved' = Saved BY <1>4, Zenon DEF Saved
<1>6. ASSUME NEW v \in Workers, PlaceMeans(v), pc'[v] \in {pc[v], "idle"} PROVE PlaceMeans(v)'
  <2>1. CASE pc'[v] = "idle" BY <2>1 DEF PlaceMeans, Served
  <2>2. CASE pc'[v] = pc[v]
    BY <1>1, <1>2, <1>3, <1>4, <1>5, <1>6, <2>2 DEF PlaceMeans
  <2> QED BY <1>6, <2>1, <2>2
<1> QED BY <1>2, <1>3, <1>6

(* A Desktop that ends or starts, with every worker where it was or gone. *)
LEMMA WorldKeeps ==
  ASSUME IndInv, ~Overtaken, Restarts, pc' \in [Workers -> Places],
         \A v \in Workers : pc'[v] \in {pc[v], "idle"},
         stale' \in BOOLEAN, failures' \in Nat, crashes' \in Nat
  PROVE  IndInv'
<1> USE DEF trees, data
<1>1. TypeOK /\ DiskAgrees /\ PhaseMeans /\ Apart /\ (Untouched \/ Touched)
      /\ \A w \in Workers : PlaceMeans(w)
  BY DEF IndInv
<1>2. UNCHANGED <<phase, recorded, tree, aside, backup, db, dbAside, dbBackup, migrates>>
  BY DEF Restarts
<1>3. TypeOK' BY <1>1, <1>2, DesktopMoves DEF TypeOK
<1>4. PhaseMeans' BY <1>1, <1>2, StillMeans DEF PhaseMeans, Workers
<1>5. \A w \in Workers : PlaceMeans(w)' BY <1>1, StillMeans
<1>6. Untouched' \/ Touched'
  <2>1. CASE Untouched BY <1>1, <1>2, <2>1, DesktopMoves DEF Untouched
  <2>2. CASE Touched BY <1>1, <1>2, <2>2 DEF Touched, Saved, Early
  <2> QED BY <1>1, <2>1, <2>2
<1>7. Apart' BY <1>1, <1>2 DEF Apart, Solitary, Early, Late, Undoing
<1> QED BY <1>1, <1>3, <1>4, <1>5, <1>6, <1>7, DesktopMoves DEF IndInv

(* A worker that changes nothing but its place and perhaps the Desktop. *)
LEMMA Walks ==
  ASSUME IndInv, ~Overtaken, NEW w \in Workers, NEW a \in Places \ {"idle"}, NEW b \in Places,
         Goes(w, a, b), Leads(a, b), PlaceMeans(w)',
         Restarts, UNCHANGED <<stale, crashes>>, failures' \in Nat
  PROVE  IndInv'
<1> USE DEF trees, data
<1>1. TypeOK /\ DiskAgrees /\ PhaseMeans /\ Apart /\ (Untouched \/ Touched)
      /\ \A v \in Workers : PlaceMeans(v)
  BY DEF IndInv
<1>2. UNCHANGED <<phase, recorded, tree, aside, backup, db, dbAside, dbBackup, migrates>>
  BY DEF Restarts
<1>3. /\ pc[w] = a /\ pc'[w] = b /\ pc' \in [Workers -> Places]
      /\ \A v \in Workers \ {w} : pc'[v] = pc[v]
  BY <1>1, Moved DEF TypeOK
<1>4. TypeOK' BY <1>1, <1>2, <1>3, DesktopMoves DEF TypeOK
<1>5. PhaseMeans'
  <2>1. w \in Recoverers => phase \notin {"NONE", "COMPLETED"} BY <1>1, <1>3 DEF PhaseMeans
  <2>2. phase \in {"NONE", "COMPLETED"} => \A v \in Recoverers : pc'[v] = "idle"
    BY <1>1, <1>3, <2>1 DEF PhaseMeans, Workers
  <2> QED BY <1>1, <1>2, <2>2, StillMeans DEF PhaseMeans
<1>6. \A v \in Workers : PlaceMeans(v)'
  <2>1. \A v \in Workers \ {w} : PlaceMeans(v)' BY <1>1, <1>3, StillMeans
  <2> QED BY <2>1
<1>7. Untouched' \/ Touched'
  <2>1. CASE Untouched
    <3>1. a \in {"receive", "recover"} \union Early \union Spent BY <1>3, <2>1 DEF Untouched
    <3>2. phase \notin Replacing BY <2>1 DEF Untouched, BeforeInstall, Replacing, Reported
    <3>3. b \in Undoing => a \in {"receive"} \union Early
      BY <3>1, <3>2 DEF Leads, Solitary, Early, Late, Spent, Undoing
    <3>4. b \notin Undoing
      BY <1>1, <1>2, <1>3, <3>3
      DEF PlaceMeans, Early, Undoing, BeforeInstall, Replacing, Reported
    <3>5. b \notin Late
      BY <1>2, <1>3, <2>1 DEF PlaceMeans, Late, IsNew, Untouched, BeforeInstall, Reported
    <3>6. \A v \in Workers :
             pc'[v] \in {"idle", "receive", "recover"} \union Early \union Spent
      BY <1>3, <2>1, <3>5, <3>4 DEF Untouched, Leads
    <3>7. desktop'.image \in {"none", "old"} BY <1>1, <2>1, DesktopMoves DEF Untouched
    <3> QED BY <1>2, <2>1, <3>6, <3>7 DEF Untouched
  <2>2. CASE Touched
    <3>1. a \notin {"receive"} \union Early BY <1>3, <2>2 DEF Touched
    <3>2. b \notin {"receive", "again"} \union Early
      BY <3>1 DEF Leads, Spent, Early, Late, Undoing
    <3> QED BY <1>2, <1>3, <2>2, <3>2 DEF Touched, Saved
  <2> QED BY <1>1, <2>1, <2>2
<1>8. Apart' BY <1>1, <1>2, StaysApart DEF TypeOK
<1> QED BY <1>1, <1>4, <1>5, <1>6, <1>7, <1>8, DesktopMoves DEF IndInv

-----------------------------------------------------------------------------
(* The steps that write a phase: from where, which, and where they lead. *)
Writings ==
  {<<"receive", "RECEIVED", "verify", "idle">>,
   <<"verify", "VERIFYING", "check", "idle">>,
   <<"fail", "FAILED", "idle", "idle">>,
   <<"wait", "WAITING_FOR_SHUTDOWN", "stop", "idle">>,
   <<"back", "BACKING_UP", "copy", "idle">>,
   <<"install", "INSTALLING", "run", "idle">>,
   <<"start", "STARTING", "launch", "undo">>,
   <<"health", "HEALTH_CHECK", "probe", "kill">>,
   <<"complete", "COMPLETED", "idle", "idle">>,
   <<"undo", "ROLLING_BACK", "swapOut", "idle">>,
   <<"finish", "ROLLED_BACK", "idle", "idle">>,
   <<"giveUp", "ROLLBACK_FAILED", "idle", "idle">>}

(* A phase that is written is true, and leaves every other worker with     *)
(* what its place says.                                                    *)
LEMMA Writes ==
  ASSUME IndInv, ~Overtaken, NEW w \in Workers,
         NEW a, NEW p, NEW b, NEW c, <<a, p, b, c>> \in Writings,
         Goes(w, a, b), phase' = p, stale' = FALSE, recorded' = Records(p),
         UNCHANGED <<trees, data, desktop, migrates, failures, crashes>>
  PROVE  IndInv'
<1> USE DEF trees, data
<1>1. /\ TypeOK /\ DiskAgrees /\ PhaseMeans /\ Apart /\ (Untouched \/ Touched)
      /\ \A v \in Workers : PlaceMeans(v)
  BY DEF IndInv
<1>2. /\ a \in Places \ {"idle"} /\ b \in Places /\ c \in Places
      /\ a \in Solitary \union {"undo", "finish", "giveUp"}
      /\ p \in Unfinished \union Finished
      /\ a = "undo" <=> p = "ROLLING_BACK"
      /\ a \in {"finish", "giveUp"} <=> p \in Reported
  BY DEF Writings, Places, Solitary, Early, Late, Reported, Unfinished, Finished,
         BeforeInstall, Replacing
<1>3. /\ pc[w] = a /\ pc'[w] = b /\ pc' \in [Workers -> Places]
      /\ \A v \in Workers \ {w} : pc'[v] = pc[v]
  BY <1>1, <1>2, Moved DEF TypeOK
<1>4. recorded' \in BOOLEAN /\ (recorded => recorded') /\ (p = "BACKING_UP" => recorded')
  BY <1>1, Zenon DEF TypeOK, Records
<1>5. /\ AsBefore' = AsBefore /\ IsNew' = IsNew
  BY DEF AsBefore, IsNew
<1>6. Saved => Saved' BY <1>4 DEF Saved
<1>7. TypeOK' BY <1>1, <1>2, <1>3, <1>4 DEF TypeOK
<1>8. DiskAgrees' BY <1>1, <1>4 DEF DiskAgrees
<1>9. Apart'
  <2>1. Leads(a, b) BY DEF Writings, Leads, Solitary, Early, Late, Undoing, Spent
  <2>2. p \in Replacing => a \in Solitary \union Undoing
    BY DEF Writings, Replacing, Solitary, Early, Late, Undoing
  <2> QED BY <1>1, <1>2, <2>1, <2>2, StaysApart DEF TypeOK
<1>10. PlaceMeans(w)'
  BY <1>1, <1>3, <1>4, <1>5, <1>6
  DEF Writings, PlaceMeans, Served, Undoing, Replacing, Reported, Untouched, Touched
<1>11. ASSUME NEW v \in Workers \ {w} PROVE PlaceMeans(v)'
  <2>1. CASE pc[v] = "idle" BY <1>3, <2>1 DEF PlaceMeans, Served
  <2>2. CASE a = "undo" /\ pc[v] \in Spent
    <3>1. phase \in Replacing \union {"COMPLETED"} \union Reported BY <1>1, <1>3, <2>2 DEF PlaceMeans
    <3>2. pc[v] # "again"
      BY <1>1, <1>3, <2>2 DEF Untouched, Touched, Early, Spent
    <3> QED BY <1>1, <1>2, <1>3, <1>5, <2>2, <3>2 DEF PlaceMeans, Spent, Served
  <2>3. CASE p \in Reported /\ pc[v] \notin Solitary
    BY <1>1, <1>3, <1>5, <2>3 DEF PlaceMeans, Solitary, Early, Late, Served, Reported
  <2>4. \/ pc[v] = "idle" \/ (a = "undo" /\ pc[v] \in Spent)
        \/ (p \in Reported /\ pc[v] \notin Solitary)
    <3>1. a \in Solitary => pc[v] = "idle" BY <1>1, <1>3 DEF Apart
    <3>2. a = "undo" => pc[v] \in {"idle"} \union Spent BY <1>1, <1>3 DEF Apart, Undoing
    <3>3. pc[v] \in Solitary => a = "idle" BY <1>1, <1>3 DEF Apart
    <3> QED BY <1>2, <3>1, <3>2, <3>3
  <2> QED BY <2>1, <2>2, <2>3, <2>4
<1>12. PhaseMeans'
  <2>1. p = "COMPLETED" => a = "complete" /\ b = "idle"
    BY DEF Writings
  <2>2. p = "COMPLETED" => IsNew /\ \A v \in Recoverers : pc'[v] = "idle"
    BY <1>1, <1>3, <2>1 DEF PlaceMeans, Apart, Solitary, Late, Workers
  <2>3. p = "ROLLED_BACK" => AsBefore
    <3>1. p = "ROLLED_BACK" => a = "finish" BY DEF Writings
    <3> QED BY <1>1, <1>3, <3>1 DEF PlaceMeans, Served
  <2>4. p # "NONE" BY DEF Writings
  <2> QED BY <1>5, <2>2, <2>3, <2>4 DEF PhaseMeans
<1>13. Untouched' \/ Touched'
  <2>1. CASE Untouched /\ a # "install"
    <3>1. a \in {"receive", "finish", "giveUp"} \union Early BY <1>2, <1>3, <2>1 DEF Untouched, Spent, Solitary, Late
    <3>2. /\ p \in {"FAILED"} \union BeforeInstall \union Reported
          /\ b \in {"idle"} \union Early
      BY <2>1, <3>1 DEF Writings, BeforeInstall, Reported, Early
    <3>3. \A v \in Workers : pc'[v] \in {"idle", "receive", "recover"} \union Early \union Spent
      BY <1>3, <2>1, <3>2 DEF Untouched
    <3> QED BY <2>1, <3>2, <3>3 DEF Untouched
  <2>2. CASE a = "install"
    <3>1. p = "INSTALLING" /\ b = "run" BY <2>2 DEF Writings
    <3>2. \A v \in Workers : pc'[v] \in {"idle", "run"}
      BY <1>1, <1>3, <2>2, <3>1 DEF Apart, Solitary, Early
    <3>3. Saved BY <1>1, <1>3, <2>2 DEF PlaceMeans
    <3> QED BY <1>6, <3>1, <3>2, <3>3 DEF Touched, Early, Replacing
  <2>3. CASE Touched
    <3>1. a \notin {"receive", "again"} \union Early BY <1>3, <2>3 DEF Touched
    <3>2. /\ p \in {"COMPLETED"} \union Replacing \union Reported
          /\ b \notin {"receive", "again"} \union Early
      BY <3>1 DEF Writings, Early, Replacing, Reported
    <3>3. \A v \in Workers : pc'[v] \notin {"receive", "again"} \union Early
      BY <1>3, <2>3, <3>2 DEF Touched
    <3> QED BY <1>6, <2>3, <3>2, <3>3 DEF Touched
  <2> QED BY <1>1, <2>1, <2>2, <2>3
<1> QED BY <1>3, <1>7, <1>8, <1>9, <1>10, <1>11, <1>12, <1>13 DEF IndInv

(* A write of the state file, or its failure. *)
LEMMA TransitionKeeps ==
  ASSUME IndInv, ~Overtaken, NEW w \in Workers,
         NEW a, NEW p, NEW b, NEW c, <<a, p, b, c>> \in Writings, Transition(w, a, p, b, c)
  PROVE  IndInv'
<1>1. CASE Goes(w, a, b) /\ phase' = p /\ stale' = FALSE /\ recorded' = Records(p)
           /\ UNCHANGED failures
  BY <1>1, Writes DEF Transition
<1>2. CASE Goes(w, a, c) /\ Fails /\ UNCHANGED file
  <2>1. /\ a \in Places \ {"idle"} /\ c \in Places
        /\ Leads(a, c)
    BY DEF Writings, Places, Leads, Solitary, Early, Late, Undoing, Spent
  <2>2. Restarts /\ UNCHANGED <<stale, crashes>>
    BY <1>2 DEF Transition, Restarts, file
  <2>3. failures' \in Nat BY <1>2 DEF Fails, IndInv, TypeOK
  <2>4. PlaceMeans(w)'
    <3>1. /\ PlaceMeans(w) /\ pc[w] = a /\ pc'[w] = c
      BY <1>2, <2>1, Moved DEF IndInv, TypeOK
    <3>2. UNCHANGED <<phase, recorded, trees, data, desktop, migrates>>
      BY <1>2 DEF Transition, file
    <3>3. CASE c = "idle" BY <3>1, <3>3 DEF PlaceMeans, Served
    <3>4. CASE c # "idle"
      <4>1. (a = "start" /\ c = "undo") \/ (a = "health" /\ c = "kill") BY <3>4 DEF Writings
      <4> QED BY <3>1, <3>2, <4>1 DEF PlaceMeans, Served, Replacing, trees
    <3> QED BY <3>3, <3>4
  <2> QED BY <1>2, <2>1, <2>2, <2>3, <2>4, Walks
<1> QED BY <1>1, <1>2 DEF Transition

LEMMA PersistKeeps ==
  ASSUME IndInv, ~Overtaken, NEW w \in Workers, Persist(w)
  PROVE  IndInv'
<1> USE TransitionKeeps DEF Writings
<1>1. CASE Transition(w, "receive", "RECEIVED", "verify", "idle") BY <1>1
<1>2. CASE Transition(w, "verify", "VERIFYING", "check", "idle") BY <1>2
<1>3. CASE Transition(w, "fail", "FAILED", "idle", "idle") BY <1>3
<1>4. CASE Transition(w, "wait", "WAITING_FOR_SHUTDOWN", "stop", "idle") BY <1>4
<1>5. CASE Transition(w, "back", "BACKING_UP", "copy", "idle") BY <1>5
<1>6. CASE Transition(w, "install", "INSTALLING", "run", "idle") BY <1>6
<1>7. CASE Transition(w, "start", "STARTING", "launch", "undo") BY <1>7
<1>8. CASE Transition(w, "health", "HEALTH_CHECK", "probe", "kill") BY <1>8
<1>9. CASE Transition(w, "complete", "COMPLETED", "idle", "idle") BY <1>9
<1>10. CASE Transition(w, "undo", "ROLLING_BACK", "swapOut", "idle") BY <1>10
<1>11. CASE Transition(w, "finish", "ROLLED_BACK", "idle", "idle") BY <1>11
<1>12. CASE Transition(w, "giveUp", "ROLLBACK_FAILED", "idle", "idle") BY <1>12
<1> QED BY <1>1, <1>2, <1>3, <1>4, <1>5, <1>6, <1>7, <1>8, <1>9, <1>10, <1>11, <1>12 DEF Persist

-----------------------------------------------------------------------------
(* The steps that leave the disk alone. *)

LEMMA CheckKeeps ==
  ASSUME IndInv, ~Overtaken, NEW w \in Workers, Check(w)
  PROVE  IndInv'
<1>1. PICK b \in {"wait", "fail"} : Goes(w, "check", b) BY DEF Check
<1>2. /\ "check" \in Places \ {"idle"} /\ b \in Places /\ Leads("check", b)
  BY DEF Places, Leads, Solitary, Early
<1>3. Restarts /\ UNCHANGED <<stale, crashes>> /\ failures' \in Nat
  BY DEF Check, Restarts, file, Fails, IndInv, TypeOK
<1>4. PlaceMeans(w)'
  <2>1. PlaceMeans(w) /\ pc[w] = "check" /\ pc'[w] = b /\ phase' = phase
    BY <1>1, <1>2, <1>3, Moved DEF IndInv, TypeOK, Restarts
  <2> QED BY <2>1 DEF PlaceMeans, Served
<1> QED BY <1>1, <1>2, <1>3, <1>4, Walks

LEMMA StopKeeps ==
  ASSUME IndInv, ~Overtaken, NEW w \in Workers, Stop(w)
  PROVE  IndInv'
<1>1. PICK b \in {"back", "again"} : Goes(w, "stop", b) BY DEF Stop
<1>2. /\ "stop" \in Places \ {"idle"} /\ b \in Places /\ Leads("stop", b)
  BY DEF Places, Leads, Solitary, Early, Spent
<1>3. Restarts /\ UNCHANGED <<stale, crashes>> /\ failures' \in Nat
  BY DEF Stop, Without, Restarts, file, Fails, IndInv, TypeOK
<1>4. PlaceMeans(w)'
  <2>1. PlaceMeans(w) /\ pc[w] = "stop" /\ pc'[w] = b /\ phase' = phase
    BY <1>1, <1>2, <1>3, Moved DEF IndInv, TypeOK, Restarts
  <2> QED BY <2>1 DEF PlaceMeans, Served
<1> QED BY <1>1, <1>2, <1>3, <1>4, Walks

(* The start of a release is that of a Desktop. *)
LEMMA StartsRestarts ==
  ASSUME NEW w \in Workers, Starts(w) \/ DoesNotStart, failures \in Nat,
         UNCHANGED <<file, trees, data, migrates, crashes>>
  PROVE  Restarts /\ UNCHANGED <<stale, crashes>> /\ failures' \in Nat
<1>1. Starter(w) \in {"user"} \union Workers BY DEF Starter
<1> QED BY <1>1 DEF Starts, DoesNotStart, Fails, Restarts, file

LEMMA AgainKeeps ==
  ASSUME IndInv, ~Overtaken, NEW w \in Workers, Again(w)
  PROVE  IndInv'
<1>1. PICK b \in {"reprobe", "giveUp"} : Goes(w, "again", b) BY DEF Again
<1>2. /\ "again" \in Places \ {"idle"} /\ b \in Places /\ Leads("again", b)
  BY DEF Places, Leads, Early, Spent
<1>3. Restarts /\ UNCHANGED <<stale, crashes>> /\ failures' \in Nat
  <2>1. CASE UNCHANGED <<desktop, failures>>
    BY <2>1 DEF Again, Restarts, file, IndInv, TypeOK
  <2>2. CASE Starts(w) \/ DoesNotStart
    BY <2>2, StartsRestarts DEF Again, IndInv, TypeOK
  <2> QED BY <2>1, <2>2 DEF Again
<1>4. PlaceMeans(w)'
  <2>1. PlaceMeans(w) /\ pc[w] = "again" /\ pc'[w] = b /\ phase' = phase
    BY <1>1, <1>2, <1>3, Moved DEF IndInv, TypeOK, Restarts
  <2>2. AsBefore
    BY <2>1 DEF IndInv, Touched, Untouched, AsBefore
  <2>3. AsBefore' BY <1>3, <2>2, StillMeans DEF IndInv
  <2> QED BY <2>1, <2>3 DEF PlaceMeans, Served, BeforeInstall
<1> QED BY <1>1, <1>2, <1>3, <1>4, Walks

LEMMA LaunchKeeps ==
  ASSUME IndInv, ~Overtaken, NEW w \in Workers, Launch(w)
  PROVE  IndInv'
<1>1. PICK a \in {"launch", "relaunch"}, b \in {"health", "undo", "reprobe", "giveUp"} :
        /\ Goes(w, a, b)
        /\ <<a, b>> \in {<<"launch", "health">>, <<"launch", "undo">>,
                         <<"relaunch", "reprobe">>, <<"relaunch", "giveUp">>}
  BY DEF Launch
<1>2. /\ a \in Places \ {"idle"} /\ b \in Places /\ Leads(a, b)
  BY <1>1 DEF Places, Leads, Solitary, Early, Late, Undoing, Spent
<1>3. Restarts /\ UNCHANGED <<stale, crashes>> /\ failures' \in Nat
  BY StartsRestarts DEF Launch, IndInv, TypeOK
<1>4. PlaceMeans(w)'
  <2>1. PlaceMeans(w) /\ pc[w] = a /\ pc'[w] = b /\ phase' = phase /\ tree' = tree
    BY <1>1, <1>2, <1>3, Moved DEF IndInv, TypeOK, Restarts, trees
  <2>2. AsBefore => AsBefore' BY <1>3, StillMeans DEF IndInv
  <2> QED BY <1>1, <2>1, <2>2 DEF PlaceMeans, Served, Replacing
<1> QED BY <1>1, <1>2, <1>3, <1>4, Walks

LEMMA ProbeKeeps ==
  ASSUME IndInv, ~Overtaken, NEW w \in Workers, Probe(w)
  PROVE  IndInv'
<1>1. PICK a \in {"probe", "reprobe"}, b \in {"complete", "kill", "finish", "giveUp"} :
        /\ Goes(w, a, b)
        /\ <<a, b>> \in {<<"probe", "complete">>, <<"probe", "kill">>,
                         <<"reprobe", "finish">>, <<"reprobe", "giveUp">>}
        /\ b = "complete" => Serves("new")
  BY DEF Probe, ProbeWait
<1>2. /\ a \in Places \ {"idle"} /\ b \in Places /\ Leads(a, b)
  BY <1>1 DEF Places, Leads, Solitary, Early, Late, Undoing, Spent
<1>3. Restarts /\ UNCHANGED <<stale, crashes>> /\ failures' \in Nat
  BY DEF Probe, ProbeWait, Fails, Restarts, file, IndInv, TypeOK
<1>4. PlaceMeans(w)'
  <2>1. /\ PlaceMeans(w) /\ pc[w] = a /\ pc'[w] = b /\ DiskAgrees
        /\ phase' = phase /\ tree' = tree
    BY <1>1, <1>2, <1>3, Moved DEF IndInv, TypeOK, Restarts, trees
  <2>2. (AsBefore => AsBefore') /\ (IsNew => IsNew') BY <1>3, StillMeans DEF IndInv
  <2>3. b = "complete" => IsNew
    BY <1>1, <2>1 DEF Serves, DiskAgrees, IsNew, PlaceMeans
  <2> QED BY <1>1, <2>1, <2>2, <2>3 DEF PlaceMeans, Served
<1> QED BY <1>1, <1>2, <1>3, <1>4, Walks

LEMMA KillKeeps ==
  ASSUME IndInv, ~Overtaken, NEW w \in Workers, Kill(w)
  PROVE  IndInv'
<1>1. PICK a \in {"kill", "halt"}, b \in {"undo", "giveUp"} :
        Goes(w, a, b) /\ <<a, b>> # <<"kill", "giveUp">>
  BY DEF Kill
<1>2. /\ a \in Places \ {"idle"} /\ b \in Places /\ Leads(a, b)
  BY <1>1 DEF Places, Leads, Solitary, Early, Late, Undoing, Spent
<1>3. Restarts /\ UNCHANGED <<stale, crashes>> /\ failures' \in Nat
  BY DEF Kill, Without, Fails, Restarts, file, IndInv, TypeOK
<1>4. PlaceMeans(w)'
  <2>1. /\ PlaceMeans(w) /\ pc[w] = a /\ pc'[w] = b
        /\ phase' = phase /\ tree' = tree
    BY <1>1, <1>2, <1>3, Moved DEF IndInv, TypeOK, Restarts, trees
  <2>2. phase = "COMPLETED" => tree = "new" BY DEF IndInv, PhaseMeans, IsNew
  <2>3. a = "kill" => tree = "new"
    BY <2>1 DEF PlaceMeans
  <2> QED BY <1>1, <2>1, <2>2, <2>3 DEF PlaceMeans, Served, Replacing
<1> QED BY <1>1, <1>2, <1>3, <1>4, Walks

LEMMA RecoverKeeps ==
  ASSUME IndInv, ~Overtaken, NEW w \in Workers, Recover(w)
  PROVE  IndInv'
<1>1. PICK b \in {"relaunch", "undo", "idle"} :
        /\ Goes(w, "recover", b)
        /\ b = "relaunch" => phase \in BeforeInstall
        /\ b = "undo" => phase \in Replacing
  BY DEF Recover
<1>2. /\ "recover" \in Places \ {"idle"} /\ b \in Places /\ Leads("recover", b)
  BY <1>1 DEF Places, Leads, Early, Undoing, Spent
<1>3. Restarts /\ UNCHANGED <<stale, crashes>> /\ failures' \in Nat
  BY DEF Recover, Restarts, file, IndInv, TypeOK
<1>4. PlaceMeans(w)'
  <2>1. /\ PlaceMeans(w) /\ pc[w] = "recover" /\ pc'[w] = b
        /\ phase' = phase /\ tree' = tree
    BY <1>1, <1>2, <1>3, Moved DEF IndInv, TypeOK, Restarts, trees
  <2>2. b = "relaunch" => AsBefore
    BY <1>1 DEF IndInv, Touched, Untouched, AsBefore, BeforeInstall, Replacing, Reported
  <2>3. b = "relaunch" => AsBefore' BY <1>3, <2>2, StillMeans DEF IndInv
  <2> QED BY <1>1, <2>1, <2>3 DEF PlaceMeans, Served
<1> QED BY <1>1, <1>2, <1>3, <1>4, Walks

-----------------------------------------------------------------------------
(* The steps that change the disk. *)

(* Whoever changes the disk is alone, or undoes the update next to workers *)
(* that rely on what is as before.                                         *)
LEMMA Replaces ==
  ASSUME IndInv, ~Overtaken, NEW w \in Workers,
         NEW a \in Early \union Late \union (Undoing \ {"undo"}), NEW b \in Places,
         Goes(w, a, b), Leads(a, b),
         UNCHANGED <<phase, recorded, stale, desktop, migrates, crashes>>, failures' \in Nat,
         a \in Early => UNCHANGED <<tree, db, dbAside>>,
         a \notin Early => UNCHANGED <<backup, dbBackup>>,
         tree' \in Contents, aside' \in Contents, backup' \in {"none", "old"},
         db' \in Schemas, dbAside' \in Schemas, dbBackup' \in {"none", "old"},
         DiskAgrees', PlaceMeans(w)',
         a \in Undoing /\ AsBefore => AsBefore'
  PROVE  IndInv'
<1>1. /\ TypeOK /\ PhaseMeans /\ Apart /\ (Untouched \/ Touched)
      /\ \A v \in Workers : PlaceMeans(v)
  BY DEF IndInv
<1>2. a \in Places \ {"idle"} BY DEF Places, Early, Late, Undoing
<1>3. /\ pc[w] = a /\ pc'[w] = b /\ pc' \in [Workers -> Places]
      /\ \A v \in Workers \ {w} : pc'[v] = pc[v]
  BY <1>1, <1>2, Moved DEF TypeOK
<1>4. \A v \in Workers \ {w} : IF a \in Undoing THEN pc[v] \in {"idle"} \union Spent ELSE pc[v] = "idle"
  BY <1>1, <1>3 DEF Apart, Solitary
<1>5. /\ phase \notin {"NONE", "COMPLETED"}
      /\ a \notin Undoing => phase # "ROLLED_BACK"
  BY <1>1, <1>3 DEF PlaceMeans, Early, Late, Undoing, Replacing, Reported, BeforeInstall
<1>6. TypeOK' BY <1>1, <1>3 DEF TypeOK
<1>7. PhaseMeans' BY <1>1, <1>5 DEF PhaseMeans
<1>8. Apart' BY <1>1, <1>2, StaysApart DEF TypeOK
<1>9. ASSUME NEW v \in Workers \ {w} PROVE PlaceMeans(v)'
  <2>1. CASE pc[v] = "idle" BY <1>3, <2>1 DEF PlaceMeans, Served
  <2>2. CASE a \in Undoing /\ pc[v] \in Spent
    BY <1>1, <1>3, <2>2 DEF PlaceMeans, Spent, Served
  <2> QED BY <1>4, <2>1, <2>2
<1>10. Untouched' \/ Touched'
  <2>1. CASE a \in Early
    <3>1. Untouched BY <1>1, <1>3, <2>1 DEF Touched
    <3>2. b \in {"idle"} \union Early \union Spent
      <4>1. b \notin Late \union Undoing
        BY <1>1, <1>3, <2>1
        DEF PlaceMeans, Early, Late, Undoing, BeforeInstall, Replacing, Reported, IsNew
      <4> QED BY <4>1 DEF Leads
    <3>3. \A v \in Workers : pc'[v] \in {"idle", "receive", "recover"} \union Early \union Spent
      BY <1>3, <3>1, <3>2 DEF Untouched
    <3> QED BY <2>1, <3>1, <3>3 DEF Untouched
  <2>2. CASE a \notin Early
    <3>1. ~Untouched
      BY <1>1, <1>3, <2>2 DEF Untouched, Early, Late, Undoing, Spent
    <3>2. b \notin {"receive", "again"} \union Early
      BY <2>2 DEF Leads, Early, Late, Undoing, Spent
    <3>3. Touched' BY <1>1, <1>3, <2>2, <3>1, <3>2 DEF Touched, Saved
    <3> QED BY <3>3
  <2> QED BY <2>1, <2>2
<1> QED BY <1>3, <1>6, <1>7, <1>8, <1>9, <1>10 DEF IndInv

LEMMA CopyKeeps ==
  ASSUME IndInv, ~Overtaken, NEW w \in Workers, Copy(w)
  PROVE  IndInv'
<1> USE DEF file, trees, data
<1>1. PICK b \in {"copyDb", "install", "again"} :
        /\ Goes(w, "copy", b)
        /\ b = "again" => UNCHANGED backup
        /\ b # "again" => backup' = tree /\ (b = "copyDb" <=> migrates)
  BY DEF Copy
<1>2. /\ "copy" \in Places \ {"idle"} /\ b \in Places /\ Leads("copy", b) /\ "copy" \in Early
  BY DEF Places, Leads, Solitary, Early, Spent
<1>3. /\ PlaceMeans(w) /\ pc[w] = "copy" /\ pc'[w] = b /\ TypeOK /\ DiskAgrees
      /\ Untouched \/ Touched
  BY <1>1, <1>2, Moved DEF IndInv, TypeOK
<1>4. recorded /\ tree = "old" /\ phase = "BACKING_UP" /\ backup' \in {"none", "old"}
  BY <1>1, <1>2, <1>3 DEF PlaceMeans, Touched, Untouched, TypeOK
<1>5. /\ UNCHANGED <<phase, recorded, stale, tree, aside, db, dbAside, dbBackup, desktop,
                     migrates, crashes>>
      /\ failures' \in Nat
  BY <1>3 DEF Copy, Fails, TypeOK
<1>6. DiskAgrees' BY <1>3, <1>4, <1>5 DEF DiskAgrees
<1>7. PlaceMeans(w)' BY <1>1, <1>3, <1>4, <1>5 DEF PlaceMeans, Served, Saved
<1>8. "copy" \notin Undoing BY DEF Undoing
<1> QED
  BY <1>1, <1>2, <1>3, <1>4, <1>5, <1>6, <1>7, <1>8, Replaces DEF TypeOK

LEMMA CopyDbKeeps ==
  ASSUME IndInv, ~Overtaken, NEW w \in Workers, CopyDb(w)
  PROVE  IndInv'
<1> USE DEF file, trees, data
<1>1. PICK b \in {"install", "again"} :
        /\ Goes(w, "copyDb", b)
        /\ b = "again" => UNCHANGED dbBackup
        /\ b = "install" => dbBackup' = db
  BY DEF CopyDb
<1>2. /\ "copyDb" \in Places \ {"idle"} /\ b \in Places /\ Leads("copyDb", b) /\ "copyDb" \in Early
  BY DEF Places, Leads, Solitary, Early, Spent
<1>3. /\ PlaceMeans(w) /\ pc[w] = "copyDb" /\ pc'[w] = b /\ TypeOK /\ DiskAgrees
      /\ Untouched \/ Touched
  BY <1>1, <1>2, Moved DEF IndInv, TypeOK
<1>4. recorded /\ db = "old" /\ backup = "old" /\ phase = "BACKING_UP" /\ dbBackup' \in {"none", "old"}
  BY <1>1, <1>2, <1>3 DEF PlaceMeans, Touched, Untouched, TypeOK
<1>5. /\ UNCHANGED <<phase, recorded, stale, tree, aside, backup, db, dbAside, desktop,
                     migrates, crashes>>
      /\ failures' \in Nat
  BY <1>3 DEF CopyDb, Fails, TypeOK
<1>6. DiskAgrees' BY <1>3, <1>5 DEF DiskAgrees
<1>7. PlaceMeans(w)' BY <1>1, <1>3, <1>4, <1>5 DEF PlaceMeans, Served, Saved
<1>8. "copyDb" \notin Undoing BY DEF Undoing
<1> QED
  BY <1>1, <1>2, <1>3, <1>4, <1>5, <1>6, <1>7, <1>8, Replaces DEF TypeOK

LEMMA RunInstallerKeeps ==
  ASSUME IndInv, ~Overtaken, NEW w \in Workers, RunInstaller(w)
  PROVE  IndInv'
<1> USE DEF file, trees, data
<1>1. PICK a \in {"run", "installing"}, b \in {"installing", "start", "undo"} :
        /\ Goes(w, a, b)
        /\ b = "undo" => UNCHANGED tree
        /\ b = "installing" => a = "run" /\ tree' = "mixed"
        /\ b = "start" => a = "installing" /\ tree' = "new"
  BY DEF RunInstaller
<1>2. /\ a \in Places \ {"idle"} /\ b \in Places /\ Leads(a, b)
      /\ a \in Late /\ a \notin Early \union Undoing
  BY DEF Places, Leads, Solitary, Early, Late, Undoing, Spent
<1>3. /\ PlaceMeans(w) /\ pc[w] = a /\ pc'[w] = b /\ TypeOK /\ DiskAgrees
  BY <1>1, <1>2, Moved DEF IndInv, TypeOK
<1>4. /\ phase = "INSTALLING" /\ db = "old" /\ desktop.image \in {"none", "old"}
      /\ tree \in {"old", "mixed"} /\ tree' \in {tree, "mixed", "new"}
      /\ tree' = "new" => tree = "mixed"
  BY <1>1, <1>2, <1>3 DEF PlaceMeans
<1>5. /\ UNCHANGED <<phase, recorded, stale, aside, backup, db, dbAside, dbBackup, desktop,
                     migrates, crashes>>
      /\ failures' \in Nat
  BY <1>3 DEF RunInstaller, Fails, TypeOK
<1>6. DiskAgrees' BY <1>3, <1>4, <1>5 DEF DiskAgrees
<1>7. PlaceMeans(w)' BY <1>1, <1>3, <1>4, <1>5 DEF PlaceMeans, Served, Replacing
<1>8. tree' \in Contents BY <1>4 DEF Contents, Releases
<1> QED
  BY <1>1, <1>2, <1>3, <1>5, <1>6, <1>7, <1>8, Replaces DEF TypeOK

LEMMA SwapOutKeeps ==
  ASSUME IndInv, ~Overtaken, NEW w \in Workers, SwapOut(w)
  PROVE  IndInv'
<1> USE DEF file, trees, data
<1>1. PICK b \in {"swapIn", "giveUp"} :
        /\ Goes(w, "swapOut", b)
        /\ b = "swapIn" => desktop = NoDesktop /\ aside' = tree /\ tree' = "none"
        /\ b = "giveUp" => UNCHANGED <<tree, aside>>
  BY DEF SwapOut, InUse
<1>2. /\ "swapOut" \in Places \ {"idle"} /\ b \in Places /\ Leads("swapOut", b)
      /\ "swapOut" \in Undoing \ {"undo"} /\ "swapOut" \notin Early
  BY DEF Places, Leads, Undoing, Early, Spent
<1>3. /\ PlaceMeans(w) /\ pc[w] = "swapOut" /\ pc'[w] = b /\ TypeOK /\ DiskAgrees
  BY <1>1, <1>2, Moved DEF IndInv, TypeOK
<1>4. phase \in {"ROLLING_BACK"} \union Reported /\ tree # "none"
  BY <1>3 DEF PlaceMeans
<1>5. /\ UNCHANGED <<phase, recorded, stale, backup, db, dbAside, dbBackup, desktop,
                     migrates, crashes>>
      /\ failures' \in Nat
  BY <1>3 DEF SwapOut, Fails, TypeOK
<1>6. DiskAgrees' BY <1>1, <1>3, <1>4, <1>5 DEF DiskAgrees, NoDesktop
<1>7. PlaceMeans(w)' BY <1>1, <1>3, <1>4, <1>5 DEF PlaceMeans, Served
<1>8. AsBefore => AsBefore' BY <1>1, <1>4, <1>5 DEF AsBefore
<1>9. tree' \in Contents /\ aside' \in Contents BY <1>1, <1>3 DEF TypeOK, Contents
<1> QED
  BY <1>1, <1>2, <1>3, <1>5, <1>6, <1>7, <1>8, <1>9, Replaces DEF TypeOK

LEMMA SwapInKeeps ==
  ASSUME IndInv, ~Overtaken, NEW w \in Workers, SwapIn(w)
  PROVE  IndInv'
<1> USE DEF file, trees, data
<1>1. PICK b \in {"dbOut", "relaunch", "giveUp"} :
        /\ Goes(w, "swapIn", b) /\ aside' = "none"
        /\ b = "giveUp" => tree' = aside
        /\ b # "giveUp" => tree' = backup /\ (b = "dbOut" <=> migrates)
  BY DEF SwapIn
<1>2. /\ "swapIn" \in Places \ {"idle"} /\ b \in Places /\ Leads("swapIn", b)
      /\ "swapIn" \in Undoing \ {"undo"} /\ "swapIn" \notin Early
  BY DEF Places, Leads, Undoing, Early, Spent
<1>3. /\ PlaceMeans(w) /\ pc[w] = "swapIn" /\ pc'[w] = b /\ TypeOK /\ DiskAgrees
      /\ Untouched \/ Touched
  BY <1>1, <1>2, Moved DEF IndInv, TypeOK
<1>4. /\ phase \in {"ROLLING_BACK"} \union Reported /\ tree = "none"
      /\ backup = "old" /\ desktop = NoDesktop
  BY <1>3 DEF PlaceMeans, Touched, Untouched, Saved, DiskAgrees
<1>5. /\ UNCHANGED <<phase, recorded, stale, backup, db, dbAside, dbBackup, desktop,
                     migrates, crashes>>
      /\ failures' \in Nat
  BY <1>3 DEF SwapIn, Fails, TypeOK
<1>6. DiskAgrees' BY <1>1, <1>3, <1>4, <1>5 DEF DiskAgrees, NoDesktop
<1>7. AsBefore => AsBefore' BY <1>1, <1>4, <1>5 DEF AsBefore
<1>8. b = "relaunch" => AsBefore'
  BY <1>1, <1>3, <1>4, <1>5 DEF AsBefore, DiskAgrees, NoDesktop
<1>9. PlaceMeans(w)' BY <1>1, <1>3, <1>4, <1>5, <1>8 DEF PlaceMeans, Served
<1>10. tree' \in Contents /\ aside' \in Contents BY <1>1, <1>3, <1>4 DEF TypeOK, Contents, Releases
<1> QED
  BY <1>1, <1>2, <1>3, <1>5, <1>6, <1>7, <1>9, <1>10, Replaces DEF TypeOK

LEMMA DbOutKeeps ==
  ASSUME IndInv, ~Overtaken, NEW w \in Workers, DbOut(w)
  PROVE  IndInv'
<1> USE DEF file, trees, data
<1>1. PICK b \in {"dbIn", "giveUp"} :
        /\ Goes(w, "dbOut", b)
        /\ b = "dbIn" => dbAside' = db /\ db' = "none"
        /\ b = "giveUp" => UNCHANGED <<db, dbAside>>
  BY DEF DbOut
<1>2. /\ "dbOut" \in Places \ {"idle"} /\ b \in Places /\ Leads("dbOut", b)
      /\ "dbOut" \in Undoing \ {"undo"} /\ "dbOut" \notin Early
  BY DEF Places, Leads, Undoing, Early, Spent
<1>3. /\ PlaceMeans(w) /\ pc[w] = "dbOut" /\ pc'[w] = b /\ TypeOK /\ DiskAgrees
  BY <1>1, <1>2, Moved DEF IndInv, TypeOK
<1>4. phase \in {"ROLLING_BACK"} \union Reported /\ tree = "old" /\ migrates
  BY <1>3 DEF PlaceMeans
<1>5. /\ UNCHANGED <<phase, recorded, stale, tree, aside, backup, dbBackup, desktop,
                     migrates, crashes>>
      /\ failures' \in Nat
  BY <1>3 DEF DbOut, Fails, TypeOK
<1>6. DiskAgrees' BY <1>1, <1>3, <1>4, <1>5 DEF DiskAgrees
<1>7. PlaceMeans(w)' BY <1>1, <1>3, <1>4, <1>5 DEF PlaceMeans, Served
<1>8. AsBefore => AsBefore' BY <1>1, <1>5 DEF AsBefore
<1>9. db' \in Schemas /\ dbAside' \in Schemas BY <1>1, <1>3 DEF TypeOK, Schemas
<1> QED
  BY <1>1, <1>2, <1>3, <1>5, <1>6, <1>7, <1>8, <1>9, Replaces DEF TypeOK

LEMMA DbInKeeps ==
  ASSUME IndInv, ~Overtaken, NEW w \in Workers, DbIn(w)
  PROVE  IndInv'
<1> USE DEF file, trees, data
<1>1. PICK b \in {"relaunch", "giveUp"} :
        /\ Goes(w, "dbIn", b) /\ dbAside' = "none"
        /\ b = "relaunch" => db' = dbBackup
        /\ b = "giveUp" => db' = IF dbAside = "none" THEN db ELSE dbAside
  BY DEF DbIn
<1>2. /\ "dbIn" \in Places \ {"idle"} /\ b \in Places /\ Leads("dbIn", b)
      /\ "dbIn" \in Undoing \ {"undo"} /\ "dbIn" \notin Early
  BY DEF Places, Leads, Undoing, Early, Spent
<1>3. /\ PlaceMeans(w) /\ pc[w] = "dbIn" /\ pc'[w] = b /\ TypeOK /\ DiskAgrees
      /\ Untouched \/ Touched
  BY <1>1, <1>2, Moved DEF IndInv, TypeOK
<1>4. /\ phase \in {"ROLLING_BACK"} \union Reported /\ tree = "old" /\ migrates
      /\ dbBackup = "old" /\ desktop.image # "new"
  BY <1>3 DEF PlaceMeans, Touched, Untouched, Saved, DiskAgrees, Early, Spent
<1>5. /\ UNCHANGED <<phase, recorded, stale, tree, aside, backup, dbBackup, desktop,
                     migrates, crashes>>
      /\ failures' \in Nat
  BY <1>3 DEF DbIn, Fails, TypeOK
<1>6. DiskAgrees' BY <1>1, <1>3, <1>4, <1>5 DEF DiskAgrees
<1>7. AsBefore => AsBefore' BY <1>1, <1>4, <1>5 DEF AsBefore
<1>8. b = "relaunch" => AsBefore' BY <1>1, <1>4, <1>5 DEF AsBefore
<1>9. PlaceMeans(w)' BY <1>1, <1>3, <1>4, <1>5, <1>8 DEF PlaceMeans, Served
<1>10. db' \in Schemas /\ dbAside' \in Schemas BY <1>1, <1>3, <1>4 DEF TypeOK, Schemas
<1> QED
  BY <1>1, <1>2, <1>3, <1>5, <1>6, <1>7, <1>9, <1>10, Replaces DEF TypeOK

LEMMA WorkerKeeps ==
  ASSUME IndInv, ~Overtaken, NEW w \in Workers, WorkerStep(w)
  PROVE  IndInv'
BY PersistKeeps, CheckKeeps, StopKeeps, CopyKeeps, CopyDbKeeps, AgainKeeps, RunInstallerKeeps,
   LaunchKeeps, ProbeKeeps, KillKeeps, SwapOutKeeps, SwapInKeeps, DbOutKeeps, DbInKeeps,
   RecoverKeeps
   DEF WorkerStep

-----------------------------------------------------------------------------
(* The API, Desktop and its user, and a crash. *)

(* Nobody else is at work when an update or a rollback begins. *)
LEMMA BeginningKeeps ==
  ASSUME IndInv, ~Overtaken, Handoff \/ Rollback
  PROVE  IndInv'
<1> USE DEF file, trees, data
<1>1. PICK b \in {"receive", "halt"} :
        /\ Goes(Apply, "idle", b)
        /\ phase = IF b = "receive" THEN "NONE" ELSE "COMPLETED"
  BY DEF Handoff, Rollback
<1>2. Apply \in Workers /\ Apply \notin Recoverers /\ b \in Places
  BY ApplyIsNoRecoverer DEF Workers, Places
<1>3. /\ TypeOK /\ DiskAgrees /\ PhaseMeans /\ Apart /\ (Untouched \/ Touched)
      /\ \A v \in Workers : PlaceMeans(v)
  BY DEF IndInv
<1>4. /\ pc[Apply] = "idle" /\ pc'[Apply] = b /\ pc' \in [Workers -> Places]
      /\ \A v \in Workers \ {Apply} : pc'[v] = pc[v]
  BY <1>1, <1>2, <1>3, Moved DEF TypeOK
<1>5. \A v \in Workers \ {Apply} : pc'[v] = "idle"
  BY <1>1, <1>3, <1>4 DEF PhaseMeans, Workers
<1>6. /\ Restarts /\ UNCHANGED <<phase, recorded, stale, migrates, failures, crashes>>
  BY DEF Handoff, Rollback, Restarts
<1>7. TypeOK' BY <1>3, <1>4, <1>6, DesktopMoves DEF TypeOK, Restarts
<1>8. PhaseMeans' BY <1>2, <1>3, <1>5, <1>6, StillMeans DEF PhaseMeans, Workers
<1>9. \A v \in Workers : PlaceMeans(v)'
  <2>1. PlaceMeans(Apply)' BY <1>1, <1>4, <1>6 DEF PlaceMeans, Served
  <2>2. \A v \in Workers \ {Apply} : PlaceMeans(v)' BY <1>5 DEF PlaceMeans, Served
  <2> QED BY <2>1, <2>2
<1>10. Untouched' \/ Touched'
  <2>1. CASE b = "receive"
    <3>1. Untouched BY <1>1, <1>3, <2>1 DEF Touched, Replacing, Reported
    <3> QED BY <1>3, <1>4, <1>5, <1>6, <2>1, <3>1, DesktopMoves DEF Untouched, Restarts
  <2>2. CASE b = "halt"
    <3>1. Touched BY <1>1, <1>3, <2>2 DEF Untouched, BeforeInstall, Reported
    <3> QED BY <1>4, <1>5, <1>6, <2>2, <3>1 DEF Touched, Restarts, Saved, Early
  <2> QED BY <2>1, <2>2
<1>11. Apart' BY <1>4, <1>5 DEF Apart, Solitary, Early, Late, Undoing
<1> QED BY <1>3, <1>6, <1>7, <1>8, <1>9, <1>10, <1>11, DesktopMoves DEF IndInv

(* A recovery joins workers that are done, or it is the end. *)
LEMMA HandOverKeeps ==
  ASSUME IndInv, ~Overtaken, HandOver
  PROVE  IndInv'
<1> USE DEF file, trees, data
<1>1. PICK w \in Recoverers : Goes(w, "idle", "recover") BY DEF HandOver
<1>2. w \in Workers /\ "recover" \in Places BY DEF Workers, Places
<1>3. /\ TypeOK /\ DiskAgrees /\ PhaseMeans /\ Apart /\ (Untouched \/ Touched)
      /\ \A v \in Workers : PlaceMeans(v)
  BY DEF IndInv
<1>4. /\ pc[w] = "idle" /\ pc'[w] = "recover" /\ pc' \in [Workers -> Places]
      /\ \A v \in Workers \ {w} : pc'[v] = pc[v]
  BY <1>1, <1>2, <1>3, Moved DEF TypeOK
<1>5. /\ Restarts /\ UNCHANGED <<stale, failures, crashes>>
      /\ phase \in Unfinished /\ tree # "none" /\ phase' = phase /\ tree' = tree
  BY <1>3 DEF HandOver, RecoveryIsStale, Restarts, DiskAgrees, NoDesktop
<1>6. TypeOK' BY <1>3, <1>4, <1>5, DesktopMoves DEF TypeOK, Restarts
<1>7. PhaseMeans'
  <2>1. phase \notin {"NONE", "COMPLETED"}
    BY <1>5 DEF Unfinished, BeforeInstall, Replacing
  <2> QED BY <1>3, <1>5, <2>1, StillMeans DEF PhaseMeans
<1>8. \A v \in Workers : PlaceMeans(v)'
  <2>1. PlaceMeans(w)' BY <1>4, <1>5 DEF PlaceMeans, Served
  <2>2. \A v \in Workers \ {w} : PlaceMeans(v)' BY <1>3, <1>4, <1>5, StillMeans
  <2> QED BY <2>1, <2>2
<1>9. Untouched' \/ Touched'
  <2>1. CASE Untouched
    BY <1>3, <1>4, <1>5, <2>1, DesktopMoves DEF Untouched, Restarts
  <2>2. CASE Touched
    BY <1>4, <1>5, <2>2 DEF Touched, Restarts, Saved, Early
  <2> QED BY <1>3, <2>1, <2>2
<1>10. Overtaken' \/ Apart'
  <2>1. CASE \A v \in Workers \ {w} : Harmless(v)
    <3>1. \A v \in Workers \ {w} :
            pc'[v] \in {"idle"} \union Spent \/ (pc'[v] = "recover" /\ phase' \notin Replacing)
      BY <1>4, <1>5, <2>1 DEF Harmless
    <3> QED BY <1>4, <3>1 DEF Apart, Solitary, Early, Late, Undoing, Spent
  <2>2. CASE \E v \in Workers \ {w} : ~Harmless(v)
    <3>1. PICK v \in Workers \ {w} : ~Harmless(v) BY <2>2
    <3>2. Harmless(v)' <=> Harmless(v) BY <1>4, <1>5 DEF Harmless
    <3> QED BY <1>2, <1>4, <1>5, <3>1, <3>2 DEF Overtaken
  <2> QED BY <2>1, <2>2
<1> QED BY <1>3, <1>5, <1>6, <1>7, <1>8, <1>9, <1>10, DesktopMoves DEF IndInv

(* A server that opens its database migrates or creates nothing that has   *)
(* no backup, and opens no migrated one under the old release.             *)
LEMMA ServerStartsKeeps ==
  ASSUME IndInv, ServerStarts
  PROVE  IndInv'
<1> USE DEF file, trees
<1>1. /\ TypeOK /\ DiskAgrees /\ PhaseMeans /\ (Untouched \/ Touched)
      /\ \A v \in Workers : PlaceMeans(v)
  BY DEF IndInv
<1>2. /\ desktop \in [at : {"booting", "starting", "up"}, runs : Contents \ {"none"},
                      by : {"first", "user"} \union Workers, image : Schemas]
      /\ desktop.image = "none" /\ tree # "none" /\ aside = "none"
  BY <1>1 DEF ServerStarts, TypeOK, NoDesktop, DiskAgrees
<1>3. /\ desktop' \in [at : {"up"}, runs : Contents \ {"none"},
                       by : {"first", "user"} \union Workers, image : Schemas]
      /\ desktop'.at = "up" /\ desktop'.runs = desktop.runs /\ desktop'.image = Opened
      /\ db' = Opened /\ Opened \in {"empty", "old", "new"} /\ CanServe
  BY <1>1, <1>2 DEF ServerStarts, Opened, TypeOK, Schemas
<1>4. UNCHANGED <<phase, recorded, stale, tree, aside, backup, dbAside, dbBackup, pc,
                  migrates, failures, crashes>>
  BY DEF ServerStarts
<1>5. TypeOK'
  <2>1. desktop' \in {NoDesktop} \union
          [at : {"booting", "starting", "up"}, runs : Contents \ {"none"},
           by : {"first", "user"} \union Workers, image : Schemas]
    BY <1>3
  <2>2. db' \in Schemas BY <1>3 DEF Schemas
  <2> QED BY <1>1, <1>4, <2>1, <2>2 DEF TypeOK
<1>6. /\ Opened = "empty" => db \in {"none", "empty"}
      /\ Opened = "old" => db = "old" /\ ~(desktop.runs = "new" /\ migrates)
      /\ Opened = "new" => db = "new" \/ (db = "old" /\ desktop.runs = "new" /\ migrates)
      /\ db = "old" /\ desktop.runs # "new" => Opened = "old"
      /\ db = "new" => Opened = "new"
      /\ db = "old" /\ ~migrates => Opened = "old"
  BY DEF Opened
<1>7. /\ desktop.runs = "new" => db \notin {"none", "empty"} /\ tree = "new"
      /\ Opened = "new" => desktop.runs = "new"
      /\ tree = "old" => desktop.runs = "old"
      /\ desktop.runs # "none"
  BY <1>1, <1>2, <1>3, <1>6 DEF DiskAgrees, CanServe
<1>8. DiskAgrees' BY <1>1, <1>2, <1>3, <1>4, <1>6, <1>7 DEF DiskAgrees, TypeOK, Schemas
<1>9. AsBefore => AsBefore' BY <1>2, <1>3, <1>4, <1>6, <1>7 DEF AsBefore
<1>10. IsNew => IsNew' BY <1>2, <1>3, <1>4, <1>6, <1>7 DEF IsNew
<1>11. PhaseMeans' BY <1>1, <1>4, <1>9, <1>10 DEF PhaseMeans
<1>12. ASSUME NEW v \in Workers PROVE PlaceMeans(v)'
  <2>1. PlaceMeans(v) BY <1>1
  <2>2. pc[v] \in {"run", "installing"} => tree # "new" /\ desktop.runs # "new"
    BY <1>7, <2>1 DEF PlaceMeans
  <2>3. pc[v] \in {"run", "installing"} => db' = "old" /\ desktop'.image = "old"
    BY <1>3, <1>6, <2>1, <2>2 DEF PlaceMeans
  <2>4. Saved' = Saved BY <1>4, Zenon DEF Saved
  <2> QED BY <1>4, <1>9, <1>10, <2>1, <2>3, <2>4 DEF PlaceMeans
<1>13. Untouched' \/ Touched'
  <2>1. CASE Untouched BY <1>3, <1>4, <1>6, <1>7, <2>1 DEF Untouched
  <2>2. CASE Touched BY <1>4, <2>2 DEF Touched, Saved
  <2> QED BY <1>1, <2>1, <2>2
<1>14. Overtaken' \/ Apart' BY <1>4 DEF IndInv, Overtaken, Harmless, Apart
<1> QED BY <1>5, <1>8, <1>11, <1>12, <1>13, <1>14 DEF IndInv

(* A server that saves writes what some database it opened was. *)
LEMMA ServerSavesKeeps ==
  ASSUME IndInv, ServerSaves
  PROVE  IndInv'
<1> USE DEF file, trees
<1>1. /\ TypeOK /\ DiskAgrees /\ PhaseMeans /\ (Untouched \/ Touched)
      /\ \A v \in Workers : PlaceMeans(v)
  BY DEF IndInv
<1>2. /\ db' = desktop.image /\ db' # "none" /\ desktop.at = "up" /\ db' # db
      /\ UNCHANGED <<phase, recorded, stale, tree, aside, backup, dbAside, dbBackup, desktop, pc,
                     migrates, failures, crashes>>
  BY <1>1 DEF ServerSaves, DiskAgrees
<1>3. db' \in Schemas BY <1>1, <1>2 DEF TypeOK, NoDesktop
<1>4. TypeOK' BY <1>1, <1>2, <1>3 DEF TypeOK
<1>5. DiskAgrees' BY <1>1, <1>2 DEF DiskAgrees
<1>6. AsBefore => AsBefore' BY <1>2 DEF AsBefore
<1>7. IsNew => IsNew' BY <1>2 DEF IsNew
<1>8. PhaseMeans' BY <1>1, <1>2, <1>6, <1>7 DEF PhaseMeans
<1>9. ASSUME NEW v \in Workers PROVE PlaceMeans(v)'
  <2>1. PlaceMeans(v) BY <1>1
  <2>2. pc[v] \notin {"run", "installing"} BY <1>2, <2>1 DEF PlaceMeans
  <2>3. Saved' = Saved BY <1>2, Zenon DEF Saved
  <2> QED BY <1>2, <1>6, <1>7, <2>1, <2>2, <2>3 DEF PlaceMeans
<1>10. Untouched' \/ Touched'
  <2>1. CASE Untouched BY <1>2, <2>1 DEF Untouched
  <2>2. CASE Touched BY <1>2, <2>2 DEF Touched, Saved
  <2> QED BY <1>1, <2>1, <2>2
<1>11. Overtaken' \/ Apart' BY <1>2 DEF IndInv, Overtaken, Harmless, Apart
<1> QED BY <1>4, <1>5, <1>8, <1>9, <1>10, <1>11 DEF IndInv

-----------------------------------------------------------------------------
LEMMA InitHolds == ASSUME Init PROVE IndInv
<1>1. TypeOK
  BY DEF Init, TypeOK, NoDesktop, Contents, Releases, Schemas, Places, Unfinished, Finished
<1>2. PhaseMeans BY DEF Init, PhaseMeans, Workers
<1>3. DiskAgrees BY DEF Init, DiskAgrees, NoDesktop
<1>4. Untouched BY DEF Init, Untouched
<1>5. \A w \in Workers : PlaceMeans(w) BY DEF Init, PlaceMeans, Served
<1>6. Apart BY DEF Init, Apart, Solitary, Early, Late, Undoing
<1> QED BY <1>1, <1>2, <1>3, <1>4, <1>5, <1>6 DEF IndInv

LEMMA NextKeeps == ASSUME IndInv, [Next]_vars PROVE IndInv'
<1>0. TypeOK /\ DiskAgrees BY DEF IndInv
<1>1. CASE Next /\ \E w \in Workers : WorkerStep(w) BY <1>1, WorkerKeeps DEF Next
<1>2. CASE Next /\ (Handoff \/ Rollback) BY <1>2, BeginningKeeps DEF Next
<1>3. CASE Next /\ HandOver BY <1>3, HandOverKeeps DEF Next
<1>4. CASE ServerStarts \/ ServerSaves BY <1>4, ServerStartsKeeps, ServerSavesKeeps
<1>5. CASE Next /\ (Boot \/ DesktopDies \/ UserStarts \/ UserQuits \/ TimePasses)
  <2> DEFINE Quiet == /\ Restarts /\ pc' = pc /\ stale' \in BOOLEAN
                      /\ failures' \in Nat /\ crashes' \in Nat
  <2> USE DEF file
  <2>1. ASSUME Boot PROVE Quiet
    BY <1>0, <2>1 DEF Boot, Restarts, Fails, TypeOK
  <2>2. ASSUME DesktopDies PROVE Quiet
    BY <1>0, <2>2 DEF DesktopDies, Restarts, Fails, TypeOK
  <2>3. ASSUME UserStarts PROVE Quiet
    BY <1>0, <2>3 DEF UserStarts, Restarts, TypeOK
  <2>4. ASSUME UserQuits PROVE Quiet
    BY <1>0, <2>4 DEF UserQuits, Restarts, TypeOK
  <2>5. ASSUME TimePasses PROVE Quiet
    BY <1>0, <2>5 DEF TimePasses, Restarts, TypeOK
  <2>6. ~Overtaken /\ Quiet BY <1>5, <2>1, <2>2, <2>3, <2>4, <2>5 DEF Next
  <2> QED BY <1>0, <2>6, WorldKeeps DEF TypeOK
<1>6. CASE Next /\ Crash
  <2>1. /\ ~Overtaken /\ Restarts /\ stale' \in BOOLEAN
        /\ failures' \in Nat /\ crashes' \in Nat
    BY <1>0, <1>6 DEF Next, Crash, Restarts, TypeOK, file
  <2>2. pc' \in [Workers -> Places] /\ \A w \in Workers : pc'[w] = "idle"
    BY <1>6 DEF Crash, Places
  <2> QED BY <2>1, <2>2, WorldKeeps
<1>7. CASE UNCHANGED vars
  <2> USE <1>7 DEF vars, file, trees, data
  <2>1. TypeOK' BY <1>0 DEF TypeOK
  <2>2. DiskAgrees' BY <1>0 DEF DiskAgrees
  <2>3. Restarts BY DEF Restarts
  <2>4. PhaseMeans' /\ \A w \in Workers : PlaceMeans(w)'
    BY <1>0, <2>3, StillMeans DEF IndInv, PhaseMeans
  <2>5. Untouched' \/ Touched' BY DEF IndInv, Untouched, Touched, Saved
  <2>6. Overtaken' \/ Apart' BY DEF IndInv, Overtaken, Harmless, Apart
  <2> QED BY <2>1, <2>2, <2>4, <2>5, <2>6 DEF IndInv
<1> QED BY <1>1, <1>2, <1>3, <1>4, <1>5, <1>6, <1>7 DEF Next, DesktopStep, UserStep

(***************************************************************************)
(* The inductive invariant.  Until a recovery overtakes a worker that is   *)
(* not done, whoever changes the disk is alone or undoes the update next   *)
(* to workers that only report; and every phase and every step a worker is *)
(* about to take says what it says of the disk, recoveries that a slow     *)
(* restore let in and servers that save what they hold included.           *)
(***************************************************************************)
THEOREM Invariance == Spec => []IndInv
BY InitHolds, NextKeeps, PTL DEF Spec

(* Every variable keeps its type. *)
THEOREM UpdaterTypes == Spec => []TypeOK
<1>1. IndInv => TypeOK BY DEF IndInv
<1> QED BY <1>1, Invariance, PTL

(* However often calls fail and updaters stop, an install root that holds  *)
(* no whole release has a backup in the state file's reach.                *)
THEOREM TreeStaysRestorable == Spec => []TreeIsRestorable
<1>1. IndInv => TreeIsRestorable
  BY DEF IndInv, TypeOK, PhaseMeans, IsNew, Untouched, Touched, Saved, Reported,
     TreeIsRestorable, Releases
<1> QED BY <1>1, Invariance, PTL

(* The database of the old release is never lost. *)
THEOREM DatabaseStaysRestorable == Spec => []DatabaseIsRestorable
<1>1. IndInv => DatabaseIsRestorable
  BY DEF IndInv, DiskAgrees, Untouched, Touched, Saved, DatabaseIsRestorable
<1> QED BY <1>1, Invariance, PTL

(* The outcome in the state file is the one on the disk, as far as a       *)
(* second recovery and a server that saves allow: after ROLLED_BACK the    *)
(* tree is the old one or aside, the data are not those of the new         *)
(* release, and where they are not the old ones their backup is named.     *)
THEOREM OutcomesAreTrue == Spec => []OutcomeIsTrue
<1>1. IndInv => OutcomeIsTrue
  BY DEF IndInv, PhaseMeans, DiskAgrees, IsNew, AsBefore, Untouched, Touched, Saved, Reported,
     BeforeInstall, Replacing, OutcomeIsTrue
<1> QED BY <1>1, Invariance, PTL

-----------------------------------------------------------------------------
(* Updater implements UpdateTransaction. *)

(* A phase that is written follows the one before, and is earned. *)
LEMMA WritingIsAMove ==
  ASSUME IndInv, NEW w \in Workers,
         NEW a, NEW p, NEW b, NEW c, <<a, p, b, c>> \in Writings, Transition(w, a, p, b, c)
  PROVE  [Transaction!Next]_(Transaction!vars)
<1> USE DEF file, trees, data
<1>0. /\ PlaceMeans(w) /\ DiskAgrees /\ TypeOK /\ pc[w] = a
      /\ Untouched \/ Touched
  BY DEF IndInv, Transition, Goes
<1>1. CASE UNCHANGED file
  BY <1>1 DEF Transition, Transaction!vars, Transaction!disk
<1>2. CASE phase' = p /\ recorded' = Records(p)
  <2>1. UNCHANGED <<tree, db, backup, dbBackup, migrates>> BY DEF Transition
  <2>2. Saved' <=> Saved
    <3>1. CASE p = "BACKING_UP"
      <4>1. a = "back" BY <3>1 DEF Writings
      <4>2. Saved => recorded BY DEF Saved
      <4>3. backup = "old" => recorded BY <1>0 DEF DiskAgrees
      <4> QED BY <1>0, <1>2, <2>1, <3>1, <4>3 DEF Saved, Records
    <3>2. CASE p # "BACKING_UP" BY <1>0, <1>2, <2>1, <3>2 DEF Saved, Records
    <3> QED BY <3>1, <3>2
  <2>3. UNCHANGED Transaction!disk
    BY <2>1, <2>2, Zenon DEF Transaction!disk, Saved
  <2>4. a \in {"start", "undo", "complete"} => Touched
    BY <1>0 DEF Untouched, Early, Spent
  <2>5. AsBefore => tree \in {"old", "none"} /\ (db = "old" \/ (migrates /\ Saved /\ db # "new"))
    BY <1>0 DEF AsBefore, Untouched, Touched, DiskAgrees
  <2>6. \/ p = "RECEIVED" /\ phase = "NONE"
        \/ p = "VERIFYING" /\ phase = "RECEIVED"
        \/ p = "FAILED" /\ phase = "VERIFYING"
        \/ p = "WAITING_FOR_SHUTDOWN" /\ phase = "VERIFYING"
        \/ p = "BACKING_UP" /\ phase = "WAITING_FOR_SHUTDOWN"
        \/ p = "INSTALLING" /\ phase = "BACKING_UP" /\ Saved
        \/ p = "STARTING" /\ phase = "INSTALLING" /\ tree = "new"
        \/ p = "HEALTH_CHECK" /\ phase = "STARTING" /\ tree = "new"
        \/ p = "COMPLETED" /\ phase = "HEALTH_CHECK" /\ tree = "new" /\ (migrates => db = "new")
        \/ p = "ROLLING_BACK" /\ phase \in Replacing \union {"COMPLETED"} \union Reported /\ Saved
        \/ /\ p = "ROLLED_BACK" /\ phase \in BeforeInstall \union {"ROLLING_BACK"} \union Reported
           /\ tree \in {"old", "none"} /\ (db = "old" \/ (migrates /\ Saved /\ db # "new"))
        \/ /\ p = "ROLLBACK_FAILED"
           /\ phase \in BeforeInstall \union {"ROLLING_BACK", "COMPLETED"} \union Reported
    BY <1>0, <2>4, <2>5 DEF Writings, PlaceMeans, IsNew, Served, Touched
  <2> QED
    BY <1>2, <2>3, <2>6
    DEF Transaction!Next, Transaction!Prepare, Transaction!Reject, Transaction!Install,
        Transaction!Confirm, Transaction!Undo, Transaction!Undone, Transaction!GiveUp,
        Transaction!Goes, Transaction!Begun, Transaction!Replacing, Transaction!Restored,
        BeforeInstall, Replacing, Reported, Saved
<1> QED BY <1>1, <1>2 DEF Transition

LEMMA PersistIsAMove ==
  ASSUME IndInv, NEW w \in Workers, Persist(w)
  PROVE  [Transaction!Next]_(Transaction!vars)
<1> USE WritingIsAMove DEF Writings
<1>1. CASE Transition(w, "receive", "RECEIVED", "verify", "idle") BY <1>1
<1>2. CASE Transition(w, "verify", "VERIFYING", "check", "idle") BY <1>2
<1>3. CASE Transition(w, "fail", "FAILED", "idle", "idle") BY <1>3
<1>4. CASE Transition(w, "wait", "WAITING_FOR_SHUTDOWN", "stop", "idle") BY <1>4
<1>5. CASE Transition(w, "back", "BACKING_UP", "copy", "idle") BY <1>5
<1>6. CASE Transition(w, "install", "INSTALLING", "run", "idle") BY <1>6
<1>7. CASE Transition(w, "start", "STARTING", "launch", "undo") BY <1>7
<1>8. CASE Transition(w, "health", "HEALTH_CHECK", "probe", "kill") BY <1>8
<1>9. CASE Transition(w, "complete", "COMPLETED", "idle", "idle") BY <1>9
<1>10. CASE Transition(w, "undo", "ROLLING_BACK", "swapOut", "idle") BY <1>10
<1>11. CASE Transition(w, "finish", "ROLLED_BACK", "idle", "idle") BY <1>11
<1>12. CASE Transition(w, "giveUp", "ROLLBACK_FAILED", "idle", "idle") BY <1>12
<1> QED BY <1>1, <1>2, <1>3, <1>4, <1>5, <1>6, <1>7, <1>8, <1>9, <1>10, <1>11, <1>12 DEF Persist

(* The last of the backups makes them whole. *)
LEMMA BackupIsAMove ==
  ASSUME IndInv, NEW w \in Workers, Copy(w) \/ CopyDb(w)
  PROVE  [Transaction!Next]_(Transaction!vars)
<1> USE DEF file, trees, data
<1>1. UNCHANGED <<phase, recorded, tree, db, migrates>>
  BY DEF Copy, CopyDb
<1>2. pc[w] \in {"copy", "copyDb"} BY DEF Copy, CopyDb, Goes
<1>3. phase = "BACKING_UP" /\ recorded /\ tree = "old" /\ db = "old"
  BY <1>2 DEF IndInv, PlaceMeans, Untouched, Touched, Early
<1>4. Saved => Saved'
  BY <1>1, <1>3 DEF Copy, CopyDb, Saved
<1>5. CASE Saved' /\ ~Saved
  <2>1. Transaction!Save
    BY <1>1, <1>3, <1>5 DEF Transaction!Save, Saved
  <2> QED BY <2>1 DEF Transaction!Next
<1>6. CASE Saved' <=> Saved
  BY <1>1, <1>6, Zenon DEF Transaction!vars, Transaction!disk, Saved
<1> QED BY <1>4, <1>5, <1>6

(* Whatever else changes the tree or the data does so under the cover of   *)
(* the backups and of the phase.                                           *)
LEMMA ReplacementIsAMove ==
  ASSUME IndInv, IndInv', UNCHANGED <<phase, recorded, backup, dbBackup, migrates>>,
         tree' = tree \/ db' = db
  PROVE  [Transaction!Next]_(Transaction!vars)
<1>1. Saved' <=> Saved BY DEF Saved
<1>2. /\ TypeOK' /\ PhaseMeans /\ PhaseMeans' /\ DiskAgrees /\ DiskAgrees'
      /\ (Untouched \/ Touched) /\ (Untouched' \/ Touched')
  BY DEF IndInv
<1>3. CASE tree' = tree /\ db' = db
  BY <1>1, <1>3, Zenon DEF Transaction!vars, Transaction!disk, Saved
<1>4. CASE tree' # tree \/ db' # db
  <2>1. Saved /\ phase \in {"COMPLETED"} \union Replacing \union Reported
    <3>1. Touched \/ Touched' BY <1>2, <1>4 DEF Untouched
    <3> QED BY <1>1, <3>1 DEF Touched
  <2>2. phase # "COMPLETED"
    BY <1>2, <1>4 DEF PhaseMeans, IsNew, DiskAgrees
  <2>3. phase = "ROLLED_BACK" => tree' \in {"old", "none"} /\ db' # "new"
    BY <1>2 DEF PhaseMeans, AsBefore
  <2>4. CASE tree' # tree
    <3>1. tree' \in Contents BY <1>2 DEF TypeOK
    <3>2. Transaction!ReplaceTree
      BY <1>1, <2>1, <2>2, <2>3, <2>4, <3>1
      DEF Transaction!ReplaceTree, Transaction!Replacing, Transaction!Restored, Replacing,
          Reported, Saved, Contents, Releases
    <3> QED BY <3>2 DEF Transaction!Next
  <2>5. CASE db' # db
    <3>1. db' \in Schemas /\ migrates BY <1>2, <2>5 DEF TypeOK, DiskAgrees
    <3>2. Transaction!ReplaceData
      BY <1>1, <2>1, <2>2, <2>3, <2>5, <3>1
      DEF Transaction!ReplaceData, Transaction!Replacing, Transaction!Restored, Replacing,
          Reported, Saved, Schemas
    <3> QED BY <3>2 DEF Transaction!Next
  <2> QED BY <1>4, <2>4, <2>5
<1> QED BY <1>3, <1>4

LEMMA StepIsAMove ==
  ASSUME IndInv, [Next]_vars
  PROVE  [Transaction!Next]_(Transaction!vars)
<1> USE DEF file, trees, data
<1>0. IndInv' BY NextKeeps
<1>1. ASSUME NEW w \in Workers, WorkerStep(w)
      PROVE  [Transaction!Next]_(Transaction!vars)
  <2>1. CASE Check(w) \/ Stop(w) \/ Again(w) \/ Launch(w) \/ Probe(w) \/ Kill(w) \/ Recover(w)
    <3>1. UNCHANGED <<phase, recorded, backup, dbBackup, migrates, tree>>
      BY <2>1 DEF Check, Stop, Again, Launch, Probe, Kill, Recover
    <3> QED BY <1>0, <3>1, ReplacementIsAMove
  <2>2. CASE RunInstaller(w) \/ SwapOut(w) \/ SwapIn(w) \/ DbOut(w) \/ DbIn(w)
    <3>1. UNCHANGED <<phase, recorded, backup, dbBackup, migrates>> /\ (tree' = tree \/ db' = db)
      BY <2>2 DEF RunInstaller, SwapOut, SwapIn, DbOut, DbIn
    <3> QED BY <1>0, <3>1, ReplacementIsAMove
  <2> QED
    BY <1>1, <2>1, <2>2, PersistIsAMove, BackupIsAMove DEF WorkerStep
<1>2. CASE \/ Handoff \/ Rollback \/ DesktopStep \/ ServerSaves \/ DesktopDies \/ UserStep
           \/ TimePasses \/ Crash \/ UNCHANGED vars
  <2>1. UNCHANGED <<phase, recorded, backup, dbBackup, migrates, tree>>
    BY <1>2
    DEF Handoff, Rollback, DesktopStep, HandOver, Boot, ServerStarts, ServerSaves, DesktopDies,
        UserStep, UserStarts, UserQuits, TimePasses, Crash, vars
  <2> QED BY <1>0, <2>1, ReplacementIsAMove
<1> QED BY <1>1, <1>2 DEF Next

(***************************************************************************)
(* updater.go, Apply, Rollback and Recover: for any number of recovery     *)
(* workers, failures and crashes the update is a transaction, second       *)
(* recoveries next to a worker that is done included.                      *)
(***************************************************************************)
THEOREM UpdateIsATransaction == Spec => IsATransaction
<1>1. Init => IndInv /\ Transaction!Init
  BY InitHolds DEF Init, Transaction!Init
<1>2. IndInv /\ [Next]_vars => [Transaction!Next]_(Transaction!vars)
  BY StepIsAMove
<1> QED BY <1>1, <1>2, Invariance, PTL DEF Spec, IsATransaction, Transaction!Spec

-----------------------------------------------------------------------------
(* What the transaction alone says of a phase. *)
Contract ==
  /\ phase \in {"NONE"} \union Unfinished \union Finished
  /\ phase \in {"NONE", "FAILED"} \union BeforeInstall => tree = "old" /\ db = "old"
  /\ phase \in Replacing \union {"COMPLETED"} => Saved
  /\ phase = "COMPLETED" => tree = "new" /\ (migrates => db = "new")
  /\ phase = "ROLLED_BACK" => tree \in {"old", "none"} /\ db # "new"
  /\ tree # "old" \/ db # "old" => Saved
  /\ tree \notin Releases => phase \in Replacing \union Reported
  /\ db # "old" => migrates

LEMMA MovesKeepTheContract ==
  ASSUME Contract, [Transaction!Next]_(Transaction!vars)
  PROVE  Contract'
<1> USE DEF Contract, Unfinished, Finished, BeforeInstall, Replacing, Releases, Reported
<1>1. ASSUME NEW S, NEW p, Transaction!Goes(S, p)
      PROVE  /\ phase \in S /\ phase' = p
             /\ UNCHANGED <<tree, db, migrates>> /\ (Saved' <=> Saved)
  BY <1>1 DEF Transaction!Goes, Transaction!disk, Saved
<1>2. CASE Transaction!Prepare \/ Transaction!Reject \/ Transaction!Install
  BY <1>1, <1>2 DEF Transaction!Prepare, Transaction!Reject, Transaction!Install, Saved
<1>3. CASE Transaction!Confirm
  BY <1>1, <1>3 DEF Transaction!Confirm
<1>4. CASE Transaction!Undo \/ Transaction!GiveUp
  BY <1>1, <1>4
  DEF Transaction!Undo, Transaction!GiveUp, Transaction!Begun, Transaction!Replacing,
      Transaction!Restored, Saved
<1>5. CASE Transaction!Undone
  BY <1>1, <1>5 DEF Transaction!Undone, Transaction!Begun, Transaction!Restored, Saved
<1>6. CASE Transaction!Save
  BY <1>6 DEF Transaction!Save, Saved
<1>7. CASE Transaction!ReplaceTree
  BY <1>7 DEF Transaction!ReplaceTree, Transaction!Replacing, Transaction!Restored, Saved
<1>8. CASE Transaction!ReplaceData
  BY <1>8 DEF Transaction!ReplaceData, Transaction!Replacing, Transaction!Restored, Saved
<1>9. CASE UNCHANGED Transaction!vars
  BY <1>9 DEF Transaction!vars, Transaction!disk, Saved
<1> QED BY <1>2, <1>3, <1>4, <1>5, <1>6, <1>7, <1>8, <1>9 DEF Transaction!Next

(***************************************************************************)
(* The transaction is all the API needs to know of the updater: from it    *)
(* alone follows that the outcome in the state file is that of the disk,   *)
(* and that half a release and a changed database have named backups.      *)
(***************************************************************************)
THEOREM TransactionsAreTrue ==
  IsATransaction => [](OutcomeIsTrue /\ TreeIsRestorable /\ DatabaseIsRestorable)
<1>1. Transaction!Init => Contract
  BY DEF Transaction!Init, Contract, Unfinished, Finished, BeforeInstall, Replacing, Releases
<1>2. Contract => OutcomeIsTrue /\ TreeIsRestorable /\ DatabaseIsRestorable
  BY DEF Contract, OutcomeIsTrue, TreeIsRestorable, DatabaseIsRestorable, Saved, Releases, Reported
<1> QED BY <1>1, <1>2, MovesKeepTheContract, PTL DEF IsATransaction, Transaction!Spec
=============================================================================
