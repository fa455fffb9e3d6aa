------------------------- MODULE DatabaseFileProofs -------------------------
(***************************************************************************)
(* Proofs about DatabaseFile for every number of processes, calls, changes,*)
(* closes and crashes.                                                     *)
(*                                                                         *)
(* SingleWriter rests on the endpoint: an open database means that its     *)
(* process holds it (OpenHolds), and one process does (Locked).  That the  *)
(* task which opens the database holds it (Loading) needs OneInitialisation*)
(* (Tasks), and this that a call which was woken finds either no task or   *)
(* one of its own generation (Asked).                                      *)
(***************************************************************************)
EXTENDS DatabaseFile, TLAPS

(* The endpoint exists while a process holds it or lets go of it. *)
Locked == \A p \in Procs :
  /\ lock = p <=> holds[p] \/ closing[p]
  /\ ~(holds[p] /\ closing[p])

OpenHolds == \A p \in Procs : mem[p] # NoDb => holds[p]

Purposeful == \A p \in Procs :
  holds[p] => mem[p] # NoDb \/ \E g \in Generations : stage[p][g] = "loading"

(* A task at work is the one that later calls wait for. *)
Tasks == \A p \in Procs : \A g \in Generations :
  stage[p][g] # "idle" => running[p] = g /\ g <= gen[p]

(* A task that loads has no database, and the endpoint unless it is stale. *)
Loading == \A p \in Procs : \A g \in Generations :
  stage[p][g] = "loading" => mem[p] = NoDb /\ (gen[p] = g => holds[p])

(* A call that goes on finds no task of another generation than its own. *)
Asked == \A c \in Callers :
  /\ asks[c] <= gen[ProcessOf[c]]
  /\ at[c] = "woken" /\ asks[c] = gen[ProcessOf[c]]
       => running[ProcessOf[c]] \in {NoGen, gen[ProcessOf[c]]}

ActiveIsOpen == \A p \in Procs : active[p] # NoGen => mem[p] # NoDb

(* The file is never ahead of an open copy, nor behind it without a save   *)
(* queued; what a handler is about to answer is in the file or will be.    *)
Stored ==
  /\ answered \subseteq file
  /\ \A p \in Procs :
       /\ mem[p] # NoDb => file \subseteq mem[p]
       /\ mem[p] # NoDb /\ ~queued[p] => mem[p] = file
       /\ queued[p] => mem[p] # NoDb
       /\ pending[p] \subseteq (IF queued[p] THEN mem[p] ELSE file)

IInv ==
  /\ TypeOK /\ Locked /\ OpenHolds /\ Purposeful /\ Tasks
  /\ Loading /\ Asked /\ ActiveIsOpen /\ Stored

-----------------------------------------------------------------------------
(* The tasks at work in one process are the same. *)
LEMMA OneTask ==
  ASSUME Tasks, NEW p \in Procs, NEW g \in Generations, NEW h \in Generations,
         stage[p][g] # "idle", stage[p][h] # "idle"
  PROVE  g = h
BY DEF Tasks

(* A call that gets an answer or waits leaves everything else alone. *)
LEMMA AwaitKeeps ==
  ASSUME IInv, NEW c \in Callers, NEW place \in Places \ {"woken"},
         Await(c, place), asks' \in {asks, [asks EXCEPT ![c] = gen[ProcessOf[c]]]},
         UNCHANGED <<file, gen, memory, server, clients, crashes>>
  PROVE  IInv'
<1> USE EveryCallHasAProcess, DatabaseBounds, NothingIsNotAThing DEF IInv,
        TypeOK, Generations, Places, Stages
<1>a. ProcessOf[c] \in Procs /\ gen[ProcessOf[c]] \in Generations
  OBVIOUS
<1>1. TypeOK'
  <2>1. at' \in [Callers -> Places]
    BY <1>a DEF Await, memory, server, calls, clients
  <2>2. asks' \in [Callers -> Generations]
    BY <1>a DEF Await, memory, server, calls, clients
  <2> QED BY <2>1, <2>2 DEF Await, memory, server, calls, clients
<1>2. Locked'
  BY <1>a DEF Await, server, Locked
<1>3. OpenHolds'
  BY <1>a DEF Await, memory, server, OpenHolds, Locked, Loading
<1>4. Purposeful'
  BY DEF Await, memory, server, Purposeful
<1>5. Tasks'
  BY <1>a DEF Await, Tasks, Asked
<1>6. Loading'
  BY <1>a DEF Await, memory, server, Loading, Tasks, Locked, OpenHolds
<1>7. Asked'
  BY <1>a DEF Await, calls, Asked, Tasks
<1>8. ActiveIsOpen'
  BY <1>a DEF Await, memory, ActiveIsOpen, Loading
<1>9. Stored'
  BY <1>a DEF Await, memory, clients, Stored, Loading, Tasks, OpenHolds, Locked
<1> QED BY <1>1, <1>2, <1>3, <1>4, <1>5, <1>6, <1>7, <1>8, <1>9 DEF IInv

(* A call starts a task where none is left. *)
LEMMA StartKeeps ==
  ASSUME IInv, NEW c \in Callers, running[ProcessOf[c]] = NoGen,
         Start(c, ProcessOf[c], gen[ProcessOf[c]]),
         asks' \in {asks, [asks EXCEPT ![c] = gen[ProcessOf[c]]]},
         UNCHANGED <<file, gen, memory, server, clients, crashes>>
  PROVE  IInv'
<1> USE EveryCallHasAProcess, DatabaseBounds, NothingIsNotAThing DEF IInv,
        TypeOK, Generations, Places, Stages
<1>a. ProcessOf[c] \in Procs /\ gen[ProcessOf[c]] \in Generations
  OBVIOUS
<1>1. TypeOK'
  <2>1. at' \in [Callers -> Places]
    BY <1>a DEF Start, memory, server, calls, clients
  <2>2. asks' \in [Callers -> Generations]
    BY <1>a DEF Start, memory, server, calls, clients
  <2>3. stage' \in [Procs -> [Generations -> Stages]]
    BY <1>a DEF Start, memory, server, calls, clients
  <2>4. running' \in [Procs -> Generations \union {NoGen}]
    BY <1>a DEF Start, memory, server, calls, clients
  <2> QED BY <2>1, <2>2, <2>3, <2>4 DEF Start, memory, server, calls, clients
<1>2. Locked'
  BY <1>a DEF Start, server, Locked
<1>3. OpenHolds'
  BY <1>a DEF Start, memory, server, OpenHolds, Locked, Loading
<1>4. Purposeful'
  <2> SUFFICES ASSUME NEW q \in Procs, holds'[q], mem'[q] = NoDb
               PROVE  \E h \in Generations : stage'[q][h] = "loading"
    BY DEF Purposeful
  <2>1. PICK h \in Generations : stage[q][h] = "loading"
    BY DEF Purposeful, memory, server
  <2>2. q # ProcessOf[c]
    <3> SUFFICES ASSUME q = ProcessOf[c] PROVE FALSE
      OBVIOUS
    <3>1. running[q] = h
      BY <2>1 DEF Tasks
    <3>2. h # NoGen
      OBVIOUS
    <3> QED BY <3>1, <3>2
  <2>3. stage'[q][h] = "loading"
    BY <2>1, <2>2 DEF Start
  <2> QED BY <2>3
<1>5. Tasks'
  BY <1>a DEF Start, Tasks, Asked
<1>6. Loading'
  BY <1>a DEF Start, memory, server, Loading, Tasks, Locked, OpenHolds
<1>7. Asked'
  BY <1>a DEF Start, calls, Asked, Tasks
<1>8. ActiveIsOpen'
  BY <1>a DEF Start, memory, ActiveIsOpen, Loading
<1>9. Stored'
  BY <1>a DEF Start, memory, clients, Stored, Loading, Tasks, OpenHolds, Locked
<1> QED BY <1>1, <1>2, <1>3, <1>4, <1>5, <1>6, <1>7, <1>8, <1>9 DEF IInv

LEMMA InitDatabaseKeeps ==
  ASSUME IInv, NEW c \in Callers, InitDatabase(c)
  PROVE  IInv'
<1> DEFINE p == ProcessOf[c]
<1> DEFINE g == gen[p]
<1>1. asks' = [asks EXCEPT ![c] = g] /\ UNCHANGED <<file, gen, memory, server, clients, crashes>>
  BY DEF InitDatabase
<1>2. CASE \E place \in Places \ {"woken"} : Await(c, place)
  BY <1>1, <1>2, AwaitKeeps
<1>3. CASE ~Older(p, g) /\ running[p] # g /\ Start(c, p, g)
  BY <1>1, <1>3, StartKeeps DEF Older
<1> QED BY <1>2, <1>3 DEF InitDatabase, Places

LEMMA ContinueKeeps ==
  ASSUME IInv, NEW c \in Callers, Continue(c)
  PROVE  IInv'
<1> DEFINE p == ProcessOf[c]
<1> DEFINE g == asks[c]
<1>1. asks' = asks /\ UNCHANGED <<file, gen, memory, server, clients, crashes>>
  BY DEF Continue
<1>2. CASE \E place \in Places \ {"woken"} : Await(c, place)
  BY <1>1, <1>2, AwaitKeeps
<1>3. CASE Current(p, g) /\ running[p] # g /\ Start(c, p, g)
  <2>1. running[p] = NoGen /\ gen[p] = g
    BY <1>3 DEF Continue, Current, IInv, Asked
  <2> QED BY <1>1, <1>3, <2>1, StartKeeps
<1> QED BY <1>2, <1>3 DEF Continue, Places

(* A task of the current generation takes the endpoint where nobody has it. *)
LEMMA TakeLockKeeps ==
  ASSUME IInv, NEW p \in Procs, NEW g \in Generations, ~closing[p],
         stage[p][g] = "waiting", lock = NoProc, gen[p] = g, lock' = p,
         holds' = [holds EXCEPT ![p] = TRUE], stage' = [stage EXCEPT ![p][g] = "loading"],
         UNCHANGED <<closing, running, calls>>, UNCHANGED <<file, gen, memory, clients, crashes>>
  PROVE  IInv'
<1> USE EveryCallHasAProcess, DatabaseBounds, NothingIsNotAThing DEF IInv,
        TypeOK, Generations, Places, Stages
<1>a. \A q \in Procs : ~holds[q] /\ ~closing[q] /\ mem[q] = NoDb
  BY DEF Locked, OpenHolds
<1>b. stage' \in [Procs -> [Generations -> Stages]] /\ stage'[p][g] = "loading"
  OBVIOUS
<1>c. \A q \in Procs : \A h \in Generations : q # p \/ h # g => stage'[q][h] = stage[q][h]
  OBVIOUS
<1>1. TypeOK'
  <2>1. lock' \in Procs \union {NoProc}
    BY <1>a, <1>b, <1>c DEF memory, server, calls, clients
  <2>2. holds' \in [Procs -> BOOLEAN]
    BY <1>a, <1>b, <1>c DEF memory, server, calls, clients
  <2>3. stage' \in [Procs -> [Generations -> Stages]]
    BY <1>a, <1>b, <1>c DEF memory, server, calls, clients
  <2> QED BY <2>1, <2>2, <2>3 DEF memory, server, calls, clients
<1>2. Locked'
  BY <1>a, <1>b, <1>c DEF server, Locked
<1>3. OpenHolds'
  BY <1>a, <1>b, <1>c DEF memory, server, OpenHolds, Locked, Loading
<1>4. Purposeful'
  BY <1>a, <1>b, <1>c DEF memory, server, Purposeful, OpenHolds, Locked,
     Loading, Tasks
<1>5. Tasks'
  BY <1>a, <1>b, <1>c DEF Tasks, Asked
<1>6. Loading'
  BY <1>a, <1>b, <1>c DEF memory, server, Loading, Tasks, Locked, OpenHolds
<1>7. Asked'
  BY <1>a, <1>b, <1>c DEF calls, Asked, Tasks
<1>8. ActiveIsOpen'
  BY <1>a, <1>b, <1>c DEF memory, ActiveIsOpen, Loading
<1>9. Stored'
  BY <1>a, <1>b, <1>c DEF memory, clients, Stored, Loading, Tasks, OpenHolds,
     Locked
<1> QED BY <1>1, <1>2, <1>3, <1>4, <1>5, <1>6, <1>7, <1>8, <1>9 DEF IInv

(* A stale task takes it only to let go of it. *)
LEMMA StaleLockKeeps ==
  ASSUME IInv, NEW p \in Procs, NEW g \in Generations, ~closing[p],
         stage[p][g] = "waiting", lock = NoProc, gen[p] # g, lock' = p,
         closing' = [closing EXCEPT ![p] = TRUE], stage' = [stage EXCEPT ![p][g] = "failing"],
         UNCHANGED <<holds, running, calls>>, UNCHANGED <<file, gen, memory, clients, crashes>>
  PROVE  IInv'
<1> USE EveryCallHasAProcess, DatabaseBounds, NothingIsNotAThing DEF IInv,
        TypeOK, Generations, Places, Stages
<1>a. \A q \in Procs : ~holds[q] /\ ~closing[q] /\ mem[q] = NoDb
  BY DEF Locked, OpenHolds
<1>b. stage' \in [Procs -> [Generations -> Stages]] /\ stage'[p][g] = "failing"
  OBVIOUS
<1>c. \A q \in Procs : \A h \in Generations : q # p \/ h # g => stage'[q][h] = stage[q][h]
  OBVIOUS
<1>1. TypeOK'
  <2>1. lock' \in Procs \union {NoProc}
    BY <1>a, <1>b, <1>c DEF memory, server, calls, clients
  <2>2. closing' \in [Procs -> BOOLEAN]
    BY <1>a, <1>b, <1>c DEF memory, server, calls, clients
  <2>3. stage' \in [Procs -> [Generations -> Stages]]
    BY <1>a, <1>b, <1>c DEF memory, server, calls, clients
  <2> QED BY <2>1, <2>2, <2>3 DEF memory, server, calls, clients
<1>2. Locked'
  BY <1>a, <1>b, <1>c DEF server, Locked
<1>3. OpenHolds'
  BY <1>a, <1>b, <1>c DEF memory, server, OpenHolds, Locked, Loading
<1>4. Purposeful'
  BY <1>a, <1>b, <1>c DEF memory, server, Purposeful, OpenHolds, Locked,
     Loading, Tasks
<1>5. Tasks'
  BY <1>a, <1>b, <1>c DEF Tasks, Asked
<1>6. Loading'
  BY <1>a, <1>b, <1>c DEF memory, server, Loading, Tasks, Locked, OpenHolds
<1>7. Asked'
  BY <1>a, <1>b, <1>c DEF calls, Asked, Tasks
<1>8. ActiveIsOpen'
  BY <1>a, <1>b, <1>c DEF memory, ActiveIsOpen, Loading
<1>9. Stored'
  BY <1>a, <1>b, <1>c DEF memory, clients, Stored, Loading, Tasks, OpenHolds,
     Locked
<1> QED BY <1>1, <1>2, <1>3, <1>4, <1>5, <1>6, <1>7, <1>8, <1>9 DEF IInv

(* A task that failed ends. *)
LEMMA EndKeeps ==
  ASSUME IInv, NEW p \in Procs, NEW g \in Generations, stage[p][g] \in {"waiting", "failing"},
         End(p, g, "idle"), UNCHANGED <<server, file, gen, memory, clients, crashes>>
  PROVE  IInv'
<1> USE EveryCallHasAProcess, DatabaseBounds, NothingIsNotAThing DEF IInv,
        TypeOK, Generations, Places, Stages
<1>a. running[p] = g
  BY DEF Tasks
<1>b. stage' \in [Procs -> [Generations -> Stages]] /\ stage'[p][g] = "idle"
  BY DEF End
<1>c. \A q \in Procs : \A h \in Generations : q # p \/ h # g => stage'[q][h] = stage[q][h]
  BY DEF End
<1>d. running' = [running EXCEPT ![p] = NoGen]
  BY <1>a DEF End, Forget
<1>1. TypeOK'
  <2>1. running' \in [Procs -> Generations \union {NoGen}]
    BY <1>a, <1>b, <1>c, <1>d DEF End, Forget, memory, server, calls, clients
  <2>2. at' \in [Callers -> Places]
    BY <1>a, <1>b, <1>c, <1>d DEF End, Forget, memory, server, calls, clients
  <2>3. stage' \in [Procs -> [Generations -> Stages]]
    BY <1>a, <1>b, <1>c, <1>d DEF End, Forget, memory, server, calls, clients
  <2> QED BY <2>1, <2>2, <2>3 DEF End, Forget, memory, server, calls, clients
<1>2. Locked'
  BY <1>a, <1>b, <1>c, <1>d DEF End, Forget, server, Locked
<1>3. OpenHolds'
  BY <1>a, <1>b, <1>c, <1>d DEF End, Forget, memory, server, OpenHolds, Locked,
     Loading
<1>4. Purposeful'
  <2> SUFFICES ASSUME NEW q \in Procs, holds'[q], mem'[q] = NoDb
               PROVE  \E h \in Generations : stage'[q][h] = "loading"
    BY DEF Purposeful
  <2>1. PICK h \in Generations : stage[q][h] = "loading"
    BY DEF Purposeful, memory, server
  <2>2. q # p \/ h # g
    BY <2>1
  <2>3. stage'[q][h] = "loading"
    BY <1>c, <2>1, <2>2
  <2> QED BY <2>3
<1>5. Tasks'
  BY <1>a, <1>b, <1>c, <1>d DEF End, Forget, Tasks, Asked
<1>6. Loading'
  BY <1>a, <1>b, <1>c, <1>d DEF End, Forget, memory, server, Loading, Tasks,
     Locked, OpenHolds
<1>7. Asked'
  BY <1>a, <1>b, <1>c, <1>d DEF End, Forget, calls, Asked, Tasks
<1>8. ActiveIsOpen'
  BY <1>a, <1>b, <1>c, <1>d DEF End, Forget, memory, ActiveIsOpen, Loading
<1>9. Stored'
  BY <1>a, <1>b, <1>c, <1>d DEF End, Forget, memory, clients, Stored, Loading,
     Tasks, OpenHolds, Locked
<1> QED BY <1>1, <1>2, <1>3, <1>4, <1>5, <1>6, <1>7, <1>8, <1>9 DEF IInv

(* A task that gives up has opened nothing. *)
LEMMA GiveUpKeeps ==
  ASSUME IInv, NEW p \in Procs, NEW g \in Generations, stage[p][g] = "loading",
         GiveUp(p, g), UNCHANGED <<file, lock, queued, gen, clients, crashes>>
  PROVE  IInv'
<1> USE EveryCallHasAProcess, DatabaseBounds, NothingIsNotAThing DEF IInv,
        TypeOK, Generations, Places, Stages
<1>a. mem[p] = NoDb /\ mem' = mem
  BY DEF Loading, GiveUp
<1>b. stage' \in [Procs -> [Generations -> Stages]] /\ stage'[p][g] = "failing"
  BY DEF GiveUp
<1>c. \A q \in Procs : \A h \in Generations : q # p \/ h # g => stage'[q][h] = stage[q][h]
  BY DEF GiveUp
<1>d. \A h \in Generations : stage'[p][h] # "loading"
  <2> SUFFICES ASSUME NEW h \in Generations, stage'[p][h] = "loading" PROVE FALSE
    OBVIOUS
  <2>1. h # g
    BY <1>b
  <2>2. stage[p][h] = "loading"
    BY <1>c, <2>1
  <2> QED BY <2>1, <2>2, OneTask
<1>1. TypeOK'
  <2>1. stage' \in [Procs -> [Generations -> Stages]]
    BY <1>a, <1>b, <1>c, <1>d DEF GiveUp, BeginRelease, memory, server, calls,
       clients
  <2>2. active' \in [Procs -> Generations \union {NoGen}]
    BY <1>a, <1>b, <1>c, <1>d DEF GiveUp, BeginRelease, memory, server, calls,
       clients
  <2>3. mem' \in [Procs -> (SUBSET Writes) \union {NoDb}]
    BY <1>a, <1>b, <1>c, <1>d DEF GiveUp, BeginRelease, memory, server, calls,
       clients
  <2>4. holds' \in [Procs -> BOOLEAN] /\ closing' \in [Procs -> BOOLEAN]
    BY <1>a, <1>b, <1>c, <1>d DEF GiveUp, BeginRelease, memory, server, calls,
       clients
  <2> QED BY <2>1, <2>2, <2>3, <2>4 DEF GiveUp, BeginRelease, memory, server,
             calls, clients
<1>2. Locked'
  BY <1>a, <1>b, <1>c, <1>d DEF GiveUp, BeginRelease, server, Locked
<1>3. OpenHolds'
  BY <1>a, <1>b, <1>c, <1>d DEF GiveUp, BeginRelease, memory, server,
     OpenHolds, Locked, Loading
<1>4. Purposeful'
  BY <1>a, <1>b, <1>c, <1>d DEF GiveUp, BeginRelease, memory, server,
     Purposeful, OpenHolds, Locked, Loading, Tasks
<1>5. Tasks'
  BY <1>a, <1>b, <1>c, <1>d DEF GiveUp, BeginRelease, Tasks, Asked
<1>6. Loading'
  BY <1>a, <1>b, <1>c, <1>d DEF GiveUp, BeginRelease, Loading
<1>7. Asked'
  BY <1>a, <1>b, <1>c, <1>d DEF GiveUp, BeginRelease, calls, Asked, Tasks
<1>8. ActiveIsOpen'
  BY <1>a, <1>b, <1>c, <1>d DEF GiveUp, BeginRelease, memory, ActiveIsOpen,
     Loading
<1>9. Stored'
  BY <1>a, <1>b, <1>c, <1>d DEF GiveUp, BeginRelease, memory, clients, Stored,
     Loading, Tasks, OpenHolds, Locked
<1> QED BY <1>1, <1>2, <1>3, <1>4, <1>5, <1>6, <1>7, <1>8, <1>9 DEF IInv

(* The task that opens the database holds the endpoint alone. *)
LEMMA OpenKeeps ==
  ASSUME IInv, NEW p \in Procs, NEW g \in Generations, stage[p][g] = "loading", ~queued[p], gen[p] = g,
         mem' = [mem EXCEPT ![p] = file], active' = [active EXCEPT ![p] = g],
         End(p, g, "opened"), UNCHANGED <<server, queued, file, gen, clients, crashes>>
  PROVE  IInv'
<1> USE EveryCallHasAProcess, DatabaseBounds, NothingIsNotAThing DEF IInv,
        TypeOK, Generations, Places, Stages
<1>a. running[p] = g /\ holds[p] /\ mem[p] = NoDb /\ file # NoDb
  BY DEF Tasks, Loading
<1>b. stage' \in [Procs -> [Generations -> Stages]] /\ stage'[p][g] = "idle"
  BY DEF End
<1>c. \A q \in Procs : \A h \in Generations : q # p \/ h # g => stage'[q][h] = stage[q][h]
  BY DEF End
<1>d. running' = [running EXCEPT ![p] = NoGen]
  BY <1>a DEF End, Forget
<1>e. \A h \in Generations : stage'[p][h] = "idle"
  <2> SUFFICES ASSUME NEW h \in Generations PROVE stage'[p][h] = "idle"
    OBVIOUS
  <2>1. CASE h = g
    BY <1>b, <2>1
  <2>2. CASE h # g
    <3>1. stage'[p][h] = stage[p][h]
      BY <1>c, <2>2
    <3>2. stage[p][g] # "idle"
      OBVIOUS
    <3> QED BY <2>2, <3>1, <3>2, OneTask DEF Stages
  <2> QED BY <2>1, <2>2
<1>1. TypeOK'
  <2>1. stage' \in [Procs -> [Generations -> Stages]]
    BY <1>a, <1>b, <1>c, <1>d, <1>e DEF End, Forget, memory, server, calls,
       clients
  <2>2. active' \in [Procs -> Generations \union {NoGen}]
    BY <1>a, <1>b, <1>c, <1>d, <1>e DEF End, Forget, memory, server, calls,
       clients
  <2>3. mem' \in [Procs -> (SUBSET Writes) \union {NoDb}]
    BY <1>a, <1>b, <1>c, <1>d, <1>e DEF End, Forget, memory, server, calls,
       clients
  <2>4. running' \in [Procs -> Generations \union {NoGen}]
    BY <1>a, <1>b, <1>c, <1>d, <1>e DEF End, Forget, memory, server, calls,
       clients
  <2>5. at' \in [Callers -> Places]
    BY <1>a, <1>b, <1>c, <1>d, <1>e DEF End, Forget, memory, server, calls,
       clients
  <2> QED BY <2>1, <2>2, <2>3, <2>4, <2>5 DEF End, Forget, memory, server,
             calls, clients
<1>2. Locked'
  BY <1>a, <1>b, <1>c, <1>d, <1>e DEF End, Forget, server, Locked
<1>3. OpenHolds'
  BY <1>a, <1>b, <1>c, <1>d, <1>e DEF End, Forget, memory, server, OpenHolds,
     Locked, Loading
<1>4. Purposeful'
  BY <1>a, <1>b, <1>c, <1>d, <1>e DEF End, Forget, memory, server, Purposeful,
     OpenHolds, Locked, Loading, Tasks
<1>5. Tasks'
  BY <1>a, <1>b, <1>c, <1>d, <1>e DEF End, Forget, Tasks, Asked
<1>6. Loading'
  BY <1>a, <1>b, <1>c, <1>d, <1>e DEF End, Forget, memory, server, Loading,
     Tasks, Locked, OpenHolds
<1>7. Asked'
  BY <1>a, <1>b, <1>c, <1>d, <1>e DEF End, Forget, calls, Asked, Tasks
<1>8. ActiveIsOpen'
  BY <1>a, <1>b, <1>c, <1>d, <1>e DEF End, Forget, memory, ActiveIsOpen,
     Loading
<1>9. Stored'
  BY <1>a, <1>b, <1>c, <1>d, <1>e DEF End, Forget, memory, clients, Stored,
     Loading, Tasks, OpenHolds, Locked
<1> QED BY <1>1, <1>2, <1>3, <1>4, <1>5, <1>6, <1>7, <1>8, <1>9 DEF IInv

LEMMA TaskStepKeeps ==
  ASSUME IInv, NEW p \in Procs, NEW g \in Generations, TaskStep(p, g)
  PROVE  IInv'
<1>1. CASE Acquire(p, g)
  <2>1. CASE End(p, g, "idle") /\ UNCHANGED server
    BY <1>1, <2>1, EndKeeps DEF Acquire
  <2>2. CASE ~(End(p, g, "idle") /\ UNCHANGED server)
    BY <1>1, <2>2, TakeLockKeeps, StaleLockKeeps DEF Acquire, Current
  <2> QED BY <2>1, <2>2
<1>2. CASE Load(p, g)
  <2>1. CASE GiveUp(p, g) /\ UNCHANGED <<file, lock, queued>>
    BY <1>2, <2>1, GiveUpKeeps DEF Load
  <2>2. CASE ~(GiveUp(p, g) /\ UNCHANGED <<file, lock, queued>>)
    BY <1>2, <2>2, OpenKeeps DEF Load, Current
  <2> QED BY <2>1, <2>2
<1>3. CASE Rethrow(p, g)
  BY <1>3, EndKeeps DEF Rethrow
<1> QED BY <1>1, <1>2, <1>3 DEF TaskStep

(* The endpoint of a closed database disappears. *)
LEMMA ReleaseEndsKeeps ==
  ASSUME IInv, NEW p \in Procs, ReleaseEnds(p)
  PROVE  IInv'
<1> USE EveryCallHasAProcess, DatabaseBounds, NothingIsNotAThing DEF IInv,
        TypeOK, Generations, Places, Stages
<1>1. TypeOK'
  BY DEF ReleaseEnds, memory, server, calls, clients
<1>2. Locked'
  BY DEF ReleaseEnds, server, Locked
<1>3. OpenHolds'
  BY DEF ReleaseEnds, memory, server, OpenHolds, Locked, Loading
<1>4. Purposeful'
  BY DEF ReleaseEnds, memory, server, Purposeful, OpenHolds, Locked, Loading,
     Tasks
<1>5. Tasks'
  BY DEF ReleaseEnds, Tasks, Asked
<1>6. Loading'
  BY DEF ReleaseEnds, memory, server, Loading, Tasks, Locked, OpenHolds
<1>7. Asked'
  BY DEF ReleaseEnds, calls, Asked, Tasks
<1>8. ActiveIsOpen'
  BY DEF ReleaseEnds, memory, ActiveIsOpen, Loading
<1>9. Stored'
  BY DEF ReleaseEnds, memory, clients, Stored, Loading, Tasks, OpenHolds,
     Locked
<1> QED BY <1>1, <1>2, <1>3, <1>4, <1>5, <1>6, <1>7, <1>8, <1>9 DEF IInv

(* Closing saves what is open and lets go of the endpoint. *)
LEMMA CloseKeeps ==
  ASSUME IInv, NEW p \in Procs, Close(p)
  PROVE  IInv'
<1> USE EveryCallHasAProcess, DatabaseBounds, NothingIsNotAThing DEF IInv,
        TypeOK, Generations, Places, Stages
<1>a. gen' = [gen EXCEPT ![p] = gen[p] + 1] /\ mem' = [mem EXCEPT ![p] = NoDb]
  BY DEF Close
<1>1. TypeOK'
  <2>1. gen' \in [Procs -> Generations]
    BY <1>a DEF Close, Write, BeginRelease, memory, server, calls, clients
  <2>2. file' \in SUBSET Writes
    BY <1>a DEF Close, Write, BeginRelease, memory, server, calls, clients
  <2>3. mem' \in [Procs -> (SUBSET Writes) \union {NoDb}]
    BY <1>a DEF Close, Write, BeginRelease, memory, server, calls, clients
  <2>4. active' \in [Procs -> Generations \union {NoGen}]
    BY <1>a DEF Close, Write, BeginRelease, memory, server, calls, clients
  <2>5. queued' \in [Procs -> BOOLEAN]
    BY <1>a DEF Close, Write, BeginRelease, memory, server, calls, clients
  <2>6. holds' \in [Procs -> BOOLEAN] /\ closing' \in [Procs -> BOOLEAN]
    BY <1>a DEF Close, Write, BeginRelease, memory, server, calls, clients
  <2> QED BY <2>1, <2>2, <2>3, <2>4, <2>5, <2>6 DEF Close, Write, BeginRelease,
             memory, server, calls, clients
<1>2. Locked'
  BY <1>a DEF Close, Write, BeginRelease, server, Locked
<1>3. OpenHolds'
  BY <1>a DEF Close, Write, BeginRelease, memory, server, OpenHolds, Locked,
     Loading
<1>4. Purposeful'
  BY <1>a DEF Close, Write, BeginRelease, memory, server, Purposeful,
     OpenHolds, Locked, Loading, Tasks
<1>5. Tasks'
  BY <1>a DEF Close, Write, BeginRelease, Tasks, Asked
<1>6. Loading'
  <2> SUFFICES ASSUME NEW q \in Procs, NEW h \in Generations, stage'[q][h] = "loading"
               PROVE  mem'[q] = NoDb /\ (gen'[q] = h => holds'[q])
    BY DEF Loading
  <2>1. stage[q][h] = "loading" /\ h <= gen[q]
    BY DEF Close, Tasks
  <2>2. CASE q = p
    BY <1>a, <2>1, <2>2
  <2>3. CASE q # p
    BY <1>a, <2>1, <2>3 DEF Close, BeginRelease, Loading
  <2> QED BY <2>2, <2>3
<1>7. Asked'
  BY <1>a DEF Close, Write, BeginRelease, calls, Asked, Tasks
<1>8. ActiveIsOpen'
  BY <1>a DEF Close, Write, BeginRelease, memory, ActiveIsOpen, Loading
<1>9. Stored'
  BY <1>a DEF Close, Write, BeginRelease, memory, clients, Stored, Loading,
     Tasks, OpenHolds, Locked
<1> QED BY <1>1, <1>2, <1>3, <1>4, <1>5, <1>6, <1>7, <1>8, <1>9 DEF IInv

(* A close that fails changes the generation only. *)
LEMMA CloseFailsKeeps ==
  ASSUME IInv, NEW p \in Procs, CloseFails(p)
  PROVE  IInv'
<1> USE EveryCallHasAProcess, DatabaseBounds, NothingIsNotAThing DEF IInv,
        TypeOK, Generations, Places, Stages
<1>1. TypeOK'
  BY DEF CloseFails, memory, server, calls, clients
<1>2. Locked'
  BY DEF CloseFails, server, Locked
<1>3. OpenHolds'
  BY DEF CloseFails, memory, server, OpenHolds, Locked, Loading
<1>4. Purposeful'
  BY DEF CloseFails, memory, server, Purposeful, OpenHolds, Locked, Loading,
     Tasks
<1>5. Tasks'
  BY DEF CloseFails, Tasks, Asked
<1>6. Loading'
  BY DEF CloseFails, memory, server, Loading, Tasks, Locked, OpenHolds
<1>7. Asked'
  BY DEF CloseFails, calls, Asked, Tasks
<1>8. ActiveIsOpen'
  BY DEF CloseFails, memory, ActiveIsOpen, Loading
<1>9. Stored'
  BY DEF CloseFails, memory, clients, Stored, Loading, Tasks, OpenHolds, Locked
<1> QED BY <1>1, <1>2, <1>3, <1>4, <1>5, <1>6, <1>7, <1>8, <1>9 DEF IInv

(* A change is made to an open copy. *)
LEMMA RunKeeps ==
  ASSUME IInv, NEW p \in Procs, NEW w \in Writes, Run(p, w)
  PROVE  IInv'
<1> USE EveryCallHasAProcess, DatabaseBounds, NothingIsNotAThing DEF IInv,
        TypeOK, Generations, Places, Stages
<1>a. mem[p] \union {w} \in SUBSET Writes /\ mem[p] \union {w} # NoDb
  BY DEF Run
<1>b. mem' = [mem EXCEPT ![p] = mem[p] \union {w}]
  BY DEF Run
<1>c. \A q \in Procs : mem'[q] = NoDb <=> mem[q] = NoDb
  BY <1>a, <1>b DEF Run
<1>1. TypeOK'
  BY <1>a, <1>b, <1>c DEF Run, memory, server, calls, clients
<1>2. Locked'
  BY <1>a, <1>b, <1>c DEF Run, server, Locked
<1>3. OpenHolds'
  BY <1>a, <1>b, <1>c DEF Run, memory, server, OpenHolds, Locked, Loading
<1>4. Purposeful'
  BY <1>a, <1>b, <1>c DEF Run, memory, server, Purposeful, OpenHolds, Locked,
     Loading, Tasks
<1>5. Tasks'
  BY <1>a, <1>b, <1>c DEF Run, Tasks, Asked
<1>6. Loading'
  BY <1>a, <1>b, <1>c DEF Run, memory, server, Loading, Tasks, Locked,
     OpenHolds
<1>7. Asked'
  BY <1>a, <1>b, <1>c DEF Run, calls, Asked, Tasks
<1>8. ActiveIsOpen'
  BY <1>a, <1>b, <1>c DEF Run, memory, ActiveIsOpen, Loading
<1>9. Stored'
  BY <1>a, <1>b, <1>c DEF Run, memory, clients, Stored, Loading, Tasks,
     OpenHolds, Locked
<1> QED BY <1>1, <1>2, <1>3, <1>4, <1>5, <1>6, <1>7, <1>8, <1>9 DEF IInv

(* The copy of the process that holds the endpoint becomes the file. *)
LEMMA SaveKeeps ==
  ASSUME IInv, NEW p \in Procs, Save(p)
  PROVE  IInv'
<1> USE EveryCallHasAProcess, DatabaseBounds, NothingIsNotAThing DEF IInv,
        TypeOK, Generations, Places, Stages
<1>a. file' = mem[p] /\ mem[p] # NoDb /\ mem[p] \in SUBSET Writes
  BY DEF Save, Write, Stored
<1>b. \A q \in Procs : q # p => mem[q] = NoDb /\ ~queued[q]
  BY <1>a DEF Locked, OpenHolds, Stored
<1>1. TypeOK'
  <2>1. file' \in SUBSET Writes
    BY <1>a, <1>b DEF Save, Write, memory, server, calls, clients
  <2>2. queued' \in [Procs -> BOOLEAN]
    BY <1>a, <1>b DEF Save, Write, memory, server, calls, clients
  <2> QED BY <2>1, <2>2 DEF Save, Write, memory, server, calls, clients
<1>2. Locked'
  BY <1>a, <1>b DEF Save, Write, server, Locked
<1>3. OpenHolds'
  BY <1>a, <1>b DEF Save, Write, memory, server, OpenHolds, Locked, Loading
<1>4. Purposeful'
  BY <1>a, <1>b DEF Save, Write, memory, server, Purposeful, OpenHolds, Locked,
     Loading, Tasks
<1>5. Tasks'
  BY <1>a, <1>b DEF Save, Write, Tasks, Asked
<1>6. Loading'
  BY <1>a, <1>b DEF Save, Write, memory, server, Loading, Tasks, Locked,
     OpenHolds
<1>7. Asked'
  BY <1>a, <1>b DEF Save, Write, calls, Asked, Tasks
<1>8. ActiveIsOpen'
  BY <1>a, <1>b DEF Save, Write, memory, ActiveIsOpen, Loading
<1>9. Stored'
  BY <1>a, <1>b DEF Save, Write, memory, clients, Stored, Loading, Tasks,
     OpenHolds, Locked
<1> QED BY <1>1, <1>2, <1>3, <1>4, <1>5, <1>6, <1>7, <1>8, <1>9 DEF IInv

(* What is answered has been saved. *)
LEMMA AnswerKeeps ==
  ASSUME IInv, NEW p \in Procs, NEW w \in Writes, Answer(p, w)
  PROVE  IInv'
<1> USE EveryCallHasAProcess, DatabaseBounds, NothingIsNotAThing DEF IInv,
        TypeOK, Generations, Places, Stages
<1>1. TypeOK'
  BY DEF Answer, Waiting, memory, server, calls, clients
<1>2. Locked'
  BY DEF Answer, Waiting, server, Locked
<1>3. OpenHolds'
  BY DEF Answer, Waiting, memory, server, OpenHolds, Locked, Loading
<1>4. Purposeful'
  BY DEF Answer, Waiting, memory, server, Purposeful, OpenHolds, Locked,
     Loading, Tasks
<1>5. Tasks'
  BY DEF Answer, Waiting, Tasks, Asked
<1>6. Loading'
  BY DEF Answer, Waiting, memory, server, Loading, Tasks, Locked, OpenHolds
<1>7. Asked'
  BY DEF Answer, Waiting, calls, Asked, Tasks
<1>8. ActiveIsOpen'
  BY DEF Answer, Waiting, memory, ActiveIsOpen, Loading
<1>9. Stored'
  BY DEF Answer, Waiting, memory, clients, Stored, Loading, Tasks, OpenHolds,
     Locked
<1> QED BY <1>1, <1>2, <1>3, <1>4, <1>5, <1>6, <1>7, <1>8, <1>9 DEF IInv

(* A dead process leaves the file as it is. *)
LEMMA CrashKeeps ==
  ASSUME IInv, NEW p \in Procs, Crash(p)
  PROVE  IInv'
<1> USE EveryCallHasAProcess, DatabaseBounds, NothingIsNotAThing DEF IInv,
        TypeOK, Generations, Places, Stages
<1>1. TypeOK'
  <2>1. lock' \in Procs \union {NoProc} /\ gen' \in [Procs -> Generations]
    BY DEF Crash, memory, server, calls, clients
  <2>2. active' \in [Procs -> Generations \union {NoGen}] /\ running' \in [Procs -> Generations \union {NoGen}]
    BY DEF Crash, memory, server, calls, clients
  <2>3. stage' \in [Procs -> [Generations -> Stages]]
    BY DEF Crash, memory, server, calls, clients
  <2>4. holds' \in [Procs -> BOOLEAN] /\ closing' \in [Procs -> BOOLEAN]
    BY DEF Crash, memory, server, calls, clients
  <2>5. mem' \in [Procs -> (SUBSET Writes) \union {NoDb}]
    BY DEF Crash, memory, server, calls, clients
  <2>6. queued' \in [Procs -> BOOLEAN] /\ pending' \in [Procs -> SUBSET Writes]
    BY DEF Crash, memory, server, calls, clients
  <2>7. at' \in [Callers -> Places] /\ asks' \in [Callers -> Generations]
    BY DEF Crash, memory, server, calls, clients
  <2>8. crashes' \in 0 .. MaxCrashes
    BY DEF Crash, memory, server, calls, clients
  <2> QED BY <2>1, <2>2, <2>3, <2>4, <2>5, <2>6, <2>7, <2>8 DEF Crash, memory,
             server, calls, clients
<1>2. Locked'
  BY DEF Crash, server, Locked
<1>3. OpenHolds'
  BY DEF Crash, memory, server, OpenHolds, Locked, Loading
<1>4. Purposeful'
  BY DEF Crash, memory, server, Purposeful, OpenHolds, Locked, Loading, Tasks
<1>5. Tasks'
  BY DEF Crash, Tasks, Asked
<1>6. Loading'
  BY DEF Crash, memory, server, Loading, Tasks, Locked, OpenHolds
<1>7. Asked'
  BY DEF Crash, calls, Asked, Tasks
<1>8. ActiveIsOpen'
  BY DEF Crash, memory, ActiveIsOpen, Loading
<1>9. Stored'
  BY DEF Crash, memory, clients, Stored, Loading, Tasks, OpenHolds, Locked
<1> QED BY <1>1, <1>2, <1>3, <1>4, <1>5, <1>6, <1>7, <1>8, <1>9 DEF IInv
-----------------------------------------------------------------------------
LEMMA InitIsSound == Init => IInv
<1> USE EveryCallHasAProcess, DatabaseBounds, NothingIsNotAThing
        DEF Generations, Places, Stages
<1> SUFFICES ASSUME Init PROVE IInv
  OBVIOUS
<1>1. TypeOK
  BY DEF Init, TypeOK
<1>2. Locked /\ OpenHolds /\ Purposeful /\ Tasks
  BY DEF Init, Locked, OpenHolds, Purposeful, Tasks
<1>3. Loading /\ Asked /\ ActiveIsOpen /\ Stored
  BY DEF Init, Loading, Asked, ActiveIsOpen, Stored
<1> QED BY <1>1, <1>2, <1>3 DEF IInv

LEMMA NextKeeps == IInv /\ [Next]_vars => IInv'
<1> SUFFICES ASSUME IInv, [Next]_vars PROVE IInv'
  OBVIOUS
<1>1. CASE \E c \in Callers : InitDatabase(c) \/ Continue(c)
  BY <1>1, InitDatabaseKeeps, ContinueKeeps
<1>2. ASSUME NEW p \in Procs, ProcessStep(p) PROVE IInv'
  <2>1. CASE \E g \in Generations : TaskStep(p, g)
    BY <2>1, TaskStepKeeps
  <2>2. CASE \E w \in Writes : HandlerStep(p, w)
    BY <2>2, RunKeeps, AnswerKeeps DEF HandlerStep
  <2>3. CASE ReleaseEnds(p) \/ Close(p) \/ CloseFails(p)
    BY <2>3, ReleaseEndsKeeps, CloseKeeps, CloseFailsKeeps
  <2>4. CASE Save(p) \/ Crash(p)
    BY <2>4, SaveKeeps, CrashKeeps
  <2> QED BY <1>2, <2>1, <2>2, <2>3, <2>4 DEF ProcessStep
<1>3. CASE UNCHANGED vars
  BY <1>3 DEF vars, memory, server, calls, clients, IInv, TypeOK, Locked,
     OpenHolds,
              Purposeful, Tasks, Loading, Asked, ActiveIsOpen, Stored
<1> QED BY <1>1, <1>2, <1>3 DEF Next

THEOREM Invariance == Spec => []IInv
BY InitIsSound, NextKeeps, PTL DEF Spec

(* The state of every process keeps its type. *)
THEOREM DatabaseTypes == Spec => []TypeOK
BY Invariance, PTL DEF IInv

(* sqlite.ts 48-55, 167-217: a change that was answered with success is in the    *)
(* file, whatever was opened, closed and lost since.                       *)
THEOREM AnsweredStays == Spec => []AnsweredIsSaved
<1>1. IInv => AnsweredIsSaved
  BY DEF IInv, Stored, AnsweredIsSaved
<1> QED BY <1>1, Invariance, PTL

(* sqlite.ts 220-246: no two initialisations of a process are at work.     *)
THEOREM OneTaskAtATime == Spec => []OneInitialisation
<1>1. IInv => OneInitialisation
  BY DEF IInv, Tasks, OneInitialisation
<1> QED BY <1>1, Invariance, PTL

(* sqlite.ts 88-152: the endpoint does not outlive what it protects. *)
THEOREM LockIsNotLeaked == Spec => []LockHasAPurpose
<1>1. IInv => LockHasAPurpose
  BY DEF IInv, TypeOK, Locked, Purposeful, LockHasAPurpose
<1> QED BY <1>1, Invariance, PTL

-----------------------------------------------------------------------------
(* A task that ends with success has just opened the database of its       *)
(* generation, a call that finds it open finds its own generation.         *)
LEMMA OpenedStep ==
  ASSUME IInv, [Next]_vars, NEW c \in Callers, at[c] # "opened", at'[c] = "opened"
  PROVE  mem'[ProcessOf[c]] # NoDb /\ active'[ProcessOf[c]] = asks'[c]
<1> USE EveryCallHasAProcess, NothingIsNotAThing DEF IInv, TypeOK, Generations
<1>1. CASE InitDatabase(c)
  BY <1>1 DEF InitDatabase, Await, Start, Opened, ActiveIsOpen, memory, Places
<1>2. CASE Continue(c)
  BY <1>2 DEF Continue, Await, Start, Opened, ActiveIsOpen, memory, Places
<1>3. ASSUME NEW d \in Callers \ {c}, InitDatabase(d) \/ Continue(d) PROVE FALSE
  BY <1>3 DEF InitDatabase, Continue, Await, Start
<1>4. ASSUME NEW p \in Procs, NEW g \in Generations, TaskStep(p, g)
      PROVE  mem'[ProcessOf[c]] # NoDb /\ active'[ProcessOf[c]] = asks'[c]
  <2>1. Load(p, g) /\ mem' = [mem EXCEPT ![p] = file] /\ active' = [active EXCEPT ![p] = g]
        /\ End(p, g, "opened")
    BY <1>4 DEF TaskStep, Acquire, Load, Rethrow, End, GiveUp, calls
  <2>2. ProcessOf[c] = p /\ asks[c] = g /\ asks' = asks
    BY <2>1 DEF End
  <2> QED BY <2>1, <2>2
<1>5. ASSUME NEW p \in Procs, ProcessStep(p), ~\E g \in Generations : TaskStep(p, g)
      PROVE  FALSE
  BY <1>5 DEF ProcessStep, HandlerStep, Run, Answer, ReleaseEnds, Close,
     CloseFails, Save,
              Crash, calls
<1>6. CASE UNCHANGED vars
  BY <1>6 DEF vars, calls
<1> QED BY <1>1, <1>2, <1>3, <1>4, <1>5, <1>6 DEF Next

(* sqlite.ts 220-246: who is told that the database is open has the one of *)
(* the generation it asked for.                                            *)
THEOREM OpenedIsOpenAlways == Spec => OpenedIsOpen
<1> DEFINE A == \A c \in Callers : at[c] # "opened" /\ at'[c] = "opened" =>
       mem'[ProcessOf[c]] # NoDb /\ active'[ProcessOf[c]] = asks'[c]
<1>1. IInv /\ [Next]_vars => A
  BY OpenedStep
<1> HIDE DEF A
<1>2. Spec => [][A]_vars
  BY <1>1, Invariance, PTL DEF Spec
<1> QED BY <1>2 DEF OpenedIsOpen, A

-----------------------------------------------------------------------------
LEMMA OneCopy ==
  ASSUME IInv, NEW p \in Procs, NEW q \in Procs, holds[p], mem[q] # NoDb
  PROVE  p = q
BY DEF IInv, OpenHolds, Locked

(* Every step of DatabaseFile is one of SingleWriterFile or none. *)
LEMMA StepRefines ==
  ASSUME IInv, [Next]_vars
  PROVE  [File!Next]_(File!vars)
<1> USE NothingIsNotAThing DEF IInv, TypeOK, File!vars
<1>1. ASSUME NEW c \in Callers, InitDatabase(c) \/ Continue(c)
      PROVE  UNCHANGED <<file, mem>>
  BY <1>1 DEF InitDatabase, Continue, memory
<1>2. ASSUME NEW p \in Procs, NEW g \in Generations, TaskStep(p, g)
      PROVE  UNCHANGED <<file, mem>> \/ File!Open(p)
  <2>1. CASE Acquire(p, g) \/ Rethrow(p, g)
    BY <2>1 DEF Acquire, Rethrow, memory
  <2>2. CASE Load(p, g)
    <3>1. stage[p][g] = "loading" /\ mem[p] = NoDb
      BY <2>2 DEF Load, Loading
    <3>2. CASE GiveUp(p, g) /\ UNCHANGED file
      BY <3>1, <3>2 DEF GiveUp
    <3>3. CASE gen[p] = g /\ mem' = [mem EXCEPT ![p] = file] /\ UNCHANGED file
      <4>1. \A q \in Procs : mem[q] = NoDb
        BY <3>1, <3>3, OneCopy DEF Loading
      <4> QED BY <3>3, <4>1 DEF File!Open
    <3> QED BY <2>2, <3>2, <3>3 DEF Load, Current
  <2> QED BY <1>2, <2>1, <2>2 DEF TaskStep
<1>3. ASSUME NEW p \in Procs, NEW w \in Writes, HandlerStep(p, w)
      PROVE  UNCHANGED <<file, mem>> \/ File!Change(p, w)
  BY <1>3 DEF HandlerStep, Run, Answer, memory, File!Change
<1>4. ASSUME NEW p \in Procs, ReleaseEnds(p) \/ CloseFails(p)
      PROVE  UNCHANGED <<file, mem>>
  BY <1>4 DEF ReleaseEnds, CloseFails, memory
<1>5. ASSUME NEW p \in Procs, Save(p) PROVE File!Save(p)
  BY <1>5 DEF Save, Write, Stored, File!Save
<1>6. ASSUME NEW p \in Procs, Close(p) \/ Crash(p)
      PROVE  UNCHANGED <<file, mem>> \/ File!Leave(p)
  <2>1. mem' = [mem EXCEPT ![p] = NoDb]
    BY <1>6 DEF Close, Crash
  <2>2. file' = file \/ (mem[p] # NoDb /\ file' = mem[p])
    BY <1>6 DEF Close, Crash, Write
  <2>3. CASE mem[p] = NoDb
    BY <2>1, <2>2, <2>3
  <2>4. CASE mem[p] # NoDb
    BY <2>1, <2>2, <2>4 DEF File!Leave
  <2> QED BY <2>3, <2>4
<1>7. CASE UNCHANGED vars
  BY <1>7 DEF vars, memory
<1> QED BY <1>1, <1>2, <1>3, <1>4, <1>5, <1>6, <1>7 DEF Next, ProcessStep,
           File!Next

(* sqlite.ts as a whole: one process at a time changes the file, starting  *)
(* from what was saved last, and nothing saved is lost.                    *)
THEOREM ImplementsSingleWriter == Spec => SingleWriter
<1>1. Init => File!Init
  BY DEF Init, File!Init
<1>2. IInv /\ [Next]_vars => [File!Next]_(File!vars)
  BY StepRefines
<1> QED BY <1>1, <1>2, Invariance, PTL DEF Spec, SingleWriter, File!Spec

-----------------------------------------------------------------------------
(***************************************************************************)
(* The safety half of EveryInitSettles: a call that waits has something to *)
(* wait for.  One that has joined a task has that of its generation at     *)
(* work, one that waits for the end of an older task has some task at      *)
(* work, and _initialising is never the remains of one that is over.       *)
(***************************************************************************)
NobodyWaitsInVain ==
  /\ \A p \in Procs : running[p] # NoGen => stage[p][running[p]] # "idle"
  /\ \A c \in Callers :
       /\ at[c] = "joined" => stage[ProcessOf[c]][asks[c]] # "idle"
       /\ at[c] = "older" => \E g \in Generations : stage[ProcessOf[c]][g] # "idle"

(* Steps that let no task end and move no call into waiting. *)
LEMMA WorkGoesOn ==
  ASSUME IInv, NobodyWaitsInVain, UNCHANGED <<running, calls>>,
         \A p \in Procs : \A g \in Generations : stage[p][g] # "idle" => stage'[p][g] # "idle"
  PROVE  NobodyWaitsInVain'
<1> USE EveryCallHasAProcess
<1>1. /\ running \in [Procs -> Generations \union {NoGen}] /\ asks \in [Callers -> Generations]
  BY DEF IInv, TypeOK
<1>2. \A p \in Procs : running'[p] # NoGen => stage'[p][running'[p]] # "idle"
  BY <1>1 DEF NobodyWaitsInVain
<1>3. ASSUME NEW c \in Callers
      PROVE  /\ at'[c] = "joined" => stage'[ProcessOf[c]][asks'[c]] # "idle"
             /\ at'[c] = "older" => \E g \in Generations : stage'[ProcessOf[c]][g] # "idle"
  BY <1>1 DEF NobodyWaitsInVain, calls
<1> QED BY <1>2, <1>3 DEF NobodyWaitsInVain

LEMMA CallStepWaits ==
  ASSUME IInv, NobodyWaitsInVain, NEW c \in Callers, InitDatabase(c) \/ Continue(c)
  PROVE  NobodyWaitsInVain'
<1> DEFINE p == ProcessOf[c]
           g == asks'[c]
<1>1. /\ p \in Procs /\ running \in [Procs -> Generations \union {NoGen}]
      /\ asks \in [Callers -> Generations] /\ gen \in [Procs -> Generations]
      /\ stage \in [Procs -> [Generations -> Stages]] /\ at \in [Callers -> Places]
  BY EveryCallHasAProcess DEF IInv, TypeOK
<1>2. /\ g \in Generations /\ asks' \in [Callers -> Generations]
      /\ \A d \in Callers : d # c => asks'[d] = asks[d]
  BY <1>1 DEF InitDatabase, Continue
<1>3. \/ \E place \in {"idle", "opened"} : Await(c, place)
      \/ running[p] = g /\ Await(c, "joined")
      \/ Older(p, g) /\ Await(c, "older")
      \/ running[p] = NoGen /\ Start(c, p, g)
  <2>1. CASE InitDatabase(c)
    <3>1. g = gen[p]
      BY <1>1, <2>1 DEF InitDatabase
    <3> QED BY <1>1, <2>1, <3>1 DEF InitDatabase, Older
  <2>2. CASE Continue(c)
    <3>1. g = asks[c]
      BY <2>2 DEF Continue
    <3>2. Current(p, g) => running[p] \in {NoGen, g}
      BY <2>2, <3>1 DEF Continue, Current, IInv, Asked
    <3> QED BY <1>1, <2>2, <3>1, <3>2 DEF Continue
  <2> QED BY <2>1, <2>2
<1> HIDE DEF g
<1>4. CASE Start(c, p, g)
  <2>1. /\ at'[c] = "joined" /\ \A d \in Callers : d # c => at'[d] = at[d]
        /\ stage'[p][g] # "idle" /\ running' = [running EXCEPT ![p] = g]
        /\ \A q \in Procs : \A h \in Generations : stage[q][h] # "idle" => stage'[q][h] # "idle"
    BY <1>1, <1>2, <1>4 DEF Start
  <2>2. \A q \in Procs : running'[q] # NoGen => stage'[q][running'[q]] # "idle"
    BY <1>1, <2>1 DEF NobodyWaitsInVain
  <2>3. ASSUME NEW d \in Callers
        PROVE  /\ at'[d] = "joined" => stage'[ProcessOf[d]][asks'[d]] # "idle"
               /\ at'[d] = "older" => \E h \in Generations : stage'[ProcessOf[d]][h] # "idle"
    <3>1. CASE d = c
      BY <2>1, <3>1 DEF g
    <3>2. CASE d # c
      BY <1>1, <1>2, <2>1, <3>2, EveryCallHasAProcess DEF NobodyWaitsInVain
    <3> QED BY <3>1, <3>2
  <2> QED BY <2>2, <2>3 DEF NobodyWaitsInVain
<1>5. ASSUME NEW place \in {"idle", "opened", "joined", "older"}, Await(c, place),
             place = "joined" => running[p] = g,
             place = "older" => Older(p, g)
      PROVE  NobodyWaitsInVain'
  <2>1. /\ at'[c] = place /\ \A d \in Callers : d # c => at'[d] = at[d]
        /\ stage' = stage /\ running' = running
    BY <1>1, <1>5 DEF Await
  <2>2. ASSUME NEW d \in Callers
        PROVE  /\ at'[d] = "joined" => stage'[ProcessOf[d]][asks'[d]] # "idle"
               /\ at'[d] = "older" => \E h \in Generations : stage'[ProcessOf[d]][h] # "idle"
    <3>1. CASE d # c
      BY <1>2, <2>1, <3>1 DEF NobodyWaitsInVain
    <3>2. CASE d = c /\ place = "joined"
      <4>1. running[p] = g /\ running[p] # NoGen
        BY <1>2, <1>5, <3>2, NothingIsNotAThing, DatabaseBounds DEF Generations
      <4>2. stage[p][g] # "idle"
        BY <1>1, <4>1 DEF NobodyWaitsInVain
      <4> QED BY <2>1, <3>2, <4>2 DEF g
    <3>3. CASE d = c /\ place = "older"
      <4>1. running[p] # NoGen /\ running[p] \in Generations
        BY <1>1, <1>5, <3>3 DEF Older
      <4>2. stage[p][running[p]] # "idle"
        BY <1>1, <4>1 DEF NobodyWaitsInVain
      <4> QED BY <2>1, <3>3, <4>1, <4>2
    <3>4. CASE d = c /\ place \in {"idle", "opened"}
      BY <2>1, <3>4
    <3> QED BY <1>5, <3>1, <3>2, <3>3, <3>4
  <2> QED BY <2>1, <2>2 DEF NobodyWaitsInVain
<1> QED BY <1>3, <1>4, <1>5

(* The end of a task is told to all who wait for it. *)
LEMMA EndIsTold ==
  ASSUME IInv, NobodyWaitsInVain, NEW p \in Procs, NEW g \in Generations,
         stage[p][g] # "idle", NEW result \in {"idle", "opened"}, End(p, g, result)
  PROVE  NobodyWaitsInVain'
<1>1. /\ running \in [Procs -> Generations \union {NoGen}] /\ asks \in [Callers -> Generations]
      /\ stage \in [Procs -> [Generations -> Stages]] /\ asks' = asks
  BY DEF IInv, TypeOK, End
<1>2. running[p] = g /\ \A h \in Generations : stage[p][h] # "idle" => h = g
  BY OneTask DEF IInv, Tasks
<1>3. running' = [running EXCEPT ![p] = NoGen]
  BY <1>2 DEF End, Forget
<1>4. \A q \in Procs : \A h \in Generations : q # p => stage'[q][h] = stage[q][h]
  BY <1>1 DEF End
<1>5. \A q \in Procs : running'[q] # NoGen => stage'[q][running'[q]] # "idle"
  BY <1>1, <1>3, <1>4 DEF NobodyWaitsInVain
<1>6. ASSUME NEW c \in Callers
      PROVE  /\ at'[c] = "joined" => stage'[ProcessOf[c]][asks'[c]] # "idle"
             /\ at'[c] = "older" => \E h \in Generations : stage'[ProcessOf[c]][h] # "idle"
  <2>1. ProcessOf[c] \in Procs
    BY EveryCallHasAProcess
  <2>2. CASE ProcessOf[c] = p
    <3>1. at[c] = "joined" => asks[c] = g
      BY <1>1, <1>2, <2>2 DEF NobodyWaitsInVain
    <3>2. at'[c] \notin {"joined", "older"}
      BY <2>2, <3>1 DEF End
    <3> QED BY <3>2
  <2>3. CASE ProcessOf[c] # p
    <3>1. at'[c] = at[c]
      BY <2>3 DEF End
    <3>2. \A h \in Generations : stage'[ProcessOf[c]][h] = stage[ProcessOf[c]][h]
      BY <1>4, <2>1, <2>3
    <3>3. asks'[c] = asks[c] /\ asks[c] \in Generations
      BY <1>1
    <3>4. /\ at[c] = "joined" => stage[ProcessOf[c]][asks[c]] # "idle"
          /\ at[c] = "older" => \E h \in Generations : stage[ProcessOf[c]][h] # "idle"
      BY DEF NobodyWaitsInVain
    <3>5. at'[c] = "joined" => stage'[ProcessOf[c]][asks'[c]] # "idle"
      BY <3>1, <3>2, <3>3, <3>4
    <3>6. at'[c] = "older" => \E h \in Generations : stage'[ProcessOf[c]][h] # "idle"
      BY <3>1, <3>2, <3>4
    <3> QED BY <3>5, <3>6
  <2> QED BY <2>2, <2>3
<1> QED BY <1>5, <1>6 DEF NobodyWaitsInVain

LEMMA TaskStepWaits ==
  ASSUME IInv, NobodyWaitsInVain, NEW p \in Procs, NEW g \in Generations, TaskStep(p, g)
  PROVE  NobodyWaitsInVain'
<1>1. stage[p][g] # "idle" /\ stage \in [Procs -> [Generations -> Stages]]
  BY DEF IInv, TypeOK, TaskStep, Acquire, Load, Rethrow
<1>2. CASE \E result \in {"idle", "opened"} : End(p, g, result)
  BY <1>1, <1>2, EndIsTold
<1>3. CASE \E l \in {"loading", "failing"} :
             stage' = [stage EXCEPT ![p][g] = l] /\ UNCHANGED <<running, calls>>
  <2>1. \A q \in Procs : \A h \in Generations : stage[q][h] # "idle" => stage'[q][h] # "idle"
    BY <1>1, <1>3
  <2> QED BY <1>3, <2>1, WorkGoesOn
<1>4. CASE Acquire(p, g)
  BY <1>2, <1>3, <1>4 DEF Acquire
<1>5. CASE Load(p, g)
  BY <1>2, <1>3, <1>5 DEF Load, GiveUp
<1>6. CASE Rethrow(p, g)
  BY <1>2, <1>6 DEF Rethrow
<1> QED BY <1>4, <1>5, <1>6 DEF TaskStep

LEMMA CrashWaits ==
  ASSUME IInv, NobodyWaitsInVain, NEW p \in Procs, Crash(p)
  PROVE  NobodyWaitsInVain'
<1>1. /\ running \in [Procs -> Generations \union {NoGen}] /\ asks \in [Callers -> Generations]
      /\ stage \in [Procs -> [Generations -> Stages]]
  BY DEF IInv, TypeOK
<1>2. /\ running'[p] = NoGen
      /\ \A q \in Procs : q # p => running'[q] = running[q] /\ stage'[q] = stage[q]
  BY <1>1 DEF Crash
<1>3. \A c \in Callers : IF ProcessOf[c] = p THEN at'[c] = "idle"
                         ELSE at'[c] = at[c] /\ asks'[c] = asks[c]
  BY DEF Crash
<1> QED BY <1>2, <1>3, EveryCallHasAProcess DEF NobodyWaitsInVain

LEMMA NextWaits == IInv /\ NobodyWaitsInVain /\ [Next]_vars => NobodyWaitsInVain'
<1> SUFFICES ASSUME IInv, NobodyWaitsInVain, [Next]_vars PROVE NobodyWaitsInVain'
  OBVIOUS
<1>1. ASSUME UNCHANGED <<running, stage, calls>> PROVE NobodyWaitsInVain'
  BY <1>1, WorkGoesOn
<1>2. ASSUME NEW p \in Procs, ProcessStep(p) PROVE NobodyWaitsInVain'
  <2>1. CASE \E g \in Generations : TaskStep(p, g)
    BY <2>1, TaskStepWaits
  <2>2. CASE \E w \in Writes : HandlerStep(p, w)
    BY <1>1, <2>2 DEF HandlerStep, Run, Answer
  <2>3. CASE ReleaseEnds(p) \/ Close(p) \/ CloseFails(p) \/ Save(p)
    BY <1>1, <2>3 DEF ReleaseEnds, Close, CloseFails, Save
  <2>4. CASE Crash(p)
    BY <2>4, CrashWaits
  <2> QED BY <1>2, <2>1, <2>2, <2>3, <2>4 DEF ProcessStep
<1>3. CASE \E c \in Callers : InitDatabase(c) \/ Continue(c)
  BY <1>3, CallStepWaits
<1>4. CASE UNCHANGED vars
  BY <1>1, <1>4 DEF vars
<1> QED BY <1>2, <1>3, <1>4 DEF Next

(* sqlite.ts 220-260: no call of initDatabase is left with a promise that  *)
(* nobody will settle, however opens, closes and crashes mix.              *)
THEOREM NoCallIsStranded == Spec => []NobodyWaitsInVain
<1>1. Init => IInv /\ NobodyWaitsInVain
  BY InitIsSound, EveryCallHasAProcess DEF Init, NobodyWaitsInVain
<1>2. (IInv /\ NobodyWaitsInVain) /\ [Next]_vars => (IInv /\ NobodyWaitsInVain)'
  BY NextKeeps, NextWaits
<1> QED BY <1>1, <1>2, PTL DEF Spec
=============================================================================
