---------------------------- MODULE DatabaseFile ----------------------------
(***************************************************************************)
(* The database file of the API (infra/db/sqlite.ts).  sql.js keeps the    *)
(* whole database in memory: an initialisation reads the file, every       *)
(* change is followed by a save that replaces it, and an endpoint owned by *)
(* the operating system keeps a second process out.  Inside one process    *)
(* the calls of initDatabase share a task, and closeDatabase may come in   *)
(* the middle of it: the generation counter tells a task that it is stale. *)
(* A save that fails outside closeDatabase and an initialisation ends the  *)
(* process, as does a kill: both are Crash.                                *)
(***************************************************************************)
EXTENDS Naturals

CONSTANTS
  Procs,         \* processes that use the same file
  Callers,       \* calls of initDatabase
  ProcessOf,     \* ProcessOf[c]: the process that makes call c
  Writes,        \* changes made by request handlers
  NoProc, NoDb, NoGen,
  MaxCloses,     \* bound: closeDatabase calls of one process
  MaxCrashes     \* bound: how often a process dies

ASSUME EveryCallHasAProcess == ProcessOf \in [Callers -> Procs]
ASSUME DatabaseBounds == MaxCloses \in Nat /\ MaxCrashes \in Nat
ASSUME NothingIsNotAThing ==
  NoProc \notin Procs /\ NoDb \notin SUBSET Writes /\ NoGen \notin Nat

VARIABLES
  file,        \* the changes in the file
  lock,        \* the process whose endpoint exists
  gen,         \* _lifecycleGeneration
  active,      \* _activeGeneration, while _initialised
  running,     \* _initialising.generation
  stage,       \* stage[p][g]: where the initialisation of generation g is
  holds,       \* _dbLockServer is set
  closing,     \* _dbLockRelease is pending
  mem,         \* the changes in _db
  queued,      \* _saveQueued
  pending,     \* changes whose handlers have not answered
  at,          \* at[c]: where call c is
  asks,        \* requestedGeneration of c
  answered,    \* changes that were answered with success
  crashes      \* number of crashes so far

memory  == <<active, mem, queued>>
server  == <<lock, holds, closing>>
calls   == <<at, asks>>
clients == <<pending, answered>>
vars    == <<file, gen, running, stage, memory, server, calls, clients, crashes>>

-----------------------------------------------------------------------------
Generations == 0 .. MaxCloses
Stages == {"idle", "waiting", "loading", "failing"}
Places == {"idle", "older", "woken", "joined", "opened"}

Init ==
  /\ file = {} /\ lock = NoProc
  /\ gen = [p \in Procs |-> 0]
  /\ active = [p \in Procs |-> NoGen]
  /\ running = [p \in Procs |-> NoGen]
  /\ stage = [p \in Procs |-> [g \in Generations |-> "idle"]]
  /\ holds = [p \in Procs |-> FALSE]
  /\ closing = [p \in Procs |-> FALSE]
  /\ mem = [p \in Procs |-> NoDb]
  /\ queued = [p \in Procs |-> FALSE]
  /\ pending = [p \in Procs |-> {}]
  /\ at = [c \in Callers |-> "idle"]
  /\ asks = [c \in Callers |-> 0]
  /\ answered = {} /\ crashes = 0

-----------------------------------------------------------------------------
(* Mutation: nobody asks whether closeDatabase came in between. *)
CurrentOrNot(p, g) == TRUE

(* assertCurrentGeneration *)
Current(p, g) == gen[p] = g

(* _initialised && _activeGeneration === generation *)
Opened(p, g) == active[p] = g

(* The task that is running was started for an older generation. *)
Older(p, g) == running[p] \notin {g, NoGen}

Await(c, place) ==
  /\ at' = [at EXCEPT ![c] = place]
  /\ UNCHANGED <<stage, running>>

(* startDatabaseInitialisation, up to the await of _dbLockRelease *)
Start(c, p, g) ==
  /\ at' = [at EXCEPT ![c] = "joined"]
  /\ stage' = [stage EXCEPT ![p][g] = "waiting"]
  /\ running' = [running EXCEPT ![p] = g]

(* initDatabase until its first await: the database is open, the call      *)
(* joins the task of its generation, waits for an older one, or starts its *)
(* own.  A call that has thrown is idle again, one that has settled stands *)
(* for the next.                                                           *)
InitDatabase(c) ==
  LET p == ProcessOf[c]  g == gen[ProcessOf[c]] IN
  /\ at[c] \in {"idle", "opened"}
  /\ asks' = [asks EXCEPT ![c] = g]
  /\ \/ Opened(p, g) /\ Await(c, "opened")
     \/ ~Opened(p, g) /\ running[p] = g /\ Await(c, "joined")
     \/ ~Opened(p, g) /\ Older(p, g) /\ Await(c, "older")
     \/ ~Opened(p, g) /\ ~Older(p, g) /\ running[p] # g /\ Start(c, p, g)
  /\ UNCHANGED <<file, gen, memory, server, clients, crashes>>

(* initDatabase after the older task has ended *)
Continue(c) ==
  LET p == ProcessOf[c]  g == asks[c] IN
  /\ at[c] = "woken"
  /\ \/ ~Current(p, g) /\ Await(c, "idle")
     \/ Current(p, g) /\ Opened(p, g) /\ Await(c, "opened")
     \/ Current(p, g) /\ ~Opened(p, g) /\ running[p] = g /\ Await(c, "joined")
     \/ Current(p, g) /\ ~Opened(p, g) /\ running[p] # g /\ Start(c, p, g)
  /\ UNCHANGED <<file, gen, memory, server, asks, clients, crashes>>

-----------------------------------------------------------------------------
(* Mutation: a task that has become stale stays the one to wait for. *)
ForgetCurrent(p, g) ==
  running' = [running EXCEPT ![p] = IF @ = gen[p] THEN NoGen ELSE @]

(* runDatabaseInitialisation's finally *)
Forget(p, g) ==
  running' = [running EXCEPT ![p] = IF @ = g THEN NoGen ELSE @]

(* The promise tells the calls of its generation the result, and the newer *)
(* ones, which wait for the only task there was, that it has ended.        *)
End(p, g, result) ==
  /\ stage' = [stage EXCEPT ![p][g] = "idle"]
  /\ Forget(p, g)
  /\ at' = [c \in Callers |->
       IF ProcessOf[c] = p /\ at[c] = "joined" /\ asks[c] = g THEN result
       ELSE IF ProcessOf[c] = p /\ at[c] = "older" THEN "woken"
       ELSE at[c]]
  /\ UNCHANGED asks

(* saveDb: a complete file is renamed over the old one. *)
Write(p) == file' = IF mem[p] = NoDb THEN file ELSE mem[p]

(* Mutation: the endpoint is forgotten instead of closed. *)
LeakLock(p) ==
  /\ holds' = [holds EXCEPT ![p] = FALSE]
  /\ UNCHANGED closing

(* beginReleaseDatabaseLock *)
BeginRelease(p) ==
  /\ holds' = [holds EXCEPT ![p] = FALSE]
  /\ closing' = [closing EXCEPT ![p] = @ \/ holds[p]]

(* The catch of initialiseDatabase, until it awaits the release. *)
GiveUp(p, g) ==
  /\ mem' = [mem EXCEPT ![p] = NoDb]
  /\ active' = [active EXCEPT ![p] = NoGen]
  /\ BeginRelease(p)
  /\ stage' = [stage EXCEPT ![p][g] = "failing"]
  /\ UNCHANGED <<running, calls>>

(* acquireDatabaseLock: listening and the first check of the generation    *)
(* are one step, no other event of the process comes between.              *)
Acquire(p, g) ==
  /\ stage[p][g] = "waiting" /\ ~closing[p]
  /\ \/ /\ lock = NoProc /\ Current(p, g)
        /\ lock' = p
        /\ holds' = [holds EXCEPT ![p] = TRUE]
        /\ stage' = [stage EXCEPT ![p][g] = "loading"]
        /\ UNCHANGED <<closing, running, calls>>
     \/ /\ lock = NoProc /\ ~Current(p, g)
        /\ lock' = p
        /\ closing' = [closing EXCEPT ![p] = TRUE]
        /\ stage' = [stage EXCEPT ![p][g] = "failing"]
        /\ UNCHANGED <<holds, running, calls>>
     \/ /\ End(p, g, "idle")
        /\ UNCHANGED server
  /\ UNCHANGED <<file, gen, memory, clients, crashes>>

(* WebAssembly is there: read, check, migrate and save without an await,   *)
(* each of which may fail.  What is saved is what was read.                *)
Load(p, g) ==
  /\ stage[p][g] = "loading" /\ ~queued[p]
  /\ \/ /\ GiveUp(p, g)
        /\ UNCHANGED <<file, lock, queued>>
     \/ /\ Current(p, g)
        /\ mem' = [mem EXCEPT ![p] = file]
        /\ UNCHANGED file
        /\ active' = [active EXCEPT ![p] = g]
        /\ End(p, g, "opened")
        /\ UNCHANGED <<server, queued>>
  /\ UNCHANGED <<gen, clients, crashes>>

(* The release that the catch awaited has ended. *)
Rethrow(p, g) ==
  /\ stage[p][g] = "failing" /\ ~closing[p]
  /\ End(p, g, "idle")
  /\ UNCHANGED <<file, gen, memory, server, clients, crashes>>

(* The endpoint is gone and the callback of close has run. *)
ReleaseEnds(p) ==
  /\ closing[p]
  /\ closing' = [closing EXCEPT ![p] = FALSE]
  /\ lock' = IF lock = p THEN NoProc ELSE lock
  /\ UNCHANGED <<file, gen, running, stage, memory, holds, calls, clients, crashes>>

-----------------------------------------------------------------------------
(* closeDatabase *)
Close(p) ==
  /\ gen[p] < MaxCloses
  /\ gen' = [gen EXCEPT ![p] = @ + 1]
  /\ Write(p)
  /\ mem' = [mem EXCEPT ![p] = NoDb]
  /\ active' = [active EXCEPT ![p] = NoGen]
  /\ queued' = [queued EXCEPT ![p] = FALSE]
  /\ BeginRelease(p)
  /\ UNCHANGED <<lock, running, stage, calls, clients, crashes>>

(* closeDatabase whose save throws: everything after it is skipped. *)
CloseFails(p) ==
  /\ gen[p] < MaxCloses /\ mem[p] # NoDb
  /\ gen' = [gen EXCEPT ![p] = @ + 1]
  /\ UNCHANGED <<file, running, stage, memory, server, calls, clients, crashes>>

(* A handler changes the database through the facade of getDb: the save is *)
(* a microtask, which comes before the handler goes on.                    *)
Run(p, w) ==
  /\ mem[p] # NoDb /\ w \notin mem[p] \union pending[p]
  /\ mem' = [mem EXCEPT ![p] = @ \union {w}]
  /\ queued' = [queued EXCEPT ![p] = TRUE]
  /\ pending' = [pending EXCEPT ![p] = @ \union {w}]
  /\ UNCHANGED <<file, gen, active, running, stage, server, calls, answered, crashes>>

(* the microtask of queueSave *)
Save(p) ==
  /\ queued[p]
  /\ Write(p)
  /\ queued' = [queued EXCEPT ![p] = FALSE]
  /\ UNCHANGED <<gen, active, mem, running, stage, server, calls, clients, crashes>>

(* Mutation: the answer does not wait for the save. *)
NeverWaiting(p) == FALSE

(* The handler that changed the database has to wait for its save. *)
Waiting(p) == queued[p]

(* The handler goes on and answers. *)
Answer(p, w) ==
  /\ w \in pending[p] /\ ~Waiting(p)
  /\ pending' = [pending EXCEPT ![p] = @ \ {w}]
  /\ answered' = answered \union {w}
  /\ UNCHANGED <<file, gen, running, stage, memory, server, calls, crashes>>

(* The process dies and is started again; its endpoint dies with it. *)
Crash(p) ==
  /\ crashes < MaxCrashes /\ crashes' = crashes + 1
  /\ lock' = IF lock = p THEN NoProc ELSE lock
  /\ gen' = [gen EXCEPT ![p] = 0]
  /\ active' = [active EXCEPT ![p] = NoGen]
  /\ running' = [running EXCEPT ![p] = NoGen]
  /\ stage' = [stage EXCEPT ![p] = [g \in Generations |-> "idle"]]
  /\ holds' = [holds EXCEPT ![p] = FALSE]
  /\ closing' = [closing EXCEPT ![p] = FALSE]
  /\ mem' = [mem EXCEPT ![p] = NoDb]
  /\ queued' = [queued EXCEPT ![p] = FALSE]
  /\ pending' = [pending EXCEPT ![p] = {}]
  /\ at' = [c \in Callers |-> IF ProcessOf[c] = p THEN "idle" ELSE at[c]]
  /\ asks' = [c \in Callers |-> IF ProcessOf[c] = p THEN 0 ELSE asks[c]]
  /\ UNCHANGED <<file, answered>>

-----------------------------------------------------------------------------
TaskStep(p, g) == Acquire(p, g) \/ Load(p, g) \/ Rethrow(p, g)

HandlerStep(p, w) == Run(p, w) \/ Answer(p, w)

ProcessStep(p) ==
  \/ \E g \in Generations : TaskStep(p, g)
  \/ \E w \in Writes : HandlerStep(p, w)
  \/ ReleaseEnds(p) \/ Close(p) \/ CloseFails(p) \/ Save(p) \/ Crash(p)

Next ==
  \/ \E c \in Callers : InitDatabase(c) \/ Continue(c)
  \/ \E p \in Procs : ProcessStep(p)

Spec == Init /\ [][Next]_vars

(* Node delivers what has happened: the endpoint, WebAssembly, the         *)
(* callback of close and the microtasks.  Nothing makes a client call.     *)
Fairness ==
  /\ \A c \in Callers : WF_vars(Continue(c))
  /\ \A p \in Procs : WF_vars(ReleaseEnds(p)) /\ WF_vars(Save(p))
  /\ \A p \in Procs : \A g \in Generations : WF_vars(TaskStep(p, g))

FairSpec == Spec /\ Fairness

-----------------------------------------------------------------------------
TypeOK ==
  /\ file \in SUBSET Writes /\ answered \in SUBSET Writes
  /\ lock \in Procs \union {NoProc}
  /\ gen \in [Procs -> Generations]
  /\ active \in [Procs -> Generations \union {NoGen}]
  /\ running \in [Procs -> Generations \union {NoGen}]
  /\ stage \in [Procs -> [Generations -> Stages]]
  /\ holds \in [Procs -> BOOLEAN] /\ closing \in [Procs -> BOOLEAN]
  /\ mem \in [Procs -> (SUBSET Writes) \union {NoDb}]
  /\ queued \in [Procs -> BOOLEAN]
  /\ pending \in [Procs -> SUBSET Writes]
  /\ at \in [Callers -> Places]
  /\ asks \in [Callers -> Generations]
  /\ crashes \in 0 .. MaxCrashes

(* What a client was told is stored is in the file, whatever process has   *)
(* replaced it since: no process saves a copy that is older than the file. *)
AnsweredIsSaved == answered \subseteq file

(* Calls, closes and failures in any order never leave two initialisations *)
(* of one process at work: the later one would open a database that the    *)
(* catch of the earlier one closes.                                        *)
OneInitialisation ==
  \A p \in Procs : \A g, h \in Generations :
    stage[p][g] # "idle" /\ stage[p][h] # "idle" => g = h

(* The endpoint exists because of an open database, an initialisation that *)
(* is about to open it, or a release under way: it never outlives them,    *)
(* which would lock every process out until this one is ended.             *)
LockHasAPurpose ==
  \A p \in Procs : lock = p =>
    closing[p] \/ mem[p] # NoDb \/ \E g \in Generations : stage[p][g] = "loading"

(* A call that returns without an error has opened the database of the     *)
(* generation it asked for, also when it waited for another one's end.     *)
OpenedIsOpen ==
  [][\A c \in Callers : at[c] # "opened" /\ at'[c] = "opened" =>
       mem'[ProcessOf[c]] # NoDb /\ active'[ProcessOf[c]] = asks'[c]]_vars

(* Every call of initDatabase returns or throws: no cancelled task, lost   *)
(* generation or pending release keeps it waiting.                         *)
EveryInitSettles ==
  \A c \in Callers :
    at[c] \in {"older", "woken", "joined"} ~> at[c] \in {"idle", "opened"}

(* One process at a time has the database open, on what was saved last.    *)
File == INSTANCE SingleWriterFile WITH saved <- file, copy <- mem
SingleWriter == File!Spec
=============================================================================
