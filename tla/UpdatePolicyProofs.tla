------------------------ MODULE UpdatePolicyProofs ------------------------
(***************************************************************************)
(* Proofs about UpdatePolicy, for any releases, any budget of failures,    *)
(* and any number of restarts, saves that fail and unreadable files.       *)
(*                                                                         *)
(* Sound says what one state record may be, InStep how the worker's and    *)
(* the file's differ and when, and Blamed that no failure is in the count  *)
(* that was not one of the release.                                        *)
(***************************************************************************)
EXTENDS UpdatePolicy, TLAPS

Sound(s) ==
  /\ s.count <= MaxFailures
  /\ s.blocked \in {None, s.failed} /\ s.pending \in {None, s.failed}
  /\ s.failed # None /\ s.blocked = None => s.count < MaxFailures
  /\ s.blocked # None /\ ~s.recovery => s.count = MaxFailures
  /\ s.pending # None => s.blocked = None /\ ~s.recovery

(* Nothing is due, by this record. *)
Free(s) == s.pending = None /\ ~s.recovery

InStep ==
  /\ usable /\ at \in {"idle", "check", "install", "accepted"} => memory = disk
  /\ at = "check" => usable
  /\ at \in {"check", "install", "accepted"} => Free(memory) /\ Free(disk)
  /\ at \in {"install", "accepted"} => memory.failed # None /\ memory.blocked = None
  /\ at \in {"install", "accepted"} /\ ~usable => memory.failed # disk.failed
  /\ at = "save" /\ then = "install" =>
       /\ Free(memory) /\ Free(disk)
       /\ memory.failed \notin {None, disk.failed} /\ memory.blocked = None
  /\ file.phase = "open" => file.version # None

(* The outcome that a hand-over of v is waiting for has come, and is bad. *)
Ailing(v) == file.version = v /\ file.phase = "failed"

Counts(s, v) ==
  s.failed = v /\ ~s.recovery =>
    /\ s.count <= bad[v]
    /\ s.pending = v /\ Ailing(v) => s.count + 1 <= bad[v]

Blamed ==
  \A v \in Versions :
    /\ Counts(disk, v)
    /\ at # "down" /\ usable => Counts(memory, v)
    /\ at = "accepted" /\ usable /\ memory.failed = v /\ Ailing(v)
         => memory.count + 1 <= bad[v]

IInv ==
  /\ TypeOK /\ Sound(memory) /\ Sound(disk)
  /\ InStep /\ Blamed

-----------------------------------------------------------------------------
LEMMA EmptyIsAState == Empty \in States
BY DEF Empty, States, Releases, None

(* A new candidate leaves the rest of the record alone. *)
LEMMA OfferedNew ==
  ASSUME TypeOK, NEW v \in Versions, Offered(v), memory.blocked # v, IsNew(v)
  PROVE  /\ memory' \in States /\ memory'.count = 0 /\ memory'.failed = v
         /\ memory'.blocked = None /\ memory'.pending = memory.pending
         /\ memory'.recovery = memory.recovery
         /\ at = "check" /\ at' = "save" /\ then' = "install" /\ asked' = v
         /\ UNCHANGED <<disk, usable, file, bad>>
<1>1. /\ memory' = [memory EXCEPT !.count = 0, !.failed = v, !.blocked = None]
      /\ at = "check" /\ at' = "save" /\ then' = "install" /\ asked' = v
      /\ UNCHANGED <<disk, usable, file, bad>>
  BY DEF Offered, Remember
<1>2. memory \in States
  BY DEF TypeOK
<1>3. memory' = [count |-> 0, failed |-> v, blocked |-> None,
                 pending |-> memory.pending, recovery |-> memory.recovery]
  BY <1>1, <1>2 DEF States
<1> QED
  BY <1>1, <1>2, <1>3 DEF States, Releases

(* One more failure. *)
LEMMA OneMore ==
  ASSUME NEW f \in [Versions -> Nat], NEW v \in Versions
  PROVE  [f EXCEPT ![v] = @ + 1] \in [Versions -> Nat]
<1>1. f[v] + 1 \in Nat
  OBVIOUS
<1> QED
  BY <1>1

LEMMA FailureFields ==
  ASSUME TypeOK, NEW v \in Releases, RecordFailure(v)
  PROVE  memory' \in States
<1>1. memory.count + 1 \in Nat
  BY DEF TypeOK, States
<1>2. PICK n \in Nat, b \in {v, None} :
        memory' = [Empty EXCEPT !.count = n, !.failed = v, !.blocked = b]
  BY <1>1 DEF RecordFailure, Remember
<1>3. memory' = [count |-> n, failed |-> v, blocked |-> b, pending |-> None, recovery |-> FALSE]
  BY <1>2 DEF Empty
<1> QED
  BY <1>3 DEF States, Releases

LEMMA InitIInv == Init => IInv
BY VersionsAreReleases, PolicyBounds
DEF Init, IInv, TypeOK, States, Releases, None, Outcomes, Empty, Sound, InStep,
    Free, Ailing, Counts, Blamed

(* The types; that a candidate is a release comes from the other parts.    *)
LEMMA TypeStep == IInv /\ [Next]_vars => TypeOK'
<1> SUFFICES ASSUME IInv, [Next]_vars PROVE TypeOK'
  OBVIOUS
<1> USE VersionsAreReleases, PolicyBounds
<1>a. /\ TypeOK /\ None \in Releases
      /\ at \in {"install", "accepted"} => Candidate \in Versions /\ Candidate \in Releases
      /\ memory.pending \in Releases
      /\ file.phase = "open" => file.version \in Versions
  BY DEF IInv, InStep, TypeOK, States, Releases, None, Candidate
<1>1. CASE Start
  BY <1>1, <1>a, EmptyIsAState DEF Start, TypeOK
<1>2. CASE Stop
  BY <1>2, <1>a, EmptyIsAState DEF Stop, TypeOK
<1>3. CASE Save
  <2>1. Kept \in [Versions -> Nat]
    BY <1>a DEF Kept, TypeOK
  <2>2. usable' \in BOOLEAN /\ disk' \in States
    BY <1>3, <1>a DEF Save, Paused, TypeOK
  <2>3. bad' \in [Versions -> Nat]
    BY <1>3, <1>a, <2>1 DEF Save, TypeOK
  <2>4. /\ at' \in {"idle", "install", "stopped"}
        /\ UNCHANGED <<memory, then, asked, file>>
    BY <1>3, <1>a DEF Save, TypeOK
  <2> QED
    BY <1>a, <2>2, <2>3, <2>4 DEF TypeOK
<1>4. CASE Observe
  <2>1. memory' \in States
    <3>1. CASE RecordSuccess
      BY <3>1, EmptyIsAState DEF RecordSuccess, Remember
    <3>2. CASE RecordFailure(memory.pending)
      BY <3>2, <1>a, FailureFields
    <3>3. CASE RecordRollbackFailure(memory.pending)
      BY <3>3, <1>a DEF RecordRollbackFailure, Remember, TypeOK, States, Releases, None
    <3>4. CASE RecordFailedLook
      BY <3>4 DEF RecordFailedLook, Remember, Empty, States, Releases, None
    <3> QED
      BY <1>4, <3>1, <3>2, <3>3, <3>4 DEF Observe
  <2>2. at' = "save" /\ then' = "idle" /\ UNCHANGED <<disk, usable>>
    BY <1>4 DEF Observe, RecordSuccess, RecordFailure, RecordRollbackFailure,
                RecordFailedLook, Remember
  <2> QED
    BY <1>4, <1>a, <2>1, <2>2 DEF Observe, TypeOK
<1>5. CASE BeginCheck
  BY <1>5, <1>a DEF BeginCheck, TypeOK
<1>6. CASE NothingOffered
  <2>1. memory' \in States /\ at' = "save" /\ then' = "idle" /\ UNCHANGED <<disk, usable>>
    <3>1. CASE RecordSuccess
      BY <3>1, EmptyIsAState DEF RecordSuccess, Remember
    <3>2. CASE RecordFailedLook
      BY <3>2 DEF RecordFailedLook, Remember, Empty, States, Releases, None
    <3> QED
      BY <1>6, <3>1, <3>2 DEF NothingOffered
  <2> QED
    BY <1>6, <1>a, <2>1 DEF NothingOffered, TypeOK
<1>7. ASSUME NEW v \in Versions, Offered(v) PROVE TypeOK'
  <2>1. CASE memory.blocked = v
    BY <1>7, <2>1, <1>a DEF Offered, TypeOK, Releases
  <2>2. CASE memory.blocked # v /\ IsNew(v)
    BY <1>7, <2>2, <1>a, OfferedNew DEF TypeOK, Releases
  <2>3. CASE memory.blocked # v /\ ~IsNew(v)
    BY <1>7, <2>3, <1>a DEF Offered, TypeOK, Releases
  <2> QED
    BY <2>1, <2>2, <2>3
<1>8. CASE TryFails
  <2>1. memory' \in States
    BY <1>8, <1>a, FailureFields DEF TryFails
  <2>2. bad' \in [Versions -> Nat]
    BY <1>8, <1>a, OneMore DEF TryFails, Failed, TypeOK
  <2> QED
    BY <1>8, <1>a, <2>1, <2>2 DEF TryFails, RecordFailure, Remember, TypeOK
<1>9. CASE Deferred
  BY <1>9, <1>a DEF Deferred, TypeOK
<1>10. CASE HandOver
  BY <1>10, <1>a DEF HandOver, TypeOK
<1>11. CASE NoteHandOver
  <2>1. memory' \in States
    BY <1>11, <1>a DEF NoteHandOver, Remember, TypeOK, States
  <2> QED
    BY <1>11, <1>a, <2>1 DEF NoteHandOver, Remember, TypeOK
<1>12. CASE UpdaterEnds
  <2>1. bad' \in [Versions -> Nat]
    BY <1>12, <1>a, OneMore DEF UpdaterEnds, Failed, TypeOK
  <2>2. file' \in [version : Releases, phase : {"none", "open"} \union Outcomes]
    BY <1>12, <1>a DEF UpdaterEnds, TypeOK
  <2> QED
    BY <1>12, <1>a, <2>1, <2>2 DEF UpdaterEnds, TypeOK, policy
<1>13. CASE Operator
  BY <1>13, <1>a DEF Operator, TypeOK, policy
<1>14. CASE UNCHANGED vars
  BY <1>14, <1>a DEF vars, policy, TypeOK
<1> QED
  BY <1>1, <1>2, <1>3, <1>4, <1>5, <1>6, <1>7, <1>8, <1>9, <1>10, <1>11, <1>12,
     <1>13, <1>14 DEF Next

(* A record is made from a sound one. *)
LEMMA SoundStep == IInv /\ [Next]_vars => Sound(memory)' /\ Sound(disk)'
<1> SUFFICES ASSUME IInv, [Next]_vars PROVE Sound(memory)' /\ Sound(disk)'
  OBVIOUS
<1> USE VersionsAreReleases, PolicyBounds DEF TypeOK, States, Releases, None, Outcomes, Empty, IInv, Sound, InStep, Free
<1>1. CASE Start
  BY <1>1 DEF Start, policy
<1>2. CASE Stop
  BY <1>2 DEF Stop, policy
<1>3. CASE Save
  BY <1>3 DEF Save, Paused, Kept, policy
<1>4. CASE Observe
  <2>1. CASE Heard = "completed" /\ RecordSuccess
    BY <1>4, <2>1 DEF Observe, RecordSuccess, Remember, policy
  <2>2. CASE Heard = "failed" /\ RecordFailure(memory.pending)
    BY <1>4, <2>2 DEF Observe, Heard, RecordFailure, BlockedAt, Remember,
       policy
  <2>3. CASE Heard = "rollbackFailed" /\ RecordRollbackFailure(memory.pending)
    BY <1>4, <2>3 DEF Observe, RecordRollbackFailure, Remember, policy
  <2>4. CASE RecordFailedLook
    BY <1>4, <2>4 DEF Observe, RecordFailedLook, Remember, policy
  <2> QED
    BY <1>4, <2>1, <2>2, <2>3, <2>4 DEF Observe
<1>5. CASE BeginCheck
  BY <1>5 DEF BeginCheck, policy
<1>6. CASE NothingOffered
  <2>1. CASE RecordSuccess
    BY <1>6, <2>1 DEF NothingOffered, InProgress, RecordSuccess, Remember,
       policy
  <2>2. CASE RecordFailedLook
    BY <1>6, <2>2 DEF NothingOffered, InProgress, RecordFailedLook,
       Remember, policy
  <2> QED
    BY <1>6, <2>1, <2>2 DEF NothingOffered
<1>7. ASSUME NEW v \in Versions, Offered(v) PROVE Sound(memory)' /\ Sound(disk)'
  <2>1. CASE memory.blocked = v
    BY <1>7, <2>1 DEF Offered, IsNew, policy
  <2>2. CASE memory.blocked # v /\ IsNew(v)
    BY <1>7, <2>2, OfferedNew DEF IsNew
  <2>3. CASE memory.blocked # v /\ ~IsNew(v)
    BY <1>7, <2>3 DEF Offered, IsNew, Remember, policy
  <2> QED
    BY <1>7, <2>1, <2>2, <2>3 DEF Offered, IsNew
<1>8. CASE TryFails
  BY <1>8 DEF TryFails, Failed, Candidate, RecordSuccess, RecordFailure,
       RecordFailedLook, RecordRollbackFailure, BlockedAt, Remember, policy
<1>9. CASE Deferred
  BY <1>9 DEF Deferred, Candidate, policy
<1>10. CASE HandOver
  BY <1>10 DEF HandOver, Candidate, policy
<1>11. CASE NoteHandOver
  BY <1>11 DEF NoteHandOver, Candidate, Remember, policy
<1>12. CASE UpdaterEnds
  BY <1>12 DEF UpdaterEnds, Failed, Outcomes, policy
<1>13. CASE Operator
  BY <1>13 DEF Operator, policy
<1>14. CASE UNCHANGED vars
  BY <1>14 DEF vars, policy
<1> QED
  BY <1>1, <1>2, <1>3, <1>4, <1>5, <1>6, <1>7, <1>8, <1>9, <1>10, <1>11,
     <1>12, <1>13, <1>14 DEF Next

(* Worker and file. *)
LEMMA InStepStep == IInv /\ [Next]_vars => InStep'
<1> SUFFICES ASSUME IInv, [Next]_vars PROVE InStep'
  OBVIOUS
<1> USE VersionsAreReleases, PolicyBounds DEF TypeOK, States, Releases, None, Outcomes, Empty, IInv, Sound, InStep, Free
<1>1. CASE Start
  BY <1>1 DEF Start, policy
<1>2. CASE Stop
  BY <1>2 DEF Stop, policy
<1>3. CASE Save
  BY <1>3 DEF Save, Paused, Kept, policy
<1>4. CASE Observe
  <2>1. CASE Heard = "completed" /\ RecordSuccess
    BY <1>4, <2>1 DEF Observe, RecordSuccess, Remember, policy
  <2>2. CASE Heard = "failed" /\ RecordFailure(memory.pending)
    BY <1>4, <2>2 DEF Observe, Heard, RecordFailure, BlockedAt, Remember,
       policy
  <2>3. CASE Heard = "rollbackFailed" /\ RecordRollbackFailure(memory.pending)
    BY <1>4, <2>3 DEF Observe, RecordRollbackFailure, Remember, policy
  <2>4. CASE RecordFailedLook
    BY <1>4, <2>4 DEF Observe, RecordFailedLook, Remember, policy
  <2> QED
    BY <1>4, <2>1, <2>2, <2>3, <2>4 DEF Observe
<1>5. CASE BeginCheck
  BY <1>5 DEF BeginCheck, policy
<1>6. CASE NothingOffered
  <2>1. CASE RecordSuccess
    BY <1>6, <2>1 DEF NothingOffered, InProgress, RecordSuccess, Remember,
       policy
  <2>2. CASE RecordFailedLook
    BY <1>6, <2>2 DEF NothingOffered, InProgress, RecordFailedLook,
       Remember, policy
  <2> QED
    BY <1>6, <2>1, <2>2 DEF NothingOffered
<1>7. ASSUME NEW v \in Versions, Offered(v) PROVE InStep'
  <2>1. CASE memory.blocked = v
    BY <1>7, <2>1 DEF Offered, IsNew, policy
  <2>2. CASE memory.blocked # v /\ IsNew(v)
    BY <1>7, <2>2, OfferedNew DEF IsNew
  <2>3. CASE memory.blocked # v /\ ~IsNew(v)
    <3>1. /\ at = "check" /\ at' = "install" /\ memory.failed = v /\ memory.blocked = None
          /\ UNCHANGED <<memory, disk, usable, then, file>>
      BY <1>7, <2>3 DEF Offered, IsNew
    <3> QED
      BY <1>7, <2>3, <3>1
  <2> QED
    BY <1>7, <2>1, <2>2, <2>3 DEF Offered, IsNew
<1>8. CASE TryFails
  BY <1>8 DEF TryFails, Failed, Candidate, RecordSuccess, RecordFailure,
       RecordFailedLook, RecordRollbackFailure, BlockedAt, Remember, policy
<1>9. CASE Deferred
  BY <1>9 DEF Deferred, Candidate, policy
<1>10. CASE HandOver
  BY <1>10 DEF HandOver, Candidate, policy
<1>11. CASE NoteHandOver
  BY <1>11 DEF NoteHandOver, Candidate, Remember, policy
<1>12. CASE UpdaterEnds
  BY <1>12 DEF UpdaterEnds, Failed, Outcomes, policy
<1>13. CASE Operator
  BY <1>13 DEF Operator, policy
<1>14. CASE UNCHANGED vars
  BY <1>14 DEF vars, policy
<1> QED
  BY <1>1, <1>2, <1>3, <1>4, <1>5, <1>6, <1>7, <1>8, <1>9, <1>10, <1>11,
     <1>12, <1>13, <1>14 DEF Next

(* The account of the failures. *)
LEMMA BlamedStep == IInv /\ [Next]_vars => Blamed'
<1> SUFFICES ASSUME IInv, [Next]_vars PROVE Blamed'
  OBVIOUS
<1> USE VersionsAreReleases, PolicyBounds DEF TypeOK, States, Releases, None, Outcomes, Empty, IInv, Sound, InStep,
    Free, Blamed, Counts, Ailing
<1>1. CASE Start
  BY <1>1 DEF Start, policy
<1>2. CASE Stop
  BY <1>2 DEF Stop, policy
<1>3. CASE Save
  BY <1>3 DEF Save, Paused, Kept, policy
<1>4. CASE Observe
  <2>1. CASE Heard = "completed" /\ RecordSuccess
    BY <1>4, <2>1 DEF Observe, RecordSuccess, Remember, policy
  <2>2. CASE Heard = "failed" /\ RecordFailure(memory.pending)
    BY <1>4, <2>2 DEF Observe, Heard, RecordFailure, BlockedAt, Remember,
       policy
  <2>3. CASE Heard = "rollbackFailed" /\ RecordRollbackFailure(memory.pending)
    BY <1>4, <2>3 DEF Observe, RecordRollbackFailure, Remember, policy
  <2>4. CASE RecordFailedLook
    BY <1>4, <2>4 DEF Observe, RecordFailedLook, Remember, policy
  <2> QED
    BY <1>4, <2>1, <2>2, <2>3, <2>4 DEF Observe
<1>5. CASE BeginCheck
  BY <1>5 DEF BeginCheck, policy
<1>6. CASE NothingOffered
  <2>1. CASE RecordSuccess
    BY <1>6, <2>1 DEF NothingOffered, InProgress, RecordSuccess, Remember,
       policy
  <2>2. CASE RecordFailedLook
    BY <1>6, <2>2 DEF NothingOffered, InProgress, RecordFailedLook,
       Remember, policy
  <2> QED
    BY <1>6, <2>1, <2>2 DEF NothingOffered
<1>7. ASSUME NEW v \in Versions, Offered(v) PROVE Blamed'
  <2>1. CASE memory.blocked = v
    BY <1>7, <2>1 DEF Offered, IsNew, policy
  <2>2. CASE memory.blocked # v /\ IsNew(v)
    BY <1>7, <2>2, OfferedNew DEF IsNew
  <2>3. CASE memory.blocked # v /\ ~IsNew(v)
    BY <1>7, <2>3 DEF Offered, IsNew, Remember, policy
  <2> QED
    BY <1>7, <2>1, <2>2, <2>3 DEF Offered, IsNew
<1>8. CASE TryFails
  BY <1>8 DEF TryFails, Failed, Candidate, RecordSuccess, RecordFailure,
       RecordFailedLook, RecordRollbackFailure, BlockedAt, Remember, policy
<1>9. CASE Deferred
  BY <1>9 DEF Deferred, Candidate, policy
<1>10. CASE HandOver
  BY <1>10 DEF HandOver, Candidate, policy
<1>11. CASE NoteHandOver
  BY <1>11 DEF NoteHandOver, Candidate, Remember, policy
<1>12. CASE UpdaterEnds
  BY <1>12 DEF UpdaterEnds, Failed, Outcomes, policy
<1>13. CASE Operator
  BY <1>13 DEF Operator, policy
<1>14. CASE UNCHANGED vars
  BY <1>14 DEF vars, policy
<1> QED
  BY <1>1, <1>2, <1>3, <1>4, <1>5, <1>6, <1>7, <1>8, <1>9, <1>10, <1>11,
     <1>12, <1>13, <1>14 DEF Next

-----------------------------------------------------------------------------
(* runOnce, its saves and its restarts keep the invariant.                 *)
THEOREM Invariance == Spec => []IInv
<1>1. IInv /\ [Next]_vars => IInv'
  BY TypeStep, SoundStep, InStepStep, BlamedStep DEF IInv
<1> QED
  BY InitIInv, <1>1, PTL DEF Spec

(* What the worker has in memory and in its file are states of a policy.   *)
THEOREM PolicyTypes == Spec => []TypeOK
<1>1. IInv => TypeOK
  BY DEF IInv
<1> QED
  BY Invariance, <1>1, PTL

(* A release is not tried while the file says that it is blocked.          *)
THEOREM BlocksAreKept == Spec => []BlockedIsNotTried
<1>1. IInv => BlockedIsNotTried
  <2> SUFFICES ASSUME IInv, at \in {"install", "accepted"}
               PROVE  disk.blocked # memory.failed
    BY DEF BlockedIsNotTried, Candidate
  <2>1. CASE usable
    BY <2>1 DEF IInv, InStep, None
  <2>2. CASE ~usable
    BY <2>2 DEF IInv, InStep, Sound, None
  <2> QED
    BY <2>1, <2>2
<1> QED
  BY Invariance, <1>1, PTL

(* A release is blocked for failures of its own, each counted once.        *)
THEOREM NoReleaseIsBlockedForLess == Spec => []BlockedForItsFailures
<1>1. IInv => BlockedForItsFailures
  BY VersionsAreReleases
  DEF IInv, BlockedForItsFailures, Blamed, Counts, Sound, None
<1> QED
  BY Invariance, <1>1, PTL

(* Nothing is tried while an outcome is due or the installation is broken. *)
THEOREM OutcomesComeFirst == Spec => []OneOutcomeAtATime
<1>1. IInv => OneOutcomeAtATime
  BY DEF IInv, OneOutcomeAtATime, InStep, Free
<1> QED
  BY Invariance, <1>1, PTL
=============================================================================
