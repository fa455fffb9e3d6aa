------------------------- MODULE PrintVerdictProofs -------------------------
(***************************************************************************)
(* Proofs about PrintVerdict for every number of sends, copies, jobs and   *)
(* foreign documents.                                                      *)
(*                                                                         *)
(* Nothing that came out of the printer goes back in, and a copy enters    *)
(* Windows once (Entered).  So what the baseline must contain when it is   *)
(* complete (Covered) can be said of the moment at which the send began,   *)
(* and, the lock making sends follow one another (Alone), of every         *)
(* confirmation given before.                                              *)
(***************************************************************************)
EXTENDS PrintVerdict, TLAPS, FiniteSetTheorems

Settled == {"paper", "aborted", "deleted"}

Past == {"emitting", "watching", "confirming"}

Step(s) == Refuse(s) \/ Begin(s) \/ Proceed(s)

(* The printer is locked by one send. *)
Alone == \A s, t \in Sends : pc[s] \in Locked /\ pc[t] \in Locked => s = t

(* The copies that were not submitted are nowhere. *)
Unsent(s) ==
  /\ pc[s] = "waiting" => ev[s] = Blank
  /\ pc[s] \in {"begun", "listed"} => ev[s].sent = 0
  /\ pc[s] # "answered" => verdict[s] = "none"
  /\ pc[s] # "answered" =>
       \A i \in 1 .. CopiesOf[s] : i > ev[s].sent => place[<<s, i>>] = "none"

(* The jobs seen are new, and bear the name of the send. *)
Seen(s) ==
  /\ ev[s].seen \subseteq Named(s) \ ev[s].known
  /\ pc[s] \in {"begun", "listed"} => ev[s].seen = {}

(* What the baseline covers. *)
Covered(s) ==
  /\ pc[s] = "begun" => ev[s].arrived = {}
  /\ pc[s] \in {"begun", "listed"} => ~ev[s].ipp
  /\ pc[s] = "listed" => ev[s].arrived \subseteq ev[s].known \union (Completed \intersect Named(s))
  /\ pc[s] \in Past => ev[s].arrived \subseteq ev[s].known

(* A confirmation is of pages; a baseline contains all given before. *)
Credited(s) ==
  /\ verdict[s] # "counted"
  /\ verdict[s] = "confirmed" => Cardinality(credit[s]) = CopiesOf[s]
  /\ \A d \in credit[s] : d \in Named(s) /\ place[d] = "paper"
  /\ pc[s] \in Past /\ ev[s].ipp =>
       \A t \in Sends : credit[t] \intersect Named(s) \subseteq ev[s].known

(* What the queue is believed to show, it shows. *)
Watched(s) ==
  /\ pc[s] \in Locked \ {"confirming"} => ev[s].dirty = (ev[s].rows # {})
  /\ pc[s] = "confirming" /\ ~ev[s].ipp /\ ev[s].left /\ ~ev[s].rivals /\ ~ev[s].dirty =>
       \A d \in Own(s) : place[d] # "queue"

(* How a step moves documents: nothing comes back, and of those that sends *)
(* submit only the next copy of the one that submits enters Windows.       *)
NoReturn ==
  \A d \in Docs :
    /\ place[d] \in Settled => place'[d] = place[d]
    /\ place'[d] = "queue" => place[d] \in {"none", "helper", "queue"}

StillNowhere(s) ==
  \A d \in Own(s) :
    /\ place[d] = "none" => place'[d] = "none"
    /\ place[d] # "helper" => place'[d] # "helper"

(* What the answers say of the copies; only where the submission broke may *)
(* a helper still have one.                                                *)
Told(s) ==
  /\ verdict[s] # "unverified" => \A d \in Own(s) : place[d] # "helper"
  /\ verdict[s] = "failed" => \A d \in Own(s) : place[d] = "none"
  /\ verdict[s] = "delivered" => \A d \in Own(s) : place[d] # "queue"

Sound(s) == Unsent(s) /\ Seen(s) /\ Covered(s) /\ Credited(s) /\ Watched(s) /\ Told(s)

IInv ==
  /\ TypeOK
  /\ Alone
  /\ NoPageProvesTwice
  /\ \A s \in Sends : Sound(s)

-----------------------------------------------------------------------------
(* The documents of a send. *)
LEMMA OwnDocuments ==
  ASSUME NEW s \in Sends
  PROVE  /\ Own(s) \subseteq Docs
         /\ \A t \in Sends : t # s => Own(s) \intersect Own(t) = {}
         /\ \A i \in 1 .. CopiesOf[s] : <<s, i>> \in Own(s)
         /\ \A d \in Own(s) : d \notin Aliens /\ \E i \in 1 .. CopiesOf[s] : d = <<s, i>>
         /\ Named(s) \subseteq Docs
<1>1. Own(s) \subseteq Docs
  BY DEF Docs
<1>2. \A t \in Sends : t # s => Own(s) \intersect Own(t) = {}
  BY DEF Own
<1>3. \A i \in 1 .. CopiesOf[s] : <<s, i>> \in Own(s)
  BY DEF Own
<1>4. \A d \in Own(s) : \E i \in 1 .. CopiesOf[s] : d = <<s, i>>
  BY DEF Own
<1>5. \A d \in Own(s) : d \notin Aliens
  BY AliensAreOthers
<1>6. Named(s) \subseteq Docs
  BY SomeSendsAreHtml DEF Named, Docs
<1> QED BY <1>1, <1>2, <1>3, <1>4, <1>5, <1>6

LEMMA NextCopy ==
  ASSUME NEW s \in Sends, TypeOK, ev[s].sent < CopiesOf[s]
  PROVE  /\ Due(s) \in Own(s) /\ Due(s) \in Docs
         /\ ev[s].sent + 1 \in 1 .. CopiesOf[s]
<1>1. CopiesOf[s] \in Nat /\ ev[s].sent \in Nat
  BY CopiesArePositive DEF TypeOK, Evidence
<1>2. ev[s].sent + 1 \in 1 .. CopiesOf[s]
  BY <1>1
<1> QED BY <1>2, OwnDocuments DEF Due

LEMMA PagesAreCounted == Pages \in Nat
<1> DEFINE D == {d \in Docs : place[d] = "paper"}
<1>1. IsFiniteSet(D)
  BY DocsAreFinite, FS_Subset
<1>2. Cardinality(D) \in Nat
  BY <1>1, FS_CardinalityType
<1> QED BY <1>2 DEF Pages

-----------------------------------------------------------------------------
(* Each send changes what is its own. *)
Frame(s) ==
  \A t \in Sends : t # s =>
    pc'[t] = pc[t] /\ ev'[t] = ev[t] /\ verdict'[t] = verdict[t] /\ credit'[t] = credit[t]

(* Answering leaves everything well typed. *)
LEMMA AnswerTyped ==
  ASSUME NEW s \in Sends, TypeOK, NEW v \in Verdicts, NEW c \in SUBSET Docs,
         Answer(s, v, c), place' \in [Docs -> Places]
  PROVE  TypeOK' /\ Frame(s) /\ pc'[s] = "answered" /\ ev'[s] = Blank
         /\ verdict'[s] = v /\ credit'[s] = c
<1>1. Blank \in Evidence
  BY DEF Blank, Evidence
<1>2. pc' \in [Sends -> {"waiting", "answered"} \union Locked] /\ pc'[s] = "answered"
  BY DEF Answer, TypeOK
<1>3. ev' \in [Sends -> Evidence] /\ ev'[s] = Blank
  BY <1>1 DEF Answer, TypeOK
<1>4. \A t \in Sends : ev'[t].sent <= CopiesOf[t]
  <2> SUFFICES ASSUME NEW t \in Sends PROVE ev'[t].sent <= CopiesOf[t]
    OBVIOUS
  <2>1. CASE t = s
    BY <2>1, <1>3, CopiesArePositive DEF Blank
  <2>2. CASE t # s
    BY <2>2 DEF Answer, TypeOK
  <2> QED BY <2>1, <2>2
<1>5. verdict' \in [Sends -> Verdicts] /\ verdict'[s] = v
  BY DEF Answer, TypeOK
<1>6. credit' \in [Sends -> SUBSET Docs] /\ credit'[s] = c
  BY DEF Answer, TypeOK
<1>7. Frame(s)
  BY DEF Answer, TypeOK, Frame
<1> QED BY <1>2, <1>3, <1>4, <1>5, <1>6, <1>7 DEF TypeOK

(* So does going on with new evidence. *)
LEMMA GotoTyped ==
  ASSUME NEW s \in Sends, TypeOK, NEW l \in Locked, NEW e \in Evidence, e.sent <= CopiesOf[s],
         Goto(s, l) \/ (l = pc[s] /\ UNCHANGED <<pc, verdict, credit>>),
         ev' = [ev EXCEPT ![s] = e], place' \in [Docs -> Places]
  PROVE  TypeOK' /\ Frame(s) /\ pc'[s] = l /\ ev'[s] = e
         /\ verdict'[s] = verdict[s] /\ credit'[s] = credit[s]
<1>1. verdict' = verdict /\ credit' = credit
  BY DEF Goto
<1>2. pc' \in [Sends -> {"waiting", "answered"} \union Locked] /\ pc'[s] = l
  BY DEF Goto, TypeOK
<1>3. ev' \in [Sends -> Evidence] /\ ev'[s] = e
  BY DEF TypeOK
<1>4. \A t \in Sends : ev'[t].sent <= CopiesOf[t]
  BY <1>3 DEF TypeOK
<1>5. Frame(s)
  BY <1>1 DEF Goto, TypeOK, Frame
<1> QED BY <1>1, <1>2, <1>3, <1>4, <1>5 DEF TypeOK

-----------------------------------------------------------------------------
Submits(s) ==
  /\ pc[s] = "emitting" /\ ev[s].sent < CopiesOf[s]
  /\ \E p \in {"queue", "helper"} : place' = [place EXCEPT ![Due(s)] = p]

(* A send moves no document but its next copy, which was nowhere. *)
LEMMA SubmissionMoves ==
  ASSUME NEW s \in Sends, IInv, UNCHANGED place \/ Submits(s)
  PROVE  /\ place' \in [Docs -> Places]
         /\ NoReturn
         /\ \A t \in Sends : t # s => StillNowhere(t)
<1>1. CASE UNCHANGED place
  BY <1>1 DEF IInv, TypeOK, NoReturn, StillNowhere
<1>2. CASE Submits(s)
  <2>1. Due(s) \in Own(s) /\ Due(s) \in Docs
    BY <1>2, NextCopy DEF Submits, IInv
  <2>2. place[Due(s)] = "none"
    <3>1. ev[s].sent \in Nat /\ CopiesOf[s] \in Nat
      BY CopiesArePositive DEF IInv, TypeOK, Evidence
    <3>2. ev[s].sent + 1 \in 1 .. CopiesOf[s] /\ ev[s].sent + 1 > ev[s].sent
      BY <1>2, <3>1 DEF Submits
    <3>3. Unsent(s)
      BY DEF IInv, Sound
    <3>4. pc[s] # "answered"
      BY <1>2 DEF Submits
    <3> QED BY <3>2, <3>3, <3>4 DEF Unsent, Due
  <2>3. place' \in [Docs -> Places]
    BY <1>2 DEF Submits, IInv, TypeOK, Places
  <2>4. \A d \in Docs : d # Due(s) => place'[d] = place[d]
    BY <1>2 DEF Submits, IInv, TypeOK
  <2>5. NoReturn
    BY <2>2, <2>4 DEF NoReturn, Settled
  <2>6. ASSUME NEW t \in Sends, t # s PROVE StillNowhere(t)
    <3>1. Own(t) \subseteq Docs /\ Due(s) \notin Own(t)
      BY <2>1, <2>6, OwnDocuments
    <3> QED BY <3>1, <2>4 DEF StillNowhere
  <2> QED BY <2>3, <2>5, <2>6
<1> QED BY <1>1, <1>2

(* What is settled stays in the printer's list. *)
LEMMA CompletedGrows ==
  ASSUME NoReturn
  PROVE  Completed \subseteq Completed'
  BY DEF NoReturn, Completed, Settled

(* The sends that a step is not about. *)
LEMMA BystanderSound ==
  ASSUME NEW t \in Sends, IInv, NoReturn, StillNowhere(t),
         pc'[t] = pc[t], ev'[t] = ev[t], verdict'[t] = verdict[t], credit'[t] = credit[t],
         \A u \in Sends : \/ credit'[u] = credit[u] \/ credit'[u] = {}
                          \/ u # t /\ pc[u] \in Locked
  PROVE  Sound(t)'
<1>1. Sound(t)
  BY DEF IInv
<1>2. /\ \A d \in Own(t) : place[d] \notin {"queue", "helper"} => place'[d] # "queue"
      /\ \A d \in Own(t) : place[d] # "helper" => place'[d] # "helper"
  BY OwnDocuments DEF NoReturn, StillNowhere
<1>3. Unsent(t)'
  <2>1. \A i \in 1 .. CopiesOf[t] : place[<<t, i>>] = "none" => place'[<<t, i>>] = "none"
    BY OwnDocuments DEF StillNowhere
  <2> QED BY <1>1, <2>1 DEF Sound, Unsent
<1>4. Seen(t)'
  BY <1>1 DEF Sound, Seen
<1>5. Covered(t)'
  BY <1>1, CompletedGrows DEF Sound, Covered
<1>6. Credited(t)'
  <2>1. \A d \in credit[t] : d \in Named(t) /\ place'[d] = "paper"
    <3>1. \A d \in credit[t] : d \in Named(t) /\ place[d] = "paper"
      BY <1>1 DEF Sound, Credited
    <3>2. credit[t] \subseteq Docs
      BY DEF IInv, TypeOK
    <3> QED BY <3>1, <3>2 DEF NoReturn, Settled
  <2>2. ASSUME pc[t] \in Past, ev[t].ipp, NEW u \in Sends
        PROVE  credit'[u] \intersect Named(t) \subseteq ev[t].known
    <3>1. CASE u # t /\ pc[u] \in Locked
      <4>1. pc[t] \in Locked
        BY <2>2 DEF Past, Locked
      <4> QED BY <3>1, <4>1 DEF IInv, Alone
    <3>2. CASE credit'[u] = credit[u]
      BY <1>1, <2>2, <3>2 DEF Sound, Credited
    <3>3. CASE credit'[u] = {}
      BY <3>3
    <3> QED BY <3>1, <3>2, <3>3
  <2>3. pc'[t] \in Past /\ ev'[t].ipp =>
          \A u \in Sends : credit'[u] \intersect Named(t) \subseteq ev'[t].known
    BY <2>2
  <2>4. verdict'[t] # "counted" /\ (verdict'[t] = "confirmed" => Cardinality(credit'[t]) = CopiesOf[t])
    BY <1>1 DEF Sound, Credited
  <2> QED BY <2>1, <2>3, <2>4 DEF Credited
<1>7. Watched(t)'
  <2>1. pc[t] = "confirming" => \A d \in Own(t) : place[d] # "helper"
    BY <1>1 DEF Sound, Unsent, Told
  <2> QED BY <1>1, <1>2, <2>1 DEF Sound, Watched
<1>8. Told(t)'
  BY <1>1, <1>2 DEF Sound, Told, StillNowhere
<1> QED BY <1>3, <1>4, <1>5, <1>6, <1>7, <1>8 DEF Sound

(* What an answer must be for the invariant to hold. *)
LEMMA AnswerKeepsIInv ==
  ASSUME NEW s \in Sends, IInv, pc[s] # "answered", UNCHANGED place \/ Submits(s),
         NEW v \in Verdicts \ {"counted"}, NEW c \in SUBSET Docs, Answer(s, v, c),
         c # {} => pc[s] \in Locked,
         v = "confirmed" => Cardinality(c) = CopiesOf[s],
         \A d \in c : d \in Named(s) /\ place[d] = "paper",
         \A t \in Sends : t # s => c \intersect credit[t] = {},
         v # "unverified" => UNCHANGED place,
         v = "failed" => \A d \in Own(s) : place[d] = "none",
         v = "delivered" => \A d \in Own(s) : place[d] # "queue"
  PROVE  IInv'
<1>1. /\ place' \in [Docs -> Places] /\ NoReturn
      /\ \A t \in Sends : t # s => StillNowhere(t)
  BY SubmissionMoves
<1>2. /\ TypeOK' /\ Frame(s) /\ pc'[s] = "answered" /\ ev'[s] = Blank
      /\ verdict'[s] = v /\ credit'[s] = c
  BY <1>1, AnswerTyped DEF IInv
<1>3. Alone'
  BY <1>2 DEF IInv, Alone, Frame, Locked
<1>4. NoPageProvesTwice'
  <2> SUFFICES ASSUME NEW t \in Sends, NEW u \in Sends, t # u
               PROVE  credit'[t] \intersect credit'[u] = {}
    BY DEF NoPageProvesTwice
  <2>1. CASE t = s
    BY <2>1, <1>2 DEF Frame
  <2>2. CASE u = s
    BY <2>2, <1>2 DEF Frame
  <2>3. CASE t # s /\ u # s
    BY <2>3, <1>2 DEF Frame, IInv, NoPageProvesTwice
  <2> QED BY <2>1, <2>2, <2>3
<1>5. ASSUME NEW t \in Sends, t # s PROVE Sound(t)'
  <2>1. \A u \in Sends : \/ credit'[u] = credit[u] \/ credit'[u] = {}
                         \/ u # t /\ pc[u] \in Locked
    BY <1>2, <1>5 DEF Frame
  <2>2. pc'[t] = pc[t] /\ ev'[t] = ev[t] /\ verdict'[t] = verdict[t] /\ credit'[t] = credit[t]
    BY <1>2, <1>5 DEF Frame
  <2> QED BY <1>1, <1>5, <2>1, <2>2, BystanderSound
<1>6. Sound(s)'
  <2>1. Unsent(s)' /\ Covered(s)' /\ Watched(s)'
    BY <1>2 DEF Unsent, Covered, Watched, Past, Locked
  <2>2. Seen(s)'
    BY <1>2 DEF Seen, Blank
  <2>3. Credited(s)'
    <3>1. \A d \in c : d \in Named(s) /\ place'[d] = "paper"
      BY <1>1 DEF NoReturn, Settled
    <3> QED BY <3>1, <1>2 DEF Credited, Past
  <2>4. Told(s)'
    <3>1. \A d \in Own(s) : place[d] # "helper"
      BY DEF IInv, Sound, Unsent, Told
    <3> QED BY <3>1, <1>2 DEF Told
  <2> QED BY <2>1, <2>2, <2>3, <2>4 DEF Sound
<1> QED BY <1>2, <1>3, <1>4, <1>5, <1>6 DEF IInv

(* Going on leaves to show what the send itself now knows. *)
LEMMA GoKeepsIInv ==
  ASSUME NEW s \in Sends, IInv, pc[s] # "answered", UNCHANGED place \/ Submits(s),
         NEW l \in Locked, NEW e \in Evidence, e.sent <= CopiesOf[s],
         Goto(s, l) \/ (l = pc[s] /\ UNCHANGED <<pc, verdict, credit>>),
         ev' = [ev EXCEPT ![s] = e],
         pc[s] \in Locked \/ \A t \in Sends : pc[t] \notin Locked
  PROVE  /\ pc'[s] = l /\ ev'[s] = e /\ verdict'[s] = verdict[s] /\ credit' = credit
         /\ verdict[s] = "none"
         /\ Sound(s)' => IInv'
<1>1. /\ place' \in [Docs -> Places] /\ NoReturn
      /\ \A t \in Sends : t # s => StillNowhere(t)
  BY SubmissionMoves
<1>2. /\ TypeOK' /\ Frame(s) /\ pc'[s] = l /\ ev'[s] = e
      /\ verdict'[s] = verdict[s] /\ credit'[s] = credit[s]
  BY <1>1, GotoTyped DEF IInv
<1>3. credit' = credit
  BY DEF Goto
<1>4. Alone'
  BY <1>2 DEF IInv, Alone, Frame
<1>5. NoPageProvesTwice'
  BY <1>3 DEF IInv, NoPageProvesTwice
<1>6. ASSUME NEW t \in Sends, t # s PROVE Sound(t)'
  <2>1. pc'[t] = pc[t] /\ ev'[t] = ev[t] /\ verdict'[t] = verdict[t] /\ credit'[t] = credit[t]
    BY <1>2, <1>6 DEF Frame
  <2> QED BY <1>1, <1>3, <1>6, <2>1, BystanderSound
<1>7. verdict[s] = "none"
  BY DEF IInv, Sound, Unsent
<1> QED BY <1>2, <1>3, <1>4, <1>5, <1>6, <1>7 DEF IInv

-----------------------------------------------------------------------------
(* Whatever happens outside. *)
LEMMA WorldKeepsIInv ==
  ASSUME IInv, World
  PROVE  IInv'
<1>1. PICK d \in Docs, from \in Places \ Settled, to \in Places :
        /\ Move(d, from, to)
        /\ to = "queue" => from \in {"none", "helper"}
        /\ from = "none" => d \in Aliens
        /\ to # "helper"
  <2>1. Listable \subseteq Docs /\ Aliens \subseteq Docs
    BY SomeSendsAreHtml DEF Listable, Docs
  <2> QED BY <2>1 DEF World, Places, Settled
<1>2. place' \in [Docs -> Places]
  BY <1>1 DEF Move, IInv, TypeOK
<1>3. place[d] = from /\ place'[d] = to /\ \A x \in Docs : x # d => place'[x] = place[x]
  BY <1>1 DEF Move, IInv, TypeOK
<1>4. NoReturn
  BY <1>1, <1>3 DEF NoReturn
<1>5. \A t \in Sends : StillNowhere(t)
  BY <1>1, <1>3, OwnDocuments DEF StillNowhere
<1>6. UNCHANGED <<pc, ev, verdict, credit>>
  BY DEF World
<1>7. \A t \in Sends : Sound(t)'
  BY <1>4, <1>5, <1>6, BystanderSound
<1> QED BY <1>2, <1>6, <1>7 DEF IInv, TypeOK, Alone, NoPageProvesTwice

LEMMA RefuseKeepsIInv ==
  ASSUME NEW s \in Sends, IInv, Refuse(s)
  PROVE  IInv'
<1>1. Unsent(s) /\ pc[s] = "waiting"
  BY DEF IInv, Sound, Refuse
<1>2. \A d \in Own(s) : place[d] = "none"
  <2>1. ev[s].sent = 0
    BY <1>1 DEF Unsent, Blank
  <2>2. \A i \in 1 .. CopiesOf[s] : i > 0
    BY CopiesArePositive
  <2> QED BY <1>1, <2>1, <2>2, OwnDocuments DEF Unsent
<1>3. "failed" \in Verdicts \ {"counted"} /\ {} \in SUBSET Docs
  BY DEF Verdicts
<1> QED BY <1>1, <1>2, <1>3, AnswerKeepsIInv DEF Refuse

LEMMA BeginKeepsIInv ==
  ASSUME NEW s \in Sends, IInv, Begin(s)
  PROVE  IInv'
<1>1. PICK rows \in {InWindows, {}} : Snapshot(s, rows)
  BY DEF Begin
<1> DEFINE n == IF s \in Html THEN 0 ELSE Pages
           l == IF s \in Html THEN "begun" ELSE "emitting"
           e == [ev[s] EXCEPT !.rows = rows, !.dirty = (rows # {}), !.pages = n]
<1>2. n \in Nat /\ rows \in SUBSET Docs /\ (rows # {}) \in BOOLEAN
  BY PagesAreCounted DEF InWindows
<1>3. Unsent(s) /\ Seen(s) /\ Credited(s) /\ pc[s] = "waiting" /\ ev[s] = Blank
  BY DEF IInv, Sound, Begin, Unsent
<1> HIDE DEF n
<1>4. e = [Blank EXCEPT !.rows = rows, !.dirty = (rows # {}), !.pages = n]
  BY <1>3
<1>5. ev' = [ev EXCEPT ![s] = e]
  BY <1>1 DEF Snapshot, n
<1> HIDE DEF e
<1>6. /\ e.rows = rows /\ e.dirty = (rows # {}) /\ e.ipp = FALSE /\ e.known = {} /\ e.sent = 0
      /\ e.seen = {} /\ e.arrived = {} /\ e \in Evidence
  BY <1>2, <1>4 DEF Blank, Evidence
<1>7. e.sent <= CopiesOf[s]
  BY <1>6, CopiesArePositive
<1>8. l \in Locked /\ l \in {"begun", "emitting"}
  BY DEF Locked
<1>9. UNCHANGED place /\ Goto(s, l) /\ \A t \in Sends : pc[t] \notin Locked
  BY DEF Begin
<1> HIDE DEF l
<1>10. /\ pc'[s] = l /\ ev'[s] = e /\ verdict'[s] = "none" /\ credit' = credit
       /\ Sound(s)' => IInv'
  BY <1>3, <1>5, <1>6, <1>7, <1>8, <1>9, GoKeepsIInv DEF Begin
<1>11. Sound(s)'
  <2>1. Unsent(s)'
    BY <1>3, <1>6, <1>8, <1>9, <1>10 DEF Unsent, Blank
  <2>2. Seen(s)' /\ Covered(s)' /\ Watched(s)'
    BY <1>6, <1>8, <1>10 DEF Seen, Covered, Watched, Past
  <2>3. Credited(s)'
    BY <1>3, <1>6, <1>9, <1>10 DEF Credited
  <2>4. \A d \in Own(s) : place[d] # "helper"
    BY <1>3 DEF IInv, Sound, Unsent, Told
  <2>5. Told(s)'
    BY <2>4, <1>9, <1>10 DEF Told
  <2> QED BY <2>1, <2>2, <2>3, <2>5 DEF Sound
<1> QED BY <1>10, <1>11

(* What evidence e must be at l for the invariant to hold. *)
Fits(s, l, e) ==
  /\ l = "listed" => e.sent = 0 /\ e.seen = {} /\ ~e.ipp
  /\ e.seen \subseteq Named(s) \ e.known
  /\ l = "listed" => e.arrived \subseteq e.known \union (Completed \intersect Named(s))
  /\ l \in Past => e.arrived \subseteq e.known
  /\ l \in Past /\ e.ipp => \A t \in Sends : credit[t] \intersect Named(s) \subseteq e.known
  /\ l # "confirming" => e.dirty = (e.rows # {})
  /\ l = "confirming" /\ ~e.ipp /\ e.left /\ ~e.rivals /\ ~e.dirty =>
       \A d \in Own(s) : place[d] # "queue"

(* The steps of a send that submit nothing and do not answer. *)
LEMMA LearnKeepsIInv ==
  ASSUME NEW s \in Sends, IInv, UNCHANGED place, pc[s] \in Locked,
         NEW l \in Locked \ {"begun"}, NEW e \in Evidence, e.sent = ev[s].sent,
         Goto(s, l) \/ (l = pc[s] /\ UNCHANGED <<pc, verdict, credit>>),
         ev' = [ev EXCEPT ![s] = e], Fits(s, l, e)
  PROVE  IInv'
<1>1. pc[s] # "answered" /\ Unsent(s) /\ Credited(s)
  BY DEF Locked, IInv, Sound
<1>2. l \in Locked /\ l \notin {"begun", "waiting", "answered"} /\ e.sent <= CopiesOf[s]
  BY DEF Locked, IInv, TypeOK
<1>3. /\ pc'[s] = l /\ ev'[s] = e /\ verdict'[s] = verdict[s] /\ credit' = credit
      /\ verdict[s] = "none"
      /\ Sound(s)' => IInv'
  BY <1>1, <1>2, GoKeepsIInv
<1>4. Unsent(s)'
  BY <1>1, <1>2, <1>3 DEF Unsent, Fits
<1>5. Seen(s)'
  BY <1>2, <1>3 DEF Seen, Fits
<1>6. Covered(s)'
  BY <1>2, <1>3 DEF Covered, Completed, Fits
<1>7. Credited(s)'
  BY <1>1, <1>3 DEF Credited, Fits
<1>8. Watched(s)'
  BY <1>3 DEF Watched, Fits
<1>9. Told(s)'
  BY <1>3 DEF IInv, Sound, Told
<1> QED BY <1>3, <1>4, <1>5, <1>6, <1>7, <1>8, <1>9 DEF Sound

(* The two halves of the baseline. *)
LEMMA BaselineKeepsIInv ==
  ASSUME NEW s \in Sends, IInv, ReadActive(s) \/ ReadCompleted(s) \/ NoBaseline(s)
  PROVE  IInv'
<1>1. /\ pc[s] \in {"begun", "listed"} /\ UNCHANGED place /\ ev[s] \in Evidence
      /\ ev \in [Sends -> Evidence]
      /\ Unsent(s) /\ Seen(s) /\ Covered(s) /\ Credited(s) /\ Watched(s)
  BY DEF ReadActive, ReadCompleted, NoBaseline, IInv, Sound, TypeOK
<1>2. /\ pc[s] \in Locked /\ ev[s].sent = 0 /\ ev[s].seen = {}
      /\ ev[s].dirty = (ev[s].rows # {}) /\ ~ev[s].ipp
  BY <1>1 DEF Locked, Unsent, Seen, Watched, Covered
<1>3. Active \subseteq Docs /\ Completed \subseteq Docs
  BY DEF Active, Completed
<1>4. CASE ReadActive(s)
  <2> DEFINE e == [ev[s] EXCEPT !.known = Active \intersect Named(s),
                                !.arrived = (Active \union Completed) \intersect Named(s)]
  <2>1. /\ e \in Evidence /\ e.sent = ev[s].sent /\ e.seen = ev[s].seen
        /\ e.known = Active \intersect Named(s)
        /\ e.arrived = (Active \union Completed) \intersect Named(s) /\ e.ipp = ev[s].ipp
        /\ e.dirty = ev[s].dirty /\ e.rows = ev[s].rows
    BY <1>1, <1>3 DEF Evidence
  <2>2. Goto(s, "listed") /\ ev' = [ev EXCEPT ![s] = e]
    BY <1>4 DEF ReadActive
  <2> HIDE DEF e
  <2>3. "listed" \in Locked \ {"begun"} /\ "listed" \notin Past
    BY DEF Locked, Past
  <2>6. Fits(s, "listed", e)
    BY <1>1, <1>2, <2>1 DEF Fits, Past
  <2> QED BY <1>1, <1>2, <2>1, <2>2, <2>3, <2>6, LearnKeepsIInv
<1>5. CASE ReadCompleted(s)
  <2> DEFINE e == [ev[s] EXCEPT !.ipp = TRUE,
                                !.known = @ \union (Completed \intersect Named(s))]
  <2>1. /\ e \in Evidence /\ e.sent = ev[s].sent /\ e.seen = ev[s].seen
        /\ e.known = ev[s].known \union (Completed \intersect Named(s))
        /\ e.arrived = ev[s].arrived /\ e.dirty = ev[s].dirty /\ e.rows = ev[s].rows
    BY <1>1, <1>3 DEF Evidence
  <2>2. Goto(s, "emitting") /\ ev' = [ev EXCEPT ![s] = e] /\ pc[s] = "listed"
    BY <1>5 DEF ReadCompleted
  <2> HIDE DEF e
  <2>3. "emitting" \in Locked \ {"begun"}
    BY DEF Locked
  <2>4. e.arrived \subseteq e.known
    BY <1>1, <2>1, <2>2 DEF Covered
  <2>5. ASSUME NEW t \in Sends PROVE credit[t] \intersect Named(s) \subseteq e.known
    <3>1. credit[t] \subseteq Docs /\ \A d \in credit[t] : place[d] = "paper"
      BY DEF IInv, TypeOK, Sound, Credited
    <3>2. credit[t] \subseteq Completed
      BY <3>1 DEF Completed
    <3> QED BY <3>2, <2>1
  <2>6. Fits(s, "emitting", e)
    BY <1>1, <1>2, <2>1, <2>2, <2>3, <2>4, <2>5 DEF Fits, Past
  <2> QED BY <1>1, <1>2, <2>1, <2>2, <2>3, <2>6, LearnKeepsIInv
<1>6. CASE NoBaseline(s)
  <2> DEFINE e == [ev[s] EXCEPT !.known = {}, !.arrived = {}]
  <2>1. /\ e \in Evidence /\ e.sent = ev[s].sent /\ e.seen = ev[s].seen
        /\ e.known = {} /\ e.arrived = {} /\ e.ipp = ev[s].ipp
        /\ e.dirty = ev[s].dirty /\ e.rows = ev[s].rows
    BY <1>1 DEF Evidence
  <2>2. Goto(s, "emitting") /\ ev' = [ev EXCEPT ![s] = e]
    BY <1>6 DEF NoBaseline
  <2> HIDE DEF e
  <2>3. "emitting" \in Locked \ {"begun"}
    BY DEF Locked
  <2>6. Fits(s, "emitting", e)
    BY <1>1, <1>2, <2>1 DEF Fits, Past
  <2> QED BY <1>1, <1>2, <2>1, <2>2, <2>3, <2>6, LearnKeepsIInv
<1> QED BY <1>4, <1>5, <1>6

(* The copy that is submitted is the next one. *)
LEMMA EmitKeepsIInv ==
  ASSUME NEW s \in Sends, IInv, Emit(s)
  PROVE  IInv'
<1>1. PICK new \in Observable(s) :
        ev' = [ev EXCEPT ![s].sent = @ + 1, ![s].ids = @ \union new]
  BY DEF Emit
<1> DEFINE e == [ev[s] EXCEPT !.sent = @ + 1, !.ids = @ \union new]
<1>2. /\ ev[s] \in Evidence /\ ev[s].sent \in Nat /\ CopiesOf[s] \in Nat
      /\ pc[s] = "emitting" /\ pc[s] \in Locked /\ ev[s].sent < CopiesOf[s]
      /\ Submits(s)
  BY CopiesArePositive DEF IInv, TypeOK, Evidence, Emit, Submits, Locked
<1>3. new \in SUBSET Docs
  <2>1. Due(s) \in Docs
    BY <1>2, NextCopy DEF IInv
  <2> QED BY <2>1 DEF Observable, InWindows
<1>4. /\ e \in Evidence /\ e.sent = ev[s].sent + 1 /\ e.sent <= CopiesOf[s]
      /\ e.seen = ev[s].seen /\ e.known = ev[s].known /\ e.arrived = ev[s].arrived
      /\ e.ipp = ev[s].ipp /\ e.dirty = ev[s].dirty /\ e.rows = ev[s].rows
  <2>1. ev[s].sent + 1 \in Nat /\ ev[s].sent + 1 <= CopiesOf[s]
    BY <1>2
  <2>2. ev[s].ids \union new \in SUBSET Docs
    BY <1>2, <1>3 DEF Evidence
  <2>3. /\ e.sent = ev[s].sent + 1
        /\ e.seen = ev[s].seen /\ e.known = ev[s].known /\ e.arrived = ev[s].arrived
        /\ e.ipp = ev[s].ipp /\ e.dirty = ev[s].dirty /\ e.rows = ev[s].rows
    BY <1>2 DEF Evidence
  <2>4. e \in Evidence
    BY <1>2, <2>1, <2>2 DEF Evidence
  <2> QED BY <2>1, <2>3, <2>4
<1>5. ev' = [ev EXCEPT ![s] = e] /\ UNCHANGED <<pc, verdict, credit>>
  BY <1>1 DEF Emit
<1>6. Unsent(s) /\ Seen(s) /\ Covered(s) /\ Credited(s) /\ Watched(s)
  BY DEF IInv, Sound
<1> HIDE DEF e
<1>7. /\ pc'[s] = "emitting" /\ ev'[s] = e /\ verdict'[s] = "none" /\ credit' = credit
      /\ Sound(s)' => IInv'
  BY <1>2, <1>4, <1>5, GoKeepsIInv
<1>8. NoReturn
  BY <1>2, SubmissionMoves
<1>9. Unsent(s)'
  <2> SUFFICES ASSUME NEW i \in 1 .. CopiesOf[s], i > ev[s].sent + 1
               PROVE  place'[<<s, i>>] = "none"
    BY <1>4, <1>7 DEF Unsent
  <2>1. i > ev[s].sent /\ i # ev[s].sent + 1
    BY <1>2
  <2>2. place[<<s, i>>] = "none" /\ <<s, i>> # Due(s)
    BY <2>1, <1>2, <1>6 DEF Unsent, Due
  <2>3. <<s, i>> \in Docs
    BY OwnDocuments
  <2> QED BY <2>2, <2>3 DEF Emit, IInv, TypeOK
<1>10. Seen(s)' /\ Covered(s)' /\ Watched(s)'
  BY <1>2, <1>4, <1>6, <1>7 DEF Seen, Covered, Watched, Past, Locked
<1>11. Credited(s)'
  <2>1. credit[s] \subseteq Docs
    BY DEF IInv, TypeOK
  <2> QED BY <2>1, <1>2, <1>4, <1>6, <1>7, <1>8 DEF Credited, NoReturn, Settled
<1>12. Told(s)'
  <2>1. \A d \in Own(s) : place[d] # "helper"
    BY <1>2, <1>6 DEF IInv, Sound, Unsent, Told
  <2>2. \A d \in Own(s) : place'[d] \in {place[d], "queue"}
    BY OwnDocuments DEF Emit, IInv, TypeOK
  <2> QED BY <1>7, <2>1, <2>2 DEF Told
<1> QED BY <1>7, <1>9, <1>10, <1>11, <1>12 DEF Sound

LEMMA EmitFailsKeepsIInv ==
  ASSUME NEW s \in Sends, IInv, EmitRefused(s) \/ EmitBreaks(s)
  PROVE  IInv'
<1>1. pc[s] = "emitting" /\ pc[s] # "answered" /\ Unsent(s) /\ ev[s].sent < CopiesOf[s]
  BY DEF EmitRefused, EmitBreaks, IInv, Sound
<1>2. {} \in SUBSET Docs /\ {"failed", "unverified"} \subseteq Verdicts \ {"counted"}
  BY DEF Verdicts
<1>3. CASE EmitRefused(s)
  <2>1. ev[s].sent = 0 => \A d \in Own(s) : place[d] = "none"
    <3>1. \A i \in 1 .. CopiesOf[s] : i > 0
      BY CopiesArePositive
    <3> QED BY <1>1, <3>1, OwnDocuments DEF Unsent
  <2>2. CASE ev[s].sent = 0
    BY <1>1, <1>2, <1>3, <2>1, <2>2, AnswerKeepsIInv DEF EmitRefused
  <2>3. CASE ev[s].sent # 0
    BY <1>1, <1>2, <1>3, <2>3, AnswerKeepsIInv DEF EmitRefused
  <2> QED BY <2>2, <2>3
<1>4. CASE EmitBreaks(s)
  <2>1. UNCHANGED place \/ Submits(s)
    BY <1>4 DEF EmitBreaks, Submits
  <2> QED BY <1>1, <1>2, <1>4, <2>1, AnswerKeepsIInv DEF EmitBreaks
<1> QED BY <1>3, <1>4

(* What a capture adds bears the name of the send and is new. *)
LEMMA CaptureIsNew ==
  ASSUME NEW s \in Sends, IInv, NEW e \in {ev[s], Capture(s)}
  PROVE  /\ e \in Evidence /\ e.sent = ev[s].sent /\ e.known = ev[s].known
         /\ e.arrived = ev[s].arrived /\ e.ipp = ev[s].ipp /\ e.dirty = ev[s].dirty
         /\ e.rows = ev[s].rows /\ e.left = ev[s].left /\ e.rivals = ev[s].rivals
         /\ e.seen \subseteq Named(s) \ e.known
         /\ e.seen \subseteq Docs
<1>1. ev[s] \in Evidence /\ Seen(s)
  BY DEF IInv, TypeOK, Sound
<1>2. Reported(s) \subseteq Named(s) \ ev[s].known /\ Reported(s) \subseteq Docs
  BY OwnDocuments DEF Reported
<1>3. CASE e = ev[s]
  BY <1>1, <1>3 DEF Seen, Evidence
<1>4. CASE e = Capture(s)
  <2>1. /\ ev[s].seen \union Reported(s) \in SUBSET Docs
        /\ ev[s].done \union (Reported(s) \intersect Completed) \in SUBSET Docs
    BY <1>1, <1>2 DEF Evidence
  <2>2. e \in Evidence
    BY <1>1, <1>4, <2>1 DEF Capture, Evidence
  <2>3. e.seen = ev[s].seen \union Reported(s)
    BY <1>1, <1>4 DEF Capture, Evidence
  <2>4. /\ e.sent = ev[s].sent /\ e.known = ev[s].known
        /\ e.arrived = ev[s].arrived /\ e.ipp = ev[s].ipp /\ e.dirty = ev[s].dirty
        /\ e.rows = ev[s].rows /\ e.left = ev[s].left /\ e.rivals = ev[s].rivals
    BY <1>1, <1>4 DEF Capture, Evidence
  <2> QED BY <1>1, <1>2, <2>1, <2>2, <2>3, <2>4 DEF Seen
<1> QED BY <1>3, <1>4

(* Looking at the printer, between the copies or while it is waited for. *)
LEMMA LookKeepsIInv ==
  ASSUME NEW s \in Sends, IInv, NEW e \in {ev[s], Capture(s)},
         pc[s] \in {"emitting", "confirming"}, ev[s].ipp,
         ev' = [ev EXCEPT ![s] = e], UNCHANGED <<place, pc, verdict, credit>>
  PROVE  IInv'
<1>1. /\ e \in Evidence /\ e.sent = ev[s].sent /\ e.known = ev[s].known
      /\ e.arrived = ev[s].arrived /\ e.ipp = ev[s].ipp /\ e.dirty = ev[s].dirty
      /\ e.rows = ev[s].rows
      /\ e.seen \subseteq Named(s) \ e.known
  BY CaptureIsNew
<1>2. Covered(s) /\ Credited(s) /\ Watched(s)
  BY DEF IInv, Sound
<1>3. pc[s] \in Locked /\ pc[s] \in Locked \ {"begun"} /\ pc[s] \in Past
  BY DEF Locked, Past
<1>4. Fits(s, pc[s], e)
  BY <1>1, <1>2, <1>3 DEF Fits, Covered, Credited, Watched, Past
<1> QED BY <1>1, <1>3, <1>4, LearnKeepsIInv

LEMMA ObserveKeepsIInv ==
  ASSUME NEW s \in Sends, IInv, Observe(s)
  PROVE  IInv'
  BY LookKeepsIInv DEF Observe

LEMMA EmissionEndsKeepsIInv ==
  ASSUME NEW s \in Sends, IInv, EmissionEnds(s)
  PROVE  IInv'
<1>1. ev[s] \in Evidence /\ ev \in [Sends -> Evidence] /\ pc[s] = "emitting"
  BY DEF IInv, TypeOK, EmissionEnds
<1>2. ev' = [ev EXCEPT ![s] = ev[s]] /\ UNCHANGED place /\ Goto(s, "watching")
  BY <1>1 DEF EmissionEnds
<1>3. Seen(s) /\ Covered(s) /\ Credited(s) /\ Watched(s)
  BY DEF IInv, Sound
<1>4. pc[s] \in Locked /\ "watching" \in Locked \ {"begun"}
  BY <1>1 DEF Locked
<1>5. Fits(s, "watching", ev[s])
  BY <1>1, <1>3 DEF Fits, Seen, Covered, Credited, Watched, Past, Locked
<1> QED BY <1>1, <1>2, <1>4, <1>5, LearnKeepsIInv

(* The end of the watch is believed only of an empty queue. *)
LEMMA WatchEndsKeepsIInv ==
  ASSUME NEW s \in Sends, IInv, pc[s] = "watching", UNCHANGED place,
         NEW rivals \in BOOLEAN, NEW left \in BOOLEAN, WatchEnds(s, rivals, left),
         left /\ ~rivals /\ ~ev[s].dirty => InWindows = {}
  PROVE  IInv'
<1> DEFINE e == IF ev[s].ipp
                THEN [ev[s] EXCEPT !.rows = {}, !.ids = {}, !.dirty = FALSE, !.rivals = FALSE]
                ELSE [ev[s] EXCEPT !.rows = {}, !.rivals = rivals, !.left = left]
<1>1. ev[s] \in Evidence
  BY DEF IInv, TypeOK
<1>2. /\ e \in Evidence /\ e.sent = ev[s].sent /\ e.seen = ev[s].seen /\ e.known = ev[s].known
      /\ e.arrived = ev[s].arrived /\ e.ipp = ev[s].ipp
      /\ ~ev[s].ipp => e.left = left /\ e.rivals = rivals /\ e.dirty = ev[s].dirty
  BY <1>1 DEF Evidence
<1>3. Goto(s, "confirming") /\ ev' = [ev EXCEPT ![s] = e]
  BY DEF WatchEnds
<1> HIDE DEF e
<1>4. Seen(s) /\ Covered(s) /\ Credited(s)
  BY DEF IInv, Sound
<1>5. InWindows = {} => \A d \in Own(s) : place[d] # "queue"
  BY OwnDocuments DEF InWindows
<1>6. pc[s] \in Locked /\ "confirming" \in Locked \ {"begun"}
  BY DEF Locked
<1>7. Fits(s, "confirming", e)
  BY <1>2, <1>4, <1>5 DEF Fits, Seen, Covered, Credited, Past
<1> QED BY <1>2, <1>3, <1>6, <1>7, LearnKeepsIInv

LEMMA WatchKeepsIInv ==
  ASSUME NEW s \in Sends, IInv, PollQueue(s) \/ QueueDeadline(s)
  PROVE  IInv'
<1>1. /\ ev[s] \in Evidence /\ pc[s] = "watching" /\ UNCHANGED place
      /\ ev \in [Sends -> Evidence]
      /\ Seen(s) /\ Covered(s) /\ Credited(s) /\ Watched(s)
  BY DEF IInv, TypeOK, Sound, PollQueue, QueueDeadline
<1>2. ev[s].rivals \in BOOLEAN /\ Rivals(s) \in BOOLEAN
  BY <1>1 DEF Evidence, Rivals
<1>3. CASE QueueDeadline(s)
  BY <1>1, <1>2, <1>3, WatchEndsKeepsIInv DEF QueueDeadline
<1>4. CASE PollQueue(s) /\ Ours(s) = {} /\ WatchEnds(s, Rivals(s), ev[s].ids # {})
  <2>1. ev[s].ids # {} /\ ~Rivals(s) /\ ~ev[s].dirty => InWindows = {}
    BY <1>1, <1>4 DEF Watched, Locked, Rivals, Ours
  <2> QED BY <1>1, <1>2, <1>4, <2>1, WatchEndsKeepsIInv
<1>5. CASE PollQueue(s) /\ ev' = [ev EXCEPT ![s].rivals = Rivals(s)]
                        /\ UNCHANGED <<pc, verdict, credit>>
  <2> DEFINE e == [ev[s] EXCEPT !.rivals = Rivals(s)]
  <2>1. /\ e \in Evidence /\ e.sent = ev[s].sent /\ e.seen = ev[s].seen
        /\ e.known = ev[s].known /\ e.arrived = ev[s].arrived /\ e.ipp = ev[s].ipp
        /\ e.dirty = ev[s].dirty /\ e.rows = ev[s].rows
    BY <1>1, <1>2 DEF Evidence
  <2>2. ev' = [ev EXCEPT ![s] = e]
    BY <1>5
  <2> HIDE DEF e
  <2>3. pc[s] \in Locked /\ pc[s] \in Locked \ {"begun"}
    BY <1>1 DEF Locked
  <2>4. Fits(s, pc[s], e)
    BY <1>1, <2>1 DEF Fits, Seen, Covered, Credited, Watched, Past, Locked
  <2> QED BY <1>1, <1>5, <2>1, <2>2, <2>3, <2>4, LearnKeepsIInv
<1> QED BY <1>3, <1>4, <1>5 DEF PollQueue

(* The printer confirms with new jobs, which no earlier send was given. *)
LEMMA ConfirmationIsNew ==
  ASSUME NEW s \in Sends, IInv, pc[s] = "confirming", ev[s].ipp,
         NEW e \in {ev[s], Capture(s)}
  PROVE  /\ e.seen \in SUBSET Docs /\ e.seen \subseteq Named(s)
         /\ e.seen \intersect ev[s].arrived = {}
         /\ \A t \in Sends : e.seen \intersect credit[t] = {}
<1>1. /\ e.seen \subseteq Named(s) \ ev[s].known /\ e.seen \subseteq Docs
  BY CaptureIsNew
<1>2. /\ ev[s].arrived \subseteq ev[s].known
      /\ \A t \in Sends : credit[t] \intersect Named(s) \subseteq ev[s].known
  BY DEF IInv, Sound, Covered, Credited, Past
<1> QED BY <1>1, <1>2

LEMMA ConfirmingKeepsIInv ==
  ASSUME NEW s \in Sends, IInv, Confirming(s)
  PROVE  IInv'
<1>1. pc[s] = "confirming" /\ pc[s] \in Locked /\ pc[s] # "answered" /\ UNCHANGED place
  BY DEF Confirming, PollIpp, IppDeadline, QueueDecides, CounterDecides, Locked
<1>2. /\ {} \in SUBSET Docs
      /\ {"confirmed", "delivered", "unverified"} \subseteq Verdicts \ {"counted", "failed"}
  BY DEF Verdicts
<1>3. CASE Answer(s, "unverified", {})
  BY <1>1, <1>2, <1>3, AnswerKeepsIInv
<1>4. CASE PollIpp(s)
  <2>1. PICK e \in {ev[s], Capture(s)} :
          \/ Confirmed(s, e) /\ Answer(s, "confirmed", e.seen)
          \/ Answer(s, "unverified", {})
          \/ ev' = [ev EXCEPT ![s] = e] /\ UNCHANGED <<pc, verdict, credit>>
    BY <1>4 DEF PollIpp
  <2>2. ev[s].ipp
    BY <1>4 DEF PollIpp
  <2>3. CASE Confirmed(s, e) /\ Answer(s, "confirmed", e.seen)
    <3>1. /\ e.seen \in SUBSET Docs /\ e.seen \subseteq Named(s)
          /\ \A t \in Sends : e.seen \intersect credit[t] = {}
      BY <1>1, <2>2, ConfirmationIsNew
    <3>2. Cardinality(e.seen) = CopiesOf[s] /\ \A d \in e.seen : place[d] = "paper"
      BY <2>3 DEF Confirmed
    <3> QED BY <1>1, <1>2, <2>3, <3>1, <3>2, AnswerKeepsIInv
  <2>4. CASE ev' = [ev EXCEPT ![s] = e] /\ UNCHANGED <<pc, verdict, credit>>
    BY <1>1, <2>2, <2>4, LookKeepsIInv
  <2> QED BY <1>3, <2>1, <2>3, <2>4
<1>5. CASE IppDeadline(s)
  BY <1>3, <1>5 DEF IppDeadline
<1>6. CASE QueueDecides(s)
  <2>1. CASE Vouched(s)
    <3>1. Answer(s, "delivered", {}) /\ ~ev[s].ipp
      BY <1>6, <2>1 DEF QueueDecides
    <3>2. \A d \in Own(s) : place[d] # "queue"
      BY <1>1, <2>1, <3>1 DEF IInv, Sound, Watched, Vouched
    <3> QED BY <1>1, <1>2, <3>1, <3>2, AnswerKeepsIInv
  <2>2. CASE ~Vouched(s)
    BY <1>3, <1>6, <2>2 DEF QueueDecides
  <2> QED BY <2>1, <2>2
<1>7. CASE CounterDecides(s)
  BY <1>3, <1>7 DEF CounterDecides, Attributable
<1> QED BY <1>4, <1>5, <1>6, <1>7 DEF Confirming

-----------------------------------------------------------------------------
LEMMA InitEstablishesIInv == Init => IInv
<1> SUFFICES ASSUME Init PROVE IInv
  OBVIOUS
<1>1. Blank \in Evidence
  BY DEF Blank, Evidence
<1>2. \A s \in Sends : ev[s] = Blank /\ pc[s] = "waiting" /\ verdict[s] = "none" /\ credit[s] = {}
  BY DEF Init
<1>3. TypeOK
  <2>1. place \in [Docs -> Places] /\ verdict \in [Sends -> Verdicts]
    BY DEF Init, Places, Verdicts
  <2>2. pc \in [Sends -> {"waiting", "answered"} \union Locked] /\ ev \in [Sends -> Evidence]
        /\ credit \in [Sends -> SUBSET Docs]
    BY <1>1 DEF Init
  <2>3. \A s \in Sends : ev[s].sent <= CopiesOf[s]
    BY <1>2, CopiesArePositive DEF Blank
  <2> QED BY <2>1, <2>2, <2>3 DEF TypeOK
<1>4. Alone /\ NoPageProvesTwice
  BY <1>2 DEF Alone, NoPageProvesTwice, Locked
<1>5. ASSUME NEW s \in Sends PROVE Sound(s)
  <2>1. Unsent(s)
    BY <1>2, OwnDocuments DEF Init, Unsent
  <2>2. Seen(s) /\ Covered(s) /\ Credited(s) /\ Watched(s)
    BY <1>2 DEF Seen, Covered, Credited, Watched, Blank, Past, Locked
  <2>3. Told(s)
    BY <1>2, OwnDocuments DEF Init, Told
  <2> QED BY <2>1, <2>2, <2>3 DEF Sound
<1> QED BY <1>3, <1>4, <1>5 DEF IInv

LEMMA NextKeepsIInv == IInv /\ [Next]_vars => IInv'
<1> SUFFICES ASSUME IInv, [Next]_vars PROVE IInv'
  OBVIOUS
<1>1. CASE World
  BY <1>1, WorldKeepsIInv
<1>2. ASSUME NEW s \in Sends, Refuse(s) \/ Begin(s) PROVE IInv'
  BY <1>2, RefuseKeepsIInv, BeginKeepsIInv
<1>3. ASSUME NEW s \in Sends, ReadActive(s) \/ ReadCompleted(s) \/ NoBaseline(s) PROVE IInv'
  BY <1>3, BaselineKeepsIInv
<1>4. ASSUME NEW s \in Sends, Submitting(s) PROVE IInv'
  BY <1>4, EmitKeepsIInv, EmitFailsKeepsIInv, ObserveKeepsIInv, EmissionEndsKeepsIInv
     DEF Submitting
<1>5. ASSUME NEW s \in Sends, PollQueue(s) \/ QueueDeadline(s) \/ Confirming(s) PROVE IInv'
  BY <1>5, WatchKeepsIInv, ConfirmingKeepsIInv
<1>6. CASE UNCHANGED vars
  <2>1. UNCHANGED <<place, pc, ev, verdict, credit>>
    BY <1>6 DEF vars
  <2> QED BY <2>1 DEF IInv, TypeOK, Alone, NoPageProvesTwice, Sound, Unsent, Seen, Covered,
                      Credited, Watched, Told, Completed
<1> QED BY <1>1, <1>2, <1>3, <1>4, <1>5, <1>6 DEF Next, Proceed

(* sendAndVerify: the strengthening is invariant, whoever else prints. *)
THEOREM Invariance == Spec => []IInv
<1> QED BY InitEstablishesIInv, NextKeepsIInv, PTL DEF Spec

(* The model's state keeps its types, and no send submits a copy too many. *)
THEOREM TypeCorrect == Spec => []TypeOK
<1>1. IInv => TypeOK
  BY DEF IInv
<1> QED BY <1>1, Invariance, PTL

(* waitForIppConfirmation: the pages behind a printer's confirmation are   *)
(* there, are the job's, and are as many as its copies.                    *)
THEOREM ConfirmedPrinted == Spec => []ConfirmedIsOnPaper
<1>1. IInv => ConfirmedIsOnPaper
  BY DEF IInv, Sound, Credited, ConfirmedIsOnPaper
<1> QED BY <1>1, Invariance, PTL

(* The lock and the baseline: no page confirms two sends, however often a  *)
(* job is retried under the same name.                                     *)
THEOREM PagesProveOnce == Spec => []NoPageProvesTwice
<1>1. IInv => NoPageProvesTwice
  BY DEF IInv
<1> QED BY <1>1, Invariance, PTL

(* A retryable failure is one of a send that never put a copy in Windows. *)
THEOREM RetriesAreSafe == Spec => []FailedWasNeverSent
<1>1. IInv => FailedWasNeverSent
  BY DEF IInv, Sound, Told, FailedWasNeverSent
<1> QED BY <1>1, Invariance, PTL

(* waitForSpooler: what is reported delivered has left Windows, although   *)
(* the rows that were watched may be those of other programs.              *)
THEOREM DeliveredLeft == Spec => []DeliveredHasLeft
<1>1. IInv => DeliveredHasLeft
  BY DEF IInv, Sound, Told, DeliveredHasLeft
<1> QED BY <1>1, Invariance, PTL

(* An answer never rests on a page the printer had before the send began. *)
LEMMA AnswersAreOfTheirTime ==
  ASSUME IInv, [Next]_vars, NEW s \in Sends, verdict'[s] # verdict[s]
  PROVE  credit'[s] \intersect ev[s].arrived = {}
<1>1. verdict' # verdict
  OBVIOUS
<1>2. ASSUME NEW t \in Sends, NEW v, NEW c, Answer(t, v, c)
      PROVE  s = t /\ credit'[s] = c
  BY <1>2 DEF Answer, IInv, TypeOK
<1>3. PICK t \in Sends : Refuse(t) \/ Begin(t) \/ Proceed(t)
  BY <1>1 DEF Next, World, vars
<1>4. CASE \E v : Answer(t, v, {})
  BY <1>2, <1>4
<1>5. CASE PollIpp(t)
  <2>1. PICK e \in {ev[t], Capture(t)} :
          \/ Answer(t, "confirmed", e.seen)
          \/ Answer(t, "unverified", {})
          \/ UNCHANGED <<pc, verdict, credit>>
    BY <1>5 DEF PollIpp
  <2>2. CASE Answer(t, "confirmed", e.seen)
    <3>1. s = t /\ credit'[s] = e.seen
      BY <1>2, <2>2
    <3> QED BY <1>5, <3>1, ConfirmationIsNew DEF PollIpp
  <2> QED BY <1>1, <1>4, <2>1, <2>2
<1>6. CASE Refuse(t) \/ EmitRefused(t) \/ EmitBreaks(t)
  BY <1>4, <1>6 DEF Refuse, EmitRefused, EmitBreaks
<1>7. CASE IppDeadline(t) \/ QueueDecides(t) \/ CounterDecides(t)
  BY <1>4, <1>7 DEF IppDeadline, QueueDecides, CounterDecides
<1>8. CASE Begin(t) \/ ReadActive(t) \/ ReadCompleted(t) \/ NoBaseline(t) \/ Emit(t)
           \/ Observe(t) \/ EmissionEnds(t) \/ PollQueue(t) \/ QueueDeadline(t)
  BY <1>1, <1>8 DEF Begin, ReadActive, ReadCompleted, NoBaseline, Emit, Observe, EmissionEnds,
                    PollQueue, QueueDeadline, WatchEnds, Goto
<1> QED BY <1>3, <1>5, <1>6, <1>7, <1>8 DEF Proceed, Submitting, Confirming

(* sendAndVerify, queryIppJobs: a retry's confirmation is not its          *)
(* predecessor's, whatever the printer had already listed under the name.  *)
THEOREM OldPagesIgnored == Spec => OldPagesProveNothing
<1>1. IInv /\ [Next]_vars =>
        [\A s \in Sends : verdict'[s] # verdict[s] => credit'[s] \intersect ev[s].arrived = {}]_vars
  BY AnswersAreOfTheirTime
<1> QED BY <1>1, Invariance, PTL DEF Spec, OldPagesProveNothing

-----------------------------------------------------------------------------
(***************************************************************************)
(* The contract.  A copy that was submitted is somewhere for good, and a   *)
(* send that watches has submitted all of them.                            *)
(***************************************************************************)
Submitted ==
  \A s \in Sends :
    /\ pc[s] \in {"watching", "confirming"} => Handed(s) = 1 .. CopiesOf[s]
    /\ pc[s] = "emitting" => 1 .. ev[s].sent \subseteq Handed(s)

(* What is handed over depends on the documents alone. *)
LEMMA StandstillHandsOver ==
  ASSUME NEW s \in Sends, UNCHANGED place
  PROVE  Handed(s)' = Handed(s)
  BY DEF Handed

LEMMA SubmissionHandsOver ==
  ASSUME NEW s \in Sends, IInv, Submits(s)
  PROVE  /\ ev[s].sent + 1 \in 1 .. CopiesOf[s] \ Handed(s)
         /\ Handed(s)' = Handed(s) \union {ev[s].sent + 1}
         /\ \A t \in Sends \ {s} : Handed(t)' = Handed(t)
<1>1. /\ Due(s) \in Own(s) /\ Due(s) \in Docs /\ ev[s].sent + 1 \in 1 .. CopiesOf[s]
      /\ ev[s].sent \in Nat /\ CopiesOf[s] \in Nat
  BY NextCopy, CopiesArePositive DEF Submits, IInv, TypeOK, Evidence
<1>2. PICK p \in {"queue", "helper"} : place' = [place EXCEPT ![Due(s)] = p]
  BY DEF Submits
<1>3. place \in [Docs -> Places]
  BY DEF IInv, TypeOK
<1>4. place[Due(s)] = "none"
  BY <1>1 DEF IInv, Sound, Unsent, Submits, Due
<1>5. ASSUME NEW t \in Sends, NEW i \in 1 .. CopiesOf[t]
      PROVE  /\ <<t, i>> \in Docs
             /\ <<t, i>> # Due(s) => place'[<<t, i>>] = place[<<t, i>>]
             /\ <<t, i>> = Due(s) => t = s /\ i = ev[s].sent + 1
             /\ t = s /\ i = ev[s].sent + 1 => <<t, i>> = Due(s)
  <2>1. <<t, i>> \in Docs
    BY OwnDocuments
  <2> QED BY <2>1, <1>2, <1>3 DEF Due
<1>6. place'[Due(s)] # "none"
  BY <1>1, <1>2, <1>3
<1>7. ev[s].sent + 1 \notin Handed(s)
  BY <1>1, <1>4, <1>5 DEF Handed
<1>8. Handed(s)' = Handed(s) \union {ev[s].sent + 1}
  BY <1>1, <1>5, <1>6 DEF Handed
<1>9. ASSUME NEW t \in Sends \ {s} PROVE Handed(t)' = Handed(t)
  BY <1>5 DEF Handed
<1> QED BY <1>1, <1>7, <1>8, <1>9

(* Outside, a copy that was handed over moves on and no other one comes. *)
LEMMA WorldHandsOverNothing ==
  ASSUME IInv, World
  PROVE  /\ UNCHANGED <<pc, ev, verdict, credit>>
         /\ \A s \in Sends : Handed(s)' = Handed(s)
<1>1. PICK d \in Docs, from \in Places, to \in Places \ {"none"} :
        Move(d, from, to) /\ (from = "none" => d \in Aliens)
  <2>1. Listable \subseteq Docs /\ Aliens \subseteq Docs
    BY SomeSendsAreHtml DEF Listable, Docs
  <2> QED BY <2>1 DEF World, Places
<1>2. place[d] = from /\ place'[d] = to /\ \A x \in Docs : x # d => place'[x] = place[x]
  BY <1>1 DEF Move, IInv, TypeOK
<1>3. ASSUME NEW s \in Sends, NEW i \in 1 .. CopiesOf[s]
      PROVE  (place'[<<s, i>>] = "none") <=> (place[<<s, i>>] = "none")
  <2>1. <<s, i>> \in Docs /\ <<s, i>> \notin Aliens
    BY OwnDocuments
  <2>2. CASE <<s, i>> = d
    BY <1>1, <1>2, <2>1, <2>2
  <2>3. CASE <<s, i>> # d
    BY <1>2, <2>1, <2>3
  <2> QED BY <2>2, <2>3
<1>4. \A s \in Sends : Handed(s)' = Handed(s)
  BY <1>3 DEF Handed
<1> QED BY <1>4 DEF World

-----------------------------------------------------------------------------
(* What a step of a send is, seen from its caller. *)
Successes == {"confirmed", "delivered", "counted"}

Rejects(s) ==
  /\ pc[s] = "waiting" /\ pc'[s] = "answered" /\ verdict'[s] = "failed"
  /\ UNCHANGED place

Acquires(s) ==
  /\ pc[s] = "waiting" /\ \A t \in Sends : pc[t] \notin Locked
  /\ pc'[s] \in {"begun", "emitting"} /\ ev'[s].sent = 0
  /\ UNCHANGED <<place, verdict>>

Learns(s) ==
  /\ pc[s] \in Locked /\ pc'[s] \in Locked /\ ev'[s].sent = ev[s].sent
  /\ pc'[s] = "emitting" => pc[s] = "emitting" \/ ev[s].sent = 0
  /\ pc'[s] \in {"watching", "confirming"} =>
       \/ pc[s] \in {"watching", "confirming"}
       \/ pc[s] = "emitting" /\ ev[s].sent = CopiesOf[s]
  /\ UNCHANGED <<place, verdict>>

Emits(s) ==
  /\ Submits(s) /\ pc'[s] = "emitting" /\ ev'[s].sent = ev[s].sent + 1
  /\ UNCHANGED verdict

Settles(s) ==
  /\ pc[s] \in Locked /\ pc'[s] = "answered"
  /\ \/ pc[s] = "emitting" /\ ev[s].sent = 0 /\ verdict'[s] = "failed" /\ UNCHANGED place
     \/ pc[s] = "confirming" /\ verdict'[s] \in Successes /\ UNCHANGED place
     \/ verdict'[s] = "unverified" /\ (Submits(s) \/ UNCHANGED place)

Kind(s) == Rejects(s) \/ Acquires(s) \/ Learns(s) \/ Emits(s) \/ Settles(s)

Local(s) ==
  /\ UNCHANGED place \/ Submits(s)
  /\ \A t \in Sends \ {s} : pc'[t] = pc[t] /\ ev'[t] = ev[t] /\ verdict'[t] = verdict[t]

(* The ways in which the actions are written. *)
LEMMA AnswerIsLocal ==
  ASSUME NEW s \in Sends, IInv, NEW v, NEW c, Answer(s, v, c),
         UNCHANGED place \/ Submits(s)
  PROVE  Local(s) /\ pc'[s] = "answered" /\ verdict'[s] = v
  BY DEF Answer, Local, IInv, TypeOK

LEMMA GoIsLocal ==
  ASSUME NEW s \in Sends, IInv, NEW l, NEW e,
         Goto(s, l) \/ (l = pc[s] /\ UNCHANGED <<pc, verdict, credit>>),
         ev' = [ev EXCEPT ![s] = e],
         UNCHANGED place \/ Submits(s)
  PROVE  /\ Local(s) /\ pc'[s] = l /\ ev'[s] = e /\ UNCHANGED verdict
  BY DEF Goto, Local, IInv, TypeOK

LEMMA BaselineHasKind ==
  ASSUME NEW s \in Sends, IInv, ReadActive(s) \/ ReadCompleted(s) \/ NoBaseline(s)
  PROVE  Learns(s) /\ Local(s)
<1>1. pc[s] \in {"begun", "listed"} /\ pc[s] \in Locked /\ UNCHANGED place /\ ev[s].sent = 0
  BY DEF ReadActive, ReadCompleted, NoBaseline, IInv, Sound, Unsent, Locked
<1>2. ev[s] \in Evidence /\ ev \in [Sends -> Evidence]
  BY DEF IInv, TypeOK
<1>3. PICK l \in {"listed", "emitting"}, e \in {x \in Evidence : x.sent = ev[s].sent} :
        Goto(s, l) /\ ev' = [ev EXCEPT ![s] = e]
  <2>1. Active \subseteq Docs /\ Completed \subseteq Docs
    BY DEF Active, Completed
  <2>2. CASE ReadActive(s)
    <3> DEFINE e == [ev[s] EXCEPT !.known = Active \intersect Named(s),
                                  !.arrived = (Active \union Completed) \intersect Named(s)]
    <3>1. e \in Evidence /\ e.sent = ev[s].sent
      BY <1>2, <2>1 DEF Evidence
    <3>2. ev' = [ev EXCEPT ![s] = e] /\ Goto(s, "listed")
      BY <2>2 DEF ReadActive
    <3> QED BY <3>1, <3>2
  <2>3. CASE ReadCompleted(s)
    <3> DEFINE e == [ev[s] EXCEPT !.ipp = TRUE,
                                  !.known = @ \union (Completed \intersect Named(s))]
    <3>1. e \in Evidence /\ e.sent = ev[s].sent
      BY <1>2, <2>1 DEF Evidence
    <3>2. ev' = [ev EXCEPT ![s] = e] /\ Goto(s, "emitting")
      BY <2>3 DEF ReadCompleted
    <3> QED BY <3>1, <3>2
  <2>4. CASE NoBaseline(s)
    <3> DEFINE e == [ev[s] EXCEPT !.known = {}, !.arrived = {}]
    <3>1. e \in Evidence /\ e.sent = ev[s].sent
      BY <1>2 DEF Evidence
    <3>2. ev' = [ev EXCEPT ![s] = e] /\ Goto(s, "emitting")
      BY <2>4 DEF NoBaseline
    <3> QED BY <3>1, <3>2
  <2> QED BY <2>2, <2>3, <2>4
<1>4. Local(s) /\ pc'[s] = l /\ ev'[s] = e /\ UNCHANGED verdict
  BY <1>1, <1>3, GoIsLocal
<1> QED BY <1>1, <1>3, <1>4 DEF Learns, Locked

LEMMA SubmittingHasKind ==
  ASSUME NEW s \in Sends, IInv, Submitting(s)
  PROVE  Kind(s) /\ Local(s)
<1>1. pc[s] = "emitting" /\ pc[s] \in Locked
  BY DEF Submitting, Emit, EmitRefused, EmitBreaks, Observe, EmissionEnds, Locked
<1>2. ev[s] \in Evidence /\ ev \in [Sends -> Evidence]
  BY DEF IInv, TypeOK
<1>3. CASE Emit(s)
  <2>1. PICK new \in Observable(s) :
          ev' = [ev EXCEPT ![s].sent = @ + 1, ![s].ids = @ \union new]
    BY <1>3 DEF Emit
  <2> DEFINE e == [ev[s] EXCEPT !.sent = @ + 1, !.ids = @ \union new]
  <2>2. e.sent = ev[s].sent + 1
    BY <1>2 DEF Evidence
  <2>3. ev' = [ev EXCEPT ![s] = e]
    BY <2>1
  <2>4. Submits(s) /\ UNCHANGED <<pc, verdict, credit>>
    BY <1>3 DEF Emit, Submits
  <2> HIDE DEF e
  <2>5. Local(s) /\ ev'[s] = e /\ pc'[s] = pc[s]
    BY <2>3, <2>4, GoIsLocal
  <2> QED BY <1>1, <2>2, <2>4, <2>5 DEF Kind, Emits
<1>4. CASE EmitRefused(s)
  <2>1. Answer(s, IF ev[s].sent = 0 THEN "failed" ELSE "unverified", {}) /\ UNCHANGED place
    BY <1>4 DEF EmitRefused
  <2>2. /\ Local(s) /\ pc'[s] = "answered"
        /\ verdict'[s] = IF ev[s].sent = 0 THEN "failed" ELSE "unverified"
    BY <2>1, AnswerIsLocal
  <2> QED BY <1>1, <2>1, <2>2 DEF Kind, Settles
<1>5. CASE EmitBreaks(s)
  <2>1. Answer(s, "unverified", {}) /\ (UNCHANGED place \/ Submits(s))
    BY <1>5 DEF EmitBreaks, Submits
  <2>2. Local(s) /\ pc'[s] = "answered" /\ verdict'[s] = "unverified"
    BY <2>1, AnswerIsLocal
  <2> QED BY <1>1, <2>1, <2>2 DEF Kind, Settles
<1>6. CASE Observe(s)
  <2>1. ev' = [ev EXCEPT ![s] = Capture(s)] /\ UNCHANGED <<place, pc, verdict, credit>>
    BY <1>6 DEF Observe
  <2>2. Local(s) /\ pc'[s] = pc[s] /\ ev'[s] = Capture(s)
    BY <2>1, GoIsLocal
  <2>3. Capture(s).sent = ev[s].sent
    BY CaptureIsNew
  <2> QED BY <1>1, <2>1, <2>2, <2>3 DEF Kind, Learns
<1>7. CASE EmissionEnds(s)
  <2>1. /\ ev' = [ev EXCEPT ![s] = ev[s]] /\ UNCHANGED place /\ Goto(s, "watching")
        /\ ev[s].sent = CopiesOf[s]
    BY <1>2, <1>7 DEF EmissionEnds
  <2>2. Local(s) /\ pc'[s] = "watching" /\ ev'[s] = ev[s] /\ UNCHANGED verdict
    BY <2>1, GoIsLocal
  <2> QED BY <1>1, <2>1, <2>2 DEF Kind, Learns, Locked
<1> QED BY <1>3, <1>4, <1>5, <1>6, <1>7 DEF Submitting

LEMMA WatchHasKind ==
  ASSUME NEW s \in Sends, IInv, PollQueue(s) \/ QueueDeadline(s)
  PROVE  Learns(s) /\ Local(s)
<1>1. /\ pc[s] = "watching" /\ pc[s] \in Locked /\ "confirming" \in Locked /\ UNCHANGED place
      /\ ev[s] \in Evidence /\ ev \in [Sends -> Evidence]
  BY DEF PollQueue, QueueDeadline, Locked, IInv, TypeOK
<1>2. CASE ev' = [ev EXCEPT ![s].rivals = Rivals(s)] /\ UNCHANGED <<pc, verdict, credit>>
  <2> DEFINE e == [ev[s] EXCEPT !.rivals = Rivals(s)]
  <2>1. e.sent = ev[s].sent /\ ev' = [ev EXCEPT ![s] = e]
    BY <1>1, <1>2 DEF Evidence
  <2> HIDE DEF e
  <2>2. Local(s) /\ pc'[s] = pc[s] /\ ev'[s] = e
    BY <1>1, <1>2, <2>1, GoIsLocal
  <2> QED BY <1>1, <1>2, <2>1, <2>2 DEF Learns
<1>3. ASSUME NEW rivals, NEW left, WatchEnds(s, rivals, left)
      PROVE  Learns(s) /\ Local(s)
  <2> DEFINE e == IF ev[s].ipp
                  THEN [ev[s] EXCEPT !.rows = {}, !.ids = {}, !.dirty = FALSE, !.rivals = FALSE]
                  ELSE [ev[s] EXCEPT !.rows = {}, !.rivals = rivals, !.left = left]
  <2>1. e.sent = ev[s].sent
    BY <1>1 DEF Evidence
  <2>2. ev' = [ev EXCEPT ![s] = e] /\ Goto(s, "confirming")
    BY <1>3 DEF WatchEnds
  <2> HIDE DEF e
  <2>3. Local(s) /\ pc'[s] = "confirming" /\ ev'[s] = e /\ UNCHANGED verdict
    BY <1>1, <2>2, GoIsLocal
  <2> QED BY <1>1, <2>1, <2>3 DEF Learns
<1> QED BY <1>2, <1>3 DEF PollQueue, QueueDeadline

LEMMA ConfirmingHasKind ==
  ASSUME NEW s \in Sends, IInv, Confirming(s)
  PROVE  Kind(s) /\ Local(s)
<1>1. pc[s] = "confirming" /\ pc[s] \in Locked /\ UNCHANGED place
  BY DEF Confirming, PollIpp, IppDeadline, QueueDecides, CounterDecides, Locked
<1>2. ASSUME NEW v \in Successes \union {"unverified"}, NEW c, Answer(s, v, c)
      PROVE  Kind(s) /\ Local(s)
  <2>1. Local(s) /\ pc'[s] = "answered" /\ verdict'[s] = v
    BY <1>1, <1>2, AnswerIsLocal
  <2> QED BY <1>1, <2>1 DEF Kind, Settles
<1>3. {"confirmed", "delivered", "counted", "unverified"} \subseteq Successes \union {"unverified"}
  BY DEF Successes
<1>4. CASE PollIpp(s)
  <2>1. PICK e \in {ev[s], Capture(s)} :
          \/ Answer(s, "confirmed", e.seen)
          \/ Answer(s, "unverified", {})
          \/ ev' = [ev EXCEPT ![s] = e] /\ UNCHANGED <<pc, verdict, credit>>
    BY <1>4 DEF PollIpp
  <2>2. CASE ev' = [ev EXCEPT ![s] = e] /\ UNCHANGED <<pc, verdict, credit>>
    <3>1. Local(s) /\ pc'[s] = pc[s] /\ ev'[s] = e
      BY <1>1, <2>2, GoIsLocal
    <3>2. e.sent = ev[s].sent
      BY CaptureIsNew
    <3> QED BY <1>1, <2>2, <3>1, <3>2 DEF Kind, Learns
  <2>3. CASE Answer(s, "confirmed", e.seen) \/ Answer(s, "unverified", {})
    BY <1>2, <1>3, <2>3
  <2> QED BY <2>1, <2>2, <2>3
<1>5. CASE IppDeadline(s)
  BY <1>2, <1>3, <1>5 DEF IppDeadline
<1>6. CASE QueueDecides(s)
  BY <1>2, <1>3, <1>6 DEF QueueDecides
<1>7. CASE CounterDecides(s)
  BY <1>2, <1>3, <1>7 DEF CounterDecides
<1> QED BY <1>4, <1>5, <1>6, <1>7 DEF Confirming

LEMMA StepHasKind ==
  ASSUME NEW s \in Sends, IInv, Step(s)
  PROVE  Kind(s) /\ Local(s)
<1>1. CASE Refuse(s)
  <2>1. Local(s) /\ pc'[s] = "answered" /\ verdict'[s] = "failed"
    BY <1>1, AnswerIsLocal DEF Refuse
  <2> QED BY <1>1, <2>1 DEF Refuse, Kind, Rejects
<1>2. CASE Begin(s)
  <2>1. PICK rows \in {InWindows, {}} : Snapshot(s, rows)
    BY <1>2 DEF Begin
  <2> DEFINE l == IF s \in Html THEN "begun" ELSE "emitting"
             e == [ev[s] EXCEPT !.rows = rows, !.dirty = (rows # {}),
                                !.pages = IF s \in Html THEN 0 ELSE Pages]
  <2>2. ev[s] = Blank
    BY <1>2 DEF Begin, IInv, Sound, Unsent
  <2>3. e.sent = 0
    BY <2>2 DEF Blank
  <2>4. ev' = [ev EXCEPT ![s] = e] /\ Goto(s, l) /\ UNCHANGED place
    BY <1>2, <2>1 DEF Snapshot, Begin
  <2> HIDE DEF e
  <2>5. Local(s) /\ pc'[s] = l /\ ev'[s] = e /\ UNCHANGED verdict
    BY <2>4, GoIsLocal
  <2> QED BY <1>2, <2>3, <2>4, <2>5 DEF Begin, Kind, Acquires
<1>3. CASE Proceed(s)
  BY <1>3, BaselineHasKind, SubmittingHasKind, WatchHasKind, ConfirmingHasKind DEF Proceed, Kind
<1> QED BY <1>1, <1>2, <1>3 DEF Step

-----------------------------------------------------------------------------
(* What a step hands over. *)
LEMMA HandedByStep ==
  ASSUME NEW s \in Sends, IInv, Local(s)
  PROVE  /\ \A t \in Sends \ {s} : Handed(t)' = Handed(t)
         /\ Handed(s) \subseteq Handed(s)'
         /\ UNCHANGED place => Handed(s)' = Handed(s)
         /\ Submits(s) => /\ ev[s].sent + 1 \in 1 .. CopiesOf[s] \ Handed(s)
                          /\ Handed(s)' = Handed(s) \union {ev[s].sent + 1}
<1>1. CASE UNCHANGED place
  <2>1. \A t \in Sends : Handed(t)' = Handed(t)
    BY <1>1, StandstillHandsOver
  <2>2. ~Submits(s)
    <3> SUFFICES ASSUME Submits(s) PROVE FALSE
      OBVIOUS
    <3>1. ev[s].sent + 1 \notin Handed(s) /\ Handed(s)' = Handed(s) \union {ev[s].sent + 1}
      BY SubmissionHandsOver
    <3> QED BY <2>1, <3>1
  <2> QED BY <2>1, <2>2
<1>2. CASE Submits(s)
  <2>1. /\ ev[s].sent + 1 \in 1 .. CopiesOf[s] \ Handed(s)
        /\ Handed(s)' = Handed(s) \union {ev[s].sent + 1}
        /\ \A t \in Sends \ {s} : Handed(t)' = Handed(t)
    BY <1>2, SubmissionHandsOver
  <2>2. UNCHANGED place => Handed(s)' = Handed(s)
    BY StandstillHandsOver
  <2> QED BY <2>1, <2>2
<1> QED BY <1>1, <1>2 DEF Local

(* A send that has not submitted anything has handed nothing over. *)
LEMMA NothingHanded ==
  ASSUME NEW s \in Sends, IInv, pc[s] # "answered", ev[s].sent = 0
  PROVE  Handed(s) = {}
<1>1. \A i \in 1 .. CopiesOf[s] : i > 0
  BY CopiesArePositive
<1>2. \A i \in 1 .. CopiesOf[s] : place[<<s, i>>] = "none"
  BY <1>1 DEF IInv, Sound, Unsent
<1> QED BY <1>2 DEF Handed

LEMMA SubmittedInit == Init => Submitted
  BY DEF Init, Submitted

LEMMA SubmittedNext == IInv /\ Submitted /\ [Next]_vars => Submitted'
<1> SUFFICES ASSUME IInv, Submitted, [Next]_vars PROVE Submitted'
  OBVIOUS
<1>1. CASE World \/ UNCHANGED vars
  <2>1. UNCHANGED <<pc, ev>> /\ \A s \in Sends : Handed(s)' = Handed(s)
    BY <1>1, WorldHandsOverNothing, StandstillHandsOver DEF vars
  <2> QED BY <2>1 DEF Submitted
<1>2. ASSUME NEW s \in Sends, Step(s) PROVE Submitted'
  <2>1. Kind(s) /\ Local(s)
    BY <1>2, StepHasKind
  <2>2. /\ \A t \in Sends \ {s} : Handed(t)' = Handed(t)
        /\ Handed(s) \subseteq Handed(s)'
        /\ UNCHANGED place => Handed(s)' = Handed(s)
        /\ Submits(s) => /\ ev[s].sent + 1 \in 1 .. CopiesOf[s] \ Handed(s)
                         /\ Handed(s)' = Handed(s) \union {ev[s].sent + 1}
    BY <2>1, HandedByStep
  <2>3. Handed(s)' \subseteq 1 .. CopiesOf[s] /\ ev[s].sent \in Nat /\ CopiesOf[s] \in Nat
    BY CopiesArePositive DEF Handed, IInv, TypeOK, Evidence
  <2>4. /\ pc'[s] \in {"watching", "confirming"} => Handed(s)' = 1 .. CopiesOf[s]
        /\ pc'[s] = "emitting" => 1 .. ev'[s].sent \subseteq Handed(s)'
    <3>1. CASE Rejects(s) \/ Settles(s)
      BY <3>1 DEF Rejects, Settles
    <3>2. CASE Acquires(s)
      BY <3>2 DEF Acquires
    <3>3. CASE Learns(s)
      <4>1. CASE pc'[s] = "emitting" /\ ev[s].sent = 0
        BY <3>3, <4>1 DEF Learns
      <4>2. CASE pc'[s] = "emitting" /\ pc[s] = "emitting"
        BY <2>2, <3>3, <4>2 DEF Learns, Submitted
      <4>3. CASE pc'[s] \in {"watching", "confirming"} /\ pc[s] \in {"watching", "confirming"}
        BY <2>2, <3>3, <4>3 DEF Learns, Submitted
      <4>4. CASE /\ pc'[s] \in {"watching", "confirming"}
                 /\ pc[s] = "emitting" /\ ev[s].sent = CopiesOf[s]
        BY <2>2, <2>3, <3>3, <4>4 DEF Learns, Submitted
      <4> QED BY <3>3, <4>1, <4>2, <4>3, <4>4 DEF Learns
    <3>4. CASE Emits(s)
      <4>1. /\ pc[s] = "emitting" /\ pc'[s] = "emitting" /\ ev'[s].sent = ev[s].sent + 1
            /\ Handed(s)' = Handed(s) \union {ev[s].sent + 1}
        BY <2>2, <3>4 DEF Emits, Submits
      <4>2. 1 .. ev[s].sent + 1 = 1 .. ev[s].sent \union {ev[s].sent + 1}
        BY <2>3
      <4>3. 1 .. ev[s].sent \subseteq Handed(s)
        BY <4>1 DEF Submitted
      <4> QED BY <4>1, <4>2, <4>3
    <3> QED BY <2>1, <3>1, <3>2, <3>3, <3>4 DEF Kind
  <2> QED BY <2>1, <2>2, <2>4 DEF Submitted, Local
<1> QED BY <1>1, <1>2 DEF Next, Step

LEMMA SubmittedAlways == Spec => [](IInv /\ Submitted)
<1>1. Init => IInv /\ Submitted
  BY InitEstablishesIInv, SubmittedInit
<1>2. IInv /\ Submitted /\ [Next]_vars => (IInv /\ Submitted)'
  BY NextKeepsIInv, SubmittedNext
<1> QED BY <1>1, <1>2, PTL DEF Spec

(* The abstract functions change where a send moves, and nowhere else. *)
LEMMA AbstractChange ==
  ASSUME NEW s \in Sends, IInv, Local(s)
  PROVE  /\ [t \in Sends |-> Dev(t)]' = [[t \in Sends |-> Dev(t)] EXCEPT ![s] = Dev(s)']
         /\ [t \in Sends |-> Handed(t)]' = [[t \in Sends |-> Handed(t)] EXCEPT ![s] = Handed(s)']
         /\ [t \in Sends |-> Result(t)]' = [[t \in Sends |-> Result(t)] EXCEPT ![s] = Result(s)']
<1>1. \A t \in Sends \ {s} : pc'[t] = pc[t] /\ verdict'[t] = verdict[t]
  BY DEF Local
<1>2. \A t \in Sends \ {s} : Handed(t)' = Handed(t)
  BY HandedByStep
<1>3. \A t \in Sends \ {s} : Dev(t)' = Dev(t) /\ Result(t)' = Result(t)
  BY <1>1 DEF Dev, Result
<1> QED BY <1>2, <1>3

(* Nothing the caller can tell: a stutter of the abstract call. *)
LEMMA Unnoticed ==
  ASSUME NEW s \in Sends, IInv, Local(s),
         Dev(s)' = Dev(s), Handed(s)' = Handed(s), Result(s)' = Result(s)
  PROVE  Adapter!vars' = Adapter!vars
  BY AbstractChange DEF Adapter!vars

LEMMA StepIsACall ==
  ASSUME NEW s \in Sends, IInv, Submitted, Step(s)
  PROVE  [Adapter!Next]_(Adapter!vars)
<1> DEFINE D == [t \in Sends |-> Dev(t)]
           H == [t \in Sends |-> Handed(t)]
           R == [t \in Sends |-> Result(t)]
<1>1. Kind(s) /\ Local(s)
  BY StepHasKind
<1>2. /\ D' = [D EXCEPT ![s] = Dev(s)'] /\ H' = [H EXCEPT ![s] = Handed(s)']
      /\ R' = [R EXCEPT ![s] = Result(s)']
  BY <1>1, AbstractChange
<1>3. \A t \in Sends : D[t] = Dev(t) /\ H[t] = Handed(t) /\ R[t] = Result(t)
  OBVIOUS
<1>4. /\ Handed(s) \subseteq Handed(s)'
      /\ UNCHANGED place => Handed(s)' = Handed(s)
      /\ Submits(s) => /\ ev[s].sent + 1 \in 1 .. CopiesOf[s] \ Handed(s)
                       /\ Handed(s)' = Handed(s) \union {ev[s].sent + 1}
  BY <1>1, HandedByStep
<1>5. \A t \in Sends : Dev(t) = "working" <=> pc[t] \in Locked
  BY DEF IInv, TypeOK, Dev, Locked
<1>6. verdict'[s] = verdict[s] => Result(s)' = Result(s)
  BY DEF Result
<1>8. CASE Rejects(s)
  <2>1. Unsent(s)
    BY DEF IInv, Sound
  <2>2. ev[s].sent = 0
    BY <1>8, <2>1 DEF Rejects, Unsent, Blank
  <2>3. Handed(s) = {} /\ Handed(s)' = {}
    BY <1>4, <1>8, <2>2, NothingHanded DEF Rejects
  <2>4. Dev(s) = "waiting" /\ Dev(s)' = "returned" /\ Result(s)' = "FAILED"
    BY <1>8 DEF Rejects, Dev, Result
  <2>5. H' = H
    BY <1>2, <1>3, <2>3
  <2>6. /\ H[s] = {} /\ D[s] # "returned" /\ D' = [D EXCEPT ![s] = "returned"]
        /\ R' = [R EXCEPT ![s] = "FAILED"] /\ H' = H
    BY <1>2, <1>3, <2>3, <2>4, <2>5
  <2>7. Adapter!Fails(s)
    BY <2>6 DEF Adapter!Fails, Adapter!Return
  <2> QED BY <2>7 DEF Adapter!Next
<1>9. CASE Acquires(s)
  <2>1. Dev(s) = "waiting" /\ Dev(s)' = "working"
    BY <1>9 DEF Acquires, Dev
  <2>2. Handed(s)' = Handed(s) /\ Result(s)' = Result(s)
    BY <1>4, <1>6, <1>9 DEF Acquires
  <2>3. \A t \in Sends : Dev(t) # "working"
    BY <1>5, <1>9 DEF Acquires
  <2>4. H' = H /\ R' = R
    BY <1>2, <1>3, <2>2
  <2>5. Adapter!Grant(s)
    BY <1>2, <1>3, <2>1, <2>3, <2>4 DEF Adapter!Grant
  <2> QED BY <2>5 DEF Adapter!Next
<1>10. CASE Learns(s)
  <2>1. Handed(s)' = Handed(s) /\ Result(s)' = Result(s)
    BY <1>4, <1>6, <1>10 DEF Learns
  <2>2. Dev(s)' = Dev(s)
    BY <1>10 DEF Learns, Dev, Locked
  <2> QED BY <1>1, <2>1, <2>2, Unnoticed
<1>11. CASE Emits(s)
  <2>1. pc[s] = "emitting" /\ pc'[s] = "emitting" /\ Submits(s) /\ verdict'[s] = verdict[s]
    BY <1>11 DEF Emits, Submits
  <2>2. Dev(s) = "working" /\ Dev(s)' = "working"
    BY <2>1 DEF Dev
  <2>3. D' = D /\ R' = R
    BY <1>2, <1>3, <1>6, <2>1, <2>2
  <2>4. /\ ev[s].sent + 1 \in 1 .. CopiesOf[s] \ H[s]
        /\ H' = [H EXCEPT ![s] = @ \union {ev[s].sent + 1}]
    BY <1>2, <1>3, <1>4, <2>1
  <2>5. Adapter!HandOver(s)
    BY <2>4 DEF Adapter!HandOver
  <2>6. Adapter!Submit(s)
    BY <2>2, <2>3, <2>5 DEF Adapter!Submit
  <2> QED BY <2>6 DEF Adapter!Next
<1>12. CASE Settles(s)
  <2>1. Dev(s) = "working" /\ Dev(s)' = "returned"
    BY <1>12 DEF Settles, Dev, Locked
  <2>2. CASE pc[s] = "emitting" /\ ev[s].sent = 0 /\ verdict'[s] = "failed" /\ UNCHANGED place
    <3>1. Handed(s) = {} /\ Handed(s)' = Handed(s) /\ Result(s)' = "FAILED"
      BY <1>4, <2>2, NothingHanded DEF Result
    <3>2. H' = H
      BY <1>2, <1>3, <3>1
    <3>3. Adapter!Fails(s)
      BY <1>2, <1>3, <2>1, <3>1, <3>2 DEF Adapter!Fails, Adapter!Return
    <3> QED BY <3>3 DEF Adapter!Next
  <2>3. CASE pc[s] = "confirming" /\ verdict'[s] \in Successes /\ UNCHANGED place
    <3>1. Handed(s) = 1 .. CopiesOf[s] /\ Handed(s)' = Handed(s) /\ Result(s)' = "SUCCESS"
      BY <1>4, <2>3 DEF Submitted, Result, Successes
    <3>2. H' = H
      BY <1>2, <1>3, <3>1
    <3>3. Adapter!Succeeds(s)
      BY <1>2, <1>3, <2>1, <3>1, <3>2 DEF Adapter!Succeeds, Adapter!Return
    <3> QED BY <3>3 DEF Adapter!Next
  <2>4. CASE verdict'[s] = "unverified" /\ (Submits(s) \/ UNCHANGED place)
    <3>1. Result(s)' = "UNVERIFIED"
      BY <2>4 DEF Result
    <3>2. Adapter!HandOver(s) \/ H' = H
      <4>1. CASE Submits(s)
        <5>1. /\ ev[s].sent + 1 \in 1 .. CopiesOf[s] \ H[s]
              /\ H' = [H EXCEPT ![s] = @ \union {ev[s].sent + 1}]
          BY <1>2, <1>3, <1>4, <4>1
        <5> QED BY <5>1 DEF Adapter!HandOver
      <4>2. CASE UNCHANGED place
        BY <1>2, <1>3, <1>4, <4>2
      <4> QED BY <2>4, <4>1, <4>2
    <3>3. Adapter!GivesUp(s)
      BY <1>2, <1>3, <2>1, <3>1, <3>2 DEF Adapter!GivesUp, Adapter!Return
    <3> QED BY <3>3 DEF Adapter!Next
  <2> QED BY <1>12, <2>2, <2>3, <2>4 DEF Settles
<1> QED BY <1>1, <1>8, <1>9, <1>10, <1>11, <1>12 DEF Kind

(* sendAndVerify keeps the adapter's contract with executeJob, for any     *)
(* number of sends and copies, whatever Windows, printer and others do.    *)
THEOREM AdapterContract == Spec => IsAnAdapterCall
<1>1. Init => Adapter!Init
  <2> SUFFICES ASSUME Init PROVE Adapter!Init
    OBVIOUS
  <2>1. \A s \in Sends : Dev(s) = "waiting" /\ Result(s) = "none"
    BY DEF Init, Dev, Result
  <2>2. \A s \in Sends : Handed(s) = {}
    BY OwnDocuments DEF Init, Handed
  <2> QED BY <2>1, <2>2 DEF Adapter!Init
<1>2. IInv /\ Submitted /\ [Next]_vars => [Adapter!Next]_(Adapter!vars)
  <2> SUFFICES ASSUME IInv, Submitted, [Next]_vars PROVE [Adapter!Next]_(Adapter!vars)
    OBVIOUS
  <2>1. CASE World \/ UNCHANGED vars
    <3>1. UNCHANGED <<pc, verdict>> /\ \A s \in Sends : Handed(s)' = Handed(s)
      BY <2>1, WorldHandsOverNothing, StandstillHandsOver DEF vars
    <3>2. \A s \in Sends : Dev(s)' = Dev(s) /\ Result(s)' = Result(s)
      BY <3>1 DEF Dev, Result
    <3> QED BY <3>1, <3>2 DEF Adapter!vars
  <2>2. ASSUME NEW s \in Sends, Step(s) PROVE [Adapter!Next]_(Adapter!vars)
    BY <2>2, StepIsACall
  <2> QED BY <2>1, <2>2 DEF Next, Step
<1> QED BY <1>1, <1>2, SubmittedAlways, PTL DEF Spec, IsAnAdapterCall, Adapter!Spec

(***************************************************************************)
(* What the contract is worth: the caller may retry what FAILED, believe   *)
(* that after SUCCESS every copy is out, and that calls do not mix.        *)
(***************************************************************************)
AnswersAreHonest ==
  \A s \in Sends :
    /\ Dev(s) = "waiting" => Handed(s) = {}
    /\ Dev(s) # "returned" => Result(s) = "none"
    /\ Result(s) = "FAILED" => Handed(s) = {}
    /\ Result(s) = "SUCCESS" => Handed(s) = 1 .. CopiesOf[s]

(* The printer lock as the callers see it: one call works at a time. *)
CallsDoNotMix == \A s, t \in Sends : Dev(s) = "working" /\ Dev(t) = "working" => s = t

LEMMA CallKeepsAnswers ==
  ASSUME AnswersAreHonest, CallsDoNotMix, [Adapter!Next]_(Adapter!vars)
  PROVE  AnswersAreHonest' /\ CallsDoNotMix'
<1> DEFINE D == [t \in Sends |-> Dev(t)]
           H == [t \in Sends |-> Handed(t)]
           R == [t \in Sends |-> Result(t)]
           Kept == /\ \A s \in Sends : /\ D'[s] = "waiting" => H'[s] = {}
                                       /\ D'[s] # "returned" => R'[s] = "none"
                                       /\ R'[s] = "FAILED" => H'[s] = {}
                                       /\ R'[s] = "SUCCESS" => H'[s] = 1 .. CopiesOf[s]
                   /\ \A s, t \in Sends : D'[s] = "working" /\ D'[t] = "working" => s = t
<1>1. /\ \A t \in Sends : D[t] = Dev(t) /\ H[t] = Handed(t) /\ R[t] = Result(t)
      /\ \A t \in Sends : D'[t] = Dev(t)' /\ H'[t] = Handed(t)' /\ R'[t] = Result(t)'
      /\ DOMAIN D = Sends /\ DOMAIN H = Sends /\ DOMAIN R = Sends
  OBVIOUS
<1>2. ASSUME NEW s \in Sends, NEW r, Adapter!Return(s, r)
      PROVE  /\ D[s] # "returned" /\ D' = [D EXCEPT ![s] = "returned"]
             /\ R' = [R EXCEPT ![s] = r]
  BY <1>2 DEF Adapter!Return
<1>3. ASSUME NEW s \in Sends, Adapter!HandOver(s)
      PROVE  \E i : H' = [H EXCEPT ![s] = @ \union {i}]
  BY <1>3 DEF Adapter!HandOver
<1>4. ASSUME NEW s \in Sends, Adapter!Grant(s)
      PROVE  /\ D[s] = "waiting" /\ \A k \in Sends : D[k] # "working"
             /\ D' = [D EXCEPT ![s] = "working"] /\ H' = H /\ R' = R
  BY <1>4 DEF Adapter!Grant
<1>5. ASSUME NEW s \in Sends, Adapter!Submit(s)
      PROVE  D[s] = "working" /\ Adapter!HandOver(s) /\ D' = D /\ R' = R
  BY <1>5 DEF Adapter!Submit
<1>6. ASSUME NEW s \in Sends, Adapter!Fails(s)
      PROVE  H[s] = {} /\ Adapter!Return(s, "FAILED") /\ H' = H
  BY <1>6 DEF Adapter!Fails
<1>7. ASSUME NEW s \in Sends, Adapter!Succeeds(s)
      PROVE  H[s] = 1 .. CopiesOf[s] /\ Adapter!Return(s, "SUCCESS") /\ H' = H
  BY <1>7 DEF Adapter!Succeeds
<1>8. ASSUME NEW s \in Sends, Adapter!GivesUp(s)
      PROVE  /\ D[s] = "working" /\ Adapter!Return(s, "UNVERIFIED")
             /\ Adapter!HandOver(s) \/ H' = H
  BY <1>8 DEF Adapter!GivesUp
<1>9. UNCHANGED Adapter!vars => D' = D /\ H' = H /\ R' = R
  BY DEF Adapter!vars
<1>10. /\ \A s \in Sends : /\ D[s] = "waiting" => H[s] = {}
                           /\ D[s] # "returned" => R[s] = "none"
                           /\ R[s] = "FAILED" => H[s] = {}
                           /\ R[s] = "SUCCESS" => H[s] = 1 .. CopiesOf[s]
       /\ \A s, t \in Sends : D[s] = "working" /\ D[t] = "working" => s = t
  BY <1>1 DEF AnswersAreHonest, CallsDoNotMix
<1>11. Kept => AnswersAreHonest' /\ CallsDoNotMix'
  BY <1>1 DEF AnswersAreHonest, CallsDoNotMix
<1> HIDE DEF D, H, R
<1>12. ASSUME NEW s \in Sends, Adapter!Grant(s) PROVE Kept
  BY <1>1, <1>4, <1>10, <1>12
<1>13. ASSUME NEW s \in Sends, Adapter!Submit(s) PROVE Kept
  <2>1. D[s] = "working" /\ D' = D /\ R' = R /\ Adapter!HandOver(s)
    BY <1>5, <1>13
  <2>2. PICK i : H' = [H EXCEPT ![s] = @ \union {i}]
    BY <1>3, <2>1
  <2> QED BY <1>1, <1>10, <2>1, <2>2
<1>14. ASSUME NEW s \in Sends, Adapter!Fails(s) PROVE Kept
  BY <1>1, <1>2, <1>6, <1>10, <1>14
<1>15. ASSUME NEW s \in Sends, Adapter!Succeeds(s) PROVE Kept
  BY <1>1, <1>2, <1>7, <1>10, <1>15
<1>16. ASSUME NEW s \in Sends, Adapter!GivesUp(s) PROVE Kept
  <2>1. /\ D[s] # "returned" /\ D' = [D EXCEPT ![s] = "returned"]
        /\ R' = [R EXCEPT ![s] = "UNVERIFIED"]
    BY <1>2, <1>8, <1>16
  <2>2. CASE H' = H
    BY <1>1, <1>10, <2>1, <2>2
  <2>3. CASE Adapter!HandOver(s)
    <3>1. PICK i : H' = [H EXCEPT ![s] = @ \union {i}]
      BY <1>3, <2>3
    <3> QED BY <1>1, <1>10, <2>1, <3>1
  <2> QED BY <1>8, <1>16, <2>2, <2>3
<1>17. ASSUME UNCHANGED Adapter!vars PROVE Kept
  BY <1>1, <1>9, <1>10, <1>17
<1> QED BY <1>11, <1>12, <1>13, <1>14, <1>15, <1>16, <1>17 DEF Adapter!Next

(* The contract alone gives the caller what it builds on: FailedWasNeverSent, *)
(* every copy out after a SUCCESS, and one call at the printer at a time.     *)
THEOREM ContractIsHonest ==
  IsAnAdapterCall => [](AnswersAreHonest /\ CallsDoNotMix /\ FailedWasNeverSent)
<1>1. Adapter!Init => AnswersAreHonest /\ CallsDoNotMix
  <2> SUFFICES ASSUME Adapter!Init PROVE AnswersAreHonest /\ CallsDoNotMix
    OBVIOUS
  <2> DEFINE D == [t \in Sends |-> Dev(t)]
             H == [t \in Sends |-> Handed(t)]
             R == [t \in Sends |-> Result(t)]
  <2>1. /\ D = [t \in Sends |-> "waiting"] /\ H = [t \in Sends |-> {}]
        /\ R = [t \in Sends |-> "none"]
    BY DEF Adapter!Init
  <2>2. \A t \in Sends : D[t] = Dev(t) /\ H[t] = Handed(t) /\ R[t] = Result(t)
    OBVIOUS
  <2> HIDE DEF D, H, R
  <2>3. \A t \in Sends : Dev(t) = "waiting" /\ Handed(t) = {} /\ Result(t) = "none"
    BY <2>1, <2>2
  <2> QED BY <2>3 DEF AnswersAreHonest, CallsDoNotMix
<1>2. AnswersAreHonest /\ CallsDoNotMix /\ [Adapter!Next]_(Adapter!vars) =>
        (AnswersAreHonest /\ CallsDoNotMix)'
  BY CallKeepsAnswers
<1>3. AnswersAreHonest => FailedWasNeverSent
  <2> SUFFICES ASSUME AnswersAreHonest, NEW s \in Sends, verdict[s] = "failed", NEW d \in Own(s)
               PROVE  place[d] = "none"
    BY DEF FailedWasNeverSent
  <2>1. Handed(s) = {}
    BY DEF AnswersAreHonest, Result
  <2>2. PICK i \in 1 .. CopiesOf[s] : d = <<s, i>>
    BY OwnDocuments
  <2> QED BY <2>1, <2>2 DEF Handed
<1> QED BY <1>1, <1>2, <1>3, PTL DEF IsAnAdapterCall, Adapter!Spec
=============================================================================
