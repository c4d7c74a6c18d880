-------------------------- MODULE SupervisedProofs ---------------------------
(***************************************************************************)
(* Proofs about the two supervisors that requests share: the one-thread    *)
(* worker of the Headroom seam and the login of kimi.                      *)
(***************************************************************************)
EXTENDS KimiLogin, HeadroomWorker, FiniteSetTheorems, TLAPS

(***************************************************************************)
(* HeadroomWorker: for any number of requests.                             *)
(***************************************************************************)

\* The slot is never lost because whoever takes it is an owner until the step in
\* which it gives the slot back; types are needed for the counter only.
SeamInv == SeamTypeOK /\ TakenIsOwned

\* A request that ends keeps the types.
LEMMA FinishType ==
    ASSUME SeamTypeOK, NEW r \in Requests, NEW o, Finish(r, o)
    PROVE  /\ stage' \in [Requests -> {"new", "waiting", "expired", "ended"}]
           /\ sent' \in [Requests -> {"none", "original", "compressed"}]
BY DEF SeamTypeOK, Finish

\* Giving a slot back keeps the count between zero and one, and ends at zero.
LEMMA ReleasedIsZero == ASSUME SeamTypeOK PROVE Released = 0
BY DEF SeamTypeOK, Released

\* The steps of the event loop keep the types.
LEMMA LoopTypes ==
    ASSUME SeamTypeOK, NEW r \in Requests,
           PassThrough(r) \/ RefuseBusy(r) \/ Submit(r) \/ Loop(r)
    PROVE  SeamTypeOK'
<1>1. CASE PassThrough(r)
  <2>1. PICK o : Finish(r, o)
    BY <1>1 DEF PassThrough
  <2> QED BY <1>1, <2>1, FinishType DEF PassThrough, SeamTypeOK
<1>2. CASE RefuseBusy(r)
  BY <1>2, FinishType DEF RefuseBusy, SeamTypeOK
<1>3. CASE Submit(r)
  BY <1>3 DEF Submit, SeamTypeOK, Queued
<1>4. CASE TimeoutFires(r)
  BY <1>4 DEF TimeoutFires, SeamTypeOK, Results, Queued
<1>5. CASE TimeoutHandled(r)
  BY <1>5, FinishType, ReleasedIsZero DEF TimeoutHandled, SeamTypeOK
<1>6. CASE Deliver(r)
  <2>1. result' \in [Requests -> Results]
    BY <1>6 DEF Deliver, SeamTypeOK, Results
  <2>2. Finish(r, Judge(result[r])) /\ UNCHANGED <<job, queue, slots>>
    BY <1>6 DEF Deliver
  <2> QED BY <2>1, <2>2, FinishType DEF SeamTypeOK
<1> QED BY <1>1, <1>2, <1>3, <1>4, <1>5, <1>6 DEF Loop

\* The steps of the pool's thread keep the types.
LEMMA PoolTypes ==
    ASSUME SeamTypeOK, Pool \/ \E r \in Requests : WorkerReleases(r)
    PROVE  SeamTypeOK'
<1>1. CASE WorkerTakes
  <2>1. queue' \in Seq(Requests)
    BY <1>1 DEF WorkerTakes, SeamTypeOK
  <2>2. job' \in [Requests -> {"none", "released", "done", "cancelled"} \cup Queued]
    BY <1>1 DEF WorkerTakes, SeamTypeOK, Queued
  <2> QED BY <1>1, <2>1, <2>2 DEF WorkerTakes, SeamTypeOK
<1>2. ASSUME NEW r \in Requests, WorkerStarts(r) \/ WorkerFinishes(r)
      PROVE  SeamTypeOK'
  BY <1>2 DEF WorkerStarts, WorkerFinishes, SeamTypeOK, Queued
<1>3. ASSUME NEW r \in Requests, WorkerReleases(r)
      PROVE  SeamTypeOK'
  <2>1. result' \in [Requests -> Results]
    BY <1>3 DEF WorkerReleases, SeamTypeOK
  <2>2. slots' \in 0..1
    BY <1>3, ReleasedIsZero DEF WorkerReleases
  <2>3. job' \in [Requests -> {"none", "released", "done", "cancelled"} \cup Queued]
    BY <1>3 DEF WorkerReleases, SeamTypeOK
  <2>4. UNCHANGED <<stage, queue, sent>>
    BY <1>3 DEF WorkerReleases
  <2> QED BY <2>1, <2>2, <2>3, <2>4 DEF SeamTypeOK
<1> QED BY <1>1, <1>2, <1>3 DEF Pool

\* An owner stays one until it gives the slot back.
LEMMA SlotStep == ASSUME SeamInv, [SeamNext]_seamVars PROVE TakenIsOwned'
<1> USE DEF SeamInv
<1>1. CASE slots' = 0
  BY <1>1 DEF TakenIsOwned
<1>2. ASSUME NEW r \in Requests, Submit(r)
      PROVE  TakenIsOwned'
  BY <1>2 DEF Submit, TakenIsOwned, Owners, Queued, SeamTypeOK
<1>3. ASSUME NEW r \in Requests, PassThrough(r) \/ RefuseBusy(r) \/ Deliver(r)
      PROVE  TakenIsOwned'
  BY <1>3 DEF PassThrough, RefuseBusy, Deliver, Finish, TakenIsOwned, Owners, Queued, SeamTypeOK
<1>4. ASSUME NEW r \in Requests, TimeoutFires(r)
      PROVE  TakenIsOwned'
  BY <1>4 DEF TimeoutFires, TakenIsOwned, Owners, Queued, SeamTypeOK
<1>5. ASSUME NEW r \in Requests, TimeoutHandled(r), slots' # 0
      PROVE  TakenIsOwned'
  <2>1. job[r] \notin {"taken", "cancelled"} /\ slots' = slots
    BY <1>5, ReleasedIsZero DEF TimeoutHandled
  <2> QED BY <1>5, <2>1 DEF TimeoutHandled, Finish, TakenIsOwned, Owners, Queued, SeamTypeOK
<1>6. CASE WorkerTakes
  BY <1>6 DEF WorkerTakes, TakenIsOwned, Owners, Queued, SeamTypeOK
<1>7. ASSUME NEW r \in Requests, WorkerStarts(r) \/ WorkerFinishes(r)
      PROVE  TakenIsOwned'
  BY <1>7 DEF WorkerStarts, WorkerFinishes, TakenIsOwned, Owners, Queued, SeamTypeOK
<1>8. ASSUME NEW r \in Requests, WorkerReleases(r)
      PROVE  slots' = 0
  BY <1>8, ReleasedIsZero DEF WorkerReleases
<1>9. CASE UNCHANGED seamVars
  BY <1>9 DEF seamVars, TakenIsOwned, Owners
<1> QED
  BY <1>1, <1>2, <1>3, <1>4, <1>5, <1>6, <1>7, <1>8, <1>9 DEF SeamNext, Loop, Pool

\* The invariant holds in every run.
LEMMA Invariance == SeamSpec => []SeamInv
<1>1. SeamInit => SeamInv
  BY DEF SeamInit, SeamInv, SeamTypeOK, TakenIsOwned, Results, Queued
<1>2. SeamInv /\ [SeamNext]_seamVars => SeamInv'
  <2>1. ASSUME SeamTypeOK, UNCHANGED seamVars PROVE SeamTypeOK'
    BY <2>1 DEF seamVars, SeamTypeOK
  <2> QED BY <2>1, LoopTypes, PoolTypes, SlotStep DEF SeamInv, SeamNext
<1> QED BY <1>1, <1>2, PTL DEF SeamSpec

\* The worker counter stays between 0 and 1 although a slot can be released twice.
THEOREM SeamTypeCorrect == SeamSpec => []SeamTypeOK
<1>1. SeamInv => SeamTypeOK
  BY DEF SeamInv
<1> QED BY <1>1, Invariance, PTL

\* While the counter refuses requests somebody is there to give the slot back, and it
\* comes back once, in every interleaving of the event loop with the pool's thread.
THEOREM SlotIsNeverLost == SeamSpec => []NoPhantomSlot
<1>1. SeamInv => NoPhantomSlot
  BY DEF SeamInv, SeamTypeOK, NoPhantomSlot
<1> QED BY <1>1, Invariance, PTL

\* A request that ends changes what is sent of itself only.
LEMMA FinishSends ==
    ASSUME SeamTypeOK, NEW r \in Requests, NEW o, Finish(r, o),
           NEW q \in Requests, sent'[q] # sent[q], sent'[q] = "compressed"
    PROVE  q = r /\ o = "compressed"
BY DEF SeamTypeOK, Finish

\* Only Deliver sends anything compressed, and what it sends passed every check on
\* what the compressor returned: no interleaving with a timeout or another request's
\* job puts another result in its place.
THEOREM CompressionIsUsable == SeamSpec => DispatchesOnlyUsable
<1>1. ASSUME SeamInv, [SeamNext]_seamVars, NEW q \in Requests,
             sent'[q] # sent[q], sent'[q] = "compressed"
      PROVE  /\ ~result[q].raised /\ ~result[q].inflated
             /\ result[q].shaped /\ ~result[q].marked
  <2> USE DEF SeamInv
  <2>1. ASSUME NEW r \in Requests, PassThrough(r) \/ RefuseBusy(r) \/ TimeoutHandled(r)
        PROVE  FALSE
    <3>1. PICK o : Finish(r, o) /\ o # "compressed"
      BY <2>1 DEF PassThrough, RefuseBusy, TimeoutHandled
    <3> QED BY <1>1, <3>1, FinishSends
  <2>2. ASSUME NEW r \in Requests, Submit(r) \/ TimeoutFires(r)
        PROVE  FALSE
    BY <1>1, <2>2 DEF Submit, TimeoutFires
  <2>3. ASSUME Pool \/ (\E r \in Requests : WorkerReleases(r)) \/ UNCHANGED seamVars
        PROVE  FALSE
    BY <1>1, <2>3 DEF Pool, WorkerTakes, WorkerStarts, WorkerFinishes, WorkerReleases, seamVars
  <2>4. PICK r \in Requests : Deliver(r)
    BY <1>1, <2>1, <2>2, <2>3 DEF SeamNext, Loop
  <2>5. q = r /\ Judge(result[r]) = "compressed"
    BY <1>1, <2>4, FinishSends DEF Deliver
  <2> QED BY <2>5 DEF Judge
<1>2. SeamInv /\ [SeamNext]_seamVars =>
        [\A r \in Requests : sent'[r] # sent[r] /\ sent'[r] = "compressed" =>
            /\ ~result[r].raised /\ ~result[r].inflated
            /\ result[r].shaped /\ ~result[r].marked]_sent
  BY <1>1
<1> QED BY <1>2, Invariance, PTL DEF SeamSpec, DispatchesOnlyUsable

(***************************************************************************)
(* Proofs about KimiLogin, for any finite number of callers.               *)
(*                                                                         *)
(* A login that has not ended is the one callers join or the one that is   *)
(* cleaned up, and there is never one of each (AtMostOne, InHand).  A      *)
(* child that outlives its login makes the coordinator refuse for ever     *)
(* (Outlived), so that a login that starts finds no child (Fresh).  A      *)
(* login is cancelled once, when its last caller goes or at the shutdown   *)
(* (KilledLater, NotTwice), which is why a drain that fails is not cut     *)
(* short.  The counter of waiters is what tells the last caller (Counted). *)
(***************************************************************************)

Waiting == {r \in Callers : pc[r] = "waiting"}

\* _waiters counts the callers that wait for a login.
Counted == waiters = Cardinality(Waiting)

\* There is a login to join or one to clean up, not both.
AtMostOne == attempt = None \/ cleanup = None

\* A login that has not ended is one of these.
InHand == \A t \in Callers : login[t] \in Stages => t = attempt \/ t = cleanup

\* A child belongs to a login that is past its start.
Belongs == \A t \in Callers : child[t] => login[t] \notin {"none", "starting"}

\* A child that outlived its login is known.
Outlived == \A t \in Callers : child[t] /\ Ended(t) => fatal

\* A login only starts while no child is lost.
Fresh == \A t \in Callers : login[t] = "starting" => ~fatal

Shutting == closing \notin {"open", "asked"}

\* A login is cancelled to be cleaned up, or by the shutdown.
KilledLater == \A t \in Callers : kill[t] => login[t] \in Stages /\ (t = cleanup \/ Shutting)

\* A login whose child may still be lost is not cancelled again.
NotTwice ==
    \A t \in Callers :
        login[t] = "draining" /\ child[t] /\ ~fatal => ~kill[t] /\ (t = cleanup \/ Shutting)

\* The shutdown cancels a login that nobody cancelled.
DoomedOnce == closing = "asked" /\ doomed.task # None => doomed.task # cleanup

\* A login that was ever in hand has begun, and one that drains knows its end.
Begun ==
    /\ attempt # None => login[attempt] # "none"
    /\ doomed.task # None => login[doomed.task] # "none"
    /\ \A t \in Callers : login[t] = "draining" => fate[t] \in Fates

\* The shutdown was given whatever was in hand.
AllDoomed ==
    isClosed => attempt \in {None, doomed.task} /\ cleanup \in {None, doomed.cleanup}

\* A caller that has not got past the loop has started nothing.
Unstarted ==
    \A r \in Callers : pc[r] \in {"away", "blocked"} => login[r] = "none" /\ fate[r] = "none"

\* Until the shutdown, those who wait await the login in hand ...
Together == \A r \in Waiting : joined[r] \in Callers /\ (~isClosed => joined[r] = attempt)

\* ... which is not on its way to a cancelled end.
Sound ==
    ~isClosed /\ attempt # None =>
        login[attempt] \notin {"stopping", "cancelled"} /\ fate[attempt] # "cancelled"

Logins == AtMostOne /\ InHand /\ Belongs /\ Outlived /\ Fresh /\ Unstarted
Kills == KilledLater /\ NotTwice /\ DoomedOnce /\ Begun /\ AllDoomed
Company == Together /\ Sound /\ Counted

IInv == TypeOK /\ Logins /\ Kills /\ Company /\ OneChild /\ CloseReaps

-----------------------------------------------------------------------------
(* Counting *)

\* The number of waiting callers is a number, and 0 if there are none.
LEMMA WaitingCard ==
    /\ IsFiniteSet(Waiting)
    /\ Cardinality(Waiting) \in Nat
    /\ Cardinality(Waiting) <= Cardinality(Callers)
    /\ Cardinality(Waiting) = 0 => Waiting = {}
<1>1. Waiting \subseteq Callers
  BY DEF Waiting
<1>2. IsFiniteSet(Waiting)
  BY <1>1, CallersOK, FS_Subset
<1>3. QED
  BY <1>1, <1>2, CallersOK, FS_Subset, FS_CardinalityType, FS_EmptySet

\* One caller more waits, or one less.
LEMMA WaitingChanges ==
    ASSUME NEW r \in Callers, NEW p, TypeOK, Counted, Goto(r, p)
    PROVE  /\ (pc[r] # "waiting" /\ p # "waiting" => Waiting' = Waiting)
           /\ (pc[r] # "waiting" /\ p = "waiting" =>
                  /\ Waiting' = Waiting \cup {r}
                  /\ Cardinality(Waiting') = waiters + 1
                  /\ waiters + 1 \in 0..Cardinality(Callers))
           /\ (pc[r] = "waiting" /\ p # "waiting" =>
                  /\ Waiting' = Waiting \ {r}
                  /\ Cardinality(Waiting') = waiters - 1
                  /\ waiters - 1 \in 0..Cardinality(Callers)
                  /\ waiters = 1 => Waiting' = {})
<1>1. pc' = [pc EXCEPT ![r] = p] /\ pc \in [Callers -> {"away", "blocked", "waiting", "reaping"} \cup Answers]
  BY DEF Goto, TypeOK
<1>2. CASE pc[r] # "waiting" /\ p # "waiting"
  BY <1>1, <1>2 DEF Waiting
<1>3. CASE pc[r] # "waiting" /\ p = "waiting"
  <2>1. Waiting' = Waiting \cup {r} /\ r \notin Waiting
    BY <1>1, <1>3 DEF Waiting
  <2>2. Cardinality(Waiting') = waiters + 1
    BY <2>1, WaitingCard, FS_AddElement DEF Counted
  <2>3. Waiting' \subseteq Callers
    BY <2>1 DEF Waiting
  <2>4. Cardinality(Waiting') <= Cardinality(Callers)
    BY <2>3, CallersOK, FS_Subset
  <2>5. Cardinality(Callers) \in Nat
    BY CallersOK, FS_CardinalityType
  <2>6. QED
    BY <1>3, <2>1, <2>2, <2>4, <2>5, WaitingCard DEF Counted
<1>4. CASE pc[r] = "waiting" /\ p # "waiting"
  <2>1. Waiting' = Waiting \ {r} /\ r \in Waiting
    BY <1>1, <1>4 DEF Waiting
  <2>2. Cardinality(Waiting') = waiters - 1
    BY <2>1, WaitingCard, FS_RemoveElement DEF Counted
  <2>3. Waiting' \subseteq Callers
    BY <2>1 DEF Waiting
  <2>4. IsFiniteSet(Waiting') /\ Cardinality(Waiting') <= Cardinality(Callers)
    BY <2>3, CallersOK, FS_Subset
  <2>5. Cardinality(Callers) \in Nat /\ Cardinality(Waiting') \in Nat
    BY <2>4, CallersOK, FS_CardinalityType
  <2>6. waiters = 1 => Waiting' = {}
    BY <2>2, <2>4, FS_EmptySet, WaitingCard DEF Counted
  <2>7. QED
    BY <1>4, <2>1, <2>2, <2>4, <2>5, <2>6, WaitingCard DEF Counted
<1>5. QED
  BY <1>2, <1>3, <1>4

-----------------------------------------------------------------------------
(* The invariant *)

\* A coordinator that nobody has called satisfies the invariant.
LEMMA InitInv == Init => IInv
<1> SUFFICES ASSUME Init PROVE IInv
  OBVIOUS
<1>1. Cardinality(Callers) \in Nat
  BY CallersOK, FS_CardinalityType
<1>2. TypeOK
  <2>1. waiters \in 0..Cardinality(Callers)
    BY <1>1 DEF Init
  <2>2. /\ pc \in [Callers -> {"away", "blocked", "waiting", "reaping"} \cup Answers]
        /\ login \in [Callers -> {"none"} \cup Stages \cup Fates]
        /\ fate \in [Callers -> Fates \cup {"none"}]
    BY DEF Init
  <2>3. QED
    BY <2>1, <2>2 DEF Init, TypeOK
<1>3. Waiting = {}
  BY DEF Init, Waiting
<1>4. Counted
  BY <1>3, FS_EmptySet DEF Init, Counted
<1>5. Logins
  BY NoneOK DEF Init, Logins, AtMostOne, InHand, Belongs, Outlived, Fresh, Unstarted, Stages, Ended, Fates
<1>6. Kills
  BY DEF Init, Kills, KilledLater, NotTwice, DoomedOnce, Begun, AllDoomed, isClosed
<1>7. Together /\ Sound
  BY <1>3 DEF Init, Together, Sound
<1>8. OneChild /\ CloseReaps
  BY DEF Init, OneChild, CloseReaps
<1>9. QED
  BY <1>2, <1>4, <1>5, <1>6, <1>7, <1>8 DEF IInv, Company

-----------------------------------------------------------------------------
(* Steps *)

\* Every step keeps the types.
LEMMA TypeStep == IInv /\ [Next]_vars => TypeOK'
<1> SUFFICES ASSUME IInv, [Next]_vars PROVE TypeOK'
  OBVIOUS
<1> USE DEF IInv
<1>0. Cardinality(Callers) \in Nat /\ TypeOK /\ Counted
  BY CallersOK, FS_CardinalityType DEF Company
<1>1. ASSUME NEW r \in Callers, Refuse(r) PROVE TypeOK'
  BY <1>0, <1>1, WaitingChanges DEF TypeOK, Stages, Fates, Answers, Refuse, Enters, Goto, callerVars, loginVars, closeVars, isClosed
<1>2. ASSUME NEW r \in Callers, Block(r) PROVE TypeOK'
  BY <1>0, <1>2, WaitingChanges DEF TypeOK, Stages, Fates, Answers, Block, Enters, Goto, callerVars, loginVars, closeVars, isClosed
<1>3. ASSUME NEW r \in Callers, Start(r) PROVE TypeOK'
  BY <1>0, <1>3, WaitingChanges DEF TypeOK, Stages, Fates, Answers, Start, MayLogIn, Enters, Goto, callerVars, loginVars, closeVars, isClosed
<1>4. ASSUME NEW r \in Callers, Join(r) PROVE TypeOK'
  BY <1>0, <1>4, WaitingChanges DEF TypeOK, Stages, Fates, Answers, Join, MayLogIn, Enters, Goto, callerVars, loginVars, closeVars, isClosed
<1>5. ASSUME NEW r \in Callers, JoinEnded(r) PROVE TypeOK'
  BY <1>0, <1>5, WaitingChanges DEF TypeOK, Stages, Fates, Answers, JoinEnded, MayLogIn, Enters, Answer, Goto, callerVars, loginVars, closeVars, isClosed
<1>6. ASSUME NEW r \in Callers, Return(r) PROVE TypeOK'
  <2> DEFINE p == Answer(joined[r])
  <2>1. pc[r] = "waiting" /\ p # "waiting" /\ Goto(r, p) /\ waiters' = waiters - 1
    BY <1>6 DEF Return, Answer
  <2>2. waiters' \in 0..Cardinality(Callers)'
    BY <1>0, <2>1, WaitingChanges
  <2>3. QED
    BY <1>0, <1>6, <2>2 DEF TypeOK, Stages, Fates, Answers, Return, Answer, Goto, callerVars, loginVars, closeVars, isClosed
<1>7. ASSUME NEW r \in Callers, AbandonLast(r) PROVE TypeOK'
  <2> DEFINE p == "reaping"
  <2>1. pc[r] = "waiting" /\ p # "waiting" /\ Goto(r, p) /\ waiters' = waiters - 1
    BY <1>7 DEF AbandonLast
  <2>2. waiters' \in 0..Cardinality(Callers)'
    BY <1>0, <2>1, WaitingChanges
  <2>3. QED
    BY <1>0, <1>7, <2>2 DEF TypeOK, Stages, Fates, Answers, AbandonLast, Last, Goto, callerVars, loginVars, closeVars, isClosed
<1>8. ASSUME NEW r \in Callers, Abandon(r) PROVE TypeOK'
  <2> DEFINE p == IF isClosed THEN "answered" ELSE "cancelled"
  <2>1. pc[r] = "waiting" /\ p # "waiting" /\ Goto(r, p) /\ waiters' = waiters - 1
    BY <1>8 DEF Abandon
  <2>2. waiters' \in 0..Cardinality(Callers)'
    BY <1>0, <2>1, WaitingChanges
  <2>3. QED
    BY <1>0, <1>8, <2>2 DEF TypeOK, Stages, Fates, Answers, Abandon, Last, Goto, callerVars, loginVars, closeVars, isClosed
<1>9. ASSUME NEW r \in Callers, Leave(r) PROVE TypeOK'
  BY <1>0, <1>9, WaitingChanges DEF TypeOK, Stages, Fates, Answers, Leave, CleanedUp, Goto, callerVars, loginVars, closeVars, isClosed
<1>10. ASSUME NEW r \in Callers, Interrupt(r) PROVE TypeOK'
  BY <1>0, <1>10, WaitingChanges DEF TypeOK, Stages, Fates, Answers, Interrupt, Goto, callerVars, loginVars, closeVars, isClosed
<1>11. ASSUME NEW r \in Callers, Spawned(r) PROVE TypeOK'
  BY <1>0, <1>11 DEF TypeOK, Stages, Fates, Answers, Spawned, Advance, rest, callerVars, loginVars, closeVars, isClosed
<1>12. ASSUME NEW r \in Callers, SpawnFails(r) PROVE TypeOK'
  BY <1>0, <1>12 DEF TypeOK, Stages, Fates, Answers, SpawnFails, Advance, rest, callerVars, loginVars, closeVars, isClosed
<1>13. ASSUME NEW r \in Callers, CancelledEarly(r) PROVE TypeOK'
  BY <1>0, <1>13 DEF TypeOK, Stages, Fates, Answers, CancelledEarly, Advance, rest, callerVars, loginVars, closeVars, isClosed
<1>14. ASSUME NEW r \in Callers, ChildExits(r) PROVE TypeOK'
  BY <1>0, <1>14 DEF TypeOK, Stages, Fates, Answers, ChildExits, Advance, rest, callerVars, loginVars, closeVars, isClosed
<1>15. ASSUME NEW r \in Callers, Exited(r) PROVE TypeOK'
  BY <1>0, <1>15 DEF TypeOK, Stages, Fates, Answers, Exited, Advance, rest, callerVars, loginVars, closeVars, isClosed
<1>16. ASSUME NEW r \in Callers, TimesOut(r) PROVE TypeOK'
  BY <1>0, <1>16 DEF TypeOK, Stages, Fates, Answers, TimesOut, Advance, rest, callerVars, loginVars, closeVars, isClosed
<1>17. ASSUME NEW r \in Callers, CancelRunning(r) PROVE TypeOK'
  BY <1>0, <1>17 DEF TypeOK, Stages, Fates, Answers, CancelRunning, Advance, rest, callerVars, loginVars, closeVars, isClosed
<1>18. ASSUME NEW r \in Callers, StopLate(r) PROVE TypeOK'
  BY <1>0, <1>18 DEF TypeOK, Stages, Fates, Answers, StopLate, Advance, Reap, rest, callerVars, loginVars, closeVars, isClosed
<1>19. ASSUME NEW r \in Callers, StopCancelled(r) PROVE TypeOK'
  BY <1>0, <1>19 DEF TypeOK, Stages, Fates, Answers, StopCancelled, Advance, Reap, rest, callerVars, loginVars, closeVars, isClosed
<1>20. ASSUME NEW r \in Callers, StopCutShort(r) PROVE TypeOK'
  BY <1>0, <1>20 DEF TypeOK, Stages, Fates, Answers, StopCutShort, Advance, rest, callerVars, loginVars, closeVars, isClosed
<1>21. ASSUME NEW r \in Callers, Drained(r) PROVE TypeOK'
  BY <1>0, <1>21 DEF TypeOK, Stages, Fates, Answers, Drained, Advance, rest, callerVars, loginVars, closeVars, isClosed
<1>22. ASSUME NEW r \in Callers, DrainsStuck(r) PROVE TypeOK'
  BY <1>0, <1>22 DEF TypeOK, Stages, Fates, Answers, DrainsStuck, Advance, rest, callerVars, loginVars, closeVars, isClosed
<1>23. ASSUME NEW r \in Callers, DrainsCutShort(r) PROVE TypeOK'
  BY <1>0, <1>23 DEF TypeOK, Stages, Fates, Answers, DrainsCutShort, Advance, rest, callerVars, loginVars, closeVars, isClosed
<1>24. ASSUME FinishCleanup PROVE TypeOK'
  BY <1>0, <1>24 DEF TypeOK, Stages, Fates, Answers, FinishCleanup, callerVars, loginVars, closeVars, isClosed
<1>25. ASSUME Close PROVE TypeOK'
  BY <1>0, <1>25 DEF TypeOK, Stages, Fates, Answers, Close, callerVars, loginVars, closeVars, isClosed
<1>26. ASSUME CancelLogin PROVE TypeOK'
  BY <1>0, <1>26 DEF TypeOK, Stages, Fates, Answers, CancelLogin, callerVars, loginVars, closeVars, isClosed
<1>27. ASSUME FinishClose PROVE TypeOK'
  BY <1>0, <1>27 DEF TypeOK, Stages, Fates, Answers, FinishClose, Reaped, CleanedUp, callerVars, loginVars, closeVars, isClosed
<1>28. UNCHANGED vars => TypeOK'
  BY <1>0 DEF TypeOK, vars, callerVars, loginVars, closeVars
<1>29. QED
  BY <1>1, <1>2, <1>3, <1>4, <1>5, <1>6, <1>7, <1>8, <1>9, <1>10, <1>11, <1>12, <1>13, <1>14, <1>15, <1>16, <1>17, <1>18, <1>19, <1>20, <1>21, <1>22, <1>23, <1>24, <1>25, <1>26, <1>27, <1>28 DEF Next, Await, RunLogin, Shutdown

\* A waiting caller waits for a login.
LEMMA JoinedIsCaller ==
    ASSUME IInv, NEW r \in Callers, pc[r] = "waiting"
    PROVE  joined[r] \in Callers /\ (~isClosed => joined[r] = attempt)
BY DEF IInv, Company, Together, Waiting

\* Every step keeps what is known of the logins in hand.
LEMMA LoginsStep == IInv /\ [Next]_vars => Logins'
<1> SUFFICES ASSUME IInv, [Next]_vars PROVE Logins'
  OBVIOUS
<1> USE NoneOK DEF IInv, TypeOK, Logins, Kills, AtMostOne, InHand, Belongs, Outlived, Fresh, Unstarted, KilledLater, NotTwice, Stages, Fates, Answers, Ended, isClosed, Shutting
<1>1. ASSUME NEW r \in Callers, Refuse(r) PROVE Logins'
  BY <1>1 DEF Refuse, Enters, Goto, callerVars, loginVars, closeVars
<1>2. ASSUME NEW r \in Callers, Block(r) PROVE Logins'
  BY <1>2 DEF Block, Enters, Goto, callerVars, loginVars, closeVars
<1>3. ASSUME NEW r \in Callers, Start(r) PROVE Logins'
  BY <1>3 DEF Start, MayLogIn, Enters, Goto, callerVars, loginVars, closeVars
<1>4. ASSUME NEW r \in Callers, Join(r) PROVE Logins'
  BY <1>4 DEF Join, MayLogIn, Enters, Goto, callerVars, loginVars, closeVars
<1>5. ASSUME NEW r \in Callers, JoinEnded(r) PROVE Logins'
  BY <1>5 DEF JoinEnded, MayLogIn, Enters, Answer, Goto, callerVars, loginVars, closeVars
<1>6. ASSUME NEW r \in Callers, Return(r) PROVE Logins'
  BY <1>6 DEF Return, Answer, Goto, callerVars, loginVars, closeVars
<1>7. ASSUME NEW r \in Callers, AbandonLast(r) PROVE Logins'
  BY <1>7, JoinedIsCaller DEF AbandonLast, Last, Goto, callerVars, loginVars, closeVars
<1>8. ASSUME NEW r \in Callers, Abandon(r) PROVE Logins'
  BY <1>8 DEF Abandon, Last, Goto, callerVars, loginVars, closeVars
<1>9. ASSUME NEW r \in Callers, Leave(r) PROVE Logins'
  BY <1>9 DEF Leave, CleanedUp, Goto, callerVars, loginVars, closeVars
<1>10. ASSUME NEW r \in Callers, Interrupt(r) PROVE Logins'
  BY <1>10 DEF Interrupt, Goto, callerVars, loginVars, closeVars
<1>11. ASSUME NEW r \in Callers, Spawned(r) PROVE Logins'
  BY <1>11 DEF Spawned, rest, Advance, callerVars, loginVars, closeVars
<1>12. ASSUME NEW r \in Callers, SpawnFails(r) PROVE Logins'
  BY <1>12 DEF SpawnFails, rest, Advance, callerVars, loginVars, closeVars
<1>13. ASSUME NEW r \in Callers, CancelledEarly(r) PROVE Logins'
  BY <1>13 DEF CancelledEarly, rest, Advance, callerVars, loginVars, closeVars
<1>14. ASSUME NEW r \in Callers, ChildExits(r) PROVE Logins'
  BY <1>14 DEF ChildExits, rest, callerVars, loginVars, closeVars
<1>15. ASSUME NEW r \in Callers, Exited(r) PROVE Logins'
  BY <1>15 DEF Exited, rest, Advance, callerVars, loginVars, closeVars
<1>16. ASSUME NEW r \in Callers, TimesOut(r) PROVE Logins'
  BY <1>16 DEF TimesOut, rest, Advance, callerVars, loginVars, closeVars
<1>17. ASSUME NEW r \in Callers, CancelRunning(r) PROVE Logins'
  BY <1>17 DEF CancelRunning, rest, Advance, callerVars, loginVars, closeVars
<1>18. ASSUME NEW r \in Callers, StopLate(r) PROVE Logins'
  BY <1>18 DEF StopLate, Reap, rest, Advance, callerVars, loginVars, closeVars
<1>19. ASSUME NEW r \in Callers, StopCancelled(r) PROVE Logins'
  BY <1>19 DEF StopCancelled, Reap, rest, Advance, callerVars, loginVars, closeVars
<1>20. ASSUME NEW r \in Callers, StopCutShort(r) PROVE Logins'
  BY <1>20 DEF StopCutShort, rest, callerVars, loginVars, closeVars
<1>21. ASSUME NEW r \in Callers, Drained(r) PROVE Logins'
  BY <1>21 DEF Drained, rest, Advance, callerVars, loginVars, closeVars
<1>22. ASSUME NEW r \in Callers, DrainsStuck(r) PROVE Logins'
  BY <1>22 DEF DrainsStuck, rest, Advance, callerVars, loginVars, closeVars
<1>23. ASSUME NEW r \in Callers, DrainsCutShort(r) PROVE Logins'
  BY <1>23 DEF DrainsCutShort, rest, Advance, callerVars, loginVars, closeVars
<1>24. ASSUME FinishCleanup PROVE Logins'
  BY <1>24 DEF FinishCleanup, callerVars, loginVars, closeVars
<1>25. ASSUME Close PROVE Logins'
  BY <1>25 DEF Close, callerVars, loginVars, closeVars
<1>26. ASSUME CancelLogin PROVE Logins'
  BY <1>26 DEF CancelLogin, callerVars, loginVars, closeVars
<1>27. ASSUME FinishClose PROVE Logins'
  BY <1>27 DEF FinishClose, Reaped, CleanedUp, callerVars, loginVars, closeVars
<1>28. UNCHANGED vars => Logins'
  BY DEF vars, callerVars, loginVars, closeVars
<1>29. QED
  BY <1>1, <1>2, <1>3, <1>4, <1>5, <1>6, <1>7, <1>8, <1>9, <1>10, <1>11, <1>12, <1>13, <1>14, <1>15, <1>16, <1>17, <1>18, <1>19, <1>20, <1>21, <1>22, <1>23, <1>24, <1>25, <1>26, <1>27, <1>28 DEF Next, Await, RunLogin, Shutdown

\* Every step keeps what is known of cancelled logins and of the shutdown.
LEMMA KillsStep == IInv /\ [Next]_vars => Kills'
<1> SUFFICES ASSUME IInv, [Next]_vars PROVE Kills'
  OBVIOUS
<1> USE NoneOK DEF IInv, TypeOK, Logins, Kills, AtMostOne, InHand, KilledLater, NotTwice, DoomedOnce, Begun, AllDoomed, Stages, Fates, Answers, Ended, isClosed, Shutting
<1>1. ASSUME NEW r \in Callers, Refuse(r) PROVE Kills'
  BY <1>1 DEF Refuse, Enters, Goto, callerVars, loginVars, closeVars
<1>2. ASSUME NEW r \in Callers, Block(r) PROVE Kills'
  BY <1>2 DEF Block, Enters, Goto, callerVars, loginVars, closeVars
<1>3. ASSUME NEW r \in Callers, Start(r) PROVE Kills'
  BY <1>3 DEF Start, MayLogIn, Enters, Goto, callerVars, loginVars, closeVars
<1>4. ASSUME NEW r \in Callers, Join(r) PROVE Kills'
  BY <1>4 DEF Join, MayLogIn, Enters, Goto, callerVars, loginVars, closeVars
<1>5. ASSUME NEW r \in Callers, JoinEnded(r) PROVE Kills'
  BY <1>5 DEF JoinEnded, MayLogIn, Enters, Answer, Goto, callerVars, loginVars, closeVars
<1>6. ASSUME NEW r \in Callers, Return(r) PROVE Kills'
  BY <1>6 DEF Return, Answer, Goto, callerVars, loginVars, closeVars
<1>7. ASSUME NEW r \in Callers, AbandonLast(r) PROVE Kills'
  BY <1>7, JoinedIsCaller DEF AbandonLast, Last, Goto, callerVars, loginVars, closeVars
<1>8. ASSUME NEW r \in Callers, Abandon(r) PROVE Kills'
  BY <1>8 DEF Abandon, Last, Goto, callerVars, loginVars, closeVars
<1>9. ASSUME NEW r \in Callers, Leave(r) PROVE Kills'
  BY <1>9 DEF Leave, CleanedUp, Goto, callerVars, loginVars, closeVars
<1>10. ASSUME NEW r \in Callers, Interrupt(r) PROVE Kills'
  BY <1>10 DEF Interrupt, Goto, callerVars, loginVars, closeVars
<1>11. ASSUME NEW r \in Callers, Spawned(r) PROVE Kills'
  BY <1>11 DEF Spawned, rest, Advance, callerVars, loginVars, closeVars
<1>12. ASSUME NEW r \in Callers, SpawnFails(r) PROVE Kills'
  BY <1>12 DEF SpawnFails, rest, Advance, callerVars, loginVars, closeVars
<1>13. ASSUME NEW r \in Callers, CancelledEarly(r) PROVE Kills'
  BY <1>13 DEF CancelledEarly, rest, Advance, callerVars, loginVars, closeVars
<1>14. ASSUME NEW r \in Callers, ChildExits(r) PROVE Kills'
  BY <1>14 DEF ChildExits, rest, callerVars, loginVars, closeVars
<1>15. ASSUME NEW r \in Callers, Exited(r) PROVE Kills'
  BY <1>15 DEF Exited, rest, Advance, callerVars, loginVars, closeVars
<1>16. ASSUME NEW r \in Callers, TimesOut(r) PROVE Kills'
  BY <1>16 DEF TimesOut, rest, Advance, callerVars, loginVars, closeVars
<1>17. ASSUME NEW r \in Callers, CancelRunning(r) PROVE Kills'
  BY <1>17 DEF CancelRunning, rest, Advance, callerVars, loginVars, closeVars
<1>18. ASSUME NEW r \in Callers, StopLate(r) PROVE Kills'
  BY <1>18 DEF StopLate, Reap, rest, Advance, callerVars, loginVars, closeVars
<1>19. ASSUME NEW r \in Callers, StopCancelled(r) PROVE Kills'
  BY <1>19 DEF StopCancelled, Reap, rest, Advance, callerVars, loginVars, closeVars
<1>20. ASSUME NEW r \in Callers, StopCutShort(r) PROVE Kills'
  BY <1>20 DEF StopCutShort, rest, callerVars, loginVars, closeVars
<1>21. ASSUME NEW r \in Callers, Drained(r) PROVE Kills'
  BY <1>21 DEF Drained, rest, Advance, callerVars, loginVars, closeVars
<1>22. ASSUME NEW r \in Callers, DrainsStuck(r) PROVE Kills'
  BY <1>22 DEF DrainsStuck, rest, Advance, callerVars, loginVars, closeVars
<1>23. ASSUME NEW r \in Callers, DrainsCutShort(r) PROVE Kills'
  BY <1>23 DEF DrainsCutShort, rest, Advance, callerVars, loginVars, closeVars
<1>24. ASSUME FinishCleanup PROVE Kills'
  BY <1>24 DEF FinishCleanup, callerVars, loginVars, closeVars
<1>25. ASSUME Close PROVE Kills'
  BY <1>25 DEF Close, callerVars, loginVars, closeVars
<1>26. ASSUME CancelLogin PROVE Kills'
  BY <1>26 DEF CancelLogin, callerVars, loginVars, closeVars
<1>27. ASSUME FinishClose PROVE Kills'
  BY <1>27 DEF FinishClose, Reaped, CleanedUp, callerVars, loginVars, closeVars
<1>28. UNCHANGED vars => Kills'
  BY DEF vars, callerVars, loginVars, closeVars
<1>29. QED
  BY <1>1, <1>2, <1>3, <1>4, <1>5, <1>6, <1>7, <1>8, <1>9, <1>10, <1>11, <1>12, <1>13, <1>14, <1>15, <1>16, <1>17, <1>18, <1>19, <1>20, <1>21, <1>22, <1>23, <1>24, <1>25, <1>26, <1>27, <1>28 DEF Next, Await, RunLogin, Shutdown

\* Every step keeps the child alone.
LEMMA ChildStep == IInv /\ [Next]_vars => OneChild'
<1> SUFFICES ASSUME IInv, [Next]_vars PROVE OneChild'
  OBVIOUS
<1> USE NoneOK DEF IInv, TypeOK, Logins, Kills, AtMostOne, InHand, Belongs, Outlived, Fresh, OneChild, Stages, Fates, Ended
<1>1. ASSUME NEW r \in Callers, Refuse(r) PROVE OneChild'
  BY <1>1 DEF Refuse, Enters, Goto, callerVars, loginVars, closeVars
<1>2. ASSUME NEW r \in Callers, Block(r) PROVE OneChild'
  BY <1>2 DEF Block, Enters, Goto, callerVars, loginVars, closeVars
<1>3. ASSUME NEW r \in Callers, Start(r) PROVE OneChild'
  BY <1>3 DEF Start, MayLogIn, Enters, Goto, callerVars, loginVars, closeVars
<1>4. ASSUME NEW r \in Callers, Join(r) PROVE OneChild'
  BY <1>4 DEF Join, MayLogIn, Enters, Goto, callerVars, loginVars, closeVars
<1>5. ASSUME NEW r \in Callers, JoinEnded(r) PROVE OneChild'
  BY <1>5 DEF JoinEnded, MayLogIn, Enters, Answer, Goto, callerVars, loginVars, closeVars
<1>6. ASSUME NEW r \in Callers, Return(r) PROVE OneChild'
  BY <1>6 DEF Return, Answer, Goto, callerVars, loginVars, closeVars
<1>7. ASSUME NEW r \in Callers, AbandonLast(r) PROVE OneChild'
  BY <1>7 DEF AbandonLast, Last, Goto, callerVars, loginVars, closeVars
<1>8. ASSUME NEW r \in Callers, Abandon(r) PROVE OneChild'
  BY <1>8 DEF Abandon, Last, Goto, callerVars, loginVars, closeVars
<1>9. ASSUME NEW r \in Callers, Leave(r) PROVE OneChild'
  BY <1>9 DEF Leave, CleanedUp, Goto, callerVars, loginVars, closeVars
<1>10. ASSUME NEW r \in Callers, Interrupt(r) PROVE OneChild'
  BY <1>10 DEF Interrupt, Goto, callerVars, loginVars, closeVars
<1>11. ASSUME NEW r \in Callers, Spawned(r) PROVE OneChild'
  BY <1>11 DEF Spawned, rest, Advance, callerVars, loginVars, closeVars
<1>12. ASSUME NEW r \in Callers, SpawnFails(r) PROVE OneChild'
  BY <1>12 DEF SpawnFails, rest, Advance, callerVars, loginVars, closeVars
<1>13. ASSUME NEW r \in Callers, CancelledEarly(r) PROVE OneChild'
  BY <1>13 DEF CancelledEarly, rest, Advance, callerVars, loginVars, closeVars
<1>14. ASSUME NEW r \in Callers, ChildExits(r) PROVE OneChild'
  BY <1>14 DEF ChildExits, rest, callerVars, loginVars, closeVars
<1>15. ASSUME NEW r \in Callers, Exited(r) PROVE OneChild'
  BY <1>15 DEF Exited, rest, Advance, callerVars, loginVars, closeVars
<1>16. ASSUME NEW r \in Callers, TimesOut(r) PROVE OneChild'
  BY <1>16 DEF TimesOut, rest, Advance, callerVars, loginVars, closeVars
<1>17. ASSUME NEW r \in Callers, CancelRunning(r) PROVE OneChild'
  BY <1>17 DEF CancelRunning, rest, Advance, callerVars, loginVars, closeVars
<1>18. ASSUME NEW r \in Callers, StopLate(r) PROVE OneChild'
  BY <1>18 DEF StopLate, Reap, rest, Advance, callerVars, loginVars, closeVars
<1>19. ASSUME NEW r \in Callers, StopCancelled(r) PROVE OneChild'
  BY <1>19 DEF StopCancelled, Reap, rest, Advance, callerVars, loginVars, closeVars
<1>20. ASSUME NEW r \in Callers, StopCutShort(r) PROVE OneChild'
  BY <1>20 DEF StopCutShort, rest, callerVars, loginVars, closeVars
<1>21. ASSUME NEW r \in Callers, Drained(r) PROVE OneChild'
  BY <1>21 DEF Drained, rest, Advance, callerVars, loginVars, closeVars
<1>22. ASSUME NEW r \in Callers, DrainsStuck(r) PROVE OneChild'
  BY <1>22 DEF DrainsStuck, rest, Advance, callerVars, loginVars, closeVars
<1>23. ASSUME NEW r \in Callers, DrainsCutShort(r) PROVE OneChild'
  BY <1>23 DEF DrainsCutShort, rest, Advance, callerVars, loginVars, closeVars
<1>24. ASSUME FinishCleanup PROVE OneChild'
  BY <1>24 DEF FinishCleanup, callerVars, loginVars, closeVars
<1>25. ASSUME Close PROVE OneChild'
  BY <1>25 DEF Close, callerVars, loginVars, closeVars
<1>26. ASSUME CancelLogin PROVE OneChild'
  BY <1>26 DEF CancelLogin, callerVars, loginVars, closeVars
<1>27. ASSUME FinishClose PROVE OneChild'
  BY <1>27 DEF FinishClose, Reaped, CleanedUp, callerVars, loginVars, closeVars
<1>28. UNCHANGED vars => OneChild'
  BY DEF vars, callerVars, loginVars, closeVars
<1>29. QED
  BY <1>1, <1>2, <1>3, <1>4, <1>5, <1>6, <1>7, <1>8, <1>9, <1>10, <1>11, <1>12, <1>13, <1>14, <1>15, <1>16, <1>17, <1>18, <1>19, <1>20, <1>21, <1>22, <1>23, <1>24, <1>25, <1>26, <1>27, <1>28 DEF Next, Await, RunLogin, Shutdown

\* No login starts after the shutdown and none outlives it.
LEMMA CloseStep == IInv /\ [Next]_vars => CloseReaps'
<1> SUFFICES ASSUME IInv, [Next]_vars PROVE CloseReaps'
  OBVIOUS
<1> USE NoneOK DEF IInv, TypeOK, Logins, Kills, InHand, Belongs, Outlived, AllDoomed, CloseReaps, Stages, Fates, Ended, isClosed
<1>1. ASSUME NEW r \in Callers, Refuse(r) PROVE CloseReaps'
  BY <1>1 DEF Refuse, Enters, Goto, callerVars, loginVars, closeVars
<1>2. ASSUME NEW r \in Callers, Block(r) PROVE CloseReaps'
  BY <1>2 DEF Block, Enters, Goto, callerVars, loginVars, closeVars
<1>3. ASSUME NEW r \in Callers, Start(r) PROVE CloseReaps'
  BY <1>3 DEF Start, MayLogIn, Enters, Goto, callerVars, loginVars, closeVars
<1>4. ASSUME NEW r \in Callers, Join(r) PROVE CloseReaps'
  BY <1>4 DEF Join, MayLogIn, Enters, Goto, callerVars, loginVars, closeVars
<1>5. ASSUME NEW r \in Callers, JoinEnded(r) PROVE CloseReaps'
  BY <1>5 DEF JoinEnded, MayLogIn, Enters, Answer, Goto, callerVars, loginVars, closeVars
<1>6. ASSUME NEW r \in Callers, Return(r) PROVE CloseReaps'
  BY <1>6 DEF Return, Answer, Goto, callerVars, loginVars, closeVars
<1>7. ASSUME NEW r \in Callers, AbandonLast(r) PROVE CloseReaps'
  BY <1>7 DEF AbandonLast, Last, Goto, callerVars, loginVars, closeVars
<1>8. ASSUME NEW r \in Callers, Abandon(r) PROVE CloseReaps'
  BY <1>8 DEF Abandon, Last, Goto, callerVars, loginVars, closeVars
<1>9. ASSUME NEW r \in Callers, Leave(r) PROVE CloseReaps'
  BY <1>9 DEF Leave, CleanedUp, Goto, callerVars, loginVars, closeVars
<1>10. ASSUME NEW r \in Callers, Interrupt(r) PROVE CloseReaps'
  BY <1>10 DEF Interrupt, Goto, callerVars, loginVars, closeVars
<1>11. ASSUME NEW r \in Callers, Spawned(r) PROVE CloseReaps'
  BY <1>11 DEF Spawned, rest, Advance, callerVars, loginVars, closeVars
<1>12. ASSUME NEW r \in Callers, SpawnFails(r) PROVE CloseReaps'
  BY <1>12 DEF SpawnFails, rest, Advance, callerVars, loginVars, closeVars
<1>13. ASSUME NEW r \in Callers, CancelledEarly(r) PROVE CloseReaps'
  BY <1>13 DEF CancelledEarly, rest, Advance, callerVars, loginVars, closeVars
<1>14. ASSUME NEW r \in Callers, ChildExits(r) PROVE CloseReaps'
  BY <1>14 DEF ChildExits, rest, callerVars, loginVars, closeVars
<1>15. ASSUME NEW r \in Callers, Exited(r) PROVE CloseReaps'
  BY <1>15 DEF Exited, rest, Advance, callerVars, loginVars, closeVars
<1>16. ASSUME NEW r \in Callers, TimesOut(r) PROVE CloseReaps'
  BY <1>16 DEF TimesOut, rest, Advance, callerVars, loginVars, closeVars
<1>17. ASSUME NEW r \in Callers, CancelRunning(r) PROVE CloseReaps'
  BY <1>17 DEF CancelRunning, rest, Advance, callerVars, loginVars, closeVars
<1>18. ASSUME NEW r \in Callers, StopLate(r) PROVE CloseReaps'
  BY <1>18 DEF StopLate, Reap, rest, Advance, callerVars, loginVars, closeVars
<1>19. ASSUME NEW r \in Callers, StopCancelled(r) PROVE CloseReaps'
  BY <1>19 DEF StopCancelled, Reap, rest, Advance, callerVars, loginVars, closeVars
<1>20. ASSUME NEW r \in Callers, StopCutShort(r) PROVE CloseReaps'
  BY <1>20 DEF StopCutShort, rest, callerVars, loginVars, closeVars
<1>21. ASSUME NEW r \in Callers, Drained(r) PROVE CloseReaps'
  BY <1>21 DEF Drained, rest, Advance, callerVars, loginVars, closeVars
<1>22. ASSUME NEW r \in Callers, DrainsStuck(r) PROVE CloseReaps'
  BY <1>22 DEF DrainsStuck, rest, Advance, callerVars, loginVars, closeVars
<1>23. ASSUME NEW r \in Callers, DrainsCutShort(r) PROVE CloseReaps'
  BY <1>23 DEF DrainsCutShort, rest, Advance, callerVars, loginVars, closeVars
<1>24. ASSUME FinishCleanup PROVE CloseReaps'
  BY <1>24 DEF FinishCleanup, callerVars, loginVars, closeVars
<1>25. ASSUME Close PROVE CloseReaps'
  BY <1>25 DEF Close, callerVars, loginVars, closeVars
<1>26. ASSUME CancelLogin PROVE CloseReaps'
  BY <1>26 DEF CancelLogin, callerVars, loginVars, closeVars
<1>27. ASSUME FinishClose PROVE CloseReaps'
  BY <1>27 DEF FinishClose, Reaped, CleanedUp, callerVars, loginVars, closeVars
<1>28. UNCHANGED vars => CloseReaps'
  BY DEF vars, callerVars, loginVars, closeVars
<1>29. QED
  BY <1>1, <1>2, <1>3, <1>4, <1>5, <1>6, <1>7, <1>8, <1>9, <1>10, <1>11, <1>12, <1>13, <1>14, <1>15, <1>16, <1>17, <1>18, <1>19, <1>20, <1>21, <1>22, <1>23, <1>24, <1>25, <1>26, <1>27, <1>28 DEF Next, Await, RunLogin, Shutdown

\* Every step keeps the login in hand sound.
LEMMA SoundStep == IInv /\ [Next]_vars => Sound'
<1> SUFFICES ASSUME IInv, [Next]_vars PROVE Sound'
  OBVIOUS
<1> USE NoneOK DEF IInv, TypeOK, Logins, Kills, Company, AtMostOne, InHand, Unstarted, KilledLater, Sound, Stages, Fates, Ended, isClosed, Shutting
<1>1. ASSUME NEW r \in Callers, Refuse(r) PROVE Sound'
  BY <1>1 DEF Refuse, Enters, Goto, callerVars, loginVars, closeVars
<1>2. ASSUME NEW r \in Callers, Block(r) PROVE Sound'
  BY <1>2 DEF Block, Enters, Goto, callerVars, loginVars, closeVars
<1>3. ASSUME NEW r \in Callers, Start(r) PROVE Sound'
  BY <1>3 DEF Start, MayLogIn, Enters, Goto, callerVars, loginVars, closeVars
<1>4. ASSUME NEW r \in Callers, Join(r) PROVE Sound'
  BY <1>4 DEF Join, MayLogIn, Enters, Goto, callerVars, loginVars, closeVars
<1>5. ASSUME NEW r \in Callers, JoinEnded(r) PROVE Sound'
  BY <1>5 DEF JoinEnded, MayLogIn, Enters, Answer, Goto, callerVars, loginVars, closeVars
<1>6. ASSUME NEW r \in Callers, Return(r) PROVE Sound'
  BY <1>6 DEF Return, Answer, Goto, callerVars, loginVars, closeVars
<1>7. ASSUME NEW r \in Callers, AbandonLast(r) PROVE Sound'
  BY <1>7 DEF AbandonLast, Last, Goto, callerVars, loginVars, closeVars
<1>8. ASSUME NEW r \in Callers, Abandon(r) PROVE Sound'
  BY <1>8 DEF Abandon, Last, Goto, callerVars, loginVars, closeVars
<1>9. ASSUME NEW r \in Callers, Leave(r) PROVE Sound'
  BY <1>9 DEF Leave, CleanedUp, Goto, callerVars, loginVars, closeVars
<1>10. ASSUME NEW r \in Callers, Interrupt(r) PROVE Sound'
  BY <1>10 DEF Interrupt, Goto, callerVars, loginVars, closeVars
<1>11. ASSUME NEW r \in Callers, Spawned(r) PROVE Sound'
  BY <1>11 DEF Spawned, rest, Advance, callerVars, loginVars, closeVars
<1>12. ASSUME NEW r \in Callers, SpawnFails(r) PROVE Sound'
  BY <1>12 DEF SpawnFails, rest, Advance, callerVars, loginVars, closeVars
<1>13. ASSUME NEW r \in Callers, CancelledEarly(r) PROVE Sound'
  BY <1>13 DEF CancelledEarly, rest, Advance, callerVars, loginVars, closeVars
<1>14. ASSUME NEW r \in Callers, ChildExits(r) PROVE Sound'
  BY <1>14 DEF ChildExits, rest, callerVars, loginVars, closeVars
<1>15. ASSUME NEW r \in Callers, Exited(r) PROVE Sound'
  BY <1>15 DEF Exited, rest, Advance, callerVars, loginVars, closeVars
<1>16. ASSUME NEW r \in Callers, TimesOut(r) PROVE Sound'
  BY <1>16 DEF TimesOut, rest, Advance, callerVars, loginVars, closeVars
<1>17. ASSUME NEW r \in Callers, CancelRunning(r) PROVE Sound'
  BY <1>17 DEF CancelRunning, rest, Advance, callerVars, loginVars, closeVars
<1>18. ASSUME NEW r \in Callers, StopLate(r) PROVE Sound'
  BY <1>18 DEF StopLate, Reap, rest, Advance, callerVars, loginVars, closeVars
<1>19. ASSUME NEW r \in Callers, StopCancelled(r) PROVE Sound'
  BY <1>19 DEF StopCancelled, Reap, rest, Advance, callerVars, loginVars, closeVars
<1>20. ASSUME NEW r \in Callers, StopCutShort(r) PROVE Sound'
  BY <1>20 DEF StopCutShort, rest, callerVars, loginVars, closeVars
<1>21. ASSUME NEW r \in Callers, Drained(r) PROVE Sound'
  BY <1>21 DEF Drained, rest, Advance, callerVars, loginVars, closeVars
<1>22. ASSUME NEW r \in Callers, DrainsStuck(r) PROVE Sound'
  BY <1>22 DEF DrainsStuck, rest, Advance, callerVars, loginVars, closeVars
<1>23. ASSUME NEW r \in Callers, DrainsCutShort(r) PROVE Sound'
  BY <1>23 DEF DrainsCutShort, rest, Advance, callerVars, loginVars, closeVars
<1>24. ASSUME FinishCleanup PROVE Sound'
  BY <1>24 DEF FinishCleanup, callerVars, loginVars, closeVars
<1>25. ASSUME Close PROVE Sound'
  BY <1>25 DEF Close, callerVars, loginVars, closeVars
<1>26. ASSUME CancelLogin PROVE Sound'
  BY <1>26 DEF CancelLogin, callerVars, loginVars, closeVars
<1>27. ASSUME FinishClose PROVE Sound'
  BY <1>27 DEF FinishClose, Reaped, CleanedUp, callerVars, loginVars, closeVars
<1>28. UNCHANGED vars => Sound'
  BY DEF vars, callerVars, loginVars, closeVars
<1>29. QED
  BY <1>1, <1>2, <1>3, <1>4, <1>5, <1>6, <1>7, <1>8, <1>9, <1>10, <1>11, <1>12, <1>13, <1>14, <1>15, <1>16, <1>17, <1>18, <1>19, <1>20, <1>21, <1>22, <1>23, <1>24, <1>25, <1>26, <1>27, <1>28 DEF Next, Await, RunLogin, Shutdown

\* Every step counts the waiting callers and keeps them together.
LEMMA CompanyStep == IInv /\ [Next]_vars => Counted' /\ Together'
<1> SUFFICES ASSUME IInv, [Next]_vars PROVE Counted' /\ Together'
  OBVIOUS
<1>0. TypeOK /\ Counted /\ Together
  BY DEF IInv, Company
<1>1. ASSUME NEW r \in Callers, Refuse(r) PROVE Counted' /\ Together'
  <2> DEFINE p == "answered"
  <2>1. pc[r] # "waiting" /\ p # "waiting" /\ waiters' = waiters /\ Goto(r, p)
    BY <1>1 DEF Refuse, Enters
  <2>2. Counted' /\ Waiting' = Waiting
    BY <1>0, <2>1, WaitingChanges DEF Counted
  <2>3. isClosed' = isClosed /\ \A q \in Callers \ {r} : joined'[q] = joined[q]
    BY <1>0, <1>1 DEF Refuse, TypeOK, isClosed, closeVars
  <2>4. attempt' = attempt
    BY <1>1 DEF Refuse
  <2>5. QED
    BY <1>0, <2>1, <2>2, <2>3, <2>4 DEF Together, Waiting
<1>2. ASSUME NEW r \in Callers, Block(r) PROVE Counted' /\ Together'
  <2> DEFINE p == "blocked"
  <2>1. pc[r] # "waiting" /\ p # "waiting" /\ waiters' = waiters /\ Goto(r, p)
    BY <1>2 DEF Block, Enters
  <2>2. Counted' /\ Waiting' = Waiting
    BY <1>0, <2>1, WaitingChanges DEF Counted
  <2>3. isClosed' = isClosed /\ \A q \in Callers \ {r} : joined'[q] = joined[q]
    BY <1>0, <1>2 DEF Block, TypeOK, isClosed, closeVars
  <2>4. attempt' = attempt
    BY <1>2 DEF Block
  <2>5. QED
    BY <1>0, <2>1, <2>2, <2>3, <2>4 DEF Together, Waiting
<1>3. ASSUME NEW r \in Callers, Start(r) PROVE Counted' /\ Together'
  <2> DEFINE p == "waiting"
  <2>1. pc[r] # "waiting" /\ p = "waiting" /\ waiters' = waiters + 1 /\ Goto(r, p)
    BY <1>3 DEF Start, MayLogIn, Enters
  <2>2. Counted' /\ Waiting' = Waiting \cup {r}
    BY <1>0, <2>1, WaitingChanges DEF Counted
  <2>3. isClosed = FALSE /\ isClosed' = isClosed /\ joined' = [joined EXCEPT ![r] = attempt'] /\ attempt' \in Callers
    BY <1>0, <1>3 DEF Start, MayLogIn, Enters, TypeOK, isClosed, closeVars
  <2>4. attempt' = attempt \/ Waiting = {}
    BY <1>0, <1>3, <2>3, NoneOK DEF Start, MayLogIn, Enters, Together, Waiting
  <2>5. QED
    BY <1>0, <2>2, <2>3, <2>4 DEF Together, Waiting, TypeOK
<1>4. ASSUME NEW r \in Callers, Join(r) PROVE Counted' /\ Together'
  <2> DEFINE p == "waiting"
  <2>1. pc[r] # "waiting" /\ p = "waiting" /\ waiters' = waiters + 1 /\ Goto(r, p)
    BY <1>4 DEF Join, MayLogIn, Enters
  <2>2. Counted' /\ Waiting' = Waiting \cup {r}
    BY <1>0, <2>1, WaitingChanges DEF Counted
  <2>3. isClosed = FALSE /\ isClosed' = isClosed /\ joined' = [joined EXCEPT ![r] = attempt'] /\ attempt' \in Callers
    BY <1>0, <1>4 DEF Join, MayLogIn, Enters, TypeOK, isClosed, closeVars
  <2>4. attempt' = attempt \/ Waiting = {}
    BY <1>0, <1>4, <2>3, NoneOK DEF Join, MayLogIn, Enters, Together, Waiting
  <2>5. QED
    BY <1>0, <2>2, <2>3, <2>4 DEF Together, Waiting, TypeOK
<1>5. ASSUME NEW r \in Callers, JoinEnded(r) PROVE Counted' /\ Together'
  <2> DEFINE p == Answer(attempt)
  <2>1. pc[r] # "waiting" /\ p # "waiting" /\ waiters' = waiters /\ Goto(r, p)
    BY <1>5 DEF JoinEnded, MayLogIn, Enters, Answer
  <2>2. Counted' /\ Waiting' = Waiting
    BY <1>0, <2>1, WaitingChanges DEF Counted
  <2>3. isClosed' = isClosed /\ \A q \in Callers \ {r} : joined'[q] = joined[q]
    BY <1>0, <1>5 DEF JoinEnded, TypeOK, isClosed, closeVars
  <2>4. attempt' = attempt \/ waiters = 0
    BY <1>5 DEF JoinEnded, MayLogIn, Enters, Answer
  <2>5. attempt' = attempt \/ Waiting = {}
    BY <1>0, <2>4, WaitingCard DEF Counted
  <2>6. QED
    BY <1>0, <2>1, <2>2, <2>3, <2>5 DEF Together, Waiting
<1>6. ASSUME NEW r \in Callers, Return(r) PROVE Counted' /\ Together'
  <2> DEFINE p == Answer(joined[r])
  <2>1. pc[r] = "waiting" /\ p # "waiting" /\ waiters' = waiters - 1 /\ Goto(r, p)
    BY <1>6 DEF Return, Answer
  <2>2. Counted' /\ Waiting' = Waiting \ {r} /\ (waiters = 1 => Waiting' = {})
    BY <1>0, <2>1, WaitingChanges DEF Counted
  <2>3. isClosed' = isClosed /\ \A q \in Callers \ {r} : joined'[q] = joined[q]
    BY <1>0, <1>6 DEF Return, TypeOK, isClosed, closeVars
  <2>4. attempt' = attempt \/ waiters = 1
    BY <1>6 DEF Return, Answer
  <2>5. QED
    BY <1>0, <2>2, <2>3, <2>4 DEF Together, Waiting
<1>7. ASSUME NEW r \in Callers, AbandonLast(r) PROVE Counted' /\ Together'
  <2> DEFINE p == "reaping"
  <2>1. pc[r] = "waiting" /\ p # "waiting" /\ waiters' = waiters - 1 /\ Goto(r, p)
    BY <1>7 DEF AbandonLast, Last
  <2>2. Counted' /\ Waiting' = Waiting \ {r} /\ (waiters = 1 => Waiting' = {})
    BY <1>0, <2>1, WaitingChanges DEF Counted
  <2>3. isClosed' = isClosed /\ \A q \in Callers \ {r} : joined'[q] = joined[q]
    BY <1>0, <1>7 DEF AbandonLast, TypeOK, isClosed, closeVars
  <2>4. attempt' = attempt \/ waiters = 1
    BY <1>7 DEF AbandonLast, Last
  <2>5. QED
    BY <1>0, <2>2, <2>3, <2>4 DEF Together, Waiting
<1>8. ASSUME NEW r \in Callers, Abandon(r) PROVE Counted' /\ Together'
  <2> DEFINE p == IF isClosed THEN "answered" ELSE "cancelled"
  <2>1. pc[r] = "waiting" /\ p # "waiting" /\ waiters' = waiters - 1 /\ Goto(r, p)
    BY <1>8 DEF Abandon, Last
  <2>2. Counted' /\ Waiting' = Waiting \ {r} /\ (waiters = 1 => Waiting' = {})
    BY <1>0, <2>1, WaitingChanges DEF Counted
  <2>3. isClosed' = isClosed /\ \A q \in Callers \ {r} : joined'[q] = joined[q]
    BY <1>0, <1>8 DEF Abandon, TypeOK, isClosed, closeVars
  <2>4. attempt' = attempt \/ waiters = 1
    BY <1>8 DEF Abandon, Last
  <2>5. QED
    BY <1>0, <2>2, <2>3, <2>4 DEF Together, Waiting
<1>9. ASSUME NEW r \in Callers, Leave(r) PROVE Counted' /\ Together'
  <2> DEFINE p == "cancelled"
  <2>1. pc[r] # "waiting" /\ p # "waiting" /\ waiters' = waiters /\ Goto(r, p)
    BY <1>9 DEF Leave, CleanedUp
  <2>2. Counted' /\ Waiting' = Waiting
    BY <1>0, <2>1, WaitingChanges DEF Counted
  <2>3. isClosed' = isClosed /\ \A q \in Callers \ {r} : joined'[q] = joined[q]
    BY <1>0, <1>9 DEF Leave, TypeOK, isClosed, closeVars
  <2>4. attempt' = attempt
    BY <1>9 DEF Leave
  <2>5. QED
    BY <1>0, <2>1, <2>2, <2>3, <2>4 DEF Together, Waiting
<1>10. ASSUME NEW r \in Callers, Interrupt(r) PROVE Counted' /\ Together'
  BY <1>0, <1>10 DEF Interrupt, Goto, callerVars, loginVars, closeVars, Counted, Together, Waiting, isClosed
<1>11. ASSUME NEW r \in Callers, Spawned(r) PROVE Counted' /\ Together'
  BY <1>0, <1>11 DEF Spawned, rest, Advance, callerVars, loginVars, closeVars, Counted, Together, Waiting, isClosed
<1>12. ASSUME NEW r \in Callers, SpawnFails(r) PROVE Counted' /\ Together'
  BY <1>0, <1>12 DEF SpawnFails, rest, Advance, callerVars, loginVars, closeVars, Counted, Together, Waiting, isClosed
<1>13. ASSUME NEW r \in Callers, CancelledEarly(r) PROVE Counted' /\ Together'
  BY <1>0, <1>13 DEF CancelledEarly, rest, Advance, callerVars, loginVars, closeVars, Counted, Together, Waiting, isClosed
<1>14. ASSUME NEW r \in Callers, ChildExits(r) PROVE Counted' /\ Together'
  BY <1>0, <1>14 DEF ChildExits, rest, callerVars, loginVars, closeVars, Counted, Together, Waiting, isClosed
<1>15. ASSUME NEW r \in Callers, Exited(r) PROVE Counted' /\ Together'
  BY <1>0, <1>15 DEF Exited, rest, Advance, callerVars, loginVars, closeVars, Counted, Together, Waiting, isClosed
<1>16. ASSUME NEW r \in Callers, TimesOut(r) PROVE Counted' /\ Together'
  BY <1>0, <1>16 DEF TimesOut, rest, Advance, callerVars, loginVars, closeVars, Counted, Together, Waiting, isClosed
<1>17. ASSUME NEW r \in Callers, CancelRunning(r) PROVE Counted' /\ Together'
  BY <1>0, <1>17 DEF CancelRunning, rest, Advance, callerVars, loginVars, closeVars, Counted, Together, Waiting, isClosed
<1>18. ASSUME NEW r \in Callers, StopLate(r) PROVE Counted' /\ Together'
  BY <1>0, <1>18 DEF StopLate, Reap, rest, Advance, callerVars, loginVars, closeVars, Counted, Together, Waiting, isClosed
<1>19. ASSUME NEW r \in Callers, StopCancelled(r) PROVE Counted' /\ Together'
  BY <1>0, <1>19 DEF StopCancelled, Reap, rest, Advance, callerVars, loginVars, closeVars, Counted, Together, Waiting, isClosed
<1>20. ASSUME NEW r \in Callers, StopCutShort(r) PROVE Counted' /\ Together'
  BY <1>0, <1>20 DEF StopCutShort, rest, callerVars, loginVars, closeVars, Counted, Together, Waiting, isClosed
<1>21. ASSUME NEW r \in Callers, Drained(r) PROVE Counted' /\ Together'
  BY <1>0, <1>21 DEF Drained, rest, Advance, callerVars, loginVars, closeVars, Counted, Together, Waiting, isClosed
<1>22. ASSUME NEW r \in Callers, DrainsStuck(r) PROVE Counted' /\ Together'
  BY <1>0, <1>22 DEF DrainsStuck, rest, Advance, callerVars, loginVars, closeVars, Counted, Together, Waiting, isClosed
<1>23. ASSUME NEW r \in Callers, DrainsCutShort(r) PROVE Counted' /\ Together'
  BY <1>0, <1>23 DEF DrainsCutShort, rest, Advance, callerVars, loginVars, closeVars, Counted, Together, Waiting, isClosed
<1>24. ASSUME FinishCleanup PROVE Counted' /\ Together'
  BY <1>0, <1>24 DEF FinishCleanup, callerVars, loginVars, closeVars, Counted, Together, Waiting, isClosed
<1>25. ASSUME Close PROVE Counted' /\ Together'
  BY <1>0, <1>25 DEF Close, callerVars, loginVars, closeVars, Counted, Together, Waiting, isClosed
<1>26. ASSUME CancelLogin PROVE Counted' /\ Together'
  BY <1>0, <1>26 DEF CancelLogin, callerVars, loginVars, closeVars, Counted, Together, Waiting, isClosed
<1>27. ASSUME FinishClose PROVE Counted' /\ Together'
  BY <1>0, <1>27 DEF FinishClose, Counted, Together, Waiting, isClosed, callerVars
<1>28. UNCHANGED vars => Counted' /\ Together'
  BY <1>0 DEF vars, callerVars, loginVars, closeVars, Counted, Together, Waiting, isClosed
<1>29. QED
  BY <1>1, <1>2, <1>3, <1>4, <1>5, <1>6, <1>7, <1>8, <1>9, <1>10, <1>11, <1>12, <1>13, <1>14, <1>15, <1>16, <1>17, <1>18, <1>19, <1>20, <1>21, <1>22, <1>23, <1>24, <1>25, <1>26, <1>27, <1>28 DEF Next, Await, RunLogin, Shutdown

-----------------------------------------------------------------------------
(* Theorems *)

\* Every state satisfies the invariant.
LEMMA Invariant == Spec => []IInv
<1>1. IInv /\ [Next]_vars => IInv'
  BY TypeStep, LoginsStep, KillsStep, ChildStep, CloseStep, SoundStep, CompanyStep DEF IInv, Company
<1>2. QED
  BY <1>1, InitInv, PTL DEF Spec

\* The coordinator's state has its types, and the counter of waiters never passes
\* the number of callers nor falls below zero.
THEOREM TypeCorrect == Spec => []TypeOK
<1>1. IInv => TypeOK
  BY DEF IInv
<1>2. QED
  BY <1>1, Invariant, PTL

\* At most one `kimi login' process runs, also while a cancelled or an unreapable
\* one is still there.
THEOREM SingleFlight == Spec => []OneChild
<1>1. IInv => OneChild
  BY DEF IInv
<1>2. QED
  BY <1>1, Invariant, PTL

\* A shutdown that reports success has left no child and no login behind.
THEOREM ShutdownReaps == Spec => []CloseReaps
<1>1. IInv => CloseReaps
  BY DEF IInv
<1>2. QED
  BY <1>1, Invariant, PTL

\* A caller is only cancelled if its own task was.
THEOREM CancellationIsOwn == Spec => OnlyOwnCancellation
<1> DEFINE Own == \A r \in Callers :
                      pc[r] = "waiting" /\ pc'[r] \in {"reaping", "cancelled"} => interrupt[r]
<1>1. IInv /\ [Next]_vars => [Own]_pc
  <2> SUFFICES ASSUME IInv, Next, NEW q \in Callers, pc[q] = "waiting", ~interrupt[q],
                      pc'[q] \in {"reaping", "cancelled"}
               PROVE  FALSE
    BY DEF vars, callerVars
  <2>1. TypeOK /\ Sound
    BY DEF IInv, Company
  <2>2. PICK r \in Callers : Await(r)
    BY DEF Next, Interrupt, RunLogin, Shutdown, rest, callerVars, ChildExits, FinishCleanup,
           Close, CancelLogin, FinishClose, Spawned, SpawnFails, CancelledEarly, Exited, TimesOut,
           CancelRunning, StopLate, StopCancelled, StopCutShort, Drained, DrainsStuck, DrainsCutShort
  <2>3. r = q
    BY <2>1, <2>2 DEF Await, TypeOK, Refuse, Block, Start, Join, JoinEnded, Return, AbandonLast,
           Abandon, Leave, Goto
  <2>4. Return(q)
    BY <2>2, <2>3 DEF Await, Refuse, Block, Start, Join, JoinEnded, AbandonLast, Abandon, Leave,
           Enters, MayLogIn
  <2>5. joined[q] \in Callers /\ (~isClosed => joined[q] = attempt)
    BY JoinedIsCaller
  <2>6. Answer(joined[q]) = "answered"
    BY <2>1, <2>4, <2>5, NoneOK DEF Return, Answer, Sound, Ended, Fates
  <2>7. QED
    BY <2>1, <2>4, <2>6 DEF Return, Goto, TypeOK
<1>2. QED
  BY <1>1, Invariant, PTL DEF Spec, OnlyOwnCancellation
==============================================================================
