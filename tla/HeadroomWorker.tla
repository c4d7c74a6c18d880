--------------------------- MODULE HeadroomWorker ---------------------------
(***************************************************************************)
(* The Headroom compression seam (protocols/headroom_compression.py): a    *)
(* request is compressed by a thread pool of one thread, guarded by a      *)
(* counter that admits one request at a time, and goes out unchanged when  *)
(* the worker is busy, late, fails or returns something unusable.          *)
(*                                                                         *)
(* Two threads interleave: the event loop (Submit, TimeoutFires,           *)
(* TimeoutHandled, Deliver) and the pool's thread (the Worker steps).  A   *)
(* request's task is not cancelled when its client disconnects, so a       *)
(* waiting request sees a result or its timeout.                           *)
(***************************************************************************)
EXTENDS Integers, Sequences, FiniteSets

CONSTANTS Requests

VARIABLES
    stage,         \* where each request is in compress_responses_request
    job,        \* the executor's work item of each request
    queue,      \* the executor's queue
    slots,      \* _HEADROOM_ACTIVE_WORKERS
    result,     \* what the job of a waiting request returned
    sent        \* which request goes on to the adapter: HeadroomCompressionOutcome.request

seamVars == <<stage, job, queue, slots, result, sent>>

\* What a compressor hands back, as far as the checks on it tell it apart.
Failure == [raised |-> TRUE, inflated |-> FALSE, shaped |-> FALSE, marked |-> FALSE, saves |-> FALSE]
Returns == [raised : {FALSE}, inflated : BOOLEAN, shaped : BOOLEAN, marked : BOOLEAN, saves : BOOLEAN]
Results == Returns \cup {Failure}

Queued == {"queued", "taken", "running"}

SeamTypeOK ==
    /\ stage \in [Requests -> {"new", "waiting", "expired", "ended"}]
    /\ job \in [Requests -> {"none", "released", "done", "cancelled"} \cup Queued]
    /\ queue \in Seq(Requests)
    /\ slots \in 0..1
    /\ result \in [Requests -> Results]
    /\ sent \in [Requests -> {"none", "original", "compressed"}]

SeamInit ==
    /\ stage = [r \in Requests |-> "new"]
    /\ job = [r \in Requests |-> "none"]
    /\ queue = <<>>
    /\ slots = 0
    /\ result = [r \in Requests |-> Failure]
    /\ sent = [r \in Requests |-> "none"]

Released == IF slots > 0 THEN slots - 1 ELSE 0

Finish(r, o) ==
    /\ stage' = [stage EXCEPT ![r] = "ended"]
    /\ sent' = [sent EXCEPT ![r] = IF o = "compressed" THEN "compressed" ELSE "original"]

-----------------------------------------------------------------------------
(* The event loop *)

\* Compression is off, or there is nothing worth compressing.
PassThrough(r) ==
    /\ stage[r] = "new"
    /\ \E o \in {"disabled", "no_text", "below_min_tokens"} : Finish(r, o)
    /\ UNCHANGED <<job, queue, slots, result>>

RefuseBusy(r) ==
    /\ stage[r] = "new"
    /\ slots >= 1
    /\ Finish(r, "worker_busy")
    /\ UNCHANGED <<job, queue, slots, result>>

Submit(r) ==
    /\ stage[r] = "new"
    /\ slots < 1
    /\ stage' = [stage EXCEPT ![r] = "waiting"]
    /\ job' = [job EXCEPT ![r] = "queued"]
    /\ queue' = Append(queue, r)
    /\ slots' = slots + 1
    /\ UNCHANGED <<result, sent>>

\* wait_for gives up: the work item is cancelled unless the thread has it already.
TimeoutFires(r) ==
    /\ stage[r] = "waiting"
    /\ stage' = [stage EXCEPT ![r] = "expired"]
    /\ result' = [result EXCEPT ![r] = Failure]
    /\ job' = [job EXCEPT ![r] = IF @ = "queued" THEN "cancelled" ELSE @]
    /\ UNCHANGED <<queue, slots, sent>>

\* A handler that leaves the slot to a worker that may never have started.
LeakyTimeoutHandled(r) ==
    /\ stage[r] = "expired"
    /\ Finish(r, "timeout")
    /\ UNCHANGED <<job, queue, slots, result>>

\* A handler that ends only the requests whose worker has not started.
StuckTimeoutHandled(r) ==
    /\ stage[r] = "expired"
    /\ job[r] = "cancelled"
    /\ slots' = Released
    /\ Finish(r, "timeout")
    /\ UNCHANGED <<job, queue, result>>

\* ... and the handler releases the slot of a worker that has not started.
TimeoutHandled(r) ==
    /\ stage[r] = "expired"
    /\ slots' = IF job[r] \in {"taken", "cancelled"} THEN Released ELSE slots
    /\ Finish(r, "timeout")
    /\ UNCHANGED <<job, queue, result>>

\* A judge that never looks for retrieval markers.
CarelessJudge(res) ==
    CASE res.raised   -> "exception"
      [] ~res.raised /\ res.inflated -> "inflation_guard"
      [] ~res.raised /\ ~res.inflated /\ ~res.shaped -> "unsafe_output"
      [] OTHER -> IF res.saves THEN "compressed" ELSE "unchanged"

\* The checks on what came back, in the order in which they are made.
Judge(res) ==
    IF res.raised THEN "exception"
    ELSE IF res.inflated THEN "inflation_guard"
    ELSE IF ~res.shaped THEN "unsafe_output"
    ELSE IF res.marked THEN "retrieval_marker"
    ELSE IF res.saves THEN "compressed" ELSE "unchanged"

Deliver(r) ==
    /\ stage[r] = "waiting"
    /\ job[r] = "done"
    /\ Finish(r, Judge(result[r]))
    /\ result' = [result EXCEPT ![r] = Failure]
    /\ UNCHANGED <<job, queue, slots>>

-----------------------------------------------------------------------------
(* The pool's thread *)

WorkerIdle == \A r \in Requests : job[r] \notin {"taken", "running", "released"}

\* A cancelled work item is dropped; any other one is marked as running, and from
\* here on it cannot be cancelled.
WorkerTakes ==
    /\ WorkerIdle
    /\ queue # <<>>
    /\ job' = [job EXCEPT ![Head(queue)] = IF @ = "queued" THEN "taken" ELSE @]
    /\ queue' = Tail(queue)
    /\ UNCHANGED <<stage, slots, result, sent>>

\* worker_started.set()
WorkerStarts(r) ==
    /\ job[r] = "taken"
    /\ job' = [job EXCEPT ![r] = "running"]
    /\ UNCHANGED <<stage, queue, slots, result, sent>>

\* The compressor returns or raises, and run_headroom gives the slot back ...
WorkerReleases(r) ==
    /\ job[r] = "running"
    /\ job' = [job EXCEPT ![r] = "released"]
    /\ slots' = Released
    /\ \/ stage[r] = "waiting" /\ \E res \in Results : result' = [result EXCEPT ![r] = res]
       \/ stage[r] # "waiting" /\ UNCHANGED result
    /\ UNCHANGED <<stage, queue, sent>>

\* ... before the executor sets the result of the future.
WorkerFinishes(r) ==
    /\ job[r] = "released"
    /\ job' = [job EXCEPT ![r] = "done"]
    /\ UNCHANGED <<stage, queue, slots, result, sent>>

Loop(r) == TimeoutFires(r) \/ TimeoutHandled(r) \/ Deliver(r)

Pool == WorkerTakes \/ \E r \in Requests : WorkerStarts(r) \/ WorkerFinishes(r)

SeamNext ==
    \/ \E r \in Requests : PassThrough(r) \/ RefuseBusy(r) \/ Submit(r) \/ Loop(r)
    \/ Pool
    \/ \E r \in Requests : WorkerReleases(r)

SeamSpec == SeamInit /\ [][SeamNext]_seamVars

\* The loop and the pool run on, and timers fire; a compressor need not return.
SeamFairness == (\A r \in Requests : WF_seamVars(Loop(r))) /\ WF_seamVars(Pool)

SeamFairSpec == SeamSpec /\ SeamFairness

-----------------------------------------------------------------------------
(* Properties *)

\* Whoever still has to give the slot back: an unfinished job, or a timeout that
\* cancelled its job and has not been handled yet.
Owners == {r \in Requests : job[r] \in Queued \/ (job[r] = "cancelled" /\ stage[r] = "expired")}

\* A taken slot is never lost: while the counter refuses requests, somebody is
\* there who will give the slot back.
TakenIsOwned == slots > 0 => Owners # {}

\* ... and although two sides may release it, it is given back only once.
NoPhantomSlot == TakenIsOwned /\ slots \in 0..1

\* What goes out compressed came back shaped like the request, without inflation
\* and without asking for a retrieval that nobody offers.
DispatchesOnlyUsable ==
    [][\A r \in Requests : sent'[r] # sent[r] /\ sent'[r] = "compressed" =>
          /\ ~result[r].raised /\ ~result[r].inflated
          /\ result[r].shaped /\ ~result[r].marked]_sent

\* Every request goes out, even when the compressor never returns, and the slot comes
\* back, unless a compressor that runs keeps it: requests are finitely many and each
\* is compressed once, so the time comes from which on nobody waits.
EveryRequestGoesOut ==
    <>[](/\ \A r \in Requests : stage[r] \in {"new", "ended"}
         /\ slots = 0 \/ \E r \in Requests : job[r] = "running")

-----------------------------------------------------------------------------
(* What a test says and the code does not do *)

\* test_timeout_leaves_worker_busy_instead_of_queueing_work: no job is queued
\* while another one is unfinished.
NeverQueuesWork == Cardinality({r \in Requests : job[r] \in Queued}) <= 1
=============================================================================
