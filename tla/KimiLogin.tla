----------------------------- MODULE KimiLogin -----------------------------
(***************************************************************************)
(* The supervisor of `kimi login' (protocols/kimi_login.py): the requests  *)
(* that lack a credential share one child process, whoever of them goes    *)
(* away, and a shutdown of the gateway ends it.                            *)
(*                                                                         *)
(* Callers, the login's task, the task that finishes a cancelled login and *)
(* the shutdown's task interleave on one event loop.  The coordinator's    *)
(* lock is never held across an await, so a block under it is one step.    *)
(* A task that is cancelled notices at its next step.  A caller starts at  *)
(* most one login, which is named by the caller.                           *)
(***************************************************************************)
EXTENDS Integers, FiniteSets

CONSTANTS
    Callers,    \* the requests that find no usable credential
    None

ASSUME CallersOK == IsFiniteSet(Callers)
ASSUME NoneOK == None \notin Callers

VARIABLES
    pc,         \* where each caller is in login(), or what it got from it
    joined,     \* the login that a caller awaits, or whose cleanup it awaits
    interrupt,  \* a caller's task was cancelled and has not noticed yet
    waiters,    \* _waiters
    attempt,    \* _task: the login that callers join
    cleanup,    \* _cleanup_task: the cancelled login that it finishes
    login,      \* where each login's task is in _run_login, or how it ended
    fate,       \* how a login will end when its pipes are drained
    kill,       \* a login's task was cancelled and has not noticed yet
    child,      \* each login has a process that runs
    fatal,      \* _fatal_error is set
    closing,    \* _closed and where _close_active_login is
    doomed      \* the login and the cleanup that _close_active_login was given

callerVars == <<pc, joined, interrupt>>
loginVars == <<login, fate, child>>
closeVars == <<closing, doomed>>
vars == <<callerVars, waiters, attempt, cleanup, loginVars, kill, fatal, closeVars>>

\* A login ends cancelled, or with a result or an error that it shares.
Fates == {"shared", "cancelled"}
Stages == {"starting", "running", "late", "stopping", "draining"}
\* What a caller gets: the login's result or an error, or a CancelledError.
Answers == {"answered", "cancelled"}

TypeOK ==
    /\ pc \in [Callers -> {"away", "blocked", "waiting", "reaping"} \cup Answers]
    /\ joined \in [Callers -> Callers \cup {None}]
    /\ interrupt \in [Callers -> BOOLEAN]
    /\ waiters \in 0..Cardinality(Callers)
    /\ attempt \in Callers \cup {None} /\ cleanup \in Callers \cup {None}
    /\ login \in [Callers -> {"none"} \cup Stages \cup Fates]
    /\ fate \in [Callers -> Fates \cup {"none"}]
    /\ kill \in [Callers -> BOOLEAN]
    /\ child \in [Callers -> BOOLEAN]
    /\ fatal \in BOOLEAN
    /\ closing \in {"open", "asked", "reaping", "closed", "failed"}
    /\ doomed \in [task : Callers \cup {None}, cleanup : Callers \cup {None}]

Init ==
    /\ pc = [r \in Callers |-> "away"]
    /\ joined = [r \in Callers |-> None]
    /\ interrupt = [r \in Callers |-> FALSE]
    /\ waiters = 0
    /\ attempt = None /\ cleanup = None
    /\ login = [t \in Callers |-> "none"]
    /\ fate = [t \in Callers |-> "none"]
    /\ kill = [t \in Callers |-> FALSE]
    /\ child = [t \in Callers |-> FALSE]
    /\ fatal = FALSE
    /\ closing = "open"
    /\ doomed = [task |-> None, cleanup |-> None]

isClosed == closing # "open"

Ended(t) == login[t] \in Fates

\* The cleanup of login t is over.
CleanedUp(t) == cleanup # t

Goto(r, p) == pc' = [pc EXCEPT ![r] = p]

-----------------------------------------------------------------------------
(* A caller: login() *)

\* The top of the loop, at the first call or after a cleanup.
Enters(r) ==
    /\ pc[r] = "away" \/ (pc[r] = "blocked" /\ CleanedUp(joined[r]) /\ ~interrupt[r])

Refuse(r) ==
    /\ Enters(r)
    /\ fatal \/ isClosed
    /\ Goto(r, "answered")
    /\ joined' = [joined EXCEPT ![r] = None]
    /\ UNCHANGED <<interrupt, waiters, attempt, cleanup, loginVars, kill, fatal, closeVars>>

\* Mutated: a caller does not wait for the cleanup.
HastyMayLogIn(r) == Enters(r) /\ ~fatal /\ ~isClosed

MayLogIn(r) == Enters(r) /\ ~fatal /\ ~isClosed /\ cleanup = None

Block(r) ==
    /\ Enters(r)
    /\ ~fatal /\ ~isClosed /\ cleanup # None
    /\ Goto(r, "blocked")
    /\ joined' = [joined EXCEPT ![r] = cleanup]
    /\ UNCHANGED <<interrupt, waiters, attempt, cleanup, loginVars, kill, fatal, closeVars>>

Start(r) ==
    /\ MayLogIn(r)
    /\ attempt = None
    /\ attempt' = r
    /\ login' = [login EXCEPT ![r] = "starting"]
    /\ waiters' = waiters + 1
    /\ joined' = [joined EXCEPT ![r] = r]
    /\ Goto(r, "waiting")
    /\ UNCHANGED <<interrupt, cleanup, fate, kill, child, fatal, closeVars>>

Join(r) ==
    /\ MayLogIn(r)
    /\ attempt # None /\ ~Ended(attempt)
    /\ waiters' = waiters + 1
    /\ joined' = [joined EXCEPT ![r] = attempt]
    /\ Goto(r, "waiting")
    /\ UNCHANGED <<interrupt, attempt, cleanup, loginVars, kill, fatal, closeVars>>

\* What a caller gets from a login that ended: a CancelledError that is not its
\* own becomes an error when the gateway shuts down.
Answer(t) ==
    IF login[t] = "shared" \/ isClosed THEN "answered" ELSE "cancelled"

\* The login has ended and its last callers have not resumed: a newcomer shares
\* its result without waiting.
JoinEnded(r) ==
    /\ MayLogIn(r)
    /\ attempt # None /\ Ended(attempt)
    /\ Goto(r, Answer(attempt))
    /\ attempt' = IF waiters = 0 THEN None ELSE attempt
    /\ joined' = [joined EXCEPT ![r] = None]
    /\ UNCHANGED <<interrupt, waiters, cleanup, loginVars, kill, fatal, closeVars>>

Return(r) ==
    /\ pc[r] = "waiting" /\ ~interrupt[r] /\ Ended(joined[r])
    /\ Goto(r, Answer(joined[r]))
    /\ waiters' = waiters - 1
    /\ attempt' = IF waiters = 1 /\ attempt = joined[r] THEN None ELSE attempt
    /\ joined' = [joined EXCEPT ![r] = None]
    /\ UNCHANGED <<interrupt, cleanup, loginVars, kill, fatal, closeVars>>

\* Mutated: any caller that goes takes the login with it.
SelfishLast(r) == attempt = joined[r] /\ ~Ended(attempt) /\ ~isClosed

Last(r) == waiters = 1 /\ attempt = joined[r] /\ ~Ended(attempt) /\ ~isClosed

\* The last caller of a login that is cancelled cancels the login.
AbandonLast(r) ==
    /\ pc[r] = "waiting" /\ interrupt[r]
    /\ Last(r)
    /\ waiters' = waiters - 1
    /\ kill' = [kill EXCEPT ![attempt] = TRUE]
    /\ attempt' = None
    /\ cleanup' = attempt
    /\ Goto(r, "reaping")
    /\ interrupt' = [interrupt EXCEPT ![r] = FALSE]
    /\ UNCHANGED <<joined, loginVars, fatal, closeVars>>

Abandon(r) ==
    /\ pc[r] = "waiting" /\ interrupt[r]
    /\ ~Last(r)
    /\ waiters' = waiters - 1
    /\ attempt' = IF waiters = 1 /\ attempt = joined[r] /\ Ended(attempt) THEN None ELSE attempt
    /\ Goto(r, IF isClosed THEN "answered" ELSE "cancelled")
    /\ joined' = [joined EXCEPT ![r] = None]
    /\ interrupt' = [interrupt EXCEPT ![r] = FALSE]
    /\ UNCHANGED <<cleanup, loginVars, kill, fatal, closeVars>>

\* A caller that waits for a cleanup is cancelled, or the cleanup of the login
\* that it cancelled itself is over.
Leave(r) ==
    /\ pc[r] \in {"blocked", "reaping"}
    /\ interrupt[r] \/ (pc[r] = "reaping" /\ CleanedUp(joined[r]))
    /\ Goto(r, "cancelled")
    /\ joined' = [joined EXCEPT ![r] = None]
    /\ interrupt' = [interrupt EXCEPT ![r] = FALSE]
    /\ UNCHANGED <<waiters, attempt, cleanup, loginVars, kill, fatal, closeVars>>

\* The server or the composition root cancels a request.
Interrupt(r) ==
    /\ pc[r] \in {"blocked", "waiting", "reaping"} /\ ~interrupt[r]
    /\ interrupt' = [interrupt EXCEPT ![r] = TRUE]
    /\ UNCHANGED <<pc, joined, waiters, attempt, cleanup, loginVars, kill, fatal, closeVars>>

-----------------------------------------------------------------------------
(* The login's task: _run_login and _stop_process *)

rest == <<callerVars, waiters, attempt, cleanup, closeVars>>

Advance(t, from, to) == login[t] = from /\ login' = [login EXCEPT ![t] = to]

Spawned(t) ==
    /\ Advance(t, "starting", "running") /\ ~kill[t]
    /\ child' = [child EXCEPT ![t] = TRUE]
    /\ UNCHANGED <<rest, fate, kill, fatal>>

SpawnFails(t) ==
    /\ Advance(t, "starting", "shared") /\ ~kill[t]
    /\ UNCHANGED <<rest, fate, kill, child, fatal>>

\* asyncio kills a child that it was starting before it lets the cancellation out.
CancelledEarly(t) ==
    /\ Advance(t, "starting", "cancelled") /\ kill[t]
    /\ kill' = [kill EXCEPT ![t] = FALSE]
    /\ UNCHANGED <<rest, fate, child, fatal>>

\* The child ends, of itself or of a signal; nothing says that it does.
ChildExits(t) ==
    /\ child[t]
    /\ child' = [child EXCEPT ![t] = FALSE]
    /\ UNCHANGED <<rest, login, fate, kill, fatal>>

Exited(t) ==
    /\ Advance(t, "running", "draining") /\ ~kill[t]
    /\ ~child[t]
    /\ fate' = [fate EXCEPT ![t] = "shared"]
    /\ UNCHANGED <<rest, kill, child, fatal>>

TimesOut(t) ==
    /\ Advance(t, "running", "late") /\ ~kill[t]
    /\ UNCHANGED <<rest, fate, kill, child, fatal>>

CancelRunning(t) ==
    /\ Advance(t, "running", "stopping") /\ kill[t]
    /\ kill' = [kill EXCEPT ![t] = FALSE]
    /\ UNCHANGED <<rest, fate, child, fatal>>

\* SIGTERM and SIGKILL, each with its grace: the child has ended, or never will.
Reap(t) == fatal' = (fatal \/ child[t])

\* Whether the gateway shuts down is read when the child has been stopped.
StopLate(t) ==
    /\ Advance(t, "late", "draining") /\ ~kill[t]
    /\ Reap(t)
    /\ fate' = [fate EXCEPT ![t] = "shared"]
    /\ UNCHANGED <<rest, kill, child>>

StopCancelled(t) ==
    /\ Advance(t, "stopping", "draining") /\ ~kill[t]
    /\ Reap(t)
    /\ fate' = [fate EXCEPT ![t] = IF isClosed THEN "shared" ELSE "cancelled"]
    /\ UNCHANGED <<rest, kill, child>>

\* The task is cancelled while it stops a child that was late: the child keeps
\* what it got, SIGTERM or nothing more.
StopCutShort(t) ==
    /\ login[t] \in {"late", "stopping"} /\ kill[t]
    /\ login' = [login EXCEPT ![t] = "draining"]
    /\ fate' = [fate EXCEPT ![t] = "cancelled"]
    /\ kill' = [kill EXCEPT ![t] = FALSE]
    /\ UNCHANGED <<rest, child, fatal>>

Drained(t) ==
    /\ Advance(t, "draining", fate[t]) /\ ~kill[t]
    /\ ~child[t]
    /\ fate' = [fate EXCEPT ![t] = "none"]
    /\ UNCHANGED <<rest, kill, child, fatal>>

\* The pipes stay open, held by the child or by a process that it started.  A
\* child that runs holds its pipes.
DrainsStuck(t) ==
    /\ Advance(t, "draining", "shared") /\ ~kill[t]
    /\ fatal' = TRUE
    /\ fate' = [fate EXCEPT ![t] = "none"]
    /\ UNCHANGED <<rest, kill, child>>

DrainsCutShort(t) ==
    /\ Advance(t, "draining", "cancelled") /\ kill[t]
    /\ kill' = [kill EXCEPT ![t] = FALSE]
    /\ fate' = [fate EXCEPT ![t] = "none"]
    /\ UNCHANGED <<rest, child, fatal>>

\* Mutated: the cleanup stays registered.
ForgetfulFinishCleanup ==
    /\ cleanup # None /\ Ended(cleanup)
    /\ UNCHANGED vars

\* _finish_cancelled_login
FinishCleanup ==
    /\ cleanup # None /\ Ended(cleanup)
    /\ cleanup' = None
    /\ UNCHANGED <<callerVars, waiters, attempt, loginVars, kill, fatal, closeVars>>

-----------------------------------------------------------------------------
(* The shutdown: close() and _close_active_login *)

Close ==
    /\ closing = "open"
    /\ closing' = "asked"
    /\ doomed' = [task |-> attempt, cleanup |-> cleanup]
    /\ UNCHANGED <<callerVars, waiters, attempt, cleanup, loginVars, kill, fatal>>

CancelLogin ==
    /\ closing = "asked"
    /\ closing' = "reaping"
    /\ kill' = [t \in Callers |-> kill[t] \/ (t = doomed.task /\ ~Ended(t))]
    /\ UNCHANGED <<callerVars, waiters, attempt, cleanup, loginVars, fatal, doomed>>

\* Mutated: the cleanup of an earlier login is not waited for.
ImpatientReaped == doomed.task # None => Ended(doomed.task)

Reaped ==
    /\ doomed.task # None => Ended(doomed.task)
    /\ doomed.cleanup # None => CleanedUp(doomed.cleanup)

\* Only a fatal login leaves the error that _close_active_login looks for.
FinishClose ==
    /\ closing = "reaping" /\ Reaped
    /\ closing' = IF fatal THEN "failed" ELSE "closed"
    /\ attempt' = IF attempt = doomed.task THEN None ELSE attempt
    /\ UNCHANGED <<callerVars, waiters, cleanup, loginVars, kill, fatal, doomed>>

-----------------------------------------------------------------------------

Await(r) ==
    Refuse(r) \/ Block(r) \/ Start(r) \/ Join(r) \/ JoinEnded(r)
        \/ Return(r) \/ AbandonLast(r) \/ Abandon(r) \/ Leave(r)

RunLogin(t) ==
    \/ Spawned(t) \/ SpawnFails(t) \/ CancelledEarly(t)
    \/ Exited(t) \/ TimesOut(t) \/ CancelRunning(t)
    \/ StopLate(t) \/ StopCancelled(t) \/ StopCutShort(t)
    \/ Drained(t) \/ DrainsStuck(t) \/ DrainsCutShort(t)

Shutdown == CancelLogin \/ FinishClose

Next ==
    \/ \E r \in Callers : Await(r) \/ Interrupt(r) \/ RunLogin(r) \/ ChildExits(r)
    \/ FinishCleanup \/ Close \/ Shutdown

Spec == Init /\ [][Next]_vars

\* The event loop runs every task that can go on; a wait for the child or its
\* pipes has a timeout.
Fairness ==
    /\ \A r \in Callers : WF_vars(pc[r] # "away" /\ Await(r)) /\ WF_vars(RunLogin(r))
    /\ WF_vars(FinishCleanup) /\ WF_vars(Shutdown)

FairSpec == Spec /\ Fairness

-----------------------------------------------------------------------------
(* Properties *)

\* "Run at most one official Kimi login process for this gateway": also while a
\* cancelled, a late or an unreapable one is still there.
OneChild == \A t, u \in Callers : child[t] /\ child[u] => t = u

\* A caller is only cancelled if its own task was: neither another caller that
\* goes away nor the shutdown ends it with a CancelledError.
OnlyOwnCancellation ==
    [][\A r \in Callers :
          pc[r] = "waiting" /\ pc'[r] \in {"reaping", "cancelled"} => interrupt[r]]_pc

\* A shutdown that reports success has left no child and no login behind.
CloseReaps ==
    closing = "closed" =>
        \A t \in Callers : ~child[t] /\ login[t] \notin Stages

\* Every caller gets an answer, although the child may never end, and a shutdown
\* comes to its end: callers are finitely many and call once, so the time comes from
\* which on nobody waits.
EveryoneIsAnswered ==
    <>[](closing # "asked" /\ \A r \in Callers : pc[r] \in {"away"} \cup Answers)
=============================================================================
