------------------------------ MODULE CliTurns ------------------------------
(***************************************************************************)
(* Turns that a local CLI answers: the codex, claude and auggie adapters   *)
(* (protocols/adapters/codex.py, claude.py, auggie.py) over the bounded    *)
(* spine (cli_spine.py), with the quota that GET /usage reports            *)
(* (codex_usage_store.py) and the rollout files that it is read from       *)
(* (codex_rollout.py).                                                     *)
(*                                                                         *)
(* A streamed turn is a generator that its consumer may leave suspended:   *)
(* the Messages surface reads up to response.completed and no further      *)
(* (anthropic_stream.py), the Responses surface reads to the end.  Code    *)
(* after the last event runs in the second case only, and codex is served  *)
(* on the Messages surface only.                                           *)
(***************************************************************************)
EXTENDS Naturals, Sequences, FiniteSets, SequencesExt, PyNone

CONSTANTS
    Turns,          \* turns, and the names of the threads that codex gives them
    Foreign         \* a codex session that is not one of the gateway's

VARIABLES
    turn,           \* the state of each turn
    children,       \* turn -> its CLI processes that still run
    usage,          \* codex_usage_store._latest
    rollouts,       \* thread -> whether it has a file, and with known limits
    newest          \* the thread whose rollout was written last

cliVars == <<turn, children, usage, rollouts, newest>>

Providers == {"codex", "claude", "auggie"}
Threads == Turns \cup {Foreign}
NoFile == [file |-> FALSE, limits |-> None]
\* The limits of a session are named by its thread; None if the file has no
\* token_count record or no window that is known.
Rollout(th, known) == [file |-> TRUE, limits |-> IF known THEN th ELSE None]

CliInit ==
    /\ \E provider \in [Turns -> Providers], streams \in [Turns -> BOOLEAN] :
          turn = [t \in Turns |->
              [provider |-> provider[t], streams |-> streams[t], phase |-> "new",
               runs |-> <<>>, counts |-> FALSE, thread |-> None,
               current |-> None, got |-> None]]
    /\ children = [t \in Turns |-> 0]
    /\ usage = None
    /\ rollouts = [th \in Threads |-> NoFile] /\ newest = None

\* The outcomes of one run of a CLI: text and a clean end, nothing and a clean
\* end, text and then an exit with an error, or a failure.
Outcomes == {"text", "empty", "cut", "failed"}
Final == {"refused", "completed", "error"}

Sets(t, r) == turn' = [turn EXCEPT ![t] = r]
Files == UNCHANGED <<rollouts, newest>>

-----------------------------------------------------------------------------
(* The turn.                                                                *)

\* _ensure_authenticated fails closed before anything is spawned.
Gate(t) ==
    /\ turn[t].phase = "new"
    /\ Sets(t, [turn[t] EXCEPT !.phase = "refused"])
    /\ UNCHANGED <<children, usage>> /\ Files

\* auggie has no streaming runner.
Spawn(t) ==
    /\ turn[t].phase = "new"
    /\ Sets(t, [turn[t] EXCEPT !.phase = IF turn[t].streams /\ turn[t].provider # "auggie"
                                         THEN "starting" ELSE "buffered"])
    /\ children' = [children EXCEPT ![t] = @ + 1]
    /\ UNCHANGED usage /\ Files

\* The first fragment: from here on there is no fallback.
FirstText(t) ==
    /\ turn[t].phase = "starting"
    /\ Sets(t, [turn[t] EXCEPT !.phase = "streaming"])
    /\ UNCHANGED <<children, usage>> /\ Files

\* The buffered run that stands in for a stream that gave nothing.
Fallback(t, r) ==
    Sets(t, [r EXCEPT !.phase = "buffered"])

\* A mutant of StreamFails: a failure counts as a turn without text.
FalseGreenStreamFails(t, reaped) ==
    /\ turn[t].phase = "starting"
    /\ Sets(t, [turn[t] EXCEPT !.runs = Append(@, "failed"), !.phase = "completed"])
    /\ children' = [children EXCEPT ![t] = @ - 1]
    /\ UNCHANGED usage /\ Files

\* It fails before its first fragment: not found, timed out, an exit code or,
\* for claude, a line that is not JSON.  Then its process is killed only when
\* the generator is collected.
StreamFails(t, reaped) ==
    /\ turn[t].phase = "starting"
    /\ Fallback(t, [turn[t] EXCEPT !.runs = Append(@, "failed")])
    /\ children' = [children EXCEPT ![t] = IF reaped THEN @ ELSE @ + 1]
    /\ UNCHANGED usage /\ Files

\* A clean end without text: for codex a valid empty completion.
StreamEmpty(t, counts, reaped) ==
    /\ turn[t].phase = "starting"
    /\ LET r == [turn[t] EXCEPT !.runs = Append(@, "empty"), !.counts = counts]
       IN IF r.provider = "codex"
          THEN /\ Sets(t, [r EXCEPT !.phase = "completed"])
               /\ children' = [children EXCEPT ![t] = IF reaped THEN @ - 1 ELSE @]
          ELSE Fallback(t, r) /\ UNCHANGED children
    /\ UNCHANGED usage /\ Files

\* A clean end after text.  codex's stream is left at turn.completed, with the
\* process running or not.  The consumer reads up to response.completed; for
\* codex nothing of _stream_response runs after it.
StreamEnds(t, counts, reaped) ==
    /\ turn[t].phase = "streaming"
    /\ Sets(t, [turn[t] EXCEPT !.runs = Append(@, "text"), !.counts = counts, !.phase = "completed"])
    /\ children' = [children EXCEPT ![t] = IF reaped THEN @ - 1 ELSE @]
    /\ UNCHANGED usage /\ Files

\* After text: claude takes an exit code for the end of the turn, nobody takes
\* a timeout for it.
StreamCut(t, timeout) ==
    /\ turn[t].phase = "streaming"
    /\ LET benign == turn[t].provider = "claude" /\ ~timeout
       IN Sets(t, [turn[t] EXCEPT !.runs = Append(@, IF benign THEN "cut" ELSE "failed"),
                                  !.phase = IF benign THEN "completed" ELSE "error"])
    /\ children' = [children EXCEPT ![t] = @ - 1]
    /\ UNCHANGED usage /\ Files

\* The buffered runner, in a thread.  A turn that is not streamed and has
\* usage goes on to the usage store; a replayed one is left at its last event.
BufferedEnds(t, outcome, thread) ==
    /\ turn[t].phase = "buffered" /\ outcome \in {"text", "empty", "failed"}
    /\ LET r == [turn[t] EXCEPT !.runs = Append(@, outcome)]
           counts == r.provider = "codex" /\ outcome # "failed"
       IN Sets(t, [r EXCEPT !.phase = IF outcome = "failed" THEN "error"
                                      ELSE IF counts /\ ~r.streams THEN "counting" ELSE "completed",
                            !.counts = counts, !.thread = thread])
    /\ children' = [children EXCEPT ![t] = @ - 1]
    /\ UNCHANGED usage /\ Files

\* A mutant of Collect: only the process of a stream that failed is killed.
SkippedCollect(t) ==
    /\ children[t] > 1
    /\ children' = [children EXCEPT ![t] = @ - 1]
    /\ UNCHANGED <<turn, usage>> /\ Files

\* A generator that was left suspended is collected, and kills its process.
Collect(t) ==
    /\ children[t] > (IF turn[t].phase \in {"starting", "streaming", "buffered"} THEN 1 ELSE 0)
    /\ children' = [children EXCEPT ![t] = @ - 1]
    /\ UNCHANGED <<turn, usage>> /\ Files

-----------------------------------------------------------------------------
(* The usage store.                                                         *)

\* codex writes to the rollout of its own session, or another session of the
\* account does.
Writes(th, known) ==
    /\ th # Foreign => /\ turn[th].provider = "codex"
                       /\ turn[th].phase \in {"starting", "streaming", "buffered"}
    /\ rollouts' = [rollouts EXCEPT ![th] = Rollout(th, known)]
    /\ newest' = th
    /\ UNCHANGED <<turn, children, usage>>

\* _update_usage_store up to its await: the limits to keep.
Counts(t) ==
    /\ turn[t].phase = "counting"
    /\ Sets(t, [turn[t] EXCEPT !.phase = "reading", !.current = IF usage = None THEN None ELSE usage.limits])
    /\ UNCHANGED <<children, usage>> /\ Files

\* read_rate_limits: the file of the thread, or the newest one if the CLI named
\* no thread.
RateLimits(thread) ==
    IF thread # None THEN rollouts[thread].limits
    ELSE IF newest # None THEN rollouts[newest].limits ELSE None

ReadsRollout(t) ==
    /\ turn[t].phase = "reading"
    /\ Sets(t, [turn[t] EXCEPT !.phase = "updating", !.got = RateLimits(turn[t].thread)])
    /\ UNCHANGED <<children, usage>> /\ Files

\* What follows the await: keep-last, snapshot, update.
Updates(t) ==
    /\ turn[t].phase = "updating"
    /\ usage' = [of |-> t, limits |-> IF turn[t].got # None THEN turn[t].got ELSE turn[t].current]
    /\ Sets(t, [turn[t] EXCEPT !.phase = "completed"])
    /\ UNCHANGED children /\ Files

-----------------------------------------------------------------------------
CliStep(t) ==
    \/ Gate(t) \/ Spawn(t) \/ FirstText(t) \/ Counts(t) \/ ReadsRollout(t) \/ Updates(t)
    \/ \E timeout \in BOOLEAN : StreamCut(t, timeout)
    \/ \E counts \in {FALSE, turn[t].provider = "codex"} :
       \E reaped \in {TRUE, turn[t].provider # "codex"} :
          StreamEmpty(t, counts, reaped) \/ StreamEnds(t, counts, reaped)
    \/ \E reaped \in {TRUE, turn[t].provider # "claude"} : StreamFails(t, reaped)
    \/ \E o \in Outcomes, th \in {t, None} : BufferedEnds(t, o, th)

CliNext ==
    \/ \E t \in Turns : CliStep(t) \/ Collect(t)
    \/ \E th \in Threads, known \in BOOLEAN : Writes(th, known)

\* A CLI is bounded by its deadline, so every step of a turn is taken, and the
\* interpreter collects what is not referenced.
CliFairness == \A t \in Turns : WF_cliVars(CliStep(t)) /\ WF_cliVars(Collect(t))
CliSpec == CliInit /\ [][CliNext]_cliVars /\ CliFairness

-----------------------------------------------------------------------------
\* "a valid gate with a FAILING codex exec surfaces a STRUCTURED error (never a
\* false-green)" (codex.py:390): a completed turn's last run did not fail; only
\* claude's may have been cut off after text.
NoFalseGreen ==
    \A t \in Turns : turn[t].phase = "completed" =>
        \/ Last(turn[t].runs) \in {"text", "empty"}
        \/ Last(turn[t].runs) = "cut" /\ turn[t].provider = "claude"

\* Quota never comes from an unrelated session: a turn whose thread is known
\* leaves the limits as it found them or takes those of its own rollout
\* (codex_rollout.py:88, "that would leak a different session's quota").
QuotaIsOwn ==
    \A t \in Turns : turn[t].phase = "updating" /\ turn[t].thread # None =>
        turn[t].got \in {None, turn[t].thread}

\* What a turn tells is its own: its success and its quota.
ToldIsTrue == NoFalseGreen /\ QuotaIsOwn

\* Every turn is answered and none of its processes outlives it for ever.
TurnsEndAndAreReaped ==
    \A t \in Turns : <>[](turn[t].phase \in Final /\ children[t] = 0)

\* "the ONLY conditions that may silently fall back to the buffered CLI" are a
\* nonzero exit before any chunk and a first chunk that cannot be parsed
\* (claude.py:401): a run that ended well is not run again.
RunsAgainOnlyOnFailure ==
    \A t \in Turns : Len(turn[t].runs) = 2 => turn[t].runs[1] = "failed"

\* "The store is updated at finalize-time by the CodexAdapter (token counts
\* from the stream)" (codex_usage_store.py:8).
StreamedTurnsAreCounted ==
    (\E t \in Turns : turn[t].provider = "codex" /\ turn[t].phase = "completed" /\ turn[t].counts)
        => usage # None

\* "keep-last semantics - does NOT clear to None" (codex.py:554).
LimitsAreKept ==
    [][usage # None /\ usage.limits # None => usage'.limits # None]_cliVars
=============================================================================
