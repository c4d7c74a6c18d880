--------------------------- MODULE SessionDaemon ---------------------------
(***************************************************************************)
(* The session daemon: the table of wrapped CLI sessions                   *)
(* (daemon/session_table.py), the two turn endpoints                       *)
(* (daemon/session_daemon.py) and the recycle sweeper that runs beside     *)
(* them on the same event loop (daemon/recycler.py).                       *)
(*                                                                         *)
(* The daemon is one asyncio loop: code between two awaits is one step of  *)
(* this specification.  An asyncio.Lock admits its waiters first come      *)
(* first served and a cancelled waiter just leaves, so a lock is modelled  *)
(* by its line: the head of the line holds the lock, the others wait.      *)
(*                                                                         *)
(* A request makes at most one Session object, so the object is named by   *)
(* the request that created it.  A conversation (what cli_session_id       *)
(* names) is the set of the turns that it holds; {} stands for no id.      *)
(***************************************************************************)
EXTENDS Sequences, SequencesExt, PyNone

CONSTANTS
    Requests,   \* the turn requests a run of the daemon receives
    Keys,       \* the (machine, workspace, provider) session keys
    Streaming,  \* the requests to /session/turn/stream
    CodexKeys,  \* the keys whose provider is "openai", driven by the Codex CLI
    Blind,      \* the keys for which the descendant probe answers True
    Sweeper     \* the recycle sweeper, as an owner of the table lock

ASSUME SubsetsOK == Streaming \subseteq Requests /\ CodexKeys \subseteq Keys /\ Blind \subseteq Keys
ASSUME NoneOK == None \notin Requests      \* no session
ASSUME SweeperOK == Sweeper \notin Requests

VARIABLES
    pc,             \* where each request is in its handler
    key,            \* the session key each request asks for
    sess,           \* the Session object each request got from get_or_create
    table,          \* SessionTable._sessions
    tableLine,      \* the line of SessionTable._table_lock
    turnLine,       \* the line of each Session.lock
    idle,           \* whether last_request_at is at least the threshold ago
    sentinel,       \* the process of each Session
    conversation,   \* the conversation cli_session_id names
    resumed,        \* the conversation a request's CLI was told to resume
    sweep           \* the sweeper: where it is, what is left, whom it recycles

requestVars == <<pc, key, sess, resumed>>
sessionVars == <<turnLine, idle, sentinel, conversation>>
vars == <<requestVars, table, tableLine, sessionVars, sweep>>

InCli == {"turn", "delta"}
Holding == InCli \cup {"dropping", "delivering"}
PCs == {"new", "table", "spawning", "session", "ended"} \cup Holding

TypeOK ==
    /\ pc \in [Requests -> PCs]
    /\ key \in [Requests -> Keys]
    /\ sess \in [Requests -> Requests \cup {None}]
    /\ table \in [Keys -> Requests \cup {None}]
    /\ tableLine \in Seq(Requests \cup {Sweeper})
    /\ turnLine \in [Requests -> Seq(Requests)]
    /\ idle \in [Requests -> BOOLEAN]
    /\ sentinel \in [Requests -> {"none", "running", "exited"}]
    /\ conversation \in [Requests -> SUBSET Requests]
    /\ resumed \in [Requests -> SUBSET Requests]
    /\ sweep \in [at : {"sleep", "walk", "term", "kill", "drop"},
                  left : SUBSET Requests,
                  on : Requests \cup {None}]

Init ==
    /\ pc = [r \in Requests |-> "new"]
    /\ key \in [Requests -> Keys]
    /\ sess = [r \in Requests |-> None]
    /\ table = [k \in Keys |-> None]
    /\ tableLine = <<>>
    /\ turnLine = [s \in Requests |-> <<>>]
    /\ idle = [s \in Requests |-> FALSE]
    /\ sentinel = [s \in Requests |-> "none"]
    /\ conversation = [s \in Requests |-> {}]
    /\ resumed = [r \in Requests |-> {}]
    /\ sweep = [at |-> "sleep", left |-> {}, on |-> None]

Holds(line, a) == line # <<>> /\ Head(line) = a

InTable(s) == table[key[s]] = s

Goto(r, p) == pc' = [pc EXCEPT ![r] = p]

\* The handler is over, and with it what its locals refer to.
End(r) ==
    /\ Goto(r, "ended")
    /\ sess' = [sess EXCEPT ![r] = None]
    /\ resumed' = [resumed EXCEPT ![r] = {}]

\* ... and it lets the next waiter have its session as `async with` exits.
EndTurn(r) ==
    /\ End(r)
    /\ turnLine' = [turnLine EXCEPT ![sess[r]] = Tail(@)]

-----------------------------------------------------------------------------
(* get_or_create *)

Submit(r) ==
    /\ pc[r] = "new"
    /\ Goto(r, "table")
    /\ tableLine' = Append(tableLine, r)
    /\ UNCHANGED <<key, sess, resumed, table, sessionVars, sweep>>

FindSession(r) ==
    LET s == table[key[r]] IN
    /\ pc[r] = "table"
    /\ Holds(tableLine, r)
    /\ s # None
    /\ Goto(r, "session")
    /\ sess' = [sess EXCEPT ![r] = s]
    /\ tableLine' = Tail(tableLine)
    /\ turnLine' = [turnLine EXCEPT ![s] = Append(@, r)]
    /\ UNCHANGED <<key, resumed, table, idle, sentinel, conversation, sweep>>

\* A get_or_create that looks the key up before it has the table lock.
UnlockedBeginSpawn(r) ==
    /\ pc[r] = "table"
    /\ table[key[r]] = None
    /\ Goto(r, "spawning")
    /\ UNCHANGED <<key, sess, resumed, table, tableLine, sessionVars, sweep>>

BeginSpawn(r) ==
    /\ pc[r] = "table"
    /\ Holds(tableLine, r)
    /\ table[key[r]] = None
    /\ Goto(r, "spawning")
    /\ UNCHANGED <<key, sess, resumed, table, tableLine, sessionVars, sweep>>

\* The sentinel process starts: the session is entered and the lock released.
SpawnSession(r) ==
    /\ pc[r] = "spawning"
    /\ Goto(r, "session")
    /\ sess' = [sess EXCEPT ![r] = r]
    /\ table' = [table EXCEPT ![key[r]] = r]
    /\ tableLine' = Tail(tableLine)
    /\ turnLine' = [turnLine EXCEPT ![r] = Append(@, r)]
    /\ sentinel' = [sentinel EXCEPT ![r] = "running"]
    /\ UNCHANGED <<key, resumed, idle, conversation, sweep>>

\* spawn_fn raises (no such workspace, no more processes): nothing is entered.
SpawnFails(r) ==
    /\ pc[r] = "spawning"
    /\ End(r)
    /\ tableLine' = Tail(tableLine)
    /\ UNCHANGED <<key, table, sessionVars, sweep>>

-----------------------------------------------------------------------------
(* One turn, under the session lock *)

\* A handler that reads cli_session_id before it has the session lock.
UnlockedBeginTurn(r) ==
    /\ pc[r] = "session"
    /\ Goto(r, "turn")
    /\ idle' = [idle EXCEPT ![sess[r]] = FALSE]
    /\ resumed' = [resumed EXCEPT ![r] = conversation[sess[r]]]
    /\ UNCHANGED <<key, sess, table, tableLine, turnLine, sentinel, conversation, sweep>>

\* A handler that forgets to touch last_request_at.
UntouchedBeginTurn(r) ==
    /\ pc[r] = "session"
    /\ Holds(turnLine[sess[r]], r)
    /\ Goto(r, "turn")
    /\ resumed' = [resumed EXCEPT ![r] = conversation[sess[r]]]
    /\ UNCHANGED <<key, sess, table, tableLine, sessionVars, sweep>>

\* last_request_at is touched and the turn's CLI starts, resuming cli_session_id.
BeginTurn(r) ==
    /\ pc[r] = "session"
    /\ Holds(turnLine[sess[r]], r)
    /\ Goto(r, "turn")
    /\ idle' = [idle EXCEPT ![sess[r]] = FALSE]
    /\ resumed' = [resumed EXCEPT ![r] = conversation[sess[r]]]
    /\ UNCHANGED <<key, sess, table, tableLine, turnLine, sentinel, conversation, sweep>>

\* cli_session_id, when the CLI reported one.
RecordTurn(r) ==
    conversation' \in {conversation, [conversation EXCEPT ![sess[r]] = resumed[r] \cup {r}]}

\* The CLI exits with 0.  The unary endpoint answers and releases the lock; the
\* streaming one still has its "completed" event to hand over, under the lock.
TurnSucceeds(r) ==
    /\ pc[r] = "turn"
    /\ RecordTurn(r)
    /\ IF r \in Streaming
       THEN Goto(r, "delivering") /\ UNCHANGED <<sess, resumed, turnLine>>
       ELSE EndTurn(r)
    /\ UNCHANGED <<key, table, tableLine, idle, sentinel, sweep>>

\* A streamed Codex turn hands its text over before the session is updated.
YieldCodexText(r) ==
    /\ pc[r] = "turn"
    /\ r \in Streaming /\ key[r] \in CodexKeys
    /\ Goto(r, "delta")
    /\ UNCHANGED <<key, sess, resumed, table, tableLine, sessionVars, sweep>>

TakeCodexText(r) ==
    /\ pc[r] = "delta"
    /\ RecordTurn(r)
    /\ Goto(r, "delivering")
    /\ UNCHANGED <<key, sess, resumed, table, tableLine, turnLine, idle, sentinel, sweep>>

\* The turn times out or its CLI exits nonzero: RuntimeError, and the handler
\* asks for the table lock while it still has the session lock.
TurnFails(r) ==
    /\ pc[r] = "turn"
    /\ Goto(r, "dropping")
    /\ tableLine' = Append(tableLine, r)
    /\ UNCHANGED <<key, sess, resumed, table, sessionVars, sweep>>

\* A handler that leaves the session lock taken when its turn crashes.
LeakyTurnCrashes(r) ==
    /\ pc[r] = "turn"
    /\ End(r)
    /\ UNCHANGED <<key, table, tableLine, sessionVars, sweep>>

\* Any other exception (the CLI cannot be started, an overlong line) skips the
\* handler's except clause: the session stays in the table.
TurnCrashes(r) ==
    /\ pc[r] = "turn"
    /\ EndTurn(r)
    /\ UNCHANGED <<key, table, tableLine, idle, sentinel, conversation, sweep>>

\* remove(session.key): whatever the table holds under the key goes.  Its process
\* is not terminated.  A stream then sends its "error" event, under the lock.
DropSession(r) ==
    /\ pc[r] = "dropping"
    /\ Holds(tableLine, r)
    /\ table' = [table EXCEPT ![key[r]] = None]
    /\ tableLine' = Tail(tableLine)
    /\ IF r \in Streaming
       THEN Goto(r, "delivering") /\ UNCHANGED <<sess, resumed, turnLine>>
       ELSE EndTurn(r)
    /\ UNCHANGED <<key, idle, sentinel, conversation, sweep>>

\* The client takes the last event and the stream's generator ends.
Deliver(r) ==
    /\ pc[r] = "delivering"
    /\ EndTurn(r)
    /\ UNCHANGED <<key, table, tableLine, idle, sentinel, conversation, sweep>>

\* Where r stands in a line, and the line without it.
LeaveLine(line, r, newLine) ==
    \E i \in 1..Len(line) : line[i] = r /\ newLine = RemoveAt(line, i)

\* The client of a stream disconnects: the handler is cancelled where it waits,
\* its CLI is killed, and it leaves every lock it holds or waits for.
Disconnect(r) ==
    /\ r \in Streaming
    /\ pc[r] \in {"table", "spawning", "session"} \cup Holding
    /\ End(r)
    /\ IF pc[r] \in {"table", "spawning", "dropping"}
       THEN LeaveLine(tableLine, r, tableLine')
       ELSE UNCHANGED tableLine
    /\ IF pc[r] \in {"session"} \cup Holding
       THEN \E line \in {RemoveAt(turnLine[sess[r]], i) : i \in 1..Len(turnLine[sess[r]])} :
                /\ LeaveLine(turnLine[sess[r]], r, line)
                /\ turnLine' = [turnLine EXCEPT ![sess[r]] = line]
       ELSE UNCHANGED turnLine
    /\ UNCHANGED <<key, table, idle, sentinel, conversation, sweep>>

-----------------------------------------------------------------------------
(* The sweeper *)

\* all_sessions(): the walk works on a snapshot.
SweepWake ==
    /\ sweep.at = "sleep"
    /\ sweep' = [at |-> "walk", left |-> {s \in Requests : InTable(s)}, on |-> None]
    /\ UNCHANGED <<requestVars, table, tableLine, sessionVars>>

\* The probe looks at the sentinel's process tree; an exited sentinel has none.
HasLiveDescendants(s) == sentinel[s] = "running" /\ key[s] \in Blind

DecideRecycle(s) == idle[s] /\ ~HasLiveDescendants(s)

SweepKeep(s) ==
    /\ sweep.at = "walk" /\ s \in sweep.left
    /\ ~DecideRecycle(s)
    /\ sweep' = [sweep EXCEPT !.left = @ \ {s}]
    /\ UNCHANGED <<requestVars, table, tableLine, sessionVars>>

\* SIGTERM, or straight to the removal when the sentinel is gone already.
SweepRecycle(s) ==
    /\ sweep.at = "walk" /\ s \in sweep.left
    /\ DecideRecycle(s)
    /\ IF sentinel[s] = "running"
       THEN /\ sweep' = [sweep EXCEPT !.at = "term", !.left = @ \ {s}, !.on = s]
            /\ UNCHANGED tableLine
       ELSE /\ sweep' = [sweep EXCEPT !.at = "drop", !.left = @ \ {s}, !.on = s]
            /\ tableLine' = Append(tableLine, Sweeper)
    /\ UNCHANGED <<requestVars, table, sessionVars>>

\* The grace period after SIGTERM runs out: SIGKILL.
SweepKill ==
    /\ sweep.at = "term"
    /\ sentinel[sweep.on] = "running"
    /\ sweep' = [sweep EXCEPT !.at = "kill"]
    /\ UNCHANGED <<requestVars, table, tableLine, sessionVars>>

\* The sentinel is gone, or is still there after SIGKILL's own grace period.
SweepTerminated ==
    /\ \/ sweep.at = "term" /\ sentinel[sweep.on] = "exited"
       \/ sweep.at = "kill"
    /\ sweep' = [sweep EXCEPT !.at = "drop"]
    /\ tableLine' = Append(tableLine, Sweeper)
    /\ UNCHANGED <<requestVars, table, sessionVars>>

\* A sweeper that leaves the entry of the session it terminated.
ForgetfulSweepDrop ==
    /\ sweep.at = "drop"
    /\ Holds(tableLine, Sweeper)
    /\ tableLine' = Tail(tableLine)
    /\ sweep' = [sweep EXCEPT !.at = "walk", !.on = None]
    /\ UNCHANGED <<requestVars, table, sessionVars>>

SweepDrop ==
    /\ sweep.at = "drop"
    /\ Holds(tableLine, Sweeper)
    /\ table' = [table EXCEPT ![key[sweep.on]] = None]
    /\ tableLine' = Tail(tableLine)
    /\ sweep' = [sweep EXCEPT !.at = "walk", !.on = None]
    /\ UNCHANGED <<requestVars, sessionVars>>

SweepEnd ==
    /\ sweep.at = "walk" /\ sweep.left = {}
    /\ sweep' = [sweep EXCEPT !.at = "sleep"]
    /\ UNCHANGED <<requestVars, table, tableLine, sessionVars>>

-----------------------------------------------------------------------------
(* The environment, as far as somebody still looks at the session *)

Watched == {s \in Requests : InTable(s)} \cup sweep.left \cup {sweep.on}

\* A turn ends within its timeout, far below the idle threshold; nothing bounds
\* how long a client lets a streamed event wait.
IdleThresholdPasses(s) ==
    /\ s \in Watched /\ ~idle[s]
    /\ ~ \E r \in Requests : pc[r] = "turn" /\ sess[r] = s
    /\ idle' = [idle EXCEPT ![s] = TRUE]
    /\ UNCHANGED <<requestVars, table, tableLine, turnLine, sentinel, conversation, sweep>>

\* The sentinel ends: of the sweeper's signal, or killed from outside.
SentinelExits(s) ==
    /\ s \in Watched /\ sentinel[s] = "running"
    /\ sentinel' = [sentinel EXCEPT ![s] = "exited"]
    /\ UNCHANGED <<requestVars, table, tableLine, turnLine, idle, conversation, sweep>>

Handle(r) ==
    \/ FindSession(r) \/ BeginSpawn(r) \/ SpawnSession(r) \/ SpawnFails(r)
    \/ BeginTurn(r) \/ TurnSucceeds(r) \/ YieldCodexText(r) \/ TakeCodexText(r)
    \/ TurnFails(r) \/ TurnCrashes(r) \/ DropSession(r) \/ Deliver(r)

Sweep ==
    \/ SweepWake \/ SweepKill \/ SweepTerminated \/ SweepDrop \/ SweepEnd
    \/ \E s \in Requests : SweepKeep(s) \/ SweepRecycle(s)

Next ==
    \/ \E r \in Requests : Submit(r) \/ Handle(r) \/ Disconnect(r)
    \/ Sweep
    \/ \E s \in Requests : IdleThresholdPasses(s) \/ SentinelExits(s)

Spec == Init /\ [][Next]_vars

\* Every handler runs on: a spawn and a turn end (by their outcome or timeout), a
\* client takes what it is sent or goes away.  The sweeper's task keeps running.
Fairness == (\A r \in Requests : WF_vars(Handle(r))) /\ WF_vars(Sweep)

FairSpec == Spec /\ Fairness

-----------------------------------------------------------------------------
(* Properties *)

\* What Session.lock promises, of one Session object.
Line == INSTANCE TurnLine WITH
            Sessions <- Requests,
            line <- turnLine,
            served <- [s \in Requests |-> {r \in Requests : sess[r] = s /\ pc[r] \in InCli}]

\* On each Session object turns run one at a time in the order in which the
\* requests reached its lock, whatever is cancelled, fails or is recycled meanwhile.
TurnsInOrder == Line!LineSpec

\* Two turns never run on one Session object at the same time: whoever runs, or
\* still reports, is the one the session's lock admitted.
OneTurnPerSession ==
    \A r1, r2 \in Requests :
        pc[r1] \in Holding /\ pc[r2] \in Holding /\ sess[r1] = sess[r2] => r1 = r2

\* The conversation a running turn resumed is still the session's newest one when
\* the turn ends: cli_session_id is read before an await and written after it.
ResumesLatest ==
    \A r \in Requests : pc[r] \in InCli => resumed[r] = conversation[sess[r]]

\* The turns of a session are serial: each is alone on it, and resumes what the one
\* before it left (session_daemon.py, session_turn).
SessionsAreSerial == OneTurnPerSession /\ ResumesLatest

\* The table lock is held across the spawn, so a second session is never made for
\* a key that has one and a live entry is never overwritten.
SpawnsOnlyMissing ==
    \A r \in Requests : pc[r] = "spawning" => table[key[r]] = None

\* A session's conversation only grows, by the turn that just ended: an answered
\* turn is never forgotten by a later one of the same session.
ConversationGrows ==
    [][\A s \in Requests : conversation[s] \subseteq conversation'[s]]_conversation

\* The sweeper never decides to recycle a session while a turn runs on it.
SparesRunningTurns ==
    [][\A s \in Requests :
          sweep'.on = s /\ sweep.on # s => ~ \E r \in Requests : pc[r] = "turn" /\ sess[r] = s]_sweep

\* Every submitted request ends: no lock is held for ever and nobody waits for a
\* lock in a circle, although a failing turn takes the table lock under its own.
RequestsEnd == \A r \in Requests : pc[r] = "table" ~> pc[r] = "ended"

\* A session that stays idle is recycled, unless its process tree looks alive.
IdleSessionsGo ==
    \A s \in Requests :
        InTable(s) /\ idle[s] /\ key[s] \notin Blind ~> ~InTable(s) \/ ~idle[s]

-----------------------------------------------------------------------------
(* What the source's comments say and the code does not do *)

\* session_turn: "The per-session asyncio lock serialises concurrent requests for
\* the same (workspace, provider) pair".
OneTurnPerKey ==
    \A r1, r2 \in Requests :
        pc[r1] \in InCli /\ pc[r2] \in InCli /\ key[r1] = key[r2] => r1 = r2

\* session_turn: "On error, remove the broken session so the next request gets a
\* fresh one": what a failing turn removes is the session it failed on.
DropsOnlyItsOwn ==
    [][\A r \in Requests :
          pc[r] = "dropping" /\ Holds(tableLine, r) /\ tableLine' = Tail(tableLine)
              => table[key[r]] \in {sess[r], None}]_vars
=============================================================================
