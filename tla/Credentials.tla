----------------------------- MODULE Credentials -----------------------------
(***************************************************************************)
(* The bearer tokens of the copilot adapter.  CopilotAuth                  *)
(* (adapters/copilot.py) exchanges a GitHub login for a short-lived token, *)
(* caches it in token.json and keeps other processes out with a lock file. *)
(*                                                                         *)
(* A step of CopilotAuth is one stretch without an await, cut again where  *)
(* another process can come between two of its file operations.  The gate  *)
(* over the artifacts that other programs own is in module OAuthGate.      *)
(***************************************************************************)
EXTENDS Naturals, FiniteSets, PyNone

CONSTANTS
    Callers,        \* coroutines that need a bearer and its API base
    Processes,      \* gateways that share the config directory
    Skew,           \* _REFRESH_SKEW_SECONDS
    Stale,          \* _STALE_LOCK_SECONDS
    Lifetime,       \* of a token
    MaxExchange,    \* an exchange ends within its HTTP timeouts
    MaxClock, MaxCalls, MaxCrashes   \* bounds

Tokens == [cli : BOOLEAN, exp : Nat]
Locks == [by : Callers \cup {None}, at : Nat]

ASSUME TokenTimes == Lifetime > Skew /\ MaxExchange < Stale
ASSUME TimesAreNumbers == {Skew, Stale, Lifetime, MaxExchange} \subseteq Nat
ASSUME NoneIsNothing == None \notin Callers \cup Tokens \cup Locks

VARIABLES
    clock,          \* time.time(), in ticks
    hosts,          \* whether apps.json or hosts.json has a login
    process,        \* the CopilotAuth of each process
    caller,         \* the calls
    tokenFile, lockFile,
    crashes

authVars == <<clock, hosts, process, caller, tokenFile, lockFile, crashes>>

Phases == {"idle", "ready", "queued", "clearing", "locking", "sleeping", "exchanging", "discovering",
           "done", "error"}
Calling == [home : Processes, calls : Nat, phase : Phases, wants : {"bearer", "base"},
            bearer : Tokens \cup {None}, at : Nat, base : {None, "cli", "default"}, stale : BOOLEAN,
            since : Nat]
Auths == [oauth : BOOLEAN, token : Tokens \cup {None}, override : BOOLEAN, lock : Callers \cup {None}]

AuthTypeOK ==
    /\ clock \in Nat /\ hosts \in BOOLEAN /\ crashes \in Nat
    /\ process \in [Processes -> Auths]
    /\ caller \in [Callers -> Calling]
    /\ tokenFile \in Tokens \cup {None}
    /\ lockFile \in Locks \cup {None}

Fresh == [oauth |-> FALSE, token |-> None, override |-> FALSE, lock |-> None]

AuthInit ==
    /\ clock = 0 /\ hosts \in BOOLEAN
    /\ process = [p \in Processes |-> Fresh]
    /\ \E home \in [Callers -> Processes] :
          caller = [c \in Callers |-> [home |-> home[c], calls |-> 0, phase |-> "idle", wants |-> "bearer",
                                       bearer |-> None, at |-> 0, base |-> None, stale |-> FALSE, since |-> 0]]
    /\ tokenFile \in {None, [cli |-> FALSE, exp |-> Lifetime]}
    /\ crashes \in {0, 1}
    /\ lockFile = IF crashes = 0 THEN None ELSE [by |-> None, at |-> 0]   \* of a process that died

Auth(c) == process[caller[c].home]
SetAuth(c, a) == process' = [process EXCEPT ![caller[c].home] = a]
SetCaller(c, r) == caller' = [caller EXCEPT ![c] = r]
World == UNCHANGED <<clock, hosts, crashes>>

TokenValid(token) == token # None /\ token.exp > clock + Skew

Loaded(a) == IF tokenFile # None THEN tokenFile ELSE a.token

\* _ensure_token returns: bearer_token hands the token out, api_base the base.
\* Every request asks for the one and then for the other.
Got(c, a) ==
    LET r == caller[c]
    IN SetCaller(c, IF r.wants = "bearer"
                    THEN [r EXCEPT !.phase = "ready", !.wants = "base", !.bearer = a.token, !.at = clock]
                    ELSE [r EXCEPT !.phase = "done", !.base = IF a.override THEN "cli" ELSE "default"])

Calls(c) ==
    /\ caller[c].phase \in {"idle", "done", "error"} /\ caller[c].calls < MaxCalls
    /\ SetCaller(c, [caller[c] EXCEPT !.phase = "ready", !.wants = "bearer", !.calls = @ + 1,
                                      !.bearer = None, !.base = None])
    /\ UNCHANGED <<process, tokenFile, lockFile>> /\ World

\* _ensure_token up to its lock.
Ensure(c) ==
    /\ caller[c].phase = "ready"
    /\ LET a == Auth(c)
           loaded == [a EXCEPT !.token = Loaded(a)]
       IN IF TokenValid(a.token) THEN SetAuth(c, a) /\ Got(c, a)
          ELSE /\ SetAuth(c, loaded)
               /\ IF TokenValid(loaded.token) THEN Got(c, loaded)
                  ELSE SetCaller(c, [caller[c] EXCEPT !.phase = "queued"])
    /\ UNCHANGED <<tokenFile, lockFile>> /\ World

\* Inside _refresh_lock: what another coroutine has fetched will do; otherwise
\* _clear_stale_lock looks at the age of the lock file,
Enter(c) ==
    /\ caller[c].phase = "queued" /\ Auth(c).lock = None
    /\ IF TokenValid(Auth(c).token) THEN Got(c, Auth(c)) /\ UNCHANGED process
       ELSE /\ SetAuth(c, [Auth(c) EXCEPT !.lock = c])
            /\ SetCaller(c, [caller[c] EXCEPT !.phase = "clearing",
                                 !.stale = lockFile # None /\ clock - lockFile.at > Stale])
    /\ UNCHANGED <<tokenFile, lockFile>> /\ World

\* and removes what is there by then.
ClearStaleLock(c) ==
    /\ caller[c].phase = "clearing"
    /\ lockFile' = IF caller[c].stale THEN None ELSE lockFile
    /\ SetCaller(c, [caller[c] EXCEPT !.phase = "locking"])
    /\ UNCHANGED <<process, tokenFile>> /\ World

Leave(c, a) == SetAuth(c, [a EXCEPT !.lock = None])

\* A mutant of AcquireLock: touch() does not mind a file that exists.
SharedAcquireLock(c) == TRUE

\* touch(exist_ok=False)
AcquireLock(c) == lockFile = None

\* _acquire_lock and the files that _exchange_token reads; without a login it
\* is the token of the Copilot CLI, if there is one.
Begins(c, keychain) ==
    /\ caller[c].phase = "locking"
    /\ IF ~AcquireLock(c)
       THEN /\ SetCaller(c, [caller[c] EXCEPT !.phase = "sleeping"])
            /\ UNCHANGED <<process, lockFile>>
       ELSE IF Auth(c).oauth \/ hosts
       THEN /\ SetCaller(c, [caller[c] EXCEPT !.phase = "exchanging", !.since = clock])
            /\ SetAuth(c, [Auth(c) EXCEPT !.oauth = TRUE])
            /\ lockFile' = [by |-> c, at |-> clock]
       ELSE IF keychain
       THEN /\ SetCaller(c, [caller[c] EXCEPT !.phase = "discovering", !.since = clock])
            /\ UNCHANGED process /\ lockFile' = [by |-> c, at |-> clock]
       ELSE /\ SetCaller(c, [caller[c] EXCEPT !.phase = "error"])
            /\ Leave(c, Auth(c)) /\ UNCHANGED lockFile
    /\ UNCHANGED tokenFile /\ World

\* After the sleep: what the other process has written, or an error.
Wakes(c) ==
    /\ caller[c].phase = "sleeping"
    /\ LET a == [Auth(c) EXCEPT !.token = Loaded(Auth(c))]
       IN /\ Leave(c, a)
          /\ IF TokenValid(a.token) THEN Got(c, a) ELSE SetCaller(c, [caller[c] EXCEPT !.phase = "error"])
    /\ UNCHANGED <<tokenFile, lockFile>> /\ World

\* The rest of _exchange_token, and _release_lock, which removes any lock.
Ends(c, ok) ==
    /\ caller[c].phase \in {"exchanging", "discovering"}
    /\ LET cli == caller[c].phase = "discovering"
           a == [Auth(c) EXCEPT !.lock = None, !.override = @ \/ cli,
                                !.token = [cli |-> cli, exp |-> clock + Lifetime]]
       IN IF ok THEN /\ SetAuth(c, a) /\ Got(c, a)
                     /\ tokenFile' = IF cli THEN tokenFile ELSE a.token
          ELSE /\ Leave(c, Auth(c)) /\ UNCHANGED tokenFile
               /\ SetCaller(c, [caller[c] EXCEPT !.phase = "error"])
    /\ lockFile' = None
    /\ World

Busy(c) == caller[c].phase \in {"exchanging", "discovering"}

Passes ==
    /\ clock < MaxClock /\ clock' = clock + 1
    /\ \A c \in Callers : Busy(c) => clock - caller[c].since < MaxExchange
    /\ UNCHANGED <<hosts, process, caller, tokenFile, lockFile, crashes>>

\* The user logs in or out with an editor.
LoginFlips ==
    /\ hosts' = ~hosts
    /\ UNCHANGED <<clock, process, caller, tokenFile, lockFile, crashes>>

\* A process dies and is started again: its lock file stays.
Crash(p) ==
    /\ crashes < MaxCrashes /\ crashes' = crashes + 1
    /\ process' = [process EXCEPT ![p] = Fresh]
    /\ caller' = [c \in Callers |-> IF caller[c].home # p THEN caller[c]
                                    ELSE [caller[c] EXCEPT !.phase = "error", !.bearer = None, !.base = None]]
    /\ UNCHANGED <<clock, hosts, tokenFile, lockFile>>

CallerStep(c) ==
    \/ Ensure(c) \/ Enter(c) \/ ClearStaleLock(c) \/ Wakes(c)
    \/ \E k \in BOOLEAN : Begins(c, k)
    \/ \E ok \in BOOLEAN : Ends(c, ok)

AuthNext ==
    \/ \E c \in Callers : Calls(c) \/ CallerStep(c)
    \/ Passes \/ LoginFlips
    \/ \E p \in Processes : Crash(p)

AuthSpec == AuthInit /\ [][AuthNext]_authVars

-----------------------------------------------------------------------------
\* A bearer is handed out only with more than the skew of its life left: not
\* one that expired while its caller waited for the lock, slept beside another
\* process, or read a file that nobody had renewed (copilot.py, _ensure_token).
HandedOutIsFresh ==
    \A c \in Callers : caller[c].bearer # None => caller[c].bearer.exp > caller[c].at + Skew

\* While no process has died, one exchange runs at a time over all processes,
\* and the lock file is its own (copilot.py:98, "a best-effort file lock so
\* concurrent processes do not race the refresh").
RefreshesDoNotRace ==
    crashes = 0 =>
        \A c \in Callers : Busy(c) =>
            /\ \A d \in Callers \ {c} : ~Busy(d)
            /\ lockFile # None /\ lockFile.by = c

\* Over all processes a token is renewed by one of them, and is handed out alive.
TokensAreSound == HandedOutIsFresh /\ RefreshesDoNotRace

\* The same with the lock of a process that died: it is cleared by its age,
\* and its age is read before it is removed.
StaleLockIsClearedOnce ==
    \A c, d \in Callers : Busy(c) /\ Busy(d) => c = d

\* "Return the Copilot API base that matches the resolved credential"
\* (copilot.py:324).
BaseMatchesBearer ==
    \A c \in Callers : caller[c].phase = "done" =>
        (caller[c].base = "cli" <=> caller[c].bearer.cli)
=============================================================================
