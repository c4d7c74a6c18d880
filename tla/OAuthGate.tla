------------------------------ MODULE OAuthGate ------------------------------
(***************************************************************************)
(* The gate over logins that other programs own.  LocalOAuthArtifactAuth   *)
(* (adapters/oauth_artifact.py) reads a keychain item or a file, as claude *)
(* and codex configure it; codex_direct.py and openai.py pass a token on   *)
(* after the gate has let them through; openai.py falls back to a key of   *)
(* the environment.  KimiOAuthAuth (kimi.py) refreshes its artifact under  *)
(* a lock and tries a request that was refused with 401 once more.         *)
(***************************************************************************)
EXTENDS Naturals, FiniteSets, PyNone

CONSTANTS
    Requests,       \* the requests of the kimi adapter
    MaxTokens       \* bound on the access tokens that are ever issued

\* A login of the artifact: the numbers of its tokens, and whether it has expired.
Logins == [access : Nat \cup {None}, refresh : Nat \cup {None}, fresh : BOOLEAN]

ASSUME RequestsOK == None \notin Requests /\ None \notin Logins

VARIABLES
    keychain, file, apiKey,     \* the sources of codex and claude; OPENAI_API_KEY
    gate,                       \* one call through the gate
    artifact,                   \* kimi-code.json
    env,                        \* KIMI_BEARER_TOKEN is set
    kimi,                       \* the requests
    refreshLock,                \* _refresh_lock
    good, usedRefresh, issuedTokens   \* the provider: access tokens that it accepts,
                                \* refresh tokens it has taken, tokens so far

sourceVars == <<keychain, file, apiKey, gate>>
kimiVars == <<artifact, env, kimi, refreshLock, good, usedRefresh, issuedTokens>>
gateVars == <<sourceVars, kimiVars>>

\* What a source may hold: nothing that can be read, JSON that is no object,
\* an object without the provider's bundle or without a token, or a token that
\* is live, has expired, or does not tell its expiry.
Artifacts == {"absent", "malformed", "no_bundle", "no_token", "live", "expired", "unobservable"}
Users == {"claude", "codex-direct", "openai"}

NoGate == [user |-> None, phase |-> "idle", checked |-> None, sent |-> None, raced |-> FALSE]

SourcesInit ==
    /\ keychain \in Artifacts /\ file \in Artifacts /\ apiKey \in BOOLEAN
    /\ \E user \in Users : gate = [NoGate EXCEPT !.user = user]

-----------------------------------------------------------------------------
(* LocalOAuthArtifactAuth.                                                  *)

\* _artifact_key: codex takes the whole document for its bundle.
HasBundle(user, a) ==
    \/ a \in {"no_token", "live", "expired", "unobservable"}
    \/ a = "no_bundle" /\ user # "claude"

\* _load_artifact: the first source with a bundle, whatever its token is like.
LoadArtifact(user) ==
    IF HasBundle(user, keychain) THEN keychain ELSE IF HasBundle(user, file) THEN file ELSE None

\* resolve
Authenticated(user) == LoadArtifact(user) \in {"live", "unobservable"}

\* bearer_token of the openai pass: the login if there is one, and that is an
\* error, since codex hands its token out as a coroutine; else the key.
KeyOrError == IF apiKey THEN "key" ELSE None

\* The first check: resolve() of the adapter.
Checks ==
    /\ gate.phase = "idle"
    /\ LET passes == Authenticated(gate.user) \/ (gate.user = "openai" /\ apiKey)
       IN gate' = [gate EXCEPT !.checked = LoadArtifact(gate.user),
                               !.phase = IF ~passes THEN "denied"
                                         ELSE IF gate.user = "claude" THEN "passed" ELSE "checked"]
    /\ UNCHANGED <<keychain, file, apiKey, kimiVars>>

\* CodexOAuthAuth.bearer_token resolves again, openai's asks its login first.
Rechecks ==
    /\ gate.phase = "checked"
    /\ IF gate.user = "openai"
       THEN LET key == IF Authenticated("openai") THEN None ELSE KeyOrError
            IN gate' = [gate EXCEPT !.sent = key, !.phase = IF key = None THEN "error" ELSE "passed"]
       ELSE gate' = [gate EXCEPT !.checked = LoadArtifact(gate.user), !.raced = FALSE,
                                 !.phase = IF Authenticated(gate.user) THEN "rechecked" ELSE "error"]
    /\ UNCHANGED <<keychain, file, apiKey, kimiVars>>

\* And reads the artifact once more.
Reads ==
    /\ gate.phase = "rechecked"
    /\ LET a == LoadArtifact(gate.user)
       IN gate' = IF a \in {None, "no_token", "no_bundle"} THEN [gate EXCEPT !.phase = "error"]
                  ELSE [gate EXCEPT !.sent = a, !.phase = "passed"]
    /\ UNCHANGED <<keychain, file, apiKey, kimiVars>>

Replaces(k, f) == keychain' = k /\ file' = f

\* A login, a logout or the passing of time.
SourceChanges ==
    /\ \E a \in Artifacts : Replaces(a, file) \/ Replaces(keychain, a)
    /\ gate' = [gate EXCEPT !.raced = @ \/ gate.phase \in {"checked", "rechecked"}]
    /\ UNCHANGED <<apiKey, kimiVars>>

-----------------------------------------------------------------------------
(* KimiOAuthAuth.  An artifact is the numbers of its access and refresh    *)
(* tokens and whether the access token is within its margin.               *)

KimiInit ==
    /\ env \in BOOLEAN /\ refreshLock = None
    /\ artifact \in {None} \cup [access : {None, 1}, refresh : {None, 1}, fresh : BOOLEAN]
    /\ kimi = [r \in Requests |-> [phase |-> "idle", attempt |-> 0, seen |-> None, token |-> None]]
    /\ good = {1} /\ usedRefresh = {} /\ issuedTokens = 1

EnvToken == 0   \* the token of KIMI_BEARER_TOKEN, which the provider accepts
HasRefresh(a) == a # None /\ a.refresh # None
HasFresh(a) == a # None /\ a.access # None /\ a.fresh
SetKimi(r, v) == kimi' = [kimi EXCEPT ![r] = v]
Provider == UNCHANGED <<good, usedRefresh, issuedTokens>>
OtherSources == UNCHANGED sourceVars

\* KIMI_BEARER_TOKEN is the last resort; without it a first attempt goes on to
\* the login, unless there is a refresh token.
Fallback(r, v) ==
    IF env THEN [v EXCEPT !.phase = "sending", !.token = EnvToken]
    ELSE IF v.attempt = 0 /\ ~HasRefresh(artifact) THEN [v EXCEPT !.phase = "login"]
    ELSE [v EXCEPT !.phase = "error"]

\* _resolve_bearer_token_once up to the lock; a second attempt is forced.
Resolves(r) ==
    /\ kimi[r].phase \in {"idle", "refused"}
    /\ LET force == kimi[r].phase = "refused"
           v == [kimi[r] EXCEPT !.attempt = IF force THEN 1 ELSE 0, !.seen = artifact, !.token = None]
       IN SetKimi(r, IF artifact # None /\ (force \/ (HasRefresh(artifact) /\ ~HasFresh(artifact)))
                     THEN [v EXCEPT !.phase = "queued"]
                     ELSE IF HasFresh(artifact) THEN [v EXCEPT !.phase = "sending", !.token = artifact.access]
                     ELSE Fallback(r, v))
    /\ UNCHANGED <<artifact, env, refreshLock>> /\ Provider /\ OtherSources

\* A mutant of Latest: what was read before the lock is used.
StaleLatest(r) == kimi[r].seen

\* The artifact as it is read again with the lock held.
Latest(r) == IF artifact = None THEN kimi[r].seen ELSE artifact

\* token_rotated: somebody has renewed the artifact since it was read.
Rotated(r, latest) == latest.access # None /\ latest.access # kimi[r].seen.access

\* With the lock: the latest artifact decides.
LockedRefresh(r) ==
    /\ kimi[r].phase = "queued" /\ refreshLock = None
    /\ LET latest == Latest(r)
           force == kimi[r].attempt = 1
       IN IF Rotated(r, latest) \/ (~force /\ HasFresh(latest))
          THEN SetKimi(r, [kimi[r] EXCEPT !.phase = "sending", !.token = latest.access]) /\ UNCHANGED refreshLock
          ELSE IF HasRefresh(latest)
          THEN /\ SetKimi(r, [kimi[r] EXCEPT !.phase = "refreshing", !.seen = latest])
               /\ refreshLock' = r
          ELSE /\ SetKimi(r, IF force THEN [kimi[r] EXCEPT !.phase = "error"] ELSE Fallback(r, kimi[r]))
               /\ UNCHANGED refreshLock
    /\ UNCHANGED <<artifact, env>> /\ Provider /\ OtherSources

\* The provider takes a refresh token once and gives a new one with the access
\* token; _refresh merges the answer into the artifact it began with.
Refreshes(r, ok) ==
    /\ kimi[r].phase = "refreshing" /\ issuedTokens < MaxTokens
    /\ LET n == issuedTokens + 1
           takes == ok /\ kimi[r].seen.refresh \notin usedRefresh
       IN IF takes
          THEN /\ artifact' = [access |-> n, refresh |-> n, fresh |-> TRUE]
               /\ good' = good \cup {n} /\ issuedTokens' = n
               /\ usedRefresh' = usedRefresh \cup {kimi[r].seen.refresh}
               /\ SetKimi(r, [kimi[r] EXCEPT !.phase = "sending", !.token = n])
          ELSE SetKimi(r, [kimi[r] EXCEPT !.phase = "error"]) /\ UNCHANGED artifact /\ Provider
    /\ refreshLock' = None
    /\ UNCHANGED env /\ OtherSources

\* The upstream: a token that it does not accept is refused, and the request
\* is sent once more with a forced refresh.
Sends(r) ==
    /\ kimi[r].phase = "sending"
    /\ SetKimi(r, [kimi[r] EXCEPT !.phase = IF kimi[r].token \in good \cup {EnvToken} THEN "answered"
                                            ELSE IF kimi[r].attempt = 0 THEN "refused" ELSE "error"])
    /\ UNCHANGED <<artifact, env, refreshLock>> /\ Provider /\ OtherSources

\* The shared login (module KimiLogin) ends: with an artifact or without.
LoginEnds(r, ok) ==
    /\ kimi[r].phase = "login"
    /\ IF ok /\ issuedTokens < MaxTokens
       THEN /\ artifact' = [access |-> issuedTokens + 1, refresh |-> issuedTokens + 1, fresh |-> TRUE]
            /\ good' = good \cup {issuedTokens + 1} /\ issuedTokens' = issuedTokens + 1
            /\ SetKimi(r, [kimi[r] EXCEPT !.phase = "sending", !.token = issuedTokens + 1])
       ELSE SetKimi(r, [kimi[r] EXCEPT !.phase = "error"]) /\ UNCHANGED <<artifact, good, issuedTokens>>
    /\ UNCHANGED <<env, refreshLock, usedRefresh>> /\ OtherSources

\* The access token runs out, or the provider takes it back early.
Expires ==
    /\ artifact # None /\ artifact.fresh
    /\ artifact' = [artifact EXCEPT !.fresh = FALSE]
    /\ UNCHANGED <<env, kimi, refreshLock>> /\ Provider /\ OtherSources
TakesBack(n) ==
    /\ n \in good /\ good' = good \ {n}
    /\ UNCHANGED <<artifact, env, kimi, refreshLock, usedRefresh, issuedTokens>> /\ OtherSources

KimiStep(r) ==
    \/ Resolves(r) \/ LockedRefresh(r) \/ Sends(r)
    \/ \E ok \in BOOLEAN : Refreshes(r, ok) \/ LoginEnds(r, ok)

SourcesNext == Checks \/ Rechecks \/ Reads \/ SourceChanges
KimiNext == Expires \/ (\E r \in Requests : KimiStep(r)) \/ \E n \in good : TakesBack(n)

GateSpec == (SourcesInit /\ KimiInit) /\ [][SourcesNext \/ KimiNext]_gateVars

-----------------------------------------------------------------------------
\* A token that the gate could see was expired or incomplete goes nowhere,
\* unless its source was replaced between the last check and the read: the
\* first artifact that has a bundle decides, and one that has expired is not
\* passed over for the next source (oauth_artifact.py, "expiry fail-closed").
ExpiredIsNotSent ==
    /\ gate.phase = "passed" /\ ~gate.raced => gate.sent \in {None, "key", "live", "unobservable"}
    /\ gate.phase \in {"checked", "passed"} /\ gate.user # "openai" =>
           gate.checked \in {"live", "unobservable"}

\* A refresh token is good for one refresh: of all the requests that find the
\* same access token refused or expired, one refreshes it and the others take
\* what it got (kimi.py, _resolve_bearer_token_once).
SpentRefreshIsNotSent ==
    \A r \in Requests : kimi[r].phase = "refreshing" => kimi[r].seen.refresh \notin usedRefresh

\* No login is used when it is known to be over: no access token past its expiry, no
\* refresh token past its use.
LoginsAreSound == ExpiredIsNotSent /\ SpentRefreshIsNotSent

\* "OAuth-first, explicit API-key fallback auth for OpenAI pass-through"
\* (openai.py:66): a user that the gate lets in gets a bearer.
LetInMeansBearer == gate.phase # "error" \/ gate.user # "openai" \/ gate.raced
=============================================================================
