----------------------------- MODULE MCProviders -----------------------------
(***************************************************************************)
(* What providers ask before a request goes upstream, one provider at a    *)
(* time: the admission and the ledger of openrouter, the tokens of copilot *)
(* over two processes, the gate over the logins of codex and claude, and   *)
(* kimi's refresh.  They share no state; the others stay at rest.          *)
(*                                                                         *)
(* openrouter: two launchers and two models that compete for a capability, *)
(* two reservations of one or two units under a limit of three, so that a  *)
(* second one may or may not fit beside the first.                         *)
(***************************************************************************)
EXTENDS OpenRouter, Credentials, OAuthGate, TLC

CONSTANTS l1, l2, m1, m2, codex, claude, cap, i1, i2,   \* openrouter
          c1, c2, p1, p2,                               \* copilot
          r1, r2                                        \* kimi

VARIABLE provider
providerVars == <<provider, vars, authVars, gateVars>>

MCSurfaceGrants == {<<m1, codex>>, <<m2, codex>>}
Sound == [revision |-> TRUE, age |-> 0, zdr |-> TRUE, deny |-> TRUE]
\* A policy that is observed in the future is not fresh until later; one that
\* keeps data never authorizes.
MCChoices == {Sound, [Sound EXCEPT !.age = -1], [Sound EXCEPT !.deny = FALSE]}
\* Callers and gateways of copilot are interchangeable.
Interchangeable == Permutations(Callers) \cup Permutations(Processes)

ProvidersInit ==
    /\ provider \in {"openrouter", "copilot", "gate", "kimi"}
    /\ Init /\ AuthInit /\ SourcesInit /\ KimiInit
    /\ provider # "copilot" => /\ ~hosts /\ tokenFile = None /\ crashes = 0
                               /\ \A c, d \in Callers : caller[c].home = caller[d].home
    /\ provider # "gate" => keychain = "absent" /\ file = "absent" /\ ~apiKey /\ gate.user = "claude"
    /\ provider # "kimi" => artifact = None /\ ~env

ProvidersNext ==
    /\ UNCHANGED provider
    /\ \/ provider = "openrouter" /\ Next /\ UNCHANGED <<authVars, gateVars>>
       \/ provider = "copilot" /\ AuthNext /\ UNCHANGED <<vars, gateVars>>
       \/ provider = "gate" /\ SourcesNext /\ UNCHANGED <<vars, authVars>>
       \/ provider = "kimi" /\ KimiNext /\ UNCHANGED <<vars, authVars>>

ProvidersSpec == ProvidersInit /\ [][ProvidersNext]_providerVars
=============================================================================
