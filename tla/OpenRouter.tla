----------------------------- MODULE OpenRouter -----------------------------
(***************************************************************************)
(* The OpenRouter provider (protocols/adapters/openrouter): a runtime that *)
(* admits requests by allowlist, surface, fresh policy and a launcher's    *)
(* capability, and a ledger of dollars that callers reserve and settle.    *)
(*                                                                         *)
(* compose.build_adapters mounts the adapter by itself and drops the       *)
(* runtime it builds, so nothing in the gateway calls these methods yet:   *)
(* they are taken by callers in any order that the methods accept.  One    *)
(* step is one synchronous call.  The adapter is in module Relay.          *)
(***************************************************************************)
EXTENDS Integers, Sequences, FiniteSets, FiniteSetsExt, PyNone

CONSTANTS
    Launchers,      \* processes that ask for capabilities, by their pid
    Models,         \* upstream identities, author/model
    Surfaces,       \* codex, claude
    Allowlist,      \* the models of _allowlist
    SurfaceGrants,  \* model and surface pairs of _surface_grants; none: all
    Caps,           \* capabilities that may be issued, each at most once
    Ids,            \* reservations that may be made, each at most once
    Amounts,        \* what an estimate or a reported cost may be
    RequestLimit, SessionLimit,
    FreshBound, MaxTtl,
    MaxNow,         \* bound on the clock
    MaxCost,        \* bound on the reported costs of one ledger
    PolicyChoices   \* the policies that a runtime may be built with

ASSUME CapsOK == IsFiniteSet(Caps) /\ None \notin Caps
ASSUME IdsOK == IsFiniteSet(Ids)
ASSUME NumbersOK ==
    /\ Amounts \subseteq Nat /\ RequestLimit \in Nat /\ SessionLimit \in Nat
    /\ FreshBound \in Nat /\ MaxTtl \in Nat /\ MaxNow \in Nat
ASSUME PolicyChoicesOK ==
    /\ PolicyChoices \subseteq [revision : BOOLEAN, age : Int, zdr : BOOLEAN, deny : BOOLEAN]
    /\ None \notin PolicyChoices

VARIABLES
    now,            \* the clock of the runtime
    alive,          \* launchers whose liveness callback returns True
    policy,         \* the runtime's OpenRouterPolicy, or None without a runtime
    grants,         \* _grants: capability -> what it is bound to
    ledger,         \* _reservations: id -> reservation
    reconciled,     \* _reconciled
    spent,          \* (history) capabilities that must never admit again
    overrun,        \* (history) reported cost that no pending reservation covered
    issued,         \* (history) what this runtime issued: capability -> binding
    admitted        \* (history) the last admission under a capability

grantVars == <<grants, spent, issued, admitted>>
ledgerVars == <<ledger, reconciled, overrun>>
worldVars == <<now, alive>>
vars == <<worldVars, policy, grantVars, ledgerVars>>

States == {"pending", "released", "reconciled"}
Reservations == [amount : Amounts, state : States]
Grants == [pid : Launchers, model : Models, at : 0..MaxNow, ttl : 0..MaxTtl]
Bindings == [pid : Launchers, model : Models]
Policies == [revision : BOOLEAN, at : Int, zdr : BOOLEAN, deny : BOOLEAN]

TypeOK ==
    /\ now \in 0..MaxNow /\ alive \subseteq Launchers
    /\ policy \in Policies \cup {None}
    /\ DOMAIN grants \subseteq Caps /\ \A c \in DOMAIN grants : grants[c] \in Grants
    /\ DOMAIN ledger \subseteq Ids /\ \A i \in DOMAIN ledger : ledger[i] \in Reservations
    /\ reconciled \in Nat /\ overrun \in Nat
    /\ spent \subseteq Caps
    /\ DOMAIN issued \subseteq Caps /\ \A c \in DOMAIN issued : issued[c] \in Bindings
    /\ admitted \in [cap : Caps, pid : Launchers, model : Models] \cup {None}

Empty == [x \in {} |-> None]
Without(f, x) == [y \in DOMAIN f \ {x} |-> f[y]]
With(f, x, v) == [y \in DOMAIN f \cup {x} |-> IF y = x THEN v ELSE f[y]]

Init ==
    /\ now = 0 /\ alive = Launchers
    /\ policy = None /\ grants = Empty /\ ledger = Empty /\ reconciled = 0
    /\ spent = {} /\ overrun = 0 /\ issued = Empty /\ admitted = None

-----------------------------------------------------------------------------
(* The world: the clock, and launchers that exit.  A pid may come back, as  *)
(* another process or by a callback that flickers.                          *)

Tick ==
    /\ now < MaxNow /\ now' = now + 1
    /\ UNCHANGED <<alive, policy, grantVars, ledgerVars>>

LauncherFlips(l) ==
    /\ alive' = IF l \in alive THEN alive \ {l} ELSE alive \cup {l}
    /\ UNCHANGED <<now, policy, grantVars, ledgerVars>>

-----------------------------------------------------------------------------
(* The singleton.                                                           *)

\* get_or_create_runtime: the first call builds a runtime with its policy, an
\* empty registry and an empty ledger; a later one ignores its arguments.
GetOrCreate(choice) ==
    /\ policy = None
    /\ policy' = [revision |-> choice.revision, at |-> now - choice.age,
                  zdr |-> choice.zdr, deny |-> choice.deny]
    /\ UNCHANGED <<worldVars, grantVars, ledgerVars>>

\* reset_openrouter_runtime: close() revokes every grant, and the next runtime
\* starts with a ledger of its own.
Reset ==
    /\ policy # None /\ policy' = None
    /\ spent' = spent \cup DOMAIN grants /\ grants' = Empty
    /\ issued' = Empty /\ admitted' = None
    /\ ledger' = Empty /\ reconciled' = 0 /\ overrun' = 0
    /\ UNCHANGED worldVars

-----------------------------------------------------------------------------
(* Grants.                                                                  *)

\* GrantRegistry.issue: a ttl of 0 or None is the maximum; a launcher that is
\* not alive loses the capability again before it is returned.
Ttl(asked) == IF asked = 0 THEN MaxTtl ELSE Min({MaxTtl, asked})

Issue(cap, pid, model, asked) ==
    /\ policy # None
    /\ cap \notin DOMAIN grants \cup spent
    /\ IF pid \in alive
       THEN /\ grants' = With(grants, cap, [pid |-> pid, model |-> model, at |-> now,
                                            ttl |-> Ttl(asked)])
            /\ issued' = With(issued, cap, [pid |-> pid, model |-> model])
            /\ spent' = spent
       ELSE spent' = spent \cup {cap} /\ UNCHANGED <<grants, issued>>
    /\ UNCHANGED <<worldVars, policy, ledgerVars, admitted>>

\* _Grant.is_alive
IsAlive(grant, pid) == pid \in alive /\ now - grant.at <= grant.ttl

\* GrantRegistry.verify: what a presented capability is good for.
Bound(cap, pid, model) ==
    /\ cap \in DOMAIN grants
    /\ grants[cap].pid = pid /\ grants[cap].model = model
    /\ IsAlive(grants[cap], pid)

Revoke(cap) ==
    /\ cap \in DOMAIN grants
    /\ grants' = Without(grants, cap) /\ spent' = spent \cup {cap}
    /\ UNCHANGED <<worldVars, policy, ledgerVars, issued, admitted>>

-----------------------------------------------------------------------------
(* Admission.                                                               *)

\* assert_fresh, require_zdr, require_data_denial
PolicyHolds ==
    /\ policy.revision
    /\ now - policy.at \in 0..FreshBound
    /\ policy.zdr /\ policy.deny

\* assert_allowlisted, assert_surface_eligible and the policy: the part of
\* the matrix that asks nothing of the caller's launcher.
Eligible(surface, model) ==
    /\ model \in Allowlist
    /\ SurfaceGrants = {} \/ <<model, surface>> \in SurfaceGrants
    /\ PolicyHolds

\* A mutant of Admit: a bad presentation is refused and the grant is kept.
LenientAdmit(surface, model, cap, pid) ==
    /\ policy # None
    /\ Eligible(surface, model)
    /\ IF Bound(cap, pid, model)
       THEN /\ admitted' = [cap |-> cap, pid |-> pid, model |-> model]
            /\ spent' = spent
       ELSE spent' = spent \cup {cap} /\ admitted' = None
    /\ UNCHANGED <<grants, worldVars, policy, ledgerVars, issued>>

\* admit_and_dispatch with capability, pid and liveness: verify comes last,
\* and a presentation that does not fit its grant revokes it.
Admit(surface, model, cap, pid) ==
    /\ policy # None
    /\ Eligible(surface, model)
    /\ IF Bound(cap, pid, model)
       THEN /\ admitted' = [cap |-> cap, pid |-> pid, model |-> model]
            /\ UNCHANGED <<grants, spent>>
       ELSE /\ grants' = Without(grants, cap) /\ spent' = spent \cup {cap}
            /\ admitted' = None
    /\ UNCHANGED <<worldVars, policy, ledgerVars, issued>>

\* Without a capability, a pid or a liveness callback there is no verify().
AdmitUnattended(surface, model) ==
    /\ policy # None
    /\ Eligible(surface, model)
    /\ admitted' = None
    /\ UNCHANGED <<worldVars, policy, ledgerVars, grants, spent, issued>>

-----------------------------------------------------------------------------
(* The ledger.                                                              *)

\* The sum in remaining_usd().
Pending ==
    MapThenSumSet(LAMBDA i : ledger[i].amount,
                  {i \in DOMAIN ledger : ledger[i].state = "pending"})

\* A mutant of Remaining: what is reserved and not settled is not counted.
BlindRemaining == SessionLimit - reconciled

Remaining == SessionLimit - Pending - reconciled

\* BudgetLedger.reserve
Reserve(id, worstCase) ==
    /\ policy # None
    /\ id \notin DOMAIN ledger
    /\ worstCase <= RequestLimit
    /\ Remaining >= worstCase
    /\ ledger' = With(ledger, id, [amount |-> worstCase, state |-> "pending"])
    /\ UNCHANGED <<worldVars, policy, grantVars, reconciled, overrun>>

\* BudgetLedger.release: any known reservation, whatever its state.
Release(id) ==
    /\ id \in DOMAIN ledger
    /\ ledger' = [ledger EXCEPT ![id].state = "released"]
    /\ UNCHANGED <<worldVars, policy, grantVars, reconciled, overrun>>

Excess(id, actual) ==
    IF ledger[id].state # "pending" THEN actual
    ELSE IF actual > ledger[id].amount THEN actual - ledger[id].amount ELSE 0

\* BudgetLedger.reconcile: the cost is added whatever the reservation's state
\* was, so a reservation that is settled twice is paid twice.
Reconcile(id, actual) ==
    /\ id \in DOMAIN ledger
    /\ reconciled + actual <= MaxCost      \* a bound
    /\ ledger' = [ledger EXCEPT ![id].state = "reconciled"]
    /\ reconciled' = reconciled + actual
    /\ overrun' = overrun + Excess(id, actual)
    /\ UNCHANGED <<worldVars, policy, grantVars>>

-----------------------------------------------------------------------------
Next ==
    \/ Tick \/ Reset
    \/ \E l \in Launchers : LauncherFlips(l)
    \/ \E choice \in PolicyChoices : GetOrCreate(choice)
    \/ \E c \in Caps, l \in Launchers, m \in Models :
          \/ \E t \in {0, 1} : Issue(c, l, m, t)
          \/ \E s \in Surfaces : Admit(s, m, c, l)
    \/ \E s \in Surfaces, m \in Models : AdmitUnattended(s, m)
    \/ \E c \in Caps : Revoke(c)
    \/ \E i \in Ids : Release(i) \/ \E a \in Amounts : Reserve(i, a) \/ Reconcile(i, a)

Spec == Init /\ [][Next]_vars

-----------------------------------------------------------------------------
\* Every dollar above the session limit was reported above its estimate, or
\* for a reservation that was no longer pending: reserve() itself, over any
\* history of releases and reconciliations, promises no more than is left
\* (budget.py, reserve and remaining_usd).
LedgerBound == Pending + reconciled <= SessionLimit + overrun

\* Once the reported costs reach the limit nothing is reserved until a
\* reset, unless the reservation costs nothing: "later requests are blocked
\* once the session limit is reached" (openrouter-reverso-provider.md:263).
OverrunBlocks ==
    \A i \in Ids : reconciled >= SessionLimit /\ i \in DOMAIN ledger' \ DOMAIN ledger
                      => ledger'[i].amount = 0

\* The ledger holds the session's limit before and after it is reached: no step
\* leaves it above, nor reserves when it is spent.
LedgerHolds == [][LedgerBound' /\ OverrunBlocks]_vars

\* A capability that was revoked, presented by the wrong launcher or for the
\* wrong model, presented late, or issued by a runtime that was reset is gone
\* for good: the registry, all that verify() looks at, never holds it again
\* (grants.py, verify and revoke_all).
SpentStaysSpent == spent \cap DOMAIN grants = {}

\* The last admission under a capability was the present runtime's own grant
\* to that launcher and for that model (runtime.py, admit_and_dispatch).
AdmissionIsBound ==
    admitted # None =>
        /\ admitted.cap \in DOMAIN issued
        /\ issued[admitted.cap] = [pid |-> admitted.pid, model |-> admitted.model]

\* Whoever was admitted held a grant of his own, and no grant comes back.
AdmissionIsSound == AdmissionIsBound /\ SpentStaysSpent

\* grants.py:4: capabilities "are revoked immediately on launcher exit".
ExitRevokes == \A c \in DOMAIN grants : grants[c].pid \in alive
=============================================================================
