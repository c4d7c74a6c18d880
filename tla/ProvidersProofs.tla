--------------------------- MODULE ProvidersProofs ---------------------------
(***************************************************************************)
(* Proofs about what providers ask before a request goes upstream: the     *)
(* capabilities and the ledger of OpenRouter, the tokens of CopilotAuth, the*)
(* gate over the logins of codex and claude, and the refresh of kimi.  Each*)
(* of them is proved on its own: they share no state.                      *)
(***************************************************************************)
EXTENDS OpenRouter, Credentials, OAuthGate, DataLemmas

(***************************************************************************)
(* OpenRouter: for any number of launchers, models and capabilities, and any*)
(* clock.                                                                  *)
(***************************************************************************)

\* A grant is what was issued, and what was issued is held or spent: so the same
\* capability is not issued twice, and an admission's binding stays what it was.
GrantsAreIssued ==
    /\ \A c \in DOMAIN grants :
          /\ c \in DOMAIN issued
          /\ issued[c] = [pid |-> grants[c].pid, model |-> grants[c].model]
    /\ \A c \in DOMAIN issued : c \in DOMAIN grants \/ c \in spent

GrantsInv == GrantsAreIssued /\ AdmissionIsSound

\* What a function is after one entry was taken out.
LEMMA WithoutEntry ==
    ASSUME NEW f, NEW x
    PROVE  /\ DOMAIN Without(f, x) = DOMAIN f \ {x}
           /\ \A y \in DOMAIN f \ {x} : Without(f, x)[y] = f[y]
BY DEF Without

\* A capability that is issued is new: neither held, nor spent, nor admitted.
LEMMA IssueKeeps ==
    ASSUME GrantsInv, NEW c \in Caps, NEW l \in Launchers, NEW m \in Models, NEW t \in Nat, Issue(c, l, m, t)
    PROVE  GrantsInv'
<1>1. c \notin DOMAIN grants /\ c \notin spent /\ c \notin DOMAIN issued /\ admitted' = admitted
  BY DEF GrantsInv, GrantsAreIssued, Issue
<1>2. CASE l \in alive
  <2> DEFINE g == [pid |-> l, model |-> m, at |-> now, ttl |-> Ttl(t)]
             b == [pid |-> l, model |-> m]
  <2>1. grants' = With(grants, c, g) /\ issued' = With(issued, c, b) /\ spent' = spent
    BY <1>2 DEF Issue
  <2>2. g.pid = l /\ g.model = m
    OBVIOUS
  <2> HIDE DEF g
  <2>3. /\ DOMAIN grants' = DOMAIN grants \cup {c} /\ grants'[c] = g
        /\ \A y \in DOMAIN grants : grants'[y] = grants[y]
    <3>1. grants' = With(grants, c, g) /\ c \notin DOMAIN grants
      BY <2>1, <1>1
    <3> QED BY <3>1 DEF With
  <2>4. /\ DOMAIN issued' = DOMAIN issued \cup {c} /\ issued'[c] = b
        /\ \A y \in DOMAIN issued : issued'[y] = issued[y]
    <3> HIDE DEF b
    <3>1. issued' = With(issued, c, b) /\ c \notin DOMAIN issued
      BY <2>1, <1>1
    <3> QED BY <3>1 DEF With
  <2>5. GrantsAreIssued'
    BY <2>1, <2>2, <2>3, <2>4 DEF GrantsInv, GrantsAreIssued
  <2>6. AdmissionIsBound'
    BY <1>1, <2>4 DEF GrantsInv, AdmissionIsSound, AdmissionIsBound
  <2>7. SpentStaysSpent'
    BY <1>1, <2>1, <2>3 DEF GrantsInv, AdmissionIsSound, SpentStaysSpent
  <2> QED BY <2>5, <2>6, <2>7 DEF GrantsInv, AdmissionIsSound
<1>3. CASE l \notin alive
  <2>1. spent' = spent \cup {c} /\ UNCHANGED <<grants, issued>>
    BY <1>3 DEF Issue
  <2>2. GrantsAreIssued' /\ AdmissionIsBound' /\ SpentStaysSpent'
    BY <1>1, <2>1 DEF GrantsInv, GrantsAreIssued, AdmissionIsSound, AdmissionIsBound, SpentStaysSpent
  <2> QED BY <2>2 DEF GrantsInv, AdmissionIsSound
<1> QED BY <1>2, <1>3

\* A capability that is taken out is spent with it.
LEMMA SpendingKeeps ==
    ASSUME GrantsInv, NEW c, grants' = Without(grants, c), spent' = spent \cup {c}, issued' = issued,
           admitted' \in {admitted, None}
    PROVE  GrantsInv'
<1>1. DOMAIN grants' = DOMAIN grants \ {c} /\ \A y \in DOMAIN grants' : grants'[y] = grants[y]
  BY WithoutEntry
<1>2. GrantsAreIssued'
  BY <1>1 DEF GrantsInv, GrantsAreIssued
<1>3. AdmissionIsBound' /\ SpentStaysSpent'
  BY <1>1 DEF GrantsInv, AdmissionIsSound, AdmissionIsBound, SpentStaysSpent
<1> QED BY <1>2, <1>3 DEF GrantsInv, AdmissionIsSound

\* Who is admitted holds the grant, and it says who he is.
LEMMA AdmitKeeps ==
    ASSUME GrantsInv, NEW c \in Caps, NEW l \in Launchers, NEW m \in Models, NEW s \in Surfaces, Admit(s, m, c, l)
    PROVE  GrantsInv'
<1>1. CASE Bound(c, l, m)
  <2>1. /\ admitted' = [cap |-> c, pid |-> l, model |-> m]
        /\ UNCHANGED <<grants, spent, issued>>
    BY <1>1 DEF Admit
  <2>2. c \in DOMAIN issued /\ issued[c] = [pid |-> l, model |-> m]
    BY <1>1 DEF Bound, GrantsInv, GrantsAreIssued
  <2>3. admitted'.cap = c /\ admitted'.pid = l /\ admitted'.model = m
    BY <2>1
  <2>4. GrantsAreIssued' /\ AdmissionIsBound' /\ SpentStaysSpent'
    BY <2>1, <2>2, <2>3 DEF GrantsInv, GrantsAreIssued, AdmissionIsSound, AdmissionIsBound, SpentStaysSpent
  <2> QED BY <2>4 DEF GrantsInv, AdmissionIsSound
<1>2. CASE ~Bound(c, l, m)
  BY <1>2, SpendingKeeps DEF Admit
<1> QED BY <1>1, <1>2

\* Nothing is left of a runtime that is reset but what it spent.
LEMMA ResetKeeps == ASSUME GrantsInv, Reset PROVE GrantsInv'
<1>1. DOMAIN grants' = {} /\ DOMAIN issued' = {} /\ admitted' = None
  BY DEF Reset, Empty
<1>2. GrantsAreIssued' /\ AdmissionIsBound' /\ SpentStaysSpent'
  BY <1>1 DEF GrantsAreIssued, AdmissionIsBound, SpentStaysSpent
<1> QED BY <1>2 DEF GrantsInv, AdmissionIsSound

\* Every other step leaves the grants alone and admits nobody.
LEMMA OthersKeep ==
    ASSUME GrantsInv, UNCHANGED <<grants, spent, issued>>, admitted' \in {admitted, None}
    PROVE  GrantsInv'
BY DEF GrantsInv, GrantsAreIssued, AdmissionIsSound, AdmissionIsBound, SpentStaysSpent

\* Whatever launchers, callers and clocks do, a capability that was misused, that is
\* over or whose runtime is gone is never held again, and who is admitted under a
\* capability is the launcher, with the model, that it was issued for.
THEOREM CapabilitiesAreBound == Spec => []AdmissionIsSound
<1>1. Init => GrantsInv
  BY DEF Init, GrantsInv, GrantsAreIssued, AdmissionIsSound, AdmissionIsBound, SpentStaysSpent, Empty
<1>2. GrantsInv /\ [Next]_vars => GrantsInv'
  <2> SUFFICES ASSUME GrantsInv, [Next]_vars
               PROVE  GrantsInv'
    OBVIOUS
  <2>1. CASE Tick
    BY <2>1, OthersKeep DEF Tick, grantVars
  <2>2. CASE Reset
    BY <2>2, ResetKeeps
  <2>3. ASSUME NEW l \in Launchers, LauncherFlips(l) PROVE GrantsInv'
    BY <2>3, OthersKeep DEF LauncherFlips, grantVars
  <2>4. ASSUME NEW choice \in PolicyChoices, GetOrCreate(choice) PROVE GrantsInv'
    BY <2>4, OthersKeep DEF GetOrCreate, grantVars
  <2>5. ASSUME NEW c \in Caps, NEW l \in Launchers, NEW m \in Models, NEW t \in {0, 1}, Issue(c, l, m, t)
        PROVE  GrantsInv'
    BY <2>5, IssueKeeps
  <2>6. ASSUME NEW c \in Caps, NEW l \in Launchers, NEW m \in Models, NEW s \in Surfaces, Admit(s, m, c, l)
        PROVE  GrantsInv'
    BY <2>6, AdmitKeeps
  <2>7. ASSUME NEW s \in Surfaces, NEW m \in Models, AdmitUnattended(s, m) PROVE GrantsInv'
    BY <2>7, OthersKeep DEF AdmitUnattended
  <2>8. ASSUME NEW c \in Caps, Revoke(c) PROVE GrantsInv'
    BY <2>8, SpendingKeeps DEF Revoke
  <2>9. ASSUME NEW i \in Ids, NEW a \in Amounts, Reserve(i, a) \/ Reconcile(i, a)
        PROVE  GrantsInv'
    BY <2>9, OthersKeep DEF Reserve, Reconcile, grantVars
  <2>10. ASSUME NEW i \in Ids, Release(i) PROVE GrantsInv'
    BY <2>10, OthersKeep DEF Release, grantVars
  <2>11. CASE UNCHANGED vars
    BY <2>11, OthersKeep DEF vars, grantVars
  <2> QED BY <2>1, <2>2, <2>3, <2>4, <2>5, <2>6, <2>7, <2>8, <2>9, <2>10, <2>11 DEF Next
<1>3. GrantsInv => AdmissionIsSound
  BY DEF GrantsInv
<1> QED BY <1>1, <1>2, <1>3, PTL DEF Spec

-----------------------------------------------------------------------------
(* Sums over a set, in whatever order a fold takes it.                     *)

\* The sum of the amounts of S in the ledger l, as MapThenSumSet has it.
Sum(l, S) == MapThenSumSet(LAMBDA i : l[i].amount, S)

\* f adds up the amounts of each part of S, one by one in the order of the folds ...
Adds(f, S, l) ==
    f = [s \in SUBSET S |->
            IF s = {} THEN 0
            ELSE l[CHOOSE x \in s : TRUE].amount + f[s \ {CHOOSE x \in s : TRUE}]]

\* ... and in any order.
Totals(f, S, l) ==
    /\ f \in [SUBSET S -> Nat] /\ f[{}] = 0
    /\ \A s \in SUBSET S : \A x \in s : f[s] = l[x].amount + f[s \ {x}]

Numbers(S, l) == \A x \in S : l[x].amount \in Nat

\* The amounts of a finite set can be added up in any order.
LEMMA TotalsExist ==
    ASSUME NEW S, IsFiniteSet(S), NEW l, Numbers(S, l)
    PROVE  \E f : Totals(f, S, l)
<1> DEFINE bad == {T \in SUBSET S : ~ \E f : Totals(f, T, l)}
<1> SUFFICES ASSUME bad # {} PROVE FALSE
  OBVIOUS
<1>1. PICK m \in bad : \A t \in bad : t \subseteq m => t = m
  <2>1. bad \in SUBSET (SUBSET S)
    OBVIOUS
  <2> HIDE DEF bad
  <2> QED BY <2>1, LeastSubset
<1>2. m \in SUBSET S /\ ~ \E f : Totals(f, m, l)
  OBVIOUS
<1>3. ASSUME m = {} PROVE FALSE
  <2> DEFINE f == [s \in SUBSET {} |-> 0]
  <2>1. Totals(f, {}, l)
    BY DEF Totals
  <2> QED BY <1>2, <1>3, <2>1
<1>4. ASSUME NEW z \in m PROVE FALSE
  <2> DEFINE T == m \ {z}
             a == l[z].amount
  <2>1. T \in SUBSET S /\ T # m /\ T \subseteq m
    BY <1>2, <1>4
  <2>2. PICK f : Totals(f, T, l)
    BY <1>1, <2>1
  <2>3. a \in Nat
    BY <1>2, <1>4 DEF Numbers
  <2> DEFINE g == [s \in SUBSET m |-> IF z \in s THEN a + f[s \ {z}] ELSE f[s]]
  <2>4. f \in [SUBSET T -> Nat] /\ f[{}] = 0
    BY <2>2 DEF Totals
  <2>5. \A s \in SUBSET T : f[s] \in Nat
    BY <2>4
  <2>6. \A s \in SUBSET m : s \ {z} \in SUBSET T /\ (z \notin s => s \in SUBSET T)
    OBVIOUS
  <2>7. \A s \in SUBSET m : g[s] = IF z \in s THEN a + f[s \ {z}] ELSE f[s]
    OBVIOUS
  <2>8. g \in [SUBSET m -> Nat]
    <3>1. ASSUME NEW s \in SUBSET m
          PROVE  (IF z \in s THEN a + f[s \ {z}] ELSE f[s]) \in Nat
      <4> HIDE DEF T, a
      <4> QED BY <2>3, <2>5, <2>6
    <3> QED BY <3>1
  <2>9. ASSUME NEW s \in SUBSET m, NEW x \in s PROVE g[s] = l[x].amount + g[s \ {x}]
    <3>1. s \ {x} \in SUBSET m
      OBVIOUS
    <3>2. CASE x = z
      <4>1. g[s] = a + f[s \ {z}] /\ g[s \ {x}] = f[s \ {z}]
        <5> HIDE DEF g
        <5> QED BY <2>7, <3>1, <3>2
      <4> QED BY <3>2, <4>1
    <3>3. CASE x # z /\ z \notin s
      <4>1. g[s] = f[s] /\ g[s \ {x}] = f[s \ {x}]
        <5> HIDE DEF g
        <5> QED BY <2>7, <3>1, <3>3
      <4>2. s \in SUBSET T
        BY <2>6, <3>3
      <4>3. f[s] = l[x].amount + f[s \ {x}]
        <5> HIDE DEF T
        <5> QED BY <2>2, <4>2 DEF Totals
      <4> QED BY <4>1, <4>3
    <3>4. CASE x # z /\ z \in s
      <4> DEFINE u == s \ {z}
      <4>1. g[s] = a + f[u] /\ g[s \ {x}] = a + f[(s \ {x}) \ {z}]
        <5> HIDE DEF g
        <5> QED BY <2>7, <3>1, <3>4
      <4>2. u \in SUBSET T /\ x \in u /\ (s \ {x}) \ {z} = u \ {x}
        BY <3>4
      <4>3. f[u] = l[x].amount + f[u \ {x}]
        <5> HIDE DEF T, u
        <5> QED BY <2>2, <4>2 DEF Totals
      <4>4. f[u \ {x}] \in Nat /\ l[x].amount \in Nat
        <5>1. u \ {x} \in SUBSET T
          BY <4>2
        <5>2. x \in S
          BY <1>2
        <5> HIDE DEF T, u
        <5> QED BY <2>5, <5>1, <5>2 DEF Numbers
      <4> HIDE DEF u, g, a, T
      <4>5. g[s] = a + (l[x].amount + f[u \ {x}]) /\ g[s \ {x}] = a + f[u \ {x}]
        BY <4>1, <4>2, <4>3
      <4> QED BY <2>3, <4>4, <4>5
    <3> QED BY <3>2, <3>3, <3>4
  <2>10. g[{}] = 0
    BY <2>4
  <2>11. Totals(g, m, l)
    <3> HIDE DEF g
    <3> QED BY <2>8, <2>9, <2>10 DEF Totals
  <2> QED BY <1>2, <2>11
<1> QED BY <1>3, <1>4

\* In whatever order they are added, the sums are the same, and only the ledger's
\* entries in the set matter.
LEMMA TotalsSame ==
    ASSUME NEW S, IsFiniteSet(S), NEW T, S \subseteq T, NEW k, NEW l, NEW f, NEW g,
           Totals(f, T, k), Adds(g, S, l), \A x \in S : k[x].amount = l[x].amount
    PROVE  g[S] = f[S]
<1> DEFINE bad == {s \in SUBSET S : g[s] # f[s]}
<1> SUFFICES ASSUME bad # {} PROVE FALSE
  OBVIOUS
<1>1. PICK m \in bad : \A t \in bad : t \subseteq m => t = m
  <2>1. bad \in SUBSET (SUBSET S)
    OBVIOUS
  <2> HIDE DEF bad
  <2> QED BY <2>1, LeastSubset
<1>2. m \in SUBSET S /\ m \in SUBSET T /\ g[m] # f[m]
  OBVIOUS
<1> DEFINE x == CHOOSE y \in m : TRUE
<1>3. g[m] = IF m = {} THEN 0 ELSE l[x].amount + g[m \ {x}]
  BY <1>2 DEF Adds
<1>4. CASE m = {}
  BY <1>2, <1>3, <1>4 DEF Totals
<1>5. CASE m # {}
  <2>1. x \in m
    BY <1>5
  <2> HIDE DEF x
  <2>2. f[m] = k[x].amount + f[m \ {x}]
    BY <1>2, <2>1 DEF Totals
  <2>3. g[m \ {x}] = f[m \ {x}]
    <3>1. m \ {x} \in SUBSET S /\ m \ {x} \subseteq m /\ m \ {x} # m
      BY <1>2, <2>1
    <3> QED BY <1>1, <3>1
  <2>4. k[x].amount = l[x].amount
    BY <1>2, <2>1
  <2> QED BY <1>2, <1>3, <1>5, <2>2, <2>3, <2>4
<1> QED BY <1>4, <1>5

\* What the fold returns is the total.
LEMMA SumIs ==
    ASSUME NEW S, IsFiniteSet(S), NEW T, S \subseteq T, NEW k, NEW l, NEW f, Numbers(S, l),
           Totals(f, T, k), \A x \in S : k[x].amount = l[x].amount
    PROVE  Sum(l, S) = f[S]
<1> DEFINE iter == CHOOSE g : g = [s \in SUBSET S |->
                     IF s = {} THEN 0
                     ELSE l[CHOOSE x \in s : TRUE].amount + g[s \ {CHOOSE x \in s : TRUE}]]
<1>1. Sum(l, S) = iter[S]
  BY DEF Sum, MapThenSumSet, MapThenFoldSet
<1>2. \E g : Adds(g, S, l)
  <2>1. PICK g : Totals(g, S, l)
    BY TotalsExist
  <2> DEFINE h == [s \in SUBSET S |->
                     IF s = {} THEN 0
                     ELSE l[CHOOSE x \in s : TRUE].amount + g[s \ {CHOOSE x \in s : TRUE}]]
  <2>2. ASSUME NEW s \in SUBSET S PROVE g[s] = h[s]
    <3>1. CASE s = {}
      BY <2>1, <3>1 DEF Totals
    <3>2. CASE s # {}
      <4> DEFINE x == CHOOSE y \in s : TRUE
      <4>1. x \in s
        BY <3>2
      <4>2. h[s] = l[x].amount + g[s \ {x}]
        BY <3>2
      <4> HIDE DEF x, h
      <4> QED BY <2>1, <4>1, <4>2 DEF Totals
    <3> QED BY <3>1, <3>2
  <2>3. g = h
    <3>1. g \in [SUBSET S -> Nat]
      BY <2>1 DEF Totals
    <3> QED BY <2>2, <3>1
  <2>4. Adds(g, S, l)
    BY <2>3 DEF Adds
  <2> QED BY <2>4
<1>3. Adds(iter, S, l)
  BY <1>2 DEF Adds
<1> HIDE DEF iter
<1> QED BY <1>1, <1>3, TotalsSame

\* A sum is a number, one more entry adds its amount, and what is not in the set does
\* not matter.
LEMMA SumNat ==
    ASSUME NEW S, IsFiniteSet(S), NEW l, Numbers(S, l)
    PROVE  Sum(l, S) \in Nat
<1>1. PICK f : Totals(f, S, l)
  BY TotalsExist
<1>2. Sum(l, S) = f[S]
  BY <1>1, SumIs
<1>3. f \in [SUBSET S -> Nat]
  BY <1>1 DEF Totals
<1> QED BY <1>2, <1>3

LEMMA SumSame ==
    ASSUME NEW S, IsFiniteSet(S), NEW k, NEW l, Numbers(S, k),
           \A x \in S : k[x].amount = l[x].amount
    PROVE  Sum(l, S) = Sum(k, S)
<1>1. Numbers(S, l)
  BY DEF Numbers
<1>2. PICK f : Totals(f, S, k)
  BY TotalsExist
<1>3. Sum(l, S) = f[S] /\ Sum(k, S) = f[S]
  BY <1>1, <1>2, SumIs
<1> QED BY <1>3

LEMMA SumAdd ==
    ASSUME NEW S, IsFiniteSet(S), NEW l, NEW z, z \notin S, Numbers(S \cup {z}, l)
    PROVE  Sum(l, S \cup {z}) = l[z].amount + Sum(l, S)
<1> DEFINE T == S \cup {z}
<1>1. IsFiniteSet(T)
  BY FS_AddElement
<1>2. PICK f : Totals(f, T, l)
  BY <1>1, TotalsExist
<1>3. Numbers(T, l) /\ Numbers(S, l) /\ S \subseteq T /\ T \subseteq T
  BY DEF Numbers
<1>4. Sum(l, T) = f[T]
  <2> HIDE DEF T
  <2> QED BY <1>1, <1>2, <1>3, SumIs
<1>5. Sum(l, S) = f[S]
  <2> HIDE DEF T
  <2> QED BY <1>2, <1>3, SumIs
<1>6. f[T] = l[z].amount + f[T \ {z}]
  <2>1. T \in SUBSET T /\ z \in T
    OBVIOUS
  <2> HIDE DEF T
  <2> QED BY <1>2, <2>1 DEF Totals
<1>7. T \ {z} = S
  OBVIOUS
<1> QED BY <1>4, <1>5, <1>6, <1>7

LEMMA SumEmpty == ASSUME NEW l PROVE Sum(l, {}) = 0
<1>1. IsFiniteSet({})
  BY FS_EmptySet
<1>2. Numbers({}, l)
  BY DEF Numbers
<1>3. PICK f : Totals(f, {}, l)
  BY <1>1, <1>2, TotalsExist
<1>4. Sum(l, {}) = f[{}]
  BY <1>1, <1>2, <1>3, SumIs
<1> QED BY <1>3, <1>4 DEF Totals

-----------------------------------------------------------------------------
(* The ledger.                                                             *)

\* The reservations that a ledger has pending.
PendingOf(l) == {i \in DOMAIN l : l[i].state = "pending"}

LedgerTypeOK ==
    /\ DOMAIN ledger \subseteq Ids
    /\ \A i \in DOMAIN ledger : ledger[i] \in Reservations
    /\ reconciled \in Nat /\ overrun \in Nat

LedgerInv == LedgerTypeOK /\ LedgerBound

LEMMA PendingIsSum == Pending = Sum(ledger, PendingOf(ledger))
BY DEF Pending, Sum, PendingOf

LEMMA PendingStaysSum == Pending' = Sum(ledger', PendingOf(ledger'))
<1>1. (Pending = Sum(ledger, PendingOf(ledger)))'
  BY PendingIsSum, PTL
<1> QED BY <1>1

LEMMA PendingIsFinite ==
    ASSUME LedgerTypeOK
    PROVE  IsFiniteSet(PendingOf(ledger)) /\ Numbers(PendingOf(ledger), ledger) /\ Pending \in Nat
<1>1. PendingOf(ledger) \subseteq Ids
  BY DEF LedgerTypeOK, PendingOf
<1>2. IsFiniteSet(PendingOf(ledger))
  BY <1>1, IdsOK, FS_Subset
<1>3. Numbers(PendingOf(ledger), ledger)
  BY NumbersOK DEF LedgerTypeOK, Numbers, PendingOf, Reservations
<1> QED BY <1>2, <1>3, PendingIsSum, SumNat

\* A new reservation adds its estimate to what is pending.
LEMMA ReserveAdds ==
    ASSUME LedgerTypeOK, NEW i \in Ids, NEW a \in Amounts, i \notin DOMAIN ledger,
           ledger' = With(ledger, i, [amount |-> a, state |-> "pending"])
    PROVE  LedgerTypeOK' = (reconciled' \in Nat /\ overrun' \in Nat) /\ Pending' = Pending + a
<1> DEFINE P == PendingOf(ledger)
           r == [amount |-> a, state |-> "pending"]
<1>1. IsFiniteSet(P) /\ Numbers(P, ledger) /\ Pending \in Nat /\ Pending = Sum(ledger, P)
  BY PendingIsFinite, PendingIsSum
<1>2. r.amount = a /\ r.state = "pending" /\ r \in Reservations /\ a \in Nat
  BY NumbersOK DEF Reservations, States
<1> HIDE DEF r
<1>3. /\ DOMAIN ledger' = DOMAIN ledger \cup {i} /\ ledger'[i] = r
      /\ \A j \in DOMAIN ledger : ledger'[j] = ledger[j]
  BY DEF With, r
<1>4. PendingOf(ledger') = P \cup {i} /\ i \notin P
  BY <1>2, <1>3 DEF PendingOf
<1>5. \A j \in P : ledger[j].amount = ledger'[j].amount
  BY <1>3 DEF PendingOf
<1>6. Numbers(P \cup {i}, ledger')
  BY <1>1, <1>2, <1>3, <1>5 DEF Numbers
<1> HIDE DEF P
<1>7. Sum(ledger', P) = Sum(ledger, P)
  BY <1>1, <1>5, SumSame
<1>8. Sum(ledger', P \cup {i}) = ledger'[i].amount + Sum(ledger', P)
  BY <1>1, <1>4, <1>6, SumAdd
<1>9. Pending' = Sum(ledger', PendingOf(ledger'))
  BY PendingStaysSum
<1>10. Pending' = Pending + a
  BY <1>1, <1>2, <1>3, <1>4, <1>7, <1>8, <1>9
<1>11. LedgerTypeOK' = (reconciled' \in Nat /\ overrun' \in Nat)
  BY <1>2, <1>3 DEF LedgerTypeOK
<1> QED BY <1>10, <1>11

\* A reservation that is settled takes its estimate away, if it was pending.
LEMMA SettleTakes ==
    ASSUME LedgerTypeOK, NEW i \in DOMAIN ledger, NEW s \in {"released", "reconciled"},
           ledger' = [ledger EXCEPT ![i].state = s]
    PROVE  /\ LedgerTypeOK' = (reconciled' \in Nat /\ overrun' \in Nat)
           /\ Pending' \in Nat
           /\ Pending = Pending' + IF ledger[i].state = "pending" THEN ledger[i].amount ELSE 0
<1> DEFINE P == PendingOf(ledger)
           Q == PendingOf(ledger')
<1>0. ledger[i] \in Reservations
  BY DEF LedgerTypeOK
<1>1. IsFiniteSet(P) /\ Numbers(P, ledger) /\ Pending = Sum(ledger, P)
  BY PendingIsFinite, PendingIsSum
<1>2. /\ DOMAIN ledger' = DOMAIN ledger
      /\ ledger'[i] = [ledger[i] EXCEPT !.state = s]
      /\ \A j \in DOMAIN ledger : j # i => ledger'[j] = ledger[j]
  OBVIOUS
<1>3. ledger'[i].amount = ledger[i].amount
  BY <1>2, <1>0 DEF Reservations
<1>4. ledger'[i].state # "pending" /\ ledger'[i] \in Reservations
  BY <1>2, <1>0 DEF Reservations, States
<1>5. LedgerTypeOK' = (reconciled' \in Nat /\ overrun' \in Nat)
  BY <1>2, <1>4 DEF LedgerTypeOK
<1>6. Q = P \ {i}
  BY <1>2, <1>4 DEF PendingOf
<1>7. IsFiniteSet(Q) /\ Numbers(Q, ledger)
  <2>1. IsFiniteSet(Q)
    <3> HIDE DEF P, Q
    <3> QED BY <1>1, <1>6, FS_Subset
  <2> QED BY <1>1, <1>6, <2>1 DEF Numbers
<1>8. \A j \in Q : ledger[j].amount = ledger'[j].amount
  BY <1>2, <1>3
<1>9. Pending' = Sum(ledger', Q)
  BY PendingStaysSum
<1> HIDE DEF Q
<1>10. Sum(ledger', Q) = Sum(ledger, Q) /\ Sum(ledger, Q) \in Nat
  BY <1>7, <1>8, SumSame, SumNat
<1>11. CASE ledger[i].state = "pending"
  <2>1. i \in P /\ P = Q \cup {i} /\ i \notin Q
    BY <1>6, <1>11 DEF PendingOf
  <2> HIDE DEF P
  <2>2. Sum(ledger, Q \cup {i}) = ledger[i].amount + Sum(ledger, Q)
    BY <1>1, <1>7, <2>1, SumAdd
  <2>3. ledger[i].amount \in Nat
    BY <1>0, NumbersOK DEF Reservations
  <2> QED BY <1>1, <1>5, <1>9, <1>10, <1>11, <2>1, <2>2, <2>3
<1>12. CASE ledger[i].state # "pending"
  <2>1. P = Q
    BY <1>6, <1>12 DEF PendingOf
  <2> QED BY <1>1, <1>5, <1>9, <1>10, <1>12, <2>1
<1> QED BY <1>11, <1>12

\* reserve() grants no more than what is left.
LEMMA ReserveKeepsTheLimit ==
    ASSUME LedgerInv, NEW i \in Ids, NEW a \in Amounts, Reserve(i, a)
    PROVE  LedgerInv' /\ OverrunBlocks
<1>1. a \in Nat /\ SessionLimit \in Nat
  BY NumbersOK
<1>2. /\ i \notin DOMAIN ledger /\ SessionLimit - Pending - reconciled >= a
      /\ ledger' = With(ledger, i, [amount |-> a, state |-> "pending"])
      /\ reconciled' = reconciled /\ overrun' = overrun
  BY DEF Reserve, Remaining
<1>3. LedgerTypeOK /\ Pending \in Nat /\ reconciled \in Nat /\ overrun \in Nat
  BY PendingIsFinite DEF LedgerInv, LedgerTypeOK
<1>4. LedgerTypeOK' /\ Pending' = Pending + a
  BY <1>1, <1>2, <1>3, ReserveAdds
<1>5. LedgerBound'
  BY <1>1, <1>2, <1>3, <1>4 DEF LedgerBound
<1>6. ASSUME NEW j \in Ids, reconciled >= SessionLimit, j \in DOMAIN ledger' \ DOMAIN ledger
      PROVE  ledger'[j].amount = 0
  <2>1. j = i /\ ledger'[i] = [amount |-> a, state |-> "pending"]
    BY <1>2, <1>6 DEF With
  <2>2. a = 0
    BY <1>1, <1>2, <1>3, <1>6
  <2> QED BY <2>1, <2>2
<1> QED BY <1>4, <1>5, <1>6 DEF LedgerInv, OverrunBlocks

\* release() only gives back.
LEMMA ReleaseKeepsTheLimit ==
    ASSUME LedgerInv, NEW i \in Ids, Release(i)
    PROVE  LedgerInv' /\ OverrunBlocks
<1>1. /\ i \in DOMAIN ledger /\ ledger' = [ledger EXCEPT ![i].state = "released"]
      /\ reconciled' = reconciled /\ overrun' = overrun
  BY DEF Release
<1>2. LedgerTypeOK /\ reconciled \in Nat /\ overrun \in Nat /\ SessionLimit \in Nat
  BY NumbersOK DEF LedgerInv, LedgerTypeOK
<1> DEFINE d == IF ledger[i].state = "pending" THEN ledger[i].amount ELSE 0
<1>3. LedgerTypeOK' /\ Pending' \in Nat /\ Pending = Pending' + d
  BY <1>1, <1>2, SettleTakes
<1>4. d \in Nat
  BY <1>1, <1>2, NumbersOK DEF LedgerTypeOK, Reservations
<1> HIDE DEF d
<1>5. LedgerBound'
  BY <1>1, <1>2, <1>3, <1>4 DEF LedgerInv, LedgerBound
<1>6. DOMAIN ledger' = DOMAIN ledger
  BY <1>1
<1> QED BY <1>3, <1>5, <1>6 DEF LedgerInv, OverrunBlocks

\* A cost that is reported takes the place of its estimate, and what is above that is
\* the overrun.
LEMMA ReconcileKeepsTheLimit ==
    ASSUME LedgerInv, NEW i \in Ids, NEW a \in Amounts, Reconcile(i, a)
    PROVE  LedgerInv' /\ OverrunBlocks
<1>1. /\ i \in DOMAIN ledger /\ ledger' = [ledger EXCEPT ![i].state = "reconciled"]
      /\ reconciled' = reconciled + a /\ overrun' = overrun + Excess(i, a)
  BY DEF Reconcile
<1>2. LedgerTypeOK /\ reconciled \in Nat /\ overrun \in Nat /\ SessionLimit \in Nat /\ a \in Nat
  BY NumbersOK DEF LedgerInv, LedgerTypeOK
<1> DEFINE d == IF ledger[i].state = "pending" THEN ledger[i].amount ELSE 0
<1>3. Pending' \in Nat /\ Pending = Pending' + d
      /\ LedgerTypeOK' = (reconciled' \in Nat /\ overrun' \in Nat)
  BY <1>1, <1>2, SettleTakes
<1>4. d \in Nat /\ Excess(i, a) \in Nat /\ a <= d + Excess(i, a)
  <2>1. ledger[i].amount \in Nat
    BY <1>1, <1>2, NumbersOK DEF LedgerTypeOK, Reservations
  <2> QED BY <1>2, <2>1 DEF Excess
<1> HIDE DEF d
<1>5. LedgerTypeOK'
  <2>1. reconciled' \in Nat /\ overrun' \in Nat
    BY <1>1, <1>2, <1>4
  <2> QED BY <1>3, <2>1
<1>6. LedgerBound'
  BY <1>1, <1>2, <1>3, <1>4 DEF LedgerInv, LedgerBound
<1>7. DOMAIN ledger' = DOMAIN ledger
  BY <1>1
<1> QED BY <1>5, <1>6, <1>7 DEF LedgerInv, OverrunBlocks

LEMMA EmptyLedger ==
    ASSUME ledger = Empty
    PROVE  Pending = 0 /\ DOMAIN ledger = {}
<1>1. DOMAIN ledger = {}
  BY DEF Empty
<1>2. PendingOf(ledger) = {}
  BY <1>1 DEF PendingOf
<1> QED BY <1>1, <1>2, PendingIsSum, SumEmpty

\* A runtime starts with an empty ledger, and so does the next one.
LEMMA ResetKeepsTheLimit ==
    ASSUME LedgerInv, Reset
    PROVE  LedgerInv' /\ OverrunBlocks
<1>1. ledger' = Empty /\ reconciled' = 0 /\ overrun' = 0 /\ SessionLimit \in Nat
  BY NumbersOK DEF Reset
<1>2. DOMAIN ledger' = {}
  BY <1>1 DEF Empty
<1>3. Pending' = 0
  <2>1. PendingOf(ledger') = {}
    BY <1>2 DEF PendingOf
  <2>2. Pending' = Sum(ledger', PendingOf(ledger'))
    BY PendingStaysSum
  <2> QED BY <2>1, <2>2, SumEmpty
<1> QED BY <1>1, <1>2, <1>3 DEF LedgerInv, LedgerTypeOK, LedgerBound, OverrunBlocks

\* What leaves the ledger alone.
LEMMA LedgerStays ==
    ASSUME LedgerInv, UNCHANGED ledgerVars
    PROVE  LedgerInv' /\ OverrunBlocks
<1>1. ledger' = ledger /\ reconciled' = reconciled /\ overrun' = overrun
  BY DEF ledgerVars
<1>2. Pending' = Sum(ledger', PendingOf(ledger'))
  BY PendingStaysSum
<1>3. Pending' = Pending
  BY <1>1, <1>2, PendingIsSum
<1> QED BY <1>1, <1>3 DEF LedgerInv, LedgerTypeOK, LedgerBound, OverrunBlocks

\* Whatever is reserved, released and reported, in any order and however often, what is
\* pending and paid stays within the session's limit, but for what was reported above
\* its estimate; and nothing that costs is reserved once the limit is reached.
THEOREM LimitHolds == Spec => LedgerHolds
<1>1. Init => LedgerInv
  <2> SUFFICES ASSUME Init PROVE LedgerInv
    OBVIOUS
  <2>1. ledger = Empty /\ reconciled = 0 /\ overrun = 0 /\ SessionLimit \in Nat
    BY NumbersOK DEF Init
  <2> QED BY <2>1, EmptyLedger DEF LedgerInv, LedgerTypeOK, LedgerBound
<1>2. LedgerInv /\ [Next]_vars => LedgerInv' /\ OverrunBlocks
  <2> SUFFICES ASSUME LedgerInv, [Next]_vars PROVE LedgerInv' /\ OverrunBlocks
    OBVIOUS
  <2>1. ASSUME NEW i \in Ids, NEW a \in Amounts, Reserve(i, a) PROVE LedgerInv' /\ OverrunBlocks
    BY <2>1, ReserveKeepsTheLimit
  <2>2. ASSUME NEW i \in Ids, NEW a \in Amounts, Reconcile(i, a) PROVE LedgerInv' /\ OverrunBlocks
    BY <2>2, ReconcileKeepsTheLimit
  <2>3. ASSUME NEW i \in Ids, Release(i) PROVE LedgerInv' /\ OverrunBlocks
    BY <2>3, ReleaseKeepsTheLimit
  <2>4. CASE Reset
    BY <2>4, ResetKeepsTheLimit
  <2>5. CASE UNCHANGED ledgerVars
    BY <2>5, LedgerStays
  <2>6. CASE Tick \/ (\E l \in Launchers : LauncherFlips(l)) \/ (\E choice \in PolicyChoices : GetOrCreate(choice))
    BY <2>5, <2>6 DEF Tick, LauncherFlips, GetOrCreate
  <2>7. ASSUME NEW c \in Caps, NEW l \in Launchers, NEW m \in Models,
               \/ \E t \in {0, 1} : Issue(c, l, m, t)
               \/ \E s \in Surfaces : Admit(s, m, c, l)
        PROVE  LedgerInv' /\ OverrunBlocks
    BY <2>5, <2>7 DEF Issue, Admit
  <2>8. CASE (\E s \in Surfaces, m \in Models : AdmitUnattended(s, m)) \/ (\E c \in Caps : Revoke(c))
    BY <2>5, <2>8 DEF AdmitUnattended, Revoke
  <2>9. CASE UNCHANGED vars
    BY <2>5, <2>9 DEF vars
  <2> QED BY <2>1, <2>2, <2>3, <2>4, <2>6, <2>7, <2>8, <2>9 DEF Next
<1>3. LedgerInv' => LedgerBound'
  BY DEF LedgerInv
<1> QED BY <1>1, <1>2, <1>3, PTL DEF Spec, LedgerHolds

(***************************************************************************)
(* CopilotAuth: for any number of callers and of processes that share the  *)
(* cache and the lock file, and any clock.                                 *)
(***************************************************************************)

\* While nobody has died, the lock file is there exactly while its caller exchanges,
\* is no older than an exchange may be, and is not taken for a stale one.
LockIsOwned ==
    crashes = 0 =>
        /\ \A c \in Callers : Busy(c) => lockFile # None /\ lockFile.by = c
        /\ lockFile # None =>
              /\ lockFile.by \in Callers /\ Busy(lockFile.by)
              /\ lockFile.at = caller[lockFile.by].since
              /\ clock - lockFile.at <= MaxExchange
        /\ \A c \in Callers : caller[c].phase = "clearing" => ~caller[c].stale

AuthInv == AuthTypeOK /\ HandedOutIsFresh /\ LockIsOwned

\* A caller that moves on without an answer keeps the bearer that it has.
LEMMA MovesOn ==
    ASSUME HandedOutIsFresh, NEW c \in Callers, NEW r,
           caller' = [caller EXCEPT ![c] = r],
           caller \in [Callers -> Calling],
           r \in Calling, r.bearer = None \/ (r.bearer = caller[c].bearer /\ r.at = caller[c].at)
    PROVE  /\ caller' \in [Callers -> Calling]
           /\ caller'[c] = r
           /\ \A d \in Callers \ {c} : caller'[d] = caller[d]
           /\ HandedOutIsFresh'
<1>1. /\ caller' \in [Callers -> Calling]
      /\ caller'[c] = r
      /\ \A d \in Callers \ {c} : caller'[d] = caller[d]
  OBVIOUS
<1> QED BY <1>1 DEF HandedOutIsFresh

\* A caller that is answered is no longer in an exchange, and what it got is fresh.
LEMMA GotKeeps ==
    ASSUME AuthInv, NEW c \in Callers, NEW a \in Auths, Got(c, a), TokenValid(a.token)
    PROVE  /\ caller' \in [Callers -> Calling]
           /\ \A d \in Callers \ {c} : caller'[d] = caller[d]
           /\ caller'[c].phase \in {"ready", "done"}
           /\ HandedOutIsFresh'
<1> USE DEF AuthInv, AuthTypeOK
<1> DEFINE r == caller[c]
<1>1. r \in Calling
  OBVIOUS
<1>2. CASE r.wants = "bearer"
  <2> DEFINE n == [r EXCEPT !.phase = "ready", !.wants = "base", !.bearer = a.token, !.at = clock]
  <2>1. caller' = [caller EXCEPT ![c] = n]
    BY <1>2 DEF Got, SetCaller
  <2>2. a.token \in Tokens /\ a.token.exp > clock + Skew
    BY DEF TokenValid, Auths
  <2>3. n.phase = "ready" /\ n.bearer = a.token /\ n.at = clock
    BY <1>1 DEF Calling
  <2>4. n \in Calling
    BY <1>1, <2>2 DEF Calling, Phases
  <2> HIDE DEF n
  <2>5. caller' \in [Callers -> Calling] /\ caller'[c].phase = "ready"
        /\ \A d \in Callers \ {c} : caller'[d] = caller[d]
    BY <2>1, <2>3, <2>4
  <2>6. caller'[c].bearer = a.token /\ caller'[c].at = clock
    BY <2>1, <2>3
  <2> QED BY <2>2, <2>5, <2>6 DEF HandedOutIsFresh
<1>3. CASE r.wants # "bearer"
  <2> DEFINE base == IF a.override THEN "cli" ELSE "default"
             moved == [r EXCEPT !.phase = "done", !.base = base]
  <2>1. caller' = [caller EXCEPT ![c] = moved]
    BY <1>3 DEF Got, SetCaller
  <2>2. base \in {None, "cli", "default"}
    OBVIOUS
  <2> HIDE DEF base
  <2>3. moved \in Calling /\ moved.bearer = caller[c].bearer /\ moved.at = caller[c].at /\ moved.phase = "done"
    BY <2>2 DEF Calling, Phases
  <2> HIDE DEF moved, r
  <2> QED BY <2>1, <2>3, MovesOn
<1> QED BY <1>2, <1>3

\* What the lock file says stays true while nobody takes or drops it and no exchange
\* begins or ends.
LEMMA LockUntouched ==
    ASSUME AuthTypeOK, LockIsOwned, NEW c \in Callers,
           \A d \in Callers \ {c} : caller'[d] = caller[d],
           ~Busy(c), ~Busy(c)', UNCHANGED <<lockFile, clock, crashes>>,
           crashes = 0 /\ caller'[c].phase = "clearing" => ~caller'[c].stale
    PROVE  LockIsOwned'
<1>1. SUFFICES ASSUME crashes' = 0 PROVE LockIsOwned'
  BY DEF LockIsOwned
<1>2. \A d \in Callers : Busy(d)' => d # c /\ Busy(d)
  BY DEF Busy
<1>3. lockFile # None => lockFile.by # c /\ Busy(lockFile.by)'
  BY <1>1 DEF LockIsOwned, Busy
<1>4. \A d \in Callers : caller'[d].phase = "clearing" => ~caller'[d].stale
  BY <1>1 DEF LockIsOwned
<1> QED BY <1>1, <1>2, <1>3, <1>4 DEF LockIsOwned


LEMMA AuthsAreKept ==
    ASSUME AuthTypeOK, NEW c \in Callers
    PROVE  /\ Auth(c) \in Auths
           /\ \A a \in Auths : SetAuth(c, a) => process' \in [Processes -> Auths]
BY DEF AuthTypeOK, Calling, Auth, SetAuth

\* A caller that is answered with a valid token, outside an exchange.
LEMMA AnsweredKeeps ==
    ASSUME AuthInv, NEW c \in Callers, NEW a \in Auths, Got(c, a), TokenValid(a.token), ~Busy(c),
           process' \in [Processes -> Auths], UNCHANGED <<tokenFile, lockFile>>, World
    PROVE  AuthInv'
<1>1. /\ caller' \in [Callers -> Calling]
      /\ \A d \in Callers \ {c} : caller'[d] = caller[d]
      /\ caller'[c].phase \in {"ready", "done"}
      /\ HandedOutIsFresh'
  BY GotKeeps
<1>2. AuthTypeOK'
  BY <1>1 DEF AuthInv, AuthTypeOK, World
<1>3. ~Busy(c)' /\ caller'[c].phase # "clearing"
  BY <1>1 DEF Busy
<1>4. LockIsOwned'
  BY <1>1, <1>3, LockUntouched DEF AuthInv, World
<1> QED BY <1>1, <1>2, <1>4 DEF AuthInv

\* A caller that moves on outside an exchange, and no lock is taken or dropped.
LEMMA WaitingKeeps ==
    ASSUME AuthInv, NEW c \in Callers, NEW r \in Calling,
           caller' = [caller EXCEPT ![c] = r],
           r.bearer = None \/ (r.bearer = caller[c].bearer /\ r.at = caller[c].at),
           ~Busy(c), r.phase \notin {"exchanging", "discovering"},
           crashes = 0 /\ r.phase = "clearing" => ~r.stale,
           process' \in [Processes -> Auths], UNCHANGED <<tokenFile, lockFile>>, World
    PROVE  AuthInv'
<1>1. /\ caller' \in [Callers -> Calling]
      /\ caller'[c] = r
      /\ \A d \in Callers \ {c} : caller'[d] = caller[d]
      /\ HandedOutIsFresh'
  BY MovesOn DEF AuthInv, AuthTypeOK
<1>2. AuthTypeOK'
  BY <1>1 DEF AuthInv, AuthTypeOK, World
<1>3. ~Busy(c)' /\ (crashes = 0 /\ caller'[c].phase = "clearing" => ~caller'[c].stale)
  BY <1>1 DEF Busy
<1>4. LockIsOwned'
  BY <1>1, <1>3, LockUntouched DEF AuthInv, World
<1> QED BY <1>1, <1>2, <1>4 DEF AuthInv

LEMMA CallsKeeps == ASSUME AuthInv, NEW c \in Callers, Calls(c) PROVE AuthInv'
<1> DEFINE r == [caller[c] EXCEPT !.phase = "ready", !.wants = "bearer", !.calls = @ + 1,
                                  !.bearer = None, !.base = None]
<1>1. caller[c] \in Calling
  BY DEF AuthInv, AuthTypeOK
<1>2. r \in Calling /\ r.bearer = None /\ r.phase = "ready"
  <2> DEFINE n == caller[c].calls + 1
             r1 == [caller[c] EXCEPT !.calls = n, !.phase = "ready", !.wants = "bearer"]
  <2>1. n \in Nat
    BY <1>1 DEF Calling
  <2>2. r = [r1 EXCEPT !.bearer = None, !.base = None]
    BY <1>1 DEF Calling
  <2> HIDE DEF n
  <2>3. r1 \in Calling /\ r1.phase = "ready"
    BY <1>1, <2>1 DEF Calling, Phases
  <2> HIDE DEF r1, r
  <2> QED BY <2>2, <2>3 DEF Calling
<1>3. /\ caller' = [caller EXCEPT ![c] = r] /\ ~Busy(c)
      /\ process' \in [Processes -> Auths] /\ UNCHANGED <<tokenFile, lockFile>> /\ World
  BY DEF Calls, SetCaller, Busy, AuthInv, AuthTypeOK
<1> HIDE DEF r
<1> QED BY <1>2, <1>3, WaitingKeeps

\* What is loaded from the cache is a token, or what there was.
LEMMA LoadedIsAuth ==
    ASSUME AuthTypeOK, NEW a \in Auths
    PROVE  [a EXCEPT !.token = Loaded(a)] \in Auths
BY DEF AuthTypeOK, Auths, Loaded

LEMMA EnsureKeeps == ASSUME AuthInv, NEW c \in Callers, Ensure(c) PROVE AuthInv'
<1> DEFINE a == Auth(c)
           loaded == [a EXCEPT !.token = Loaded(a)]
           r == [caller[c] EXCEPT !.phase = "queued"]
<1>1. a \in Auths /\ loaded \in Auths /\ AuthTypeOK
  BY AuthsAreKept, LoadedIsAuth DEF AuthInv
<1>2. /\ UNCHANGED <<tokenFile, lockFile>> /\ World /\ ~Busy(c)
      /\ \/ SetAuth(c, a) /\ TokenValid(a.token) /\ Got(c, a)
         \/ SetAuth(c, loaded) /\ TokenValid(loaded.token) /\ Got(c, loaded)
         \/ SetAuth(c, loaded) /\ SetCaller(c, r)
  BY DEF Ensure, Busy
<1>3. process' \in [Processes -> Auths]
  BY <1>1, <1>2, AuthsAreKept
<1>4. r \in Calling /\ r.bearer = caller[c].bearer /\ r.at = caller[c].at /\ r.phase = "queued"
  BY DEF AuthInv, AuthTypeOK, Calling, Phases
<1> HIDE DEF a, loaded, r
<1>5. CASE SetCaller(c, r)
  BY <1>2, <1>3, <1>4, <1>5, WaitingKeeps DEF SetCaller
<1> QED BY <1>1, <1>2, <1>3, <1>5, AnsweredKeeps

LEMMA EnterKeeps == ASSUME AuthInv, NEW c \in Callers, Enter(c) PROVE AuthInv'
<1> DEFINE a == Auth(c)
           locked == [a EXCEPT !.lock = c]
           stale == lockFile # None /\ clock - lockFile.at > Stale
           r == [caller[c] EXCEPT !.phase = "clearing", !.stale = stale]
<1>1. a \in Auths /\ locked \in Auths /\ AuthTypeOK
  BY AuthsAreKept DEF AuthInv, Auths
<1>2. /\ UNCHANGED <<tokenFile, lockFile>> /\ World /\ ~Busy(c)
      /\ \/ UNCHANGED process /\ TokenValid(a.token) /\ Got(c, a)
         \/ SetAuth(c, locked) /\ SetCaller(c, r)
  BY DEF Enter, Busy
<1>3. process' \in [Processes -> Auths]
  BY <1>1, <1>2, AuthsAreKept DEF AuthTypeOK
<1>4. stale \in BOOLEAN
  OBVIOUS
<1>5. crashes = 0 => ~stale
  BY TokenTimes, TimesAreNumbers DEF AuthInv, AuthTypeOK, LockIsOwned, Locks
<1> HIDE DEF stale
<1>6. /\ r \in Calling /\ r.bearer = caller[c].bearer /\ r.at = caller[c].at /\ r.phase = "clearing"
      /\ r.stale = stale
  BY <1>4 DEF AuthInv, AuthTypeOK, Calling, Phases
<1> HIDE DEF a, locked, r
<1>7. CASE SetCaller(c, r)
  BY <1>2, <1>3, <1>5, <1>6, <1>7, WaitingKeeps DEF SetCaller
<1> QED BY <1>1, <1>2, <1>3, <1>7, AnsweredKeeps

LEMMA ClearStaleLockKeeps == ASSUME AuthInv, NEW c \in Callers, ClearStaleLock(c) PROVE AuthInv'
<1> DEFINE r == [caller[c] EXCEPT !.phase = "locking"]
<1>1. r \in Calling /\ r.bearer = caller[c].bearer /\ r.at = caller[c].at /\ r.phase = "locking"
  BY DEF AuthInv, AuthTypeOK, Calling, Phases
<1>2. caller' = [caller EXCEPT ![c] = r] /\ World /\ ~Busy(c) /\ UNCHANGED <<process, tokenFile>>
  BY DEF ClearStaleLock, SetCaller, Busy
<1>3. crashes = 0 => lockFile' = lockFile
  BY DEF AuthInv, LockIsOwned, ClearStaleLock
<1> HIDE DEF r
<1>4. /\ caller' \in [Callers -> Calling] /\ caller'[c] = r
      /\ \A d \in Callers \ {c} : caller'[d] = caller[d]
      /\ HandedOutIsFresh'
  BY <1>1, <1>2, MovesOn DEF AuthInv, AuthTypeOK
<1>5. AuthTypeOK'
  BY <1>2, <1>4 DEF AuthInv, AuthTypeOK, World, ClearStaleLock
<1>6. CASE crashes = 0
  <2>1. ~Busy(c)' /\ caller'[c].phase # "clearing"
    BY <1>1, <1>4 DEF Busy
  <2> QED BY <1>2, <1>3, <1>4, <1>5, <1>6, <2>1, LockUntouched DEF AuthInv, World
<1>7. CASE crashes # 0
  BY <1>2, <1>4, <1>5, <1>7 DEF AuthInv, LockIsOwned, World
<1> QED BY <1>6, <1>7

LEMMA WakesKeeps == ASSUME AuthInv, NEW c \in Callers, Wakes(c) PROVE AuthInv'
<1> DEFINE a == [Auth(c) EXCEPT !.token = Loaded(Auth(c))]
           left == [a EXCEPT !.lock = None]
           r == [caller[c] EXCEPT !.phase = "error"]
<1>1. a \in Auths /\ AuthTypeOK
  BY AuthsAreKept, LoadedIsAuth DEF AuthInv
<1>2. left \in Auths
  BY <1>1 DEF Auths
<1>3. /\ UNCHANGED <<tokenFile, lockFile>> /\ World /\ ~Busy(c) /\ SetAuth(c, left)
      /\ \/ TokenValid(a.token) /\ Got(c, a)
         \/ SetCaller(c, r)
  BY DEF Wakes, Leave, Busy
<1>4. process' \in [Processes -> Auths]
  BY <1>1, <1>2, <1>3, AuthsAreKept
<1>5. r \in Calling /\ r.bearer = caller[c].bearer /\ r.at = caller[c].at /\ r.phase = "error"
  BY DEF AuthInv, AuthTypeOK, Calling, Phases
<1> HIDE DEF a, left, r
<1>6. CASE SetCaller(c, r)
  BY <1>3, <1>4, <1>5, <1>6, WaitingKeeps DEF SetCaller
<1> QED BY <1>1, <1>3, <1>4, <1>6, AnsweredKeeps

\* Who takes the lock file found none, so that no exchange is under way.
LEMMA TakingKeeps ==
    ASSUME AuthInv, NEW c \in Callers, NEW r \in Calling,
           caller' = [caller EXCEPT ![c] = r], r.bearer = caller[c].bearer, r.at = caller[c].at,
           r.phase \in {"exchanging", "discovering"}, r.since = clock,
           lockFile = None, lockFile' = [by |-> c, at |-> clock],
           process' \in [Processes -> Auths], UNCHANGED tokenFile, World
    PROVE  AuthInv'
<1>1. /\ caller' \in [Callers -> Calling]
      /\ caller'[c] = r
      /\ \A d \in Callers \ {c} : caller'[d] = caller[d]
      /\ HandedOutIsFresh'
  BY MovesOn DEF AuthInv, AuthTypeOK
<1>2. lockFile' \in Locks /\ lockFile' # None /\ lockFile'.by = c /\ lockFile'.at = clock
  BY NoneIsNothing DEF AuthInv, AuthTypeOK, Locks
<1>3. AuthTypeOK'
  BY <1>1, <1>2 DEF AuthInv, AuthTypeOK, World
<1>4. LockIsOwned'
  <2>1. SUFFICES ASSUME crashes' = 0 PROVE LockIsOwned'
    BY DEF LockIsOwned
  <2>2. crashes = 0 /\ clock' = clock /\ clock \in Nat
    BY <2>1 DEF World, AuthInv, AuthTypeOK
  <2>3. \A d \in Callers : Busy(d)' => d = c
    BY <1>1, <2>2 DEF AuthInv, LockIsOwned, Busy
  <2>4. \A d \in Callers : caller'[d].phase = "clearing" => ~caller'[d].stale
    BY <1>1, <2>2 DEF AuthInv, LockIsOwned
  <2>5. Busy(c)' /\ caller'[c].since = clock
    BY <1>1 DEF Busy
  <2>6. clock' - lockFile'.at <= MaxExchange
    BY <1>2, <2>2, TimesAreNumbers
  <2> QED BY <1>2, <2>2, <2>3, <2>4, <2>5, <2>6 DEF LockIsOwned
<1> QED BY <1>1, <1>3, <1>4 DEF AuthInv

LEMMA BeginsKeeps == ASSUME AuthInv, NEW c \in Callers, NEW k \in BOOLEAN, Begins(c, k) PROVE AuthInv'
<1> DEFINE sleeps == [caller[c] EXCEPT !.phase = "sleeping"]
           exchanges == [caller[c] EXCEPT !.phase = "exchanging", !.since = clock]
           discovers == [caller[c] EXCEPT !.phase = "discovering", !.since = clock]
           gives == [caller[c] EXCEPT !.phase = "error"]
           known == [Auth(c) EXCEPT !.oauth = TRUE]
           left == [Auth(c) EXCEPT !.lock = None]
           Same(r) == r.bearer = caller[c].bearer /\ r.at = caller[c].at
<1>1. /\ sleeps \in Calling /\ Same(sleeps) /\ sleeps.phase = "sleeping"
      /\ gives \in Calling /\ Same(gives) /\ gives.phase = "error"
  BY DEF AuthInv, AuthTypeOK, Calling, Phases
<1>2. /\ exchanges \in Calling /\ Same(exchanges) /\ exchanges.phase = "exchanging" /\ exchanges.since = clock
      /\ discovers \in Calling /\ Same(discovers) /\ discovers.phase = "discovering" /\ discovers.since = clock
  BY DEF AuthInv, AuthTypeOK, Calling, Phases
<1>3. known \in Auths /\ left \in Auths
  BY AuthsAreKept DEF AuthInv, Auths
<1>4. /\ World /\ UNCHANGED tokenFile /\ ~Busy(c)
      /\ \/ SetCaller(c, sleeps) /\ UNCHANGED <<process, lockFile>>
         \/ /\ SetCaller(c, exchanges) /\ SetAuth(c, known)
            /\ lockFile = None /\ lockFile' = [by |-> c, at |-> clock]
         \/ /\ SetCaller(c, discovers) /\ UNCHANGED process
            /\ lockFile = None /\ lockFile' = [by |-> c, at |-> clock]
         \/ SetCaller(c, gives) /\ SetAuth(c, left) /\ UNCHANGED lockFile
  BY DEF Begins, AcquireLock, Leave, Busy
<1>5. process' \in [Processes -> Auths]
  BY <1>3, <1>4, AuthsAreKept DEF AuthInv, AuthTypeOK
<1> HIDE DEF sleeps, exchanges, discovers, gives, known, left
<1>6. CASE SetCaller(c, sleeps) /\ UNCHANGED <<process, lockFile>>
  BY <1>1, <1>4, <1>5, <1>6, WaitingKeeps DEF SetCaller
<1>7. CASE SetCaller(c, exchanges) /\ lockFile = None /\ lockFile' = [by |-> c, at |-> clock]
  BY <1>2, <1>4, <1>5, <1>7, TakingKeeps DEF SetCaller
<1>8. CASE SetCaller(c, discovers) /\ lockFile = None /\ lockFile' = [by |-> c, at |-> clock]
  BY <1>2, <1>4, <1>5, <1>8, TakingKeeps DEF SetCaller
<1>9. CASE SetCaller(c, gives) /\ UNCHANGED lockFile
  BY <1>1, <1>4, <1>5, <1>9, WaitingKeeps DEF SetCaller
<1> QED BY <1>4, <1>6, <1>7, <1>8, <1>9

\* Who drops the lock file dropped its own, so that no other exchange loses it.
LEMMA DroppingKeeps ==
    ASSUME AuthInv, NEW c \in Callers, Busy(c), lockFile' = None, World,
           caller' \in [Callers -> Calling],
           \A d \in Callers \ {c} : caller'[d] = caller[d],
           caller'[c].phase \in {"ready", "done", "error"},
           HandedOutIsFresh', tokenFile' \in Tokens \cup {None}, process' \in [Processes -> Auths]
    PROVE  AuthInv'
<1>1. AuthTypeOK'
  BY DEF AuthInv, AuthTypeOK, World
<1>2. LockIsOwned'
  <2>1. SUFFICES ASSUME crashes' = 0 PROVE LockIsOwned'
    BY DEF LockIsOwned
  <2>2. crashes = 0
    BY <2>1 DEF World
  <2>3. \A d \in Callers : ~Busy(d)'
    BY <2>2 DEF AuthInv, LockIsOwned, Busy
  <2>4. \A d \in Callers : caller'[d].phase = "clearing" => ~caller'[d].stale
    BY <2>2 DEF AuthInv, LockIsOwned
  <2> QED BY <2>3, <2>4 DEF LockIsOwned
<1> QED BY <1>1, <1>2 DEF AuthInv

LEMMA EndsKeeps == ASSUME AuthInv, NEW c \in Callers, NEW ok \in BOOLEAN, Ends(c, ok) PROVE AuthInv'
<1> DEFINE cli == caller[c].phase = "discovering"
           token == [cli |-> cli, exp |-> clock + Lifetime]
           a == [Auth(c) EXCEPT !.lock = None, !.override = @ \/ cli, !.token = token]
           left == [Auth(c) EXCEPT !.lock = None]
           r == [caller[c] EXCEPT !.phase = "error"]
<1>1. Auth(c) \in Auths /\ left \in Auths /\ AuthTypeOK /\ cli \in BOOLEAN
  BY AuthsAreKept DEF AuthInv, Auths
<1>2. token \in Tokens /\ token.exp > clock + Skew
  BY <1>1, TokenTimes, TimesAreNumbers DEF AuthTypeOK, Tokens
<1>3. r \in Calling /\ r.bearer = caller[c].bearer /\ r.at = caller[c].at /\ r.phase = "error"
  BY <1>1 DEF AuthTypeOK, Calling, Phases
<1>4. /\ Busy(c) /\ lockFile' = None /\ World
      /\ \/ SetAuth(c, a) /\ Got(c, a) /\ tokenFile' \in {tokenFile, a.token}
         \/ SetAuth(c, left) /\ UNCHANGED tokenFile /\ SetCaller(c, r)
  BY DEF Ends, Busy, Leave
<1> HIDE DEF cli, token
<1>5. a \in Auths /\ a.token = token
  BY <1>1, <1>2 DEF Auths
<1>6. TokenValid(a.token)
  BY <1>2, <1>5, NoneIsNothing DEF TokenValid
<1>7. process' \in [Processes -> Auths]
  BY <1>1, <1>4, <1>5, AuthsAreKept
<1> HIDE DEF a, left, r
<1>8. CASE Got(c, a) /\ tokenFile' \in {tokenFile, a.token}
  <2>1. /\ caller' \in [Callers -> Calling]
        /\ \A d \in Callers \ {c} : caller'[d] = caller[d]
        /\ caller'[c].phase \in {"ready", "done"}
        /\ HandedOutIsFresh'
    BY <1>5, <1>6, <1>8, GotKeeps
  <2>2. tokenFile' \in Tokens \cup {None}
    BY <1>1, <1>2, <1>5, <1>8 DEF AuthTypeOK
  <2> QED BY <1>4, <1>7, <2>1, <2>2, DroppingKeeps
<1>9. CASE SetCaller(c, r) /\ UNCHANGED tokenFile
  <2>1. caller' = [caller EXCEPT ![c] = r]
    BY <1>9 DEF SetCaller
  <2>2. /\ caller' \in [Callers -> Calling] /\ caller'[c] = r
        /\ \A d \in Callers \ {c} : caller'[d] = caller[d]
        /\ HandedOutIsFresh'
    BY <1>3, <2>1, MovesOn DEF AuthInv, AuthTypeOK
  <2>3. tokenFile' \in Tokens \cup {None}
    BY <1>1, <1>9 DEF AuthTypeOK
  <2> QED BY <1>3, <1>4, <1>7, <2>2, <2>3, DroppingKeeps
<1> QED BY <1>4, <1>8, <1>9

\* The clock does not pass the end of an exchange.
LEMMA PassesKeeps == ASSUME AuthInv, Passes PROVE AuthInv'
<1>1. clock \in Nat /\ clock' = clock + 1 /\ UNCHANGED <<hosts, process, caller, tokenFile, lockFile, crashes>>
  BY DEF AuthInv, AuthTypeOK, Passes
<1>2. AuthTypeOK' /\ HandedOutIsFresh'
  BY <1>1 DEF AuthInv, AuthTypeOK, HandedOutIsFresh
<1>3. \A c \in Callers : Busy(c) <=> Busy(c)'
  BY <1>1 DEF Busy
<1>4. crashes = 0 /\ lockFile # None => clock' - lockFile.at <= MaxExchange
  BY <1>1, TimesAreNumbers DEF AuthInv, AuthTypeOK, LockIsOwned, Passes, Locks, Calling
<1>5. LockIsOwned'
  BY <1>1, <1>3, <1>4 DEF AuthInv, LockIsOwned
<1> QED BY <1>2, <1>5 DEF AuthInv

\* A crash ends what the lock file promises, and no bearer is handed out by it.
LEMMA CrashKeeps == ASSUME AuthInv, NEW p \in Processes, Crash(p) PROVE AuthInv'
<1> DEFINE Died(c) == [caller[c] EXCEPT !.phase = "error", !.bearer = None, !.base = None]
<1>1. \A c \in Callers : Died(c) \in Calling /\ Died(c).bearer = None
  BY ZenonT(40) DEF AuthInv, AuthTypeOK, Calling, Phases
<1>2. /\ caller' = [c \in Callers |-> IF caller[c].home # p THEN caller[c] ELSE Died(c)]
      /\ process' = [process EXCEPT ![p] = Fresh] /\ crashes' = crashes + 1
      /\ UNCHANGED <<clock, hosts, tokenFile, lockFile>>
  BY DEF Crash
<1>3. Fresh \in Auths
  BY DEF Fresh, Auths
<1> HIDE DEF Died
<1>4. AuthTypeOK'
  BY <1>1, <1>2, <1>3 DEF AuthInv, AuthTypeOK
<1>5. HandedOutIsFresh'
  BY <1>1, <1>2 DEF AuthInv, HandedOutIsFresh
<1>6. crashes' # 0
  BY <1>2 DEF AuthInv, AuthTypeOK
<1> QED BY <1>4, <1>5, <1>6 DEF AuthInv, LockIsOwned

LEMMA LoginFlipsKeeps == ASSUME AuthInv, LoginFlips \/ UNCHANGED authVars PROVE AuthInv'
<1>1. hosts' \in BOOLEAN /\ UNCHANGED <<clock, process, caller, tokenFile, lockFile, crashes>>
  BY DEF LoginFlips, authVars, AuthInv, AuthTypeOK
<1> QED BY <1>1 DEF AuthInv, AuthTypeOK, HandedOutIsFresh, LockIsOwned, Busy

LEMMA InitKeeps == AuthInit => AuthInv
<1> SUFFICES ASSUME AuthInit PROVE AuthInv
  OBVIOUS
<1>1. PICK home \in [Callers -> Processes] :
        caller = [c \in Callers |-> [home |-> home[c], calls |-> 0, phase |-> "idle", wants |-> "bearer",
                                     bearer |-> None, at |-> 0, base |-> None, stale |-> FALSE, since |-> 0]]
  BY DEF AuthInit
<1>2. /\ caller \in [Callers -> Calling]
      /\ \A c \in Callers : caller[c].bearer = None /\ caller[c].phase = "idle"
  BY <1>1 DEF Calling, Phases
<1>3. AuthTypeOK
  <2>1. Fresh \in Auths
    BY DEF Fresh, Auths
  <2>2. clock \in Nat /\ hosts \in BOOLEAN /\ crashes \in Nat /\ process \in [Processes -> Auths]
    BY <2>1 DEF AuthInit
  <2>3. tokenFile \in Tokens \cup {None}
    <3>1. [cli |-> FALSE, exp |-> Lifetime] \in Tokens
      BY TimesAreNumbers DEF Tokens
    <3> QED BY <3>1 DEF AuthInit
  <2>4. lockFile \in Locks \cup {None}
    <3>1. [by |-> None, at |-> 0] \in Locks
      BY DEF Locks
    <3> QED BY <3>1 DEF AuthInit
  <2> QED BY <1>2, <2>2, <2>3, <2>4 DEF AuthTypeOK
<1>4. HandedOutIsFresh
  BY <1>2 DEF HandedOutIsFresh
<1>5. LockIsOwned
  BY <1>2 DEF AuthInit, LockIsOwned, Busy
<1> QED BY <1>3, <1>4, <1>5 DEF AuthInv

\* Whatever callers, processes and clocks do, a bearer that is handed out has more
\* than the skew left, and while no process died one exchange runs at a time.
THEOREM TokensAreShared == AuthSpec => []TokensAreSound
<1>1. AuthInv /\ [AuthNext]_authVars => AuthInv'
  <2> SUFFICES ASSUME AuthInv, [AuthNext]_authVars
               PROVE  AuthInv'
    OBVIOUS
  <2>1. ASSUME NEW c \in Callers, Calls(c) PROVE AuthInv'
    BY <2>1, CallsKeeps
  <2>2. ASSUME NEW c \in Callers, CallerStep(c) PROVE AuthInv'
    BY <2>2, EnsureKeeps, EnterKeeps, ClearStaleLockKeeps, WakesKeeps, BeginsKeeps, EndsKeeps DEF CallerStep
  <2>3. ASSUME NEW p \in Processes, Crash(p) PROVE AuthInv'
    BY <2>3, CrashKeeps
  <2> QED BY <2>1, <2>2, <2>3, PassesKeeps, LoginFlipsKeeps DEF AuthNext
<1>2. AuthInv => TokensAreSound
  BY DEF AuthInv, LockIsOwned, TokensAreSound, RefreshesDoNotRace
<1> QED BY InitKeeps, <1>1, <1>2, PTL DEF AuthSpec

(***************************************************************************)
(* The logins of codex and claude, and kimi's refresh: for any number of   *)
(* requests, and tokens without a bound.                                   *)
(***************************************************************************)

\* What the gate found when it last looked is what it passes on, unless it raced.
GateKnows ==
    /\ gate.phase \in {"checked", "rechecked", "passed"} /\ gate.user # "openai" =>
           gate.checked \in {"live", "unobservable"}
    /\ gate.phase = "rechecked" => gate.user # "openai" /\ (~gate.raced => Authenticated(gate.user))
    /\ gate.phase \in {"idle", "checked", "rechecked"} => gate.sent = None
    /\ gate.phase = "passed" /\ ~gate.raced => gate.sent \in {None, "key", "live", "unobservable"}
    /\ gate.user \in Users
    /\ gate = [user |-> gate.user, phase |-> gate.phase, checked |-> gate.checked,
               sent |-> gate.sent, raced |-> gate.raced]

RequestPhases == {"idle", "queued", "login", "refreshing", "sending", "refused", "answered", "error"}
Records == [phase : RequestPhases, attempt : {0, 1}, seen : Logins \cup {None}, token : Nat \cup {None}]

\* The artifact's refresh token is one that the provider has not taken.
TokensOK ==
    /\ artifact \in Logins \cup {None}
    /\ issuedTokens \in Nat /\ \A u \in usedRefresh : u \in Nat /\ u <= issuedTokens
    /\ HasRefresh(artifact) => artifact.refresh \notin usedRefresh /\ artifact.refresh <= issuedTokens

\* One request at a time refreshes, with a refresh token that was not taken.
RequestOK(r) ==
    /\ kimi[r].phase = "queued" => artifact # None
    /\ kimi[r].phase = "refreshing" =>
          /\ refreshLock = r /\ HasRefresh(kimi[r].seen)
          /\ kimi[r].seen.refresh \notin usedRefresh /\ kimi[r].seen.refresh <= issuedTokens

RefreshIsOwned == kimi \in [Requests -> Records] /\ TokensOK /\ \A r \in Requests : RequestOK(r)

\* No step of the gate lets an expired login through.
LEMMA SourcesKeep ==
    ASSUME GateKnows, SourcesNext \/ UNCHANGED gateVars
    PROVE  GateKnows'
<1> DEFINE Is(phase, checked, sent, raced) ==
             gate' = [user |-> gate.user, phase |-> phase, checked |-> checked, sent |-> sent, raced |-> raced]
<1>0. gate = [user |-> gate.user, phase |-> gate.phase, checked |-> gate.checked,
              sent |-> gate.sent, raced |-> gate.raced]
  BY DEF GateKnows
<1>1. CASE Checks
  <2> DEFINE found == LoadArtifact(gate.user)
  <2>1. gate.phase = "idle" /\ gate.sent = None /\ gate.user \in Users
    BY <1>1 DEF Checks, GateKnows
  <2>2. \/ Is("denied", found, gate.sent, gate.raced)
        \/ Is("passed", found, gate.sent, gate.raced) /\ gate.user = "claude" /\ Authenticated(gate.user)
        \/ Is("checked", found, gate.sent, gate.raced) /\ gate.user # "claude"
              /\ (gate.user # "openai" => Authenticated(gate.user))
    BY <1>0, <1>1 DEF Checks
  <2> QED BY <2>1, <2>2 DEF GateKnows, Authenticated
<1>2. CASE Rechecks
  <2> DEFINE found == LoadArtifact(gate.user)
  <2>1. gate.phase = "checked" /\ gate.sent = None /\ gate.user \in Users
    BY <1>2 DEF Rechecks, GateKnows
  <2>2. UNCHANGED <<keychain, file>>
    BY <1>2 DEF Rechecks
  <2>3. Authenticated(gate.user)' => gate'.user # gate.user \/ Authenticated(gate.user)
    BY <2>2 DEF Authenticated, LoadArtifact, HasBundle
  <2>4. CASE gate.user = "openai"
    <3>1. PICK sent \in {None, "key"} : Is("error", gate.checked, sent, gate.raced) \/ Is("passed", gate.checked, sent, gate.raced)
      BY <1>0, <1>2, <2>4 DEF Rechecks, KeyOrError
    <3> QED BY <2>1, <2>4, <3>1 DEF GateKnows
  <2>5. CASE gate.user # "openai"
    <3>1. \/ Is("rechecked", found, None, FALSE) /\ Authenticated(gate.user)
          \/ Is("error", found, None, FALSE)
      BY <1>0, <1>2, <2>1, <2>5 DEF Rechecks
    <3>2. Authenticated(gate.user) => LoadArtifact(gate.user)' \in {"live", "unobservable"} \/ gate'.user # gate.user
      BY <2>2 DEF Authenticated, LoadArtifact, HasBundle
    <3> QED BY <2>1, <2>5, <3>1, <3>2 DEF GateKnows, Authenticated
  <2> QED BY <2>4, <2>5
<1>3. CASE Reads
  <2> DEFINE found == LoadArtifact(gate.user)
  <2>1. gate.phase = "rechecked" /\ gate.user \in Users /\ gate.user # "openai"
        /\ gate.checked \in {"live", "unobservable"}
        /\ (~gate.raced => found \in {"live", "unobservable"})
    BY <1>3 DEF Reads, GateKnows, Authenticated
  <2>2. \/ Is("error", gate.checked, gate.sent, gate.raced)
        \/ Is("passed", gate.checked, found, gate.raced)
    BY <1>0, <1>3 DEF Reads
  <2> QED BY <2>1, <2>2 DEF GateKnows
<1>4. CASE SourceChanges
  <2>1. Is(gate.phase, gate.checked, gate.sent, gate.raced \/ gate.phase \in {"checked", "rechecked"})
    BY <1>0, <1>4 DEF SourceChanges
  <2>2. /\ gate'.user = gate.user /\ gate'.phase = gate.phase /\ gate'.checked = gate.checked /\ gate'.sent = gate.sent
        /\ gate'.raced = (gate.raced \/ gate.phase \in {"checked", "rechecked"})
        /\ gate' = [user |-> gate'.user, phase |-> gate'.phase, checked |-> gate'.checked,
                    sent |-> gate'.sent, raced |-> gate'.raced]
    BY <2>1
  <2>3. ~gate'.raced => ~gate.raced /\ gate.phase \notin {"checked", "rechecked"}
    BY <2>2
  <2> QED BY <2>2, <2>3 DEF GateKnows
<1>5. CASE UNCHANGED <<keychain, file, gate>>
  BY <1>5 DEF GateKnows, Authenticated, LoadArtifact, HasBundle
<1> QED BY <1>1, <1>2, <1>3, <1>4, <1>5 DEF SourcesNext, gateVars, sourceVars

\* A request that moves on is the only one that does.
LEMMA KimiSets ==
    ASSUME kimi \in [Requests -> Records], NEW r \in Requests, NEW v \in Records, SetKimi(r, v)
    PROVE  /\ kimi' \in [Requests -> Records]
           /\ kimi'[r] = v /\ \A s \in Requests \ {r} : kimi'[s] = kimi[s]
BY DEF SetKimi

\* A request that moves on without refreshing, and leaves the tokens alone.
LEMMA RequestMoves ==
    ASSUME RefreshIsOwned, NEW r \in Requests, NEW v \in Records, SetKimi(r, v),
           v.phase \notin {"refreshing"}, v.phase = "queued" => artifact # None,
           UNCHANGED <<artifact, usedRefresh, issuedTokens>>,
           refreshLock' = refreshLock \/ refreshLock = r
    PROVE  RefreshIsOwned'
<1>1. /\ kimi' \in [Requests -> Records]
      /\ kimi'[r] = v /\ \A s \in Requests \ {r} : kimi'[s] = kimi[s]
  BY KimiSets DEF RefreshIsOwned
<1>2. TokensOK'
  BY DEF RefreshIsOwned, TokensOK
<1>3. RequestOK(r)'
  BY <1>1 DEF RequestOK
<1>4. ASSUME NEW s \in Requests \ {r} PROVE RequestOK(s)'
  BY <1>1 DEF RefreshIsOwned, RequestOK
<1> QED BY <1>1, <1>2, <1>3, <1>4 DEF RefreshIsOwned

\* A new login comes in, with tokens that nobody has seen.
LEMMA LoginComes ==
    ASSUME RefreshIsOwned, NEW r \in Requests, NEW v \in Records, SetKimi(r, v), v.phase = "sending",
           artifact' = [access |-> issuedTokens + 1, refresh |-> issuedTokens + 1, fresh |-> TRUE],
           issuedTokens' = issuedTokens + 1,
           \/ UNCHANGED <<usedRefresh, refreshLock>>
           \/ kimi[r].phase = "refreshing" /\ usedRefresh' = usedRefresh \cup {kimi[r].seen.refresh}
    PROVE  RefreshIsOwned'
<1>1. /\ kimi' \in [Requests -> Records]
      /\ kimi'[r] = v /\ \A s \in Requests \ {r} : kimi'[s] = kimi[s]
  BY KimiSets DEF RefreshIsOwned
<1>2. /\ issuedTokens \in Nat /\ \A u \in usedRefresh' : u \in Nat /\ u <= issuedTokens
  BY DEF RefreshIsOwned, TokensOK, RequestOK, Records, Logins, HasRefresh
<1>3. artifact' \in Logins /\ artifact'.refresh = issuedTokens + 1 /\ TokensOK'
  <2>1. artifact' \in Logins /\ artifact'.refresh = issuedTokens + 1
    BY <1>2 DEF Logins
  <2> QED BY <1>2, <2>1 DEF TokensOK
<1>4. artifact' # None
  BY <1>3, RequestsOK
<1>5. ASSUME NEW s \in Requests PROVE RequestOK(s)'
  <2>1. CASE s = r
    BY <1>1, <2>1 DEF RequestOK
  <2>2. CASE s # r /\ kimi[s].phase = "refreshing"
    <3>1. kimi[r].phase # "refreshing"
      BY <2>2 DEF RefreshIsOwned, RequestOK
    <3> QED BY <1>1, <1>2, <2>2, <3>1 DEF RefreshIsOwned, RequestOK, HasRefresh, Records, Logins
  <2>3. CASE s # r /\ kimi[s].phase # "refreshing"
    BY <1>1, <1>4, <2>3 DEF RequestOK
  <2> QED BY <2>1, <2>2, <2>3
<1> QED BY <1>1, <1>3, <1>5 DEF RefreshIsOwned

\* What a request falls back to is not a refresh.
LEMMA FallbackIs ==
    ASSUME NEW r \in Requests, NEW v \in Records
    PROVE  Fallback(r, v) \in Records /\ Fallback(r, v).phase \in {"sending", "login", "error"}
<1>1. \A p \in RequestPhases : [v EXCEPT !.phase = p] \in Records /\ [v EXCEPT !.phase = p].phase = p
  BY DEF Records
<1>2. [v EXCEPT !.phase = "sending", !.token = 0] \in Records /\ [v EXCEPT !.phase = "sending", !.token = 0].phase = "sending"
  BY DEF Records, RequestPhases
<1> QED BY <1>1, <1>2 DEF Fallback, EnvToken, RequestPhases

\* A request that is as before but for some of its fields.
LEMMA Variants ==
    ASSUME NEW v \in Records
    PROVE  /\ \A p \in RequestPhases : [v EXCEPT !.phase = p] \in Records /\ [v EXCEPT !.phase = p].phase = p
           /\ \A n \in Nat : /\ [v EXCEPT !.phase = "sending", !.token = n] \in Records
                             /\ [v EXCEPT !.phase = "sending", !.token = n].phase = "sending"
<1>1. \A p \in RequestPhases : [v EXCEPT !.phase = p] \in Records /\ [v EXCEPT !.phase = p].phase = p
  BY DEF Records
<1>2. ASSUME NEW n \in Nat
      PROVE  /\ [v EXCEPT !.phase = "sending", !.token = n] \in Records
             /\ [v EXCEPT !.phase = "sending", !.token = n].phase = "sending"
  BY DEF Records, RequestPhases
<1> QED BY <1>1, <1>2

\* No request refreshes what another one has refreshed.
LEMMA KimiKeep ==
    ASSUME RefreshIsOwned, KimiNext \/ UNCHANGED gateVars
    PROVE  RefreshIsOwned'
<1>1. ASSUME NEW r \in Requests, Resolves(r) PROVE RefreshIsOwned'
  <2>1. UNCHANGED <<artifact, refreshLock, usedRefresh, issuedTokens>>
    BY <1>1 DEF Resolves, Provider
  <2> DEFINE force == kimi[r].phase = "refused"
             v == [kimi[r] EXCEPT !.attempt = IF force THEN 1 ELSE 0, !.seen = artifact, !.token = None]
  <2>2. v \in Records
    BY DEF Records, RefreshIsOwned, TokensOK
  <2>3. \/ SetKimi(r, [v EXCEPT !.phase = "queued"]) /\ artifact # None
        \/ HasFresh(artifact) /\ SetKimi(r, [v EXCEPT !.phase = "sending", !.token = artifact.access])
        \/ SetKimi(r, Fallback(r, v))
    BY <1>1 DEF Resolves
  <2>4. HasFresh(artifact) => artifact.access \in Nat
    BY DEF HasFresh, Logins, RefreshIsOwned, TokensOK
  <2> HIDE DEF v, force
  <2>5. CASE SetKimi(r, [v EXCEPT !.phase = "queued"]) /\ artifact # None
    BY <2>1, <2>2, <2>5, Variants, RequestMoves DEF RequestPhases
  <2>6. CASE HasFresh(artifact) /\ SetKimi(r, [v EXCEPT !.phase = "sending", !.token = artifact.access])
    BY <2>1, <2>2, <2>4, <2>6, Variants, RequestMoves DEF RequestPhases
  <2>7. CASE SetKimi(r, Fallback(r, v))
    BY <2>1, <2>2, <2>7, FallbackIs, RequestMoves
  <2> QED BY <2>3, <2>5, <2>6, <2>7
<1>2. ASSUME NEW r \in Requests, LockedRefresh(r) PROVE RefreshIsOwned'
  <2>1. /\ UNCHANGED <<artifact, usedRefresh, issuedTokens>> /\ kimi[r].phase = "queued" /\ refreshLock = None
        /\ artifact # None /\ Latest(r) = artifact /\ artifact \in Logins /\ kimi[r] \in Records
    BY <1>2 DEF LockedRefresh, Provider, Latest, RefreshIsOwned, TokensOK, RequestOK
  <2> DEFINE w == [kimi[r] EXCEPT !.phase = "refreshing", !.seen = artifact]
  <2>2. \/ /\ Rotated(r, artifact) \/ HasFresh(artifact)
           /\ SetKimi(r, [kimi[r] EXCEPT !.phase = "sending", !.token = artifact.access]) /\ UNCHANGED refreshLock
        \/ HasRefresh(artifact) /\ SetKimi(r, w) /\ refreshLock' = r
        \/ SetKimi(r, [kimi[r] EXCEPT !.phase = "error"]) /\ UNCHANGED refreshLock
        \/ SetKimi(r, Fallback(r, kimi[r])) /\ UNCHANGED refreshLock
    BY <1>2, <2>1 DEF LockedRefresh
  <2>3. CASE /\ Rotated(r, artifact) \/ HasFresh(artifact)
             /\ SetKimi(r, [kimi[r] EXCEPT !.phase = "sending", !.token = artifact.access]) /\ UNCHANGED refreshLock
    <3>1. artifact.access \in Nat
      BY <2>1, <2>3 DEF Rotated, HasFresh, Logins
    <3> QED BY <2>1, <2>3, <3>1, Variants, RequestMoves DEF RequestPhases
  <2>4. CASE SetKimi(r, [kimi[r] EXCEPT !.phase = "error"]) /\ UNCHANGED refreshLock
    BY <2>1, <2>4, Variants, RequestMoves DEF RequestPhases
  <2>5. CASE SetKimi(r, Fallback(r, kimi[r])) /\ UNCHANGED refreshLock
    BY <2>1, <2>5, FallbackIs, RequestMoves
  <2>6. CASE HasRefresh(artifact) /\ SetKimi(r, w) /\ refreshLock' = r
    <3>1. w \in Records /\ w.seen = artifact /\ w.phase = "refreshing"
      BY <2>1 DEF Records, RequestPhases
    <3> HIDE DEF w
    <3>2. /\ kimi' \in [Requests -> Records]
          /\ kimi'[r] = w /\ \A s \in Requests \ {r} : kimi'[s] = kimi[s]
      BY <2>6, <3>1, KimiSets DEF RefreshIsOwned
    <3>3. \A s \in Requests : kimi[s].phase # "refreshing"
      BY <2>1, RequestsOK DEF RefreshIsOwned, RequestOK
    <3>4. TokensOK'
      BY <2>1 DEF RefreshIsOwned, TokensOK
    <3>5. RequestOK(r)'
      BY <2>1, <2>6, <3>1, <3>2 DEF RequestOK, RefreshIsOwned, TokensOK
    <3>6. ASSUME NEW s \in Requests \ {r} PROVE RequestOK(s)'
      BY <2>1, <3>2, <3>3 DEF RequestOK
    <3> QED BY <3>2, <3>4, <3>5, <3>6 DEF RefreshIsOwned
  <2> QED BY <2>2, <2>3, <2>4, <2>5, <2>6
<1>3. ASSUME NEW r \in Requests, NEW ok \in BOOLEAN, Refreshes(r, ok) PROVE RefreshIsOwned'
  <2>1. kimi[r].phase = "refreshing" /\ refreshLock = r /\ kimi[r] \in Records /\ issuedTokens + 1 \in Nat
    BY <1>3 DEF Refreshes, RefreshIsOwned, RequestOK, TokensOK
  <2>2. CASE /\ artifact' = [access |-> issuedTokens + 1, refresh |-> issuedTokens + 1, fresh |-> TRUE]
             /\ issuedTokens' = issuedTokens + 1
             /\ usedRefresh' = usedRefresh \cup {kimi[r].seen.refresh}
             /\ SetKimi(r, [kimi[r] EXCEPT !.phase = "sending", !.token = issuedTokens + 1])
    BY <2>1, <2>2, Variants, LoginComes DEF RequestPhases
  <2>3. CASE SetKimi(r, [kimi[r] EXCEPT !.phase = "error"]) /\ UNCHANGED <<artifact, usedRefresh, issuedTokens>>
    BY <2>1, <2>3, Variants, RequestMoves DEF RequestPhases
  <2> QED BY <1>3, <2>2, <2>3 DEF Refreshes, Provider
<1>4. ASSUME NEW r \in Requests, Sends(r) PROVE RefreshIsOwned'
  <2>1. /\ UNCHANGED <<artifact, refreshLock, usedRefresh, issuedTokens>> /\ kimi[r] \in Records
        /\ \E p \in {"answered", "refused", "error"} : SetKimi(r, [kimi[r] EXCEPT !.phase = p])
    BY <1>4 DEF Sends, Provider, RefreshIsOwned
  <2> QED BY <2>1, Variants, RequestMoves DEF RequestPhases
<1>5. ASSUME NEW r \in Requests, NEW ok \in BOOLEAN, LoginEnds(r, ok) PROVE RefreshIsOwned'
  <2>1. kimi[r].phase = "login" /\ kimi[r] \in Records /\ issuedTokens + 1 \in Nat /\ UNCHANGED <<refreshLock, usedRefresh>>
    BY <1>5 DEF LoginEnds, RefreshIsOwned, TokensOK
  <2>2. CASE /\ artifact' = [access |-> issuedTokens + 1, refresh |-> issuedTokens + 1, fresh |-> TRUE]
             /\ issuedTokens' = issuedTokens + 1
             /\ SetKimi(r, [kimi[r] EXCEPT !.phase = "sending", !.token = issuedTokens + 1])
    BY <2>1, <2>2, Variants, LoginComes DEF RequestPhases
  <2>3. CASE SetKimi(r, [kimi[r] EXCEPT !.phase = "error"]) /\ UNCHANGED <<artifact, issuedTokens>>
    BY <2>1, <2>3, Variants, RequestMoves DEF RequestPhases
  <2> QED BY <1>5, <2>2, <2>3 DEF LoginEnds
<1>6. CASE Expires
  <2>1. /\ artifact \in Logins /\ artifact' = [artifact EXCEPT !.fresh = FALSE]
        /\ UNCHANGED <<kimi, refreshLock, usedRefresh, issuedTokens>>
    BY <1>6 DEF Expires, Provider, RefreshIsOwned, TokensOK
  <2>2. artifact' \in Logins /\ artifact'.refresh = artifact.refresh
    BY <2>1 DEF Logins
  <2>3. TokensOK'
    BY <1>6, <2>1, <2>2 DEF RefreshIsOwned, TokensOK, HasRefresh, Expires
  <2>4. artifact' # None
    BY <2>2, RequestsOK
  <2> QED BY <2>1, <2>3, <2>4 DEF RefreshIsOwned, RequestOK
<1>7. CASE UNCHANGED <<artifact, kimi, refreshLock, usedRefresh, issuedTokens>>
  BY <1>7 DEF RefreshIsOwned, TokensOK, RequestOK
<1> QED BY <1>1, <1>2, <1>3, <1>4, <1>5, <1>6, <1>7 DEF KimiNext, KimiStep, TakesBack, gateVars, kimiVars

\* No login is used when it is known to be over: no access token past its expiry, no
\* refresh token of kimi past its use (oauth_artifact.py, kimi.py,
\* _resolve_bearer_token_once), for any number of requests.
THEOREM LoginsStaySound == GateSpec => []LoginsAreSound
<1>1. SourcesInit /\ KimiInit => GateKnows /\ RefreshIsOwned
  <2>1. SourcesInit => GateKnows
    BY DEF SourcesInit, GateKnows, NoGate, Users
  <2>2. ASSUME KimiInit PROVE RefreshIsOwned
    <3>1. artifact \in Logins \cup {None} /\ issuedTokens = 1 /\ usedRefresh = {}
          /\ (HasRefresh(artifact) => artifact.refresh = 1)
      BY <2>2 DEF KimiInit, Logins, HasRefresh
    <3>2. kimi \in [Requests -> Records] /\ \A r \in Requests : kimi[r].phase = "idle"
      BY <2>2 DEF KimiInit, Records, RequestPhases
    <3> QED BY <3>1, <3>2 DEF RefreshIsOwned, TokensOK, RequestOK
  <2> QED BY <2>1, <2>2
<1>2. GateKnows /\ RefreshIsOwned /\ [SourcesNext \/ KimiNext]_gateVars => (GateKnows /\ RefreshIsOwned)'
  <2> SUFFICES ASSUME GateKnows, RefreshIsOwned, [SourcesNext \/ KimiNext]_gateVars
               PROVE  GateKnows' /\ RefreshIsOwned'
    OBVIOUS
  <2>1. CASE SourcesNext
    <3>1. UNCHANGED kimiVars
      BY <2>1 DEF SourcesNext, Checks, Rechecks, Reads, SourceChanges
    <3>2. RefreshIsOwned'
      BY <3>1 DEF kimiVars, RefreshIsOwned, TokensOK, RequestOK, HasRefresh
    <3> QED BY <2>1, <3>2, SourcesKeep
  <2>2. CASE KimiNext
    <3>1. UNCHANGED <<keychain, file, gate>>
      BY <2>2 DEF KimiNext, KimiStep, Resolves, LockedRefresh, Sends, Refreshes, LoginEnds, Expires, TakesBack,
         OtherSources, sourceVars
    <3>2. GateKnows'
      BY <3>1 DEF GateKnows, Authenticated, LoadArtifact, HasBundle
    <3> QED BY <2>2, <3>2, KimiKeep
  <2>3. CASE UNCHANGED gateVars
    BY <2>3, SourcesKeep, KimiKeep
  <2> QED BY <2>1, <2>2, <2>3
<1>3. GateKnows /\ RefreshIsOwned => LoginsAreSound
  BY DEF GateKnows, RefreshIsOwned, RequestOK, LoginsAreSound, ExpiredIsNotSent, SpentRefreshIsNotSent
<1> QED BY <1>1, <1>2, <1>3, PTL DEF GateSpec
==============================================================================
