----------------------------- MODULE DataLemmas ------------------------------
(***************************************************************************)
(* Lemmas about data that the proofs of several modules need: least        *)
(* members of sets of naturals and of families of finite sets, which the   *)
(* inductions over data rest on, lists that are put together, and folds.   *)
(***************************************************************************)
EXTENDS Integers, FiniteSets, SequencesExt, Places, FiniteSetTheorems, WellFoundedInduction, TLAPS

-----------------------------------------------------------------------------
(* Numbers and finite sets.                                                *)

\* Every set of naturals has a least member: of its initial parts, which are
\* finite, one has no other for a subset.
LEMMA HasLeast ==
    ASSUME NEW T \in SUBSET Nat, T # {}
    PROVE  \E m \in T : \A k \in T : m <= k
<1> DEFINE Upto(n) == {k \in T : k <= n}
           parts == {Upto(n) : n \in T}
<1>1. parts \subseteq FiniteSubsetsOf(Nat) /\ parts # {}
  <2>1. ASSUME NEW n \in T PROVE IsFiniteSet(Upto(n))
    BY FS_BoundedSetOfNaturals
  <2> QED BY <2>1 DEF FiniteSubsetsOf
<1>2. IsWellFoundedOn(StrictSubsetOrdering(Nat), FiniteSubsetsOf(Nat))
  BY FS_StrictSubsetOrderingWellFounded
<1>3. PICK m \in T : \A k \in T : ~ (<<Upto(k), Upto(m)>> \in StrictSubsetOrdering(Nat))
  <2>1. PICK x \in parts : \A y \in parts : ~ (<<y, x>> \in StrictSubsetOrdering(Nat))
    <3> HIDE DEF parts
    <3> QED BY <1>1, <1>2, WFMin
  <2>2. x \in parts
    BY <2>1
  <2>3. PICK m \in T : x = Upto(m)
    BY <2>2
  <2>4. ASSUME NEW k \in T PROVE ~ (<<Upto(k), Upto(m)>> \in StrictSubsetOrdering(Nat))
    <3>1. Upto(k) \in parts
      OBVIOUS
    <3> HIDE DEF parts, Upto
    <3> QED BY <2>1, <2>3, <3>1
  <2> HIDE DEF Upto
  <2> QED BY <2>4
<1>4. ASSUME NEW k \in T, k < m PROVE FALSE
  <2> m \in Nat /\ k \in Nat
    OBVIOUS
  <2>0. \A j \in T : j <= k => j <= m
    BY <1>4
  <2>1. Upto(k) \subseteq Upto(m)
    BY <2>0
  <2>2. m \in Upto(m)
    OBVIOUS
  <2>3. m \notin Upto(k)
    BY <1>4
  <2> QED BY <2>1, <2>2, <2>3, <1>3 DEF StrictSubsetOrdering
<1> QED BY <1>4

\* A set of naturals that has a bound has a greatest member.
LEMMA HasGreatest ==
    ASSUME NEW n \in Nat, NEW T \in SUBSET (0..n), T # {}
    PROVE  \E m \in T : \A k \in T : m >= k
<1> DEFINE U == {n - k : k \in T}
<1>1. U \in SUBSET Nat /\ U # {}
  <2>1. \A k \in T : k \in Int /\ n - k \in Nat
    OBVIOUS
  <2> QED BY <2>1
<1>2. \E m \in U : \A k \in U : m <= k
  <2> HIDE DEF U
  <2> QED BY <1>1, HasLeast
<1>3. PICK m \in T : \A j \in T : n - m <= n - j
  BY <1>2
<1>4. \A j \in T : m >= j
  BY <1>3
<1> QED BY <1>4

\* Induction over the naturals, for a set of them.
LEMMA SetInduction ==
    ASSUME NEW S, 0 \in S, \A n \in Nat : n \in S => n + 1 \in S
    PROVE  \A n \in Nat : n \in S
<1> SUFFICES ASSUME Nat \ S # {} PROVE FALSE
  OBVIOUS
<1>1. PICK m \in Nat \ S : \A k \in Nat \ S : m <= k
  <2> DEFINE T == Nat \ S
  <2>1. T \in SUBSET Nat /\ T # {}
    OBVIOUS
  <2> HIDE DEF T
  <2>2. \E m \in T : \A k \in T : m <= k
    BY <2>1, HasLeast
  <2> QED BY <2>2 DEF T
<1>2. m # 0 /\ m - 1 \in Nat
  BY <1>1
<1>3. m - 1 \in S
  BY <1>1, <1>2
<1>4. (m - 1) + 1 \in S
  BY <1>2, <1>3
<1> QED BY <1>1, <1>4

\* Of the subsets of a finite set, some have no other of them for a subset.
LEMMA LeastSubset ==
    ASSUME NEW S, IsFiniteSet(S), NEW bad \in SUBSET (SUBSET S), bad # {}
    PROVE  \E m \in bad : \A t \in bad : t \subseteq m => t = m
<1>1. bad \subseteq FiniteSubsetsOf(S)
  BY FS_Subset DEF FiniteSubsetsOf
<1>2. PICK m \in bad : \A t \in bad : ~ (<<t, m>> \in StrictSubsetOrdering(S))
  <2>1. IsWellFoundedOn(StrictSubsetOrdering(S), FiniteSubsetsOf(S))
    BY FS_StrictSubsetOrderingWellFounded
  <2> QED BY <1>1, <2>1, WFMin
<1> QED BY <1>2 DEF StrictSubsetOrdering

-----------------------------------------------------------------------------
(* A list with one more member at its end.                                 *)

Longer(s, x) == [i \in 1..(Len(s) + 1) |-> IF i = Len(s) + 1 THEN x ELSE s[i]]

LEMMA AppendIs ==
    ASSUME NEW S, NEW s, NEW x, s \in Seq(S), x \in S
    PROVE  Append(s, x) = Longer(s, x)
<1> DEFINE l == Append(s, x)
<1>1. DOMAIN l = 1..(Len(s) + 1) /\ Len(s) \in Nat /\ l \in Seq(S)
  OBVIOUS
<1>2. (\A i \in 1..Len(s) : l[i] = s[i]) /\ l[Len(s) + 1] = x
  OBVIOUS
<1>3. \A i \in 1..(Len(s) + 1) : i # Len(s) + 1 => i \in 1..Len(s)
  BY <1>1
<1> HIDE DEF l
<1>4. l = [i \in 1..(Len(s) + 1) |-> l[i]]
  BY <1>1
<1>5. \A i \in 1..(Len(s) + 1) : l[i] = IF i = Len(s) + 1 THEN x ELSE s[i]
  BY <1>2, <1>3
<1> QED BY <1>4, <1>5 DEF l, Longer

-----------------------------------------------------------------------------
(* Lists of lists, put together.                                           *)

\* f is how a list of sequences s is flattened, up to each of its first n.
Flattens(f, s, n) == f = [i \in 1..n |-> IF i = 1 THEN s[i] ELSE f[i - 1] \o s[i]]

\* Every list of sequences can be flattened so.
LEMMA FlattensExists ==
    ASSUME NEW s PROVE \A n \in Nat : \E f : Flattens(f, s, n)
<1> DEFINE S == {n \in Nat : \E f : Flattens(f, s, n)}
<1>1. 0 \in S
  <2> DEFINE f == [i \in 1..0 |-> <<>>]
  <2>1. Flattens(f, s, 0)
    BY DEF Flattens
  <2> QED BY <2>1
<1>2. ASSUME NEW n \in Nat, n \in S PROVE n + 1 \in S
  <2>1. PICK f : Flattens(f, s, n)
    BY <1>2
  <2> DEFINE g == [i \in 1..(n + 1) |-> IF i = n + 1 THEN (IF i = 1 THEN s[i] ELSE f[i - 1] \o s[i]) ELSE f[i]]
             h == [i \in 1..(n + 1) |-> IF i = 1 THEN s[i] ELSE g[i - 1] \o s[i]]
  <2>2. DOMAIN f = 1..n /\ \A i \in 1..n : f[i] = IF i = 1 THEN s[i] ELSE f[i - 1] \o s[i]
    BY <2>1 DEF Flattens
  <2>3. ASSUME NEW i \in 1..(n + 1) PROVE g[i] = h[i]
    <3>1. CASE i = 1
      <4>1. i = n + 1 \/ i \in 1..n
        BY <3>1
      <4>2. h[i] = s[i]
        BY <3>1
      <4> HIDE DEF h
      <4> QED BY <2>2, <3>1, <4>1, <4>2
    <3>2. CASE i # 1
      <4>1. i - 1 \in 1..n /\ i - 1 # n + 1 /\ i - 1 \in 1..(n + 1)
        BY <3>2
      <4>2. g[i - 1] = f[i - 1]
        BY <4>1
      <4>3. CASE i = n + 1
        BY <3>2, <4>2, <4>3
      <4>4. CASE i # n + 1
        <5>1. i \in 1..n
          BY <4>4
        <5> QED BY <2>2, <3>2, <4>2, <4>4, <5>1
      <4> QED BY <4>3, <4>4
    <3> QED BY <3>1, <3>2
  <2>4. g = h
    BY <2>3
  <2>5. Flattens(g, s, n + 1)
    <3> HIDE DEF g
    <3> QED BY <2>4 DEF Flattens
  <2> HIDE DEF g
  <2> QED BY <2>5
<1> HIDE DEF S
<1>3. \A n \in Nat : n \in S
  BY <1>1, <1>2, SetInduction
<1> QED BY <1>3 DEF S

Agree(s, t, n) == \A i \in 1..n : t[i] = s[i]

\* And it is only flattened so.
LEMMA FlattensSame ==
    ASSUME NEW s, NEW t, NEW n \in Nat, NEW f, NEW g, Flattens(f, s, n), Flattens(g, t, n + 1),
           Agree(s, t, n)
    PROVE  Agree(f, g, n)
<1> DEFINE S == {i \in Nat : i \in 1..n => f[i] = g[i]}
<1>1. /\ \A i \in 1..n : f[i] = IF i = 1 THEN s[i] ELSE f[i - 1] \o s[i]
      /\ \A i \in 1..(n + 1) : g[i] = IF i = 1 THEN t[i] ELSE g[i - 1] \o t[i]
      /\ \A i \in 1..n : t[i] = s[i]
  BY DEF Flattens, Agree
<1>2. 0 \in S
  OBVIOUS
<1>3. ASSUME NEW i \in Nat, i \in S PROVE i + 1 \in S
  <2> SUFFICES ASSUME i + 1 \in 1..n PROVE f[i + 1] = g[i + 1]
    OBVIOUS
  <2>1. i + 1 \in 1..(n + 1) /\ (i + 1) - 1 = i
    OBVIOUS
  <2>2. CASE i = 0
    BY <1>1, <2>1, <2>2
  <2>3. CASE i # 0
    <3>1. i \in 1..n /\ i + 1 # 1
      BY <2>3
    <3>2. f[i] = g[i]
      BY <1>3, <3>1
    <3> QED BY <1>1, <2>1, <3>1, <3>2
  <2> QED BY <2>2, <2>3
<1> HIDE DEF S
<1>4. \A i \in Nat : i \in S
  BY <1>2, <1>3, SetInduction
<1> QED BY <1>4 DEF S, Agree

\* Which is what FlattenSeq chooses.
LEMMA FlattenIs ==
    ASSUME NEW s, Len(s) \in Nat, Len(s) # 0
    PROVE  \E f : Flattens(f, s, Len(s)) /\ FlattenSeq(s) = f[Len(s)]
<1> DEFINE n == Len(s)
           F == CHOOSE f : f = [i \in 1..n |-> IF i = 1 THEN s[i] ELSE f[i - 1] \o s[i]]
<1>1. \E f : Flattens(f, s, n)
  BY FlattensExists
<1>2. F = [i \in 1..n |-> IF i = 1 THEN s[i] ELSE F[i - 1] \o s[i]]
  BY <1>1 DEF Flattens
<1>3. Flattens(F, s, n)
  BY <1>2 DEF Flattens
<1>4. FlattenSeq(s) = F[n]
  BY DEF FlattenSeq
<1> QED BY <1>3, <1>4

\* What is appended is flattened after the rest.
LEMMA FlattenAppend ==
    ASSUME NEW S, NEW s \in Seq(Seq(S)), NEW x \in Seq(S)
    PROVE  FlattenSeq(Append(s, x)) = FlattenSeq(s) \o x
<1> DEFINE r == Append(s, x)
           n == Len(s)
<1>1. n \in Nat /\ Len(r) = n + 1 /\ r[n + 1] = x /\ \A i \in 1..n : r[i] = s[i]
  OBVIOUS
<1> HIDE DEF r, n
<1>2. PICK g : Flattens(g, r, n + 1) /\ FlattenSeq(r) = g[n + 1]
  BY <1>1, FlattenIs
<1>3. \A i \in 1..(n + 1) : g[i] = IF i = 1 THEN r[i] ELSE g[i - 1] \o r[i]
  BY <1>2 DEF Flattens
<1>4. CASE n = 0
  <2>1. s = <<>> /\ FlattenSeq(s) = s
    BY <1>4 DEF FlattenSeq, n
  <2>2. g[1] = x
    BY <1>1, <1>3, <1>4
  <2>3. s \o x = x
    BY <2>1
  <2> QED BY <1>1, <1>2, <1>4, <2>1, <2>2, <2>3 DEF r
<1>5. CASE n # 0
  <2>1. PICK f : Flattens(f, s, n) /\ FlattenSeq(s) = f[n]
    BY <1>1, <1>5, FlattenIs DEF n
  <2>2. f[n] = g[n]
    <3>1. n <= n + 1 /\ n \in 1..n /\ n + 1 \in Nat
      BY <1>1, <1>5
    <3>2. Flattens(f, s, n) /\ Flattens(g, r, n + 1) /\ Agree(s, r, n)
      BY <1>1, <1>2, <2>1 DEF Agree
    <3>3. Agree(f, g, n)
      BY <1>1, <3>2, FlattensSame
    <3> QED BY <3>1, <3>3 DEF Agree
  <2>3. g[n + 1] = g[n] \o x
    <3>1. n + 1 \in 1..(n + 1) /\ n + 1 # 1 /\ (n + 1) - 1 = n
      BY <1>1, <1>5
    <3> QED BY <1>1, <1>3, <3>1
  <2> QED BY <1>2, <2>1, <2>2, <2>3 DEF r
<1> QED BY <1>4, <1>5

\* What is put together is a sequence of the same members.
LEMMA FlattenInSeq ==
    ASSUME NEW S, NEW s \in Seq(Seq(S))
    PROVE  FlattenSeq(s) \in Seq(S)
<1> DEFINE n == Len(s)
<1>1. n \in Nat /\ \A i \in 1..n : s[i] \in Seq(S)
  OBVIOUS
<1> HIDE DEF n
<1>2. CASE n = 0
  <2>1. FlattenSeq(s) = s /\ s = <<>>
    BY <1>2 DEF FlattenSeq, n
  <2> QED BY <2>1
<1>3. CASE n # 0
  <2>1. PICK f : Flattens(f, s, n) /\ FlattenSeq(s) = f[n]
    BY <1>1, <1>3, FlattenIs DEF n
  <2>2. \A i \in 1..n : f[i] = IF i = 1 THEN s[i] ELSE f[i - 1] \o s[i]
    BY <2>1 DEF Flattens
  <2> DEFINE U == {i \in Nat : i \in 1..n => f[i] \in Seq(S)}
  <2>3. 0 \in U
    OBVIOUS
  <2>4. ASSUME NEW i \in Nat, i \in U PROVE i + 1 \in U
    <3> SUFFICES ASSUME i + 1 \in 1..n PROVE f[i + 1] \in Seq(S)
      OBVIOUS
    <3>1. (i + 1) - 1 = i /\ s[i + 1] \in Seq(S)
      BY <1>1
    <3>2. CASE i = 0
      BY <2>2, <3>1, <3>2
    <3>3. CASE i # 0
      <4>1. i \in 1..n /\ i + 1 # 1
        BY <1>1, <3>3
      <4>2. f[i] \in Seq(S)
        BY <2>4, <4>1
      <4>3. f[i + 1] = f[i] \o s[i + 1]
        BY <2>2, <3>1, <4>1
      <4> QED BY <3>1, <4>2, <4>3
    <3> QED BY <3>2, <3>3
  <2>5. n \in U
    <3> HIDE DEF U
    <3> QED BY <1>1, <2>3, <2>4, SetInduction
  <2>6. n \in 1..n
    BY <1>1, <1>3
  <2> QED BY <2>1, <2>5, <2>6
<1> QED BY <1>2, <1>3

-----------------------------------------------------------------------------
(* Folds over a sequence, which are folds over its domain from above.      *)

\* The greatest of a part of 1..n is in it.
LEMMA MaxIs ==
    ASSUME NEW n \in Nat, NEW s \in SUBSET (1..n), s # {}
    PROVE  Max(s) \in s /\ \A k \in s : Max(s) >= k
<1>1. \E m \in s : \A k \in s : m >= k
  <2>1. s \in SUBSET (0..n)
    OBVIOUS
  <2> QED BY <2>1, HasGreatest
<1> QED BY <1>1 DEF Max

LEMMA MaxUpto ==
    ASSUME NEW k \in Nat, k # 0
    PROVE  Max(1..k) = k /\ (1..k) \ {Max(1..k)} = 1..(k - 1) /\ 1..k # {}
<1>1. k \in 1..k
  OBVIOUS
<1>2. Max(1..k) \in 1..k /\ Max(1..k) >= k
  BY <1>1, MaxIs
<1>3. Max(1..k) = k
  BY <1>2
<1>4. (1..k) \ {k} = 1..(k - 1)
  OBVIOUS
<1> QED BY <1>1, <1>3, <1>4

\* f is how a fold with the step g over the parts of 1..n goes on from base.
Folded(f, g, base, n) ==
    f = [s \in SUBSET (1..n) |-> IF s = {} THEN base ELSE g[<<Max(s), f[s \ {Max(s)}]>>]]

\* There is one, for every step that stays in a set.
LEMMA FoldsExist ==
    ASSUME NEW A, NEW base \in A, NEW n \in Nat, NEW g \in [(1..n) \X A -> A]
    PROVE  \E f \in [SUBSET (1..n) -> A] : Folded(f, g, base, n)
<1> DEFINE Has(k) == \E f \in [SUBSET (1..k) -> A] : Folded(f, g, base, k)
           S == {k \in Nat : k <= n => Has(k)}
<1>1. 0 \in S
  <2> DEFINE f == [s \in SUBSET (1..0) |-> base]
             h == [s \in SUBSET (1..0) |-> IF s = {} THEN base ELSE g[<<Max(s), f[s \ {Max(s)}]>>]]
  <2>1. f \in [SUBSET (1..0) -> A]
    OBVIOUS
  <2>2. f = h
    <3>1. \A s \in SUBSET (1..0) : s = {}
      OBVIOUS
    <3> QED BY <3>1
  <2>3. Folded(f, g, base, 0)
    <3> HIDE DEF f
    <3> QED BY <2>2 DEF Folded
  <2> QED BY <2>1, <2>3
<1>2. ASSUME NEW k \in Nat, k \in S PROVE k + 1 \in S
  <2> SUFFICES ASSUME k + 1 <= n PROVE Has(k + 1)
    <3> HIDE DEF Has
    <3> QED OBVIOUS
  <2>0. Has(k)
    <3> HIDE DEF Has
    <3> QED BY <1>2
  <2>1. PICK f \in [SUBSET (1..k) -> A] : Folded(f, g, base, k)
    BY <2>0
  <2> DEFINE next(s) == g[<<k + 1, f[s \ {k + 1}]>>]
             h == [s \in SUBSET (1..(k + 1)) |-> IF k + 1 \in s THEN next(s) ELSE f[s]]
             e == [s \in SUBSET (1..(k + 1)) |-> IF s = {} THEN base ELSE g[<<Max(s), h[s \ {Max(s)}]>>]]
  <2>2. \A s \in SUBSET (1..(k + 1)) : s \ {k + 1} \in SUBSET (1..k) /\ (k + 1 \notin s => s \in SUBSET (1..k))
    OBVIOUS
  <2>3. k + 1 \in 1..n
    OBVIOUS
  <2>4. h \in [SUBSET (1..(k + 1)) -> A]
    <3>1. ASSUME NEW s \in SUBSET (1..(k + 1)) PROVE (IF k + 1 \in s THEN next(s) ELSE f[s]) \in A
      <4>1. f[s \ {k + 1}] \in A /\ (k + 1 \notin s => f[s] \in A)
        BY <2>1, <2>2
      <4>2. <<k + 1, f[s \ {k + 1}]>> \in (1..n) \X A
        BY <2>3, <4>1
      <4> QED BY <4>1, <4>2
    <3> QED BY <3>1
  <2>5. ASSUME NEW s \in SUBSET (1..(k + 1)) PROVE h[s] = e[s]
    <3>1. CASE s = {}
      <4>1. h[s] = f[s]
        BY <3>1
      <4>2. f[s] = base
        BY <2>1, <3>1 DEF Folded
      <4> QED BY <3>1, <4>1, <4>2
    <3>2. CASE s # {} /\ k + 1 \in s
      <4>1. Max(s) = k + 1
        <5>1. Max(s) \in s /\ Max(s) >= k + 1
          <6>1. k + 1 \in Nat /\ k + 1 \in s
            BY <3>2
          <6> QED BY <6>1, MaxIs
        <5>2. Max(s) \in 1..(k + 1)
          BY <5>1
        <5> QED BY <5>1, <5>2
      <4>2. h[s \ {k + 1}] = f[s \ {k + 1}]
        OBVIOUS
      <4>3. h[s] = next(s)
        BY <3>2
      <4>4. e[s] = g[<<k + 1, h[s \ {k + 1}]>>]
        <5> HIDE DEF h, next
        <5> QED BY <3>2, <4>1
      <4> QED BY <4>2, <4>3, <4>4
    <3>3. CASE s # {} /\ k + 1 \notin s
      <4>1. s \in SUBSET (1..k)
        BY <2>2, <3>3
      <4>2. f[s] = g[<<Max(s), f[s \ {Max(s)}]>>]
        BY <2>1, <3>3, <4>1 DEF Folded
      <4>3. h[s] = f[s] /\ h[s \ {Max(s)}] = f[s \ {Max(s)}]
        BY <3>3
      <4>4. e[s] = g[<<Max(s), h[s \ {Max(s)}]>>]
        <5> HIDE DEF h
        <5> QED BY <3>3
      <4> HIDE DEF h, e
      <4> QED BY <4>2, <4>3, <4>4
    <3> QED BY <3>1, <3>2, <3>3
  <2>6. h = e
    <3> HIDE DEF next
    <3> QED BY <2>5
  <2>7. Folded(h, g, base, k + 1)
    <3> HIDE DEF h, next
    <3> QED BY <2>6 DEF Folded
  <2> HIDE DEF h
  <2> QED BY <2>4, <2>7
<1>3. n \in S
  <2> HIDE DEF S
  <2> QED BY <1>1, <1>2, SetInduction
<1>4. Has(n)
  <2> HIDE DEF Has
  <2> QED BY <1>3
<1> QED BY <1>4

-----------------------------------------------------------------------------
(* Places of numbers in a finite set of them.                              *)

LEMMA PlaceIs ==
    ASSUME NEW s \in SUBSET Nat, IsFiniteSet(s), NEW o \in s
    PROVE  /\ Place(s, o) \in 1..Cardinality(s)
           /\ Nth(s, Place(s, o)) = o
<1> DEFINE Low(n) == {m \in s : m <= n}
<1>1. \A n \in s : IsFiniteSet(Low(n)) /\ Cardinality(Low(n)) \in Nat /\ Cardinality(Low(n)) <= Cardinality(s)
  <2> SUFFICES ASSUME NEW n \in s PROVE IsFiniteSet(Low(n)) /\ Cardinality(Low(n)) \in Nat /\ Cardinality(Low(n)) <= Cardinality(s)
    OBVIOUS
  <2>1. Low(n) \subseteq s
    OBVIOUS
  <2> HIDE DEF Low
  <2>2. IsFiniteSet(Low(n)) /\ Cardinality(Low(n)) <= Cardinality(s)
    BY <2>1, FS_Subset
  <2> QED BY <2>2, FS_CardinalityType
<1>2. ASSUME NEW a \in s, NEW b \in s, a < b PROVE Place(s, a) < Place(s, b)
  <2>0. a \in Nat /\ b \in Nat /\ b <= b /\ ~ (b <= a) /\ \A m \in s : m <= a => m <= b
    BY <1>2
  <2>1. Low(a) \subseteq Low(b) /\ b \in Low(b) /\ b \notin Low(a)
    BY <2>0
  <2>2. Low(a) # Low(b)
    BY <2>1
  <2>3. IsFiniteSet(Low(a)) /\ IsFiniteSet(Low(b)) /\ Cardinality(Low(a)) \in Nat /\ Cardinality(Low(b)) \in Nat
    BY <1>1
  <2>4. Place(s, a) = Cardinality(Low(a)) /\ Place(s, b) = Cardinality(Low(b))
    BY DEF Place
  <2> HIDE DEF Low
  <2>5. Cardinality(Low(a)) < Cardinality(Low(b))
    BY <2>1, <2>2, <2>3, FS_Subset
  <2> QED BY <2>4, <2>5
<1>3. Place(s, o) \in 1..Cardinality(s)
  <2>1. Low(o) # {} /\ Cardinality(s) \in Nat
    BY FS_CardinalityType
  <2>2. Place(s, o) = Cardinality(Low(o))
    BY DEF Place
  <2> HIDE DEF Low
  <2>3. Cardinality(Low(o)) # 0
    BY <1>1, <2>1, FS_EmptySet
  <2> QED BY <1>1, <2>1, <2>2, <2>3
<1>4. ASSUME NEW a \in s, Place(s, a) = Place(s, o) PROVE a = o
  <2>1. a \in Nat /\ o \in Nat
    OBVIOUS
  <2>2. a < o \/ o < a \/ a = o
    BY <2>1
  <2>3. \A n \in s : Place(s, n) \in Nat
    BY <1>1 DEF Place
  <2> QED BY <1>2, <1>4, <2>2, <2>3
<1>5. Nth(s, Place(s, o)) \in s /\ Place(s, Nth(s, Place(s, o))) = Place(s, o)
  BY DEF Nth
<1> QED BY <1>3, <1>4, <1>5

\* A number that is above all others is the last in its place.
LEMMA PlaceAppend ==
    ASSUME NEW n \in Nat, NEW s \in SUBSET (1..n)
    PROVE  /\ IsFiniteSet(s) /\ Cardinality(s) \in Nat
           /\ Cardinality(s \cup {n + 1}) = Cardinality(s) + 1
           /\ \A i \in s : Place(s \cup {n + 1}, i) = Place(s, i) /\ Place(s, i) \in 1..Cardinality(s)
           /\ Place(s \cup {n + 1}, n + 1) = Cardinality(s) + 1
<1> DEFINE t == s \cup {n + 1}
<1>1. IsFiniteSet(s) /\ Cardinality(s) \in Nat
  <2>1. IsFiniteSet(1..n)
    BY FS_Interval
  <2> QED BY <2>1, FS_Subset, FS_CardinalityType
<1>2. Cardinality(t) = Cardinality(s) + 1
  <2>1. n + 1 \notin s
    OBVIOUS
  <2> QED BY <1>1, <2>1, FS_AddElement
<1>3. ASSUME NEW i \in s PROVE Place(t, i) = Place(s, i) /\ Place(s, i) \in 1..Cardinality(s)
  <2>1. {m \in t : m <= i} = {m \in s : m <= i}
    OBVIOUS
  <2>2. s \in SUBSET Nat
    OBVIOUS
  <2> QED BY <1>1, <2>1, <2>2, PlaceIs DEF Place
<1>4. Place(t, n + 1) = Cardinality(t)
  <2>0. \A m \in t : m <= n + 1
    OBVIOUS
  <2>1. {m \in t : m <= n + 1} = t
    BY <2>0
  <2> QED BY <2>1 DEF Place
<1> QED BY <1>1, <1>2, <1>3, <1>4

\* Each place up to the number of the members is that of a member.
LEMMA NthIs ==
    ASSUME NEW n \in Nat, NEW s \in SUBSET (1..n), NEW k \in 1..Cardinality(s)
    PROVE  Nth(s, k) \in s /\ Place(s, Nth(s, k)) = k
<1> DEFINE Full(t) == \A j \in 1..Cardinality(t) : \E m \in t : Place(t, m) = j
           S == {i \in Nat : \A t \in SUBSET (1..i) : Full(t)}
<1>1. 0 \in S
  <2>1. \A t \in SUBSET (1..0) : t = {}
    OBVIOUS
  <2>2. 1..Cardinality({}) = {}
    BY FS_EmptySet
  <2> QED BY <2>1, <2>2
<1>2. ASSUME NEW i \in Nat, i \in S PROVE i + 1 \in S
  <2> SUFFICES ASSUME NEW t \in SUBSET (1..(i + 1)) PROVE Full(t)
    OBVIOUS
  <2> HIDE DEF Full
  <2>1. CASE i + 1 \notin t
    <3>1. t \in SUBSET (1..i)
      BY <2>1
    <3> QED BY <1>2, <3>1
  <2>2. CASE i + 1 \in t
    <3> DEFINE r == t \ {i + 1}
    <3>1. r \in SUBSET (1..i) /\ t = r \cup {i + 1}
      BY <2>2
    <3> HIDE DEF r
    <3>2. Full(r)
      BY <1>2, <3>1
    <3>3. /\ Cardinality(r) \in Nat /\ Cardinality(t) = Cardinality(r) + 1
          /\ \A m \in r : Place(t, m) = Place(r, m)
          /\ Place(t, i + 1) = Cardinality(r) + 1
      BY <3>1, PlaceAppend
    <3>4. ASSUME NEW j \in 1..Cardinality(t) PROVE \E m \in t : Place(t, m) = j
      <4>1. j \in 1..Cardinality(r) \/ j = Cardinality(r) + 1
        BY <3>3
      <4>2. CASE j \in 1..Cardinality(r)
        <5>1. PICK m \in r : Place(r, m) = j
          BY <3>2, <4>2 DEF Full
        <5> QED BY <3>1, <3>3, <5>1
      <4> QED BY <2>2, <3>3, <4>1, <4>2
    <3> QED BY <3>4 DEF Full
  <2> QED BY <2>1, <2>2
<1> HIDE DEF S
<1>3. n \in S
  BY <1>1, <1>2, SetInduction
<1>4. \E m \in s : Place(s, m) = k
  BY <1>3 DEF S
<1> QED BY <1>4 DEF Nth

\* The least of some numbers.
LEMMA MinIs ==
    ASSUME NEW s \in SUBSET Nat, s # {}
    PROVE  Min(s) \in s /\ \A k \in s : Min(s) <= k
BY HasLeast DEF Min

-----------------------------------------------------------------------------
(* What is in a sequence.                                                  *)

\* A set is put into a sequence whole.
LEMMA SetToSeqIs ==
    ASSUME NEW S, IsFiniteSet(S)
    PROVE  /\ SetToSeq(S) \in Seq(S) /\ Len(SetToSeq(S)) = Cardinality(S)
           /\ \A x \in S : \E i \in 1..Len(SetToSeq(S)) : SetToSeq(S)[i] = x
<1> DEFINE n == Cardinality(S)
           s == SetToSeq(S)
<1>1. n \in Nat /\ \E f \in [1..n -> S] : IsInjective(f)
  BY FS_CardinalityType DEF ExistsBijection, Bijection, Injection
<1>2. s \in [1..n -> S] /\ IsInjective(s)
  BY <1>1 DEF SetToSeq
<1>3. s \in Seq(S) /\ Len(s) = n
  <2> HIDE DEF s, n
  <2> QED BY <1>1, <1>2
<1>4. \A x \in S : \E i \in 1..n : s[i] = x
  <2>1. Cardinality(1..n) = n
    BY <1>1, FS_Interval
  <2>2. s \in Injection(1..n, S)
    BY <1>2 DEF Injection
  <2>3. s \in Surjection(1..n, S)
    BY <2>1, <2>2, FS_Injection
  <2> QED BY <2>3 DEF Surjection
<1> HIDE DEF s
<1> QED BY <1>3, <1>4 DEF s

Among(x, s) == \E i \in 1..Len(s) : s[i] = x

\* What is in one of two sequences is in both together.
LEMMA AmongBoth ==
    ASSUME NEW L, NEW s \in Seq(L), NEW t \in Seq(L), NEW x, Among(x, s) \/ Among(x, t)
    PROVE  Among(x, s \o t)
<1>1. /\ Len(s) \in Nat /\ Len(t) \in Nat /\ Len(s \o t) = Len(s) + Len(t)
      /\ \A i \in 1..Len(s) : (s \o t)[i] = s[i]
      /\ \A i \in 1..Len(t) : (s \o t)[Len(s) + i] = t[i]
  OBVIOUS
<1> DEFINE m == Len(s)
           n == Len(t)
           r == s \o t
<1>2. CASE Among(x, s)
  <2>1. PICK i \in 1..m : s[i] = x
    BY <1>2 DEF Among
  <2>2. i \in 1..(m + n) /\ r[i] = x
    BY <1>1, <2>1
  <2> HIDE DEF r
  <2> QED BY <1>1, <2>2 DEF Among, r
<1>3. CASE Among(x, t)
  <2>1. PICK i \in 1..n : t[i] = x
    BY <1>3 DEF Among
  <2>2. m + i \in 1..(m + n) /\ r[m + i] = x
    BY <1>1, <2>1
  <2> HIDE DEF r
  <2> QED BY <1>1, <2>2 DEF Among, r
<1> QED BY <1>2, <1>3

\* What is in one of some sequences is in all of them together.
LEMMA AmongFlat ==
    ASSUME NEW L, NEW s \in Seq(Seq(L)), NEW i \in 1..Len(s), NEW x, Among(x, s[i])
    PROVE  Among(x, FlattenSeq(s))
<1> DEFINE n == Len(s)
<1>1. n \in Nat /\ n # 0 /\ i \in Nat /\ i <= n /\ i # 0 /\ \A j \in 1..n : s[j] \in Seq(L)
  OBVIOUS
<1>2. PICK f : Flattens(f, s, n) /\ FlattenSeq(s) = f[n]
  BY <1>1, FlattenIs
<1>3. \A j \in 1..n : f[j] = IF j = 1 THEN s[j] ELSE f[j - 1] \o s[j]
  BY <1>2 DEF Flattens
<1> HIDE DEF n
<1> DEFINE Good(j) == f[j] \in Seq(L) /\ (j >= i => Among(x, f[j]))
           U == {j \in Nat : j \in 1..n => Good(j)}
<1>4. 0 \in U
  OBVIOUS
<1>5. ASSUME NEW j \in Nat, j \in U PROVE j + 1 \in U
  <2> SUFFICES ASSUME j + 1 \in 1..n PROVE Good(j + 1)
    OBVIOUS
  <2>1. (j + 1) - 1 = j /\ s[j + 1] \in Seq(L)
    BY <1>1
  <2>2. CASE j = 0
    <3>1. f[j + 1] = s[j + 1]
      BY <1>3, <2>2
    <3>2. j + 1 >= i => j + 1 = i
      BY <1>1, <2>2
    <3> QED BY <2>1, <3>1, <3>2 DEF n
  <2>3. CASE j # 0
    <3>1. j \in 1..n /\ j + 1 # 1
      BY <1>1, <2>3
    <3>2. Good(j) /\ f[j + 1] = f[j] \o s[j + 1]
      <4> HIDE DEF Good
      <4> QED BY <1>3, <1>5, <2>1, <3>1
    <3>3. j + 1 >= i => j >= i \/ j + 1 = i
      BY <1>1
    <3>4. f[j] \o s[j + 1] \in Seq(L)
      BY <2>1, <3>2
    <3>5. j + 1 >= i => Among(x, f[j]) \/ Among(x, s[j + 1])
      BY <3>2, <3>3
    <3>6. j + 1 >= i => Among(x, f[j] \o s[j + 1])
      BY <2>1, <3>2, <3>5, AmongBoth
    <3> QED BY <3>2, <3>4, <3>6
  <2> QED BY <2>2, <2>3
<1> HIDE DEF U
<1>6. n \in U
  BY <1>1, <1>4, <1>5, SetInduction
<1> QED BY <1>1, <1>2, <1>6 DEF U

=============================================================================
