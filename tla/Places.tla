------------------------------- MODULE Places -------------------------------
(***************************************************************************)
(* Numbers in a finite set of them, in their order.                        *)
(***************************************************************************)
EXTENDS Naturals, FiniteSets

\* The place of n among the members of s, and which of them has place n.
Place(s, n) == Cardinality({m \in s : m <= n})
Nth(s, n) == CHOOSE m \in s : Place(s, m) = n
=============================================================================
