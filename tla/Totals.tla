------------------------------- MODULE Totals -------------------------------
(***************************************************************************)
(* The sum of a function's values, as a number of elements: a value n      *)
(* stands for the n tickets numbered 1..n.  A fold would need an induction *)
(* to reason about it; a cardinality comes with the library's theorems.    *)
(***************************************************************************)
EXTENDS Naturals, FiniteSets

Tickets(f) == UNION {{x} \X (1..f[x]) : x \in DOMAIN f}

Total(f) == Cardinality(Tickets(f))

\* What the function says of the elements of S.
On(f, S) == [x \in S |-> f[x]]
=============================================================================
