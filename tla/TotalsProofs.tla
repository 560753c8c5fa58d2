---------------------------- MODULE TotalsProofs ----------------------------
(***************************************************************************)
(* What sums obey, for every function from a finite set into the naturals: *)
(* they are naturals, split over disjoint sets, gain what an element adds, *)
(* and grow along an injection that does not lower the values.             *)
(***************************************************************************)
EXTENDS Totals, FiniteSetTheorems, TLAPS

\* A ticket is an element with a number up to its value.
LEMMA TicketsAre ==
    ASSUME NEW f, NEW k
    PROVE  k \in Tickets(f) <=>
               \E x \in DOMAIN f : \E i \in 1..f[x] : k = <<x, i>>
  BY DEF Tickets

\* There are finitely many tickets.
LEMMA TicketsAreFinite ==
    ASSUME NEW S, IsFiniteSet(S), NEW f \in [S -> Nat]
    PROVE  IsFiniteSet(Tickets(f))
<1> DEFINE piles == {{x} \X (1..f[x]) : x \in S}
           pile == [x \in S |-> {x} \X (1..f[x])]
<1>1. pile \in Surjection(S, piles)
  BY DEF Surjection
<1>2. IsFiniteSet(piles)
  BY <1>1, FS_Surjection
<1>3. \A x \in S : IsFiniteSet({x} \X (1..f[x]))
  <2> SUFFICES ASSUME NEW x \in S PROVE IsFiniteSet({x} \X (1..f[x]))
    OBVIOUS
  <2>1. IsFiniteSet({x})
    BY FS_Singleton
  <2>2. IsFiniteSet(1..f[x])
    BY FS_Interval
  <2> QED
    BY <2>1, <2>2, FS_Product
<1>4. \A p \in piles : IsFiniteSet(p)
  BY <1>3
<1>5. Tickets(f) = UNION piles
  BY DEF Tickets
<1> QED
  <2> HIDE DEF piles
  <2> QED BY <1>2, <1>4, <1>5, FS_UNION

\* A sum is a natural number.
LEMMA TotalIsNat ==
    ASSUME NEW S, IsFiniteSet(S), NEW f \in [S -> Nat]
    PROVE  Total(f) \in Nat
  BY TicketsAreFinite, FS_CardinalityType DEF Total

\* The sum over nothing.
LEMMA TotalOfNone ==
    ASSUME NEW f, DOMAIN f = {}
    PROVE  Total(f) = 0
<1>1. Tickets(f) = {}
  BY DEF Tickets
<1> QED
  BY <1>1, FS_EmptySet DEF Total

\* The sum over one element is its value.
LEMMA TotalOfOne ==
    ASSUME NEW x, NEW f \in [{x} -> Nat]
    PROVE  Total(f) = f[x]
<1>1. Tickets(f) = {x} \X (1..f[x])
  BY DEF Tickets
<1>2. IsFiniteSet({x}) /\ Cardinality({x}) = 1
  BY FS_Singleton
<1>3. IsFiniteSet(1..f[x]) /\ Cardinality(1..f[x]) = f[x]
  BY FS_Interval
<1>4. Cardinality({x} \X (1..f[x])) = Cardinality({x}) * Cardinality(1..f[x])
  BY <1>2, <1>3, FS_Product
<1>5. Cardinality({x} \X (1..f[x])) = f[x]
  BY <1>2, <1>3, <1>4
<1> QED
  BY <1>1, <1>5 DEF Total

\* A sum over two disjoint sets is the sum of the two sums.
LEMMA TotalSplits ==
    ASSUME NEW S, NEW T, IsFiniteSet(S), IsFiniteSet(T), S \cap T = {},
           NEW f \in [S \cup T -> Nat]
    PROVE  Total(f) = Total(On(f, S)) + Total(On(f, T))
<1> DEFINE s == On(f, S)
           t == On(f, T)
<1>0. s \in [S -> Nat] /\ t \in [T -> Nat]
  BY DEF On
<1>1. IsFiniteSet(Tickets(s)) /\ IsFiniteSet(Tickets(t))
  <2> HIDE DEF s, t
  <2> QED BY <1>0, TicketsAreFinite
<1>2. Tickets(f) = Tickets(s) \cup Tickets(t)
  BY DEF Tickets, On
<1>3. Tickets(s) \cap Tickets(t) = {}
  BY DEF Tickets, On
<1>4. Cardinality(Tickets(s)) \in Nat /\ Cardinality(Tickets(t)) \in Nat
  BY <1>1, FS_CardinalityType
<1>5. Cardinality(Tickets(s) \cup Tickets(t)) =
          Cardinality(Tickets(s)) + Cardinality(Tickets(t)) - Cardinality(Tickets(s) \cap Tickets(t))
  <2> HIDE DEF s, t
  <2> QED BY <1>1, FS_Union
<1>6. Cardinality(Tickets(s) \cap Tickets(t)) = 0
  <2> HIDE DEF s, t
  <2> QED BY <1>3, FS_EmptySet
<1>7. Cardinality(Tickets(f)) = Cardinality(Tickets(s)) + Cardinality(Tickets(t))
  <2> HIDE DEF s, t
  <2> QED BY <1>2, <1>4, <1>5, <1>6
<1> QED
  BY <1>7 DEF Total

\* One more element adds its value.
LEMMA TotalAdds ==
    ASSUME NEW S, IsFiniteSet(S), NEW x, x \notin S, NEW f \in [S \cup {x} -> Nat]
    PROVE  Total(f) = Total(On(f, S)) + f[x]
<1>1. IsFiniteSet({x})
  BY FS_Singleton
<1>2. Total(f) = Total(On(f, S)) + Total(On(f, {x}))
  BY <1>1, TotalSplits
<1>3. On(f, {x}) \in [{x} -> Nat] /\ On(f, {x})[x] = f[x]
  BY DEF On
<1> QED
  BY <1>2, <1>3, TotalOfOne

\* Along an injection that does not lower the values, the sum does not fall.
LEMMA TotalGrows ==
    ASSUME NEW S, NEW T, IsFiniteSet(S), IsFiniteSet(T),
           NEW f \in [S -> Nat], NEW g \in [T -> Nat],
           NEW h \in Injection(S, T), \A x \in S : f[x] <= g[h[x]]
    PROVE  Total(f) <= Total(g)
<1> DEFINE H == [k \in Tickets(f) |-> <<h[k[1]], k[2]>>]
<1>0. h \in [S -> T] /\ \A x, y \in S : h[x] = h[y] => x = y
  BY DEF Injection, IsInjective
<1>1. \A k \in Tickets(f) : k[1] \in S /\ k[2] \in 1..f[k[1]] /\ k = <<k[1], k[2]>>
  BY DEF Tickets
<1>2. \A k \in Tickets(f) : <<h[k[1]], k[2]>> \in Tickets(g)
  <2> SUFFICES ASSUME NEW k \in Tickets(f) PROVE <<h[k[1]], k[2]>> \in Tickets(g)
    OBVIOUS
  <2> DEFINE y == h[k[1]]
             i == k[2]
  <2>1. y \in T /\ i \in 1..g[y]
    BY <1>0, <1>1
  <2> QED
    BY <2>1, TicketsAre
<1>3. H \in [Tickets(f) -> Tickets(g)]
  BY <1>2
<1>4. \A k, l \in Tickets(f) : H[k] = H[l] => k = l
  BY <1>0, <1>1
<1>5. H \in Injection(Tickets(f), Tickets(g))
  <2> HIDE DEF H
  <2> QED BY <1>3, <1>4 DEF Injection, IsInjective
<1>6. IsFiniteSet(Tickets(g))
  BY TicketsAreFinite
<1> QED
  <2> HIDE DEF H
  <2> QED BY <1>5, <1>6, FS_Injection DEF Total

\* A sum over a part, of values that are no larger, is no larger.
LEMMA TotalOfPart ==
    ASSUME NEW S, NEW T, IsFiniteSet(T), S \subseteq T,
           NEW f \in [S -> Nat], NEW g \in [T -> Nat], \A x \in S : f[x] <= g[x]
    PROVE  Total(f) <= Total(g)
<1> DEFINE h == [x \in S |-> x]
<1>1. IsFiniteSet(S)
  BY FS_Subset
<1>2. h \in Injection(S, T)
  BY DEF Injection, IsInjective
<1>3. \A x \in S : f[x] <= g[h[x]]
  OBVIOUS
<1> QED
  <2> HIDE DEF h
  <2> QED BY <1>1, <1>2, <1>3, TotalGrows
=============================================================================
