----------------------------- MODULE SumLemmas -----------------------------
(***************************************************************************)
(* Sums over finite sets, as SumFunctionOnSet and SumFunction compute      *)
(* them.  The fold takes the elements in an unspecified order, and nothing *)
(* can be proved of it by induction directly; the way round is to count: a *)
(* sum of naturals is the number of its units.  That the number of units   *)
(* satisfies the equation of the fold, and that only it does, is proved by *)
(* looking at a smallest counterexample.                                   *)
(***************************************************************************)
EXTENDS FiniteSetsExt, FiniteSetTheorems, FunctionTheorems, TLAPS

\* The units of f over S: f[x] of them for each x.
Units(f, S) == {p \in S \X Nat : p[2] \in 1 .. f[p[1]]}

\* The sum of f over S.
SumOver(f, S) == Cardinality(Units(f, S))

\* A set of subsets of a finite set that contains a set whenever it contains
\* all smaller ones is the set of all subsets.
LEMMA SubsetInduction ==
    ASSUME NEW D, IsFiniteSet(D), NEW G \in SUBSET (SUBSET D),
           \A s \in SUBSET D : (\A t \in SUBSET s : t # s => t \in G) => s \in G
    PROVE  G = SUBSET D
<1> DEFINE Bad == (SUBSET D) \ G
           R == StrictSubsetOrdering(D)
<1>1. SUFFICES ASSUME Bad # {} PROVE FALSE
  OBVIOUS
<1>2. IsWellFoundedOn(R, SUBSET D)
  BY FS_StrictSubsetOrderingWellFounded, FS_FiniteSubsetsOfFinite
<1>3. PICK s \in Bad : \A t \in Bad : <<t, s>> \notin R
  <2> HIDE DEF R, Bad
  <2>1. Bad \subseteq SUBSET D
    BY DEF Bad
  <2> QED
    BY <1>1, <1>2, <2>1, WFMin
<1>4. \A t \in SUBSET s : t # s => t \in G
  <2> TAKE t \in SUBSET s
  <2> HAVE t # s
  <2>1. t \in SUBSET D /\ <<t, s>> \in R
    BY DEF StrictSubsetOrdering
  <2> QED
    BY <1>3, <2>1
<1> QED
  BY <1>4

\* One element more: its units are added.
LEMMA UnitsAdd ==
    ASSUME NEW S, NEW f, NEW x, x \notin S, f[x] \in Nat,
           IsFiniteSet(Units(f, S))
    PROVE  /\ IsFiniteSet(Units(f, S \cup {x}))
           /\ SumOver(f, S \cup {x}) = f[x] + SumOver(f, S)
<1> DEFINE new == {x} \X (1 .. f[x])
<1>1. Units(f, S \cup {x}) = Units(f, S) \cup new
  BY DEF Units
<1>2. Units(f, S) \cap new = {}
  BY DEF Units
<1>3. IsFiniteSet(new) /\ Cardinality(new) = f[x]
  <2>1. IsFiniteSet({x}) /\ Cardinality({x}) = 1
    BY FS_Singleton
  <2>2. IsFiniteSet(1 .. f[x]) /\ Cardinality(1 .. f[x]) = f[x]
    BY FS_Interval
  <2>3. /\ IsFiniteSet({x} \X (1 .. f[x]))
        /\ Cardinality({x} \X (1 .. f[x]))
              = Cardinality({x}) * Cardinality(1 .. f[x])
    BY <2>1, <2>2, FS_Product, Zenon
  <2> QED
    BY <2>1, <2>2, <2>3
<1>4. Cardinality(Units(f, S)) \in Nat
  BY FS_CardinalityType
<1> HIDE DEF new
<1>5. /\ IsFiniteSet(Units(f, S) \cup new)
      /\ Cardinality(Units(f, S) \cup new)
            = Cardinality(Units(f, S)) + Cardinality(new) - Cardinality({})
  BY <1>2, <1>3, FS_Union
<1>6. Cardinality({}) = 0
  BY FS_EmptySet
<1>7. Cardinality(Units(f, S) \cup new) = f[x] + Cardinality(Units(f, S))
  BY <1>3, <1>4, <1>5, <1>6
<1> QED
  BY <1>1, <1>5, <1>7, Zenon DEF SumOver

\* A finite set has finitely many units.
LEMMA UnitsFinite ==
    ASSUME NEW S, IsFiniteSet(S), NEW f, \A x \in S : f[x] \in Nat
    PROVE  IsFiniteSet(Units(f, S))
<1> DEFINE G == {s \in SUBSET S : IsFiniteSet(Units(f, s))}
<1>1. ASSUME NEW s \in SUBSET S, \A t \in SUBSET s : t # s => t \in G
      PROVE  s \in G
  <2>1. CASE s = {}
    <3>1. Units(f, s) = {}
      BY <2>1 DEF Units
    <3> QED
      BY <3>1, FS_EmptySet
  <2>2. CASE s # {}
    <3>1. PICK x \in s : TRUE
      BY <2>2
    <3>2. IsFiniteSet(Units(f, s \ {x}))
      BY <1>1
    <3>3. IsFiniteSet(Units(f, (s \ {x}) \cup {x}))
      BY <3>2, UnitsAdd
    <3>4. (s \ {x}) \cup {x} = s
      OBVIOUS
    <3> QED
      BY <3>3, <3>4
  <2> QED
    BY <2>1, <2>2
<1>2. G = SUBSET S
  <2>1. G \in SUBSET (SUBSET S)
    OBVIOUS
  <2> HIDE DEF G
  <2> QED
    BY <1>1, <2>1, SubsetInduction
<1> QED
  BY <1>2

\* The sum of naturals is a natural.
LEMMA SumType ==
    ASSUME NEW S, IsFiniteSet(S), NEW f, \A x \in S : f[x] \in Nat
    PROVE  SumOver(f, S) \in Nat
  BY UnitsFinite, FS_CardinalityType DEF SumOver

\* The sum over the empty set.
LEMMA SumEmpty ==
    ASSUME NEW f
    PROVE  SumOver(f, {}) = 0
<1>1. Units(f, {}) = {}
  BY DEF Units
<1> QED
  BY <1>1, FS_EmptySet DEF SumOver

\* One element more.
LEMMA SumAdd ==
    ASSUME NEW S, IsFiniteSet(S), NEW f, NEW x, x \notin S,
           \A y \in S \cup {x} : f[y] \in Nat
    PROVE  SumOver(f, S \cup {x}) = f[x] + SumOver(f, S)
  BY UnitsFinite, UnitsAdd

\* One element less, in whatever order elements are taken.
LEMMA SumRemove ==
    ASSUME NEW S, IsFiniteSet(S), NEW f, NEW x \in S,
           \A y \in S : f[y] \in Nat
    PROVE  SumOver(f, S) = f[x] + SumOver(f, S \ {x})
<1>1. IsFiniteSet(S \ {x})
  BY FS_RemoveElement
<1>2. (S \ {x}) \cup {x} = S
  OBVIOUS
<1> QED
  BY <1>1, <1>2, SumAdd

-----------------------------------------------------------------------------
(* The folds of the community modules compute this sum.                    *)

\* The equation by which the fold over S is defined.
FoldEquation(it, f, S) ==
    it = [s \in SUBSET S |->
            IF s = {} THEN 0
            ELSE f[CHOOSE x \in s : TRUE] + it[s \ {CHOOSE x \in s : TRUE}]]

\* Whatever satisfies the equation of the fold is the sum.
LEMMA FoldIsSum ==
    ASSUME NEW S, IsFiniteSet(S), NEW f, \A x \in S : f[x] \in Nat, NEW it,
           FoldEquation(it, f, S)
    PROVE  it[S] = SumOver(f, S)
<1> DEFINE G == {s \in SUBSET S : it[s] = SumOver(f, s)}
<1>1. ASSUME NEW s \in SUBSET S, \A t \in SUBSET s : t # s => t \in G
      PROVE  s \in G
  <2>1. CASE s = {}
    BY <2>1, SumEmpty DEF FoldEquation
  <2>2. CASE s # {}
    <3> DEFINE x == CHOOSE x \in s : TRUE
    <3>1. x \in s
      BY <2>2
    <3>2. it[s] = f[x] + it[s \ {x}]
      BY <2>2 DEF FoldEquation
    <3> HIDE DEF x
    <3>3. it[s \ {x}] = SumOver(f, s \ {x})
      BY <1>1, <3>1
    <3>4. IsFiniteSet(s)
      BY FS_Subset
    <3>5. SumOver(f, s) = f[x] + SumOver(f, s \ {x})
      BY <3>1, <3>4, SumRemove
    <3> QED
      BY <3>2, <3>3, <3>5
  <2> QED
    BY <2>1, <2>2
<1>2. G = SUBSET S
  <2>1. G \in SUBSET (SUBSET S)
    OBVIOUS
  <2> HIDE DEF G
  <2> QED
    BY <1>1, <2>1, SubsetInduction
<1> QED
  BY <1>2

\* The equation of the fold has a solution.
LEMMA FoldExists ==
    ASSUME NEW S, IsFiniteSet(S), NEW f, \A x \in S : f[x] \in Nat
    PROVE  \E it : FoldEquation(it, f, S)
<1> DEFINE it == [s \in SUBSET S |-> SumOver(f, s)]
           rec == [s \in SUBSET S |->
                    IF s = {} THEN 0
                    ELSE f[CHOOSE x \in s : TRUE]
                            + it[s \ {CHOOSE x \in s : TRUE}]]
<1>1. ASSUME NEW s \in SUBSET S
      PROVE  it[s] = rec[s]
  <2>1. CASE s = {}
    BY <2>1, SumEmpty
  <2>2. CASE s # {}
    <3> DEFINE x == CHOOSE x \in s : TRUE
    <3>1. x \in s
      BY <2>2
    <3>2. rec[s] = f[x] + SumOver(f, s \ {x})
      BY <2>2
    <3> HIDE DEF x
    <3>3. IsFiniteSet(s)
      BY FS_Subset
    <3>4. SumOver(f, s) = f[x] + SumOver(f, s \ {x})
      BY <3>1, <3>3, SumRemove
    <3> QED
      BY <3>2, <3>4
  <2> QED
    BY <2>1, <2>2
<1>2. it = rec
  BY <1>1
<1> QED
  BY <1>2 DEF FoldEquation

\* A function summed over a set.
LEMMA SumFunctionIsSum ==
    ASSUME NEW S, IsFiniteSet(S), NEW f, \A x \in S : f[x] \in Nat
    PROVE  SumFunctionOnSet(f, S) = SumOver(f, S)
<1> DEFINE it == CHOOSE it : FoldEquation(it, f, S)
<1>1. FoldEquation(it, f, S)
  BY FoldExists, Zenon
<1>2. SumFunctionOnSet(f, S) = it[S]
  BY DEF SumFunctionOnSet, FoldFunctionOnSet, MapThenFoldSet, FoldEquation
<1> QED
  BY <1>1, <1>2, FoldIsSum

-----------------------------------------------------------------------------
(* Laws of sums.                                                           *)

\* A sum depends on the values in its range only.
LEMMA SumSame ==
    ASSUME NEW S, NEW f, NEW g, \A x \in S : f[x] = g[x]
    PROVE  SumOver(f, S) = SumOver(g, S)
<1>1. Units(f, S) = Units(g, S)
  BY DEF Units
<1> QED
  BY <1>1 DEF SumOver

\* A range in two parts.
LEMMA SumUnion ==
    ASSUME NEW S, IsFiniteSet(S), NEW T, IsFiniteSet(T), S \cap T = {},
           NEW f, \A x \in S \cup T : f[x] \in Nat
    PROVE  SumOver(f, S \cup T) = SumOver(f, S) + SumOver(f, T)
<1>1. Units(f, S \cup T) = Units(f, S) \cup Units(f, T)
  BY DEF Units
<1>2. Units(f, S) \cap Units(f, T) = {}
  BY DEF Units
<1>3. IsFiniteSet(Units(f, S)) /\ IsFiniteSet(Units(f, T))
  BY UnitsFinite
<1>4. Cardinality(Units(f, S)) \in Nat /\ Cardinality(Units(f, T)) \in Nat
  BY <1>3, FS_CardinalityType
<1>5. Cardinality(Units(f, S) \cup Units(f, T))
         = Cardinality(Units(f, S)) + Cardinality(Units(f, T)) - Cardinality({})
  BY <1>2, <1>3, FS_Union
<1>6. Cardinality(Units(f, S) \cup Units(f, T))
         = Cardinality(Units(f, S)) + Cardinality(Units(f, T))
  BY <1>4, <1>5, FS_EmptySet
<1> QED
  BY <1>1, <1>6, Zenon DEF SumOver

\* A part of the range and the rest.
LEMMA SumSplit ==
    ASSUME NEW S, IsFiniteSet(S), NEW T \in SUBSET S,
           NEW f, \A x \in S : f[x] \in Nat
    PROVE  SumOver(f, S) = SumOver(f, T) + SumOver(f, S \ T)
<1>1. IsFiniteSet(T) /\ IsFiniteSet(S \ T)
  BY FS_Subset
<1>2. T \cup (S \ T) = S /\ T \cap (S \ T) = {}
  OBVIOUS
<1>3. SumOver(f, T \cup (S \ T)) = SumOver(f, T) + SumOver(f, S \ T)
  BY <1>1, <1>2, SumUnion
<1> QED
  BY <1>2, <1>3

\* Smaller summands have a smaller sum.
LEMMA SumMonotone ==
    ASSUME NEW S, IsFiniteSet(S), NEW f, NEW g,
           \A x \in S : f[x] \in Nat /\ g[x] \in Nat /\ f[x] <= g[x]
    PROVE  SumOver(f, S) <= SumOver(g, S)
<1>1. Units(f, S) \subseteq Units(g, S)
  BY DEF Units
<1>2. IsFiniteSet(Units(g, S))
  BY UnitsFinite
<1> QED
  BY <1>1, <1>2, FS_Subset DEF SumOver

\* One summand changed.
LEMMA SumUpdate ==
    ASSUME NEW S, IsFiniteSet(S), NEW x \in S, NEW f, NEW g,
           \A y \in S : f[y] \in Nat /\ g[y] \in Nat,
           \A y \in S \ {x} : g[y] = f[y]
    PROVE  SumOver(g, S) + f[x] = SumOver(f, S) + g[x]
<1>1. SumOver(f, S) = f[x] + SumOver(f, S \ {x})
  BY SumRemove
<1>2. SumOver(g, S) = g[x] + SumOver(g, S \ {x})
  BY SumRemove
<1>3. SumOver(g, S \ {x}) = SumOver(f, S \ {x})
  BY SumSame
<1>4. SumOver(f, S \ {x}) \in Nat
  BY FS_RemoveElement, SumType
<1> QED
  BY <1>1, <1>2, <1>3, <1>4

\* The same summands under other names.
LEMMA SumReindex ==
    ASSUME NEW S, NEW T, IsFiniteSet(T), NEW f, NEW g,
           \A y \in T : f[y] \in Nat,
           NEW m \in Bijection(S, T), \A x \in S : g[x] = f[m[x]]
    PROVE  SumOver(g, S) = SumOver(f, T)
<1>1. /\ m \in [S -> T]
      /\ \A x, y \in S : m[x] = m[y] => x = y
      /\ \A t \in T : \E x \in S : m[x] = t
  BY DEF Bijection, Injection, Surjection, IsInjective
<1> DEFINE b == [p \in Units(g, S) |-> <<m[p[1]], p[2]>>]
<1>2. b \in [Units(g, S) -> Units(f, T)]
  BY <1>1 DEF Units
<1>3. \A p, q \in Units(g, S) : b[p] = b[q] => p = q
  BY <1>1 DEF Units
<1>4. \A u \in Units(f, T) : \E p \in Units(g, S) : b[p] = u
  <2> TAKE u \in Units(f, T)
  <2>1. /\ u[1] \in T /\ u[2] \in 1 .. f[u[1]] /\ u = <<u[1], u[2]>>
        /\ u[2] \in Nat
    BY DEF Units
  <2>2. PICK x \in S : m[x] = u[1]
    BY <1>1, <2>1
  <2>3. <<x, u[2]>> \in Units(g, S)
    BY <2>1, <2>2 DEF Units
  <2>4. b[<<x, u[2]>>] = u
    BY <2>1, <2>2, <2>3
  <2> QED
    BY <2>3, <2>4
<1>5. b \in Bijection(Units(g, S), Units(f, T))
  BY <1>2, <1>3, <1>4 DEF Bijection, Injection, Surjection, IsInjective
<1>6. IsFiniteSet(Units(f, T))
  BY UnitsFinite
<1>7. ExistsBijection(Units(f, T), Units(g, S))
  BY <1>5, Fun_ExistsBijSymmetric DEF ExistsBijection
<1> QED
  BY <1>6, <1>7, FS_Bijection DEF SumOver

\* A sum taken group by group: if what belongs to each b in B sums up to at
\* most g[b], everything sums up to at most the sum of g.
LEMMA SumGrouped ==
    ASSUME NEW S, IsFiniteSet(S), NEW f, \A x \in S : f[x] \in Nat,
           NEW B, IsFiniteSet(B), NEW g, \A b \in B : g[b] \in Nat,
           NEW group, \A x \in S : group[x] \in B,
           \A b \in B : SumOver(f, {x \in S : group[x] = b}) <= g[b]
    PROVE  SumOver(f, S) <= SumOver(g, B)
<1> DEFINE In(C) == {x \in S : group[x] \in C}
           G == {C \in SUBSET B : SumOver(f, In(C)) <= SumOver(g, C)}
<1>1. ASSUME NEW C \in SUBSET B, \A t \in SUBSET C : t # C => t \in G
      PROVE  C \in G
  <2>1. CASE C = {}
    <3>1. In(C) = {}
      BY <2>1
    <3>2. SumOver(f, In(C)) = 0 /\ SumOver(g, C) = 0
      BY <2>1, <3>1, SumEmpty
    <3> QED
      BY <3>2
  <2>2. CASE C # {}
    <3>1. PICK b \in C : TRUE
      BY <2>2
    <3> DEFINE one == {x \in S : group[x] = b}
               rest == In(C \ {b})
    <3>2. one \cup rest = In(C) /\ one \cap rest = {}
      BY <3>1
    <3>3. IsFiniteSet(one) /\ IsFiniteSet(rest) /\ IsFiniteSet(C)
          /\ IsFiniteSet(C \ {b})
      BY FS_Subset
    <3>4. SumOver(f, rest) <= SumOver(g, C \ {b})
      BY <1>1, <3>1
    <3>5. SumOver(f, one) <= g[b]
      BY <3>1
    <3>6. /\ \A x \in one \cup rest : f[x] \in Nat
          /\ \A c \in C : g[c] \in Nat
      OBVIOUS
    <3>7. SumOver(f, one \cup rest) = SumOver(f, one) + SumOver(f, rest)
      <4> HIDE DEF one, rest, In
      <4> QED
        BY <3>2, <3>3, <3>6, SumUnion
    <3>8. SumOver(g, C) = g[b] + SumOver(g, C \ {b})
      BY <3>1, <3>3, <3>6, SumRemove
    <3>9. /\ SumOver(f, one) \in Nat /\ SumOver(f, rest) \in Nat
          /\ SumOver(g, C \ {b}) \in Nat /\ g[b] \in Nat
      <4> HIDE DEF one, rest, In
      <4> QED
        BY <3>1, <3>3, <3>6, SumType
    <3>10. SumOver(f, one) + SumOver(f, rest) <= g[b] + SumOver(g, C \ {b})
      <4> HIDE DEF one, rest
      <4> QED
        BY <3>4, <3>5, <3>9
    <3>11. SumOver(f, In(C)) <= SumOver(g, C)
      <4> HIDE DEF one, rest, In
      <4>1. SumOver(f, In(C)) = SumOver(f, one) + SumOver(f, rest)
        BY <3>2, <3>7
      <4> QED
        BY <4>1, <3>8, <3>10, Zenon
    <3> QED
      BY <3>11
  <2> QED
    BY <2>1, <2>2
<1>2. G = SUBSET B
  <2>1. G \in SUBSET (SUBSET B)
    OBVIOUS
  <2> HIDE DEF G
  <2> QED
    BY <1>1, <2>1, SubsetInduction
<1>3. In(B) = S
  OBVIOUS
<1> QED
  BY <1>2, <1>3

\* Integer division rounds down, so parts are worth no more than the whole.
LEMMA DivSuperadditive ==
    ASSUME NEW a \in Nat, NEW b \in Nat, NEW d \in Nat \ {0}
    PROVE  (a \div d) + (b \div d) <= (a + b) \div d
<1> DEFINE p == a \div d
           q == b \div d
           r == (a + b) \div d
<1>1. /\ p \in Nat /\ q \in Nat /\ r \in Nat
      /\ p * d <= a /\ q * d <= b /\ a + b < r * d + d
  OBVIOUS
<1> HIDE DEF p, q, r
<1>2. (p + q) * d < (r + 1) * d
  BY <1>1
<1>3. ASSUME p + q > r PROVE FALSE
  <2>1. (p + q) * d >= (r + 1) * d
    BY <1>1, <1>3
  <2>2. (p + q) * d \in Nat /\ (r + 1) * d \in Nat
    BY <1>1
  <2> QED
    BY <1>2, <2>1, <2>2
<1> QED
  BY <1>1, <1>3 DEF p, q, r

\* Amounts priced one by one, each rounded down, are worth no more than their
\* sum priced at once.
LEMMA SumOfPrices ==
    ASSUME NEW S, IsFiniteSet(S), NEW a, \A x \in S : a[x] \in Nat,
           NEW r \in Nat, NEW d \in Nat \ {0},
           NEW v, \A x \in S : v[x] = (a[x] * r) \div d
    PROVE  SumOver(v, S) <= (SumOver(a, S) * r) \div d
<1> DEFINE G == {s \in SUBSET S : SumOver(v, s) <= (SumOver(a, s) * r) \div d}
<1>0. \A x \in S : v[x] \in Nat
  <2> TAKE x \in S
  <2>1. a[x] * r \in Nat
    OBVIOUS
  <2> QED
    BY <2>1
<1>1. ASSUME NEW s \in SUBSET S, \A t \in SUBSET s : t # s => t \in G
      PROVE  s \in G
  <2>1. CASE s = {}
    <3>1. SumOver(v, s) = 0 /\ SumOver(a, s) = 0
      BY <2>1, SumEmpty
    <3> QED
      BY <3>1
  <2>2. CASE s # {}
    <3>1. PICK x \in s : TRUE
      BY <2>2
    <3>2. IsFiniteSet(s) /\ IsFiniteSet(s \ {x})
      BY FS_Subset
    <3>3. SumOver(v, s \ {x}) <= (SumOver(a, s \ {x}) * r) \div d
      BY <1>1, <3>1
    <3>4. /\ SumOver(v, s) = v[x] + SumOver(v, s \ {x})
          /\ SumOver(a, s) = a[x] + SumOver(a, s \ {x})
      BY <1>0, <3>1, <3>2, SumRemove
    <3> DEFINE A == SumOver(a, s \ {x})
               V == SumOver(v, s \ {x})
    <3>5. A \in Nat /\ V \in Nat /\ a[x] \in Nat /\ v[x] \in Nat
      BY <1>0, <3>1, <3>2, SumType
    <3> HIDE DEF A, V
    <3>6. a[x] * r \in Nat /\ A * r \in Nat
          /\ (a[x] + A) * r = a[x] * r + A * r
      BY <3>5
    <3>7. ((a[x] * r) \div d) + ((A * r) \div d) <= (a[x] * r + A * r) \div d
      BY <3>6, DivSuperadditive
    <3>8. /\ (A * r) \div d \in Nat
          /\ (a[x] * r + A * r) \div d \in Nat
      BY <3>6
    <3>9. v[x] = (a[x] * r) \div d
      BY <3>1
    <3>10. v[x] + V <= ((a[x] + A) * r) \div d
      BY <3>3, <3>5, <3>6, <3>7, <3>8, <3>9 DEF A, V
    <3> QED
      BY <3>4, <3>10 DEF A, V
  <2> QED
    BY <2>1, <2>2
<1>2. G = SUBSET S
  <2>1. G \in SUBSET (SUBSET S)
    OBVIOUS
  <2> HIDE DEF G
  <2> QED
    BY <1>1, <2>1, SubsetInduction
<1> QED
  BY <1>2
-----------------------------------------------------------------------------
(* Sums over a range of numbers.                                           *)

\* A set with zero and with every successor up to n has all numbers up to n.
LEMMA RangeInduction ==
    ASSUME NEW n \in Nat, NEW G, 0 \in G, \A i \in 1 .. n : i - 1 \in G => i \in G
    PROVE  0 .. n \subseteq G
<1> DEFINE Bad == {i \in 0 .. n : i \notin G}
<1>1. SUFFICES ASSUME Bad # {} PROVE FALSE
  OBVIOUS
<1>2. PICK i \in Bad : \A j \in Bad : <<j, i>> \notin OpToRel(<, Nat)
  <2>1. Bad \subseteq Nat
    OBVIOUS
  <2> HIDE DEF Bad
  <2> QED
    BY <1>1, <2>1, NatLessThanWellFounded, WFMin
<1>3. i \in 0 .. n /\ i \notin G /\ i # 0
  OBVIOUS
<1>4. i \in 1 .. n /\ i - 1 \in 0 .. n /\ i - 1 < i
  BY <1>3
<1>5. i - 1 \notin G
  BY <1>3, <1>4
<1>6. i - 1 \in Bad
  BY <1>4, <1>5
<1>7. <<i - 1, i>> \in OpToRel(<, Nat)
  BY <1>4 DEF OpToRel
<1> QED
  BY <1>2, <1>6, <1>7

\* One number more.
LEMMA SumPrefix ==
    ASSUME NEW n \in Nat, NEW f, \A i \in 1 .. n : f[i] \in Nat,
           NEW i \in 1 .. n
    PROVE  /\ SumOver(f, 1 .. i - 1) \in Nat
           /\ SumOver(f, 1 .. i) = f[i] + SumOver(f, 1 .. i - 1)
<1>1. IsFiniteSet(1 .. i - 1) /\ IsFiniteSet(1 .. i)
  BY FS_Interval
<1>2. i \in 1 .. i /\ (1 .. i) \ {i} = 1 .. i - 1
  OBVIOUS
<1>3. \A j \in 1 .. i : f[j] \in Nat
  OBVIOUS
<1>4. \A j \in 1 .. i - 1 : f[j] \in Nat
  OBVIOUS
<1>5. SumOver(f, 1 .. i) = f[i] + SumOver(f, (1 .. i) \ {i})
  BY <1>1, <1>2, <1>3, SumRemove
<1>6. SumOver(f, 1 .. i - 1) \in Nat
  BY <1>1, <1>4, SumType
<1> QED
  BY <1>2, <1>5, <1>6

\* A sum of sums.
LEMMA SumPlus ==
    ASSUME NEW n \in Nat, NEW f, NEW g, NEW h,
           \A i \in 1 .. n : f[i] \in Nat /\ g[i] \in Nat /\ h[i] = f[i] + g[i]
    PROVE  SumOver(h, 1 .. n) = SumOver(f, 1 .. n) + SumOver(g, 1 .. n)
<1> DEFINE F(i) == SumOver(f, 1 .. i)
           H(i) == SumOver(h, 1 .. i)
           E(i) == SumOver(g, 1 .. i)
           G == {i \in 0 .. n : H(i) = F(i) + E(i)}
<1>1. \A i \in 1 .. n : f[i] \in Nat /\ g[i] \in Nat /\ h[i] \in Nat
  OBVIOUS
<1>2. F(0) = 0 /\ H(0) = 0 /\ E(0) = 0
  <2>1. 1 .. 0 = {}
    OBVIOUS
  <2> QED
    BY <2>1, SumEmpty
<1>3. ASSUME NEW i \in 1 .. n
      PROVE  /\ F(i - 1) \in Nat /\ E(i - 1) \in Nat /\ H(i - 1) \in Nat
             /\ F(i) = f[i] + F(i - 1) /\ E(i) = g[i] + E(i - 1)
             /\ H(i) = h[i] + H(i - 1)
  BY <1>1, SumPrefix
<1> HIDE DEF F, H, E
<1>4. ASSUME NEW i \in 1 .. n, i - 1 \in G
      PROVE  i \in G
  <2>1. H(i) = F(i) + E(i)
    BY <1>1, <1>3, <1>4
  <2> QED
    BY <2>1
<1>5. 0 \in G
  BY <1>2
<1> HIDE DEF G
<1>6. n \in G
  BY <1>4, <1>5, RangeInduction
<1> QED
  BY <1>6 DEF G, F, H, E

\* Nothing sums up to nothing.
LEMMA SumZero ==
    ASSUME NEW S, NEW f, \A x \in S : f[x] = 0
    PROVE  SumOver(f, S) = 0
<1>1. Units(f, S) = {}
  BY DEF Units
<1> QED
  BY <1>1, FS_EmptySet DEF SumOver

\* The amounts f are the n amounts g followed by the m amounts h.
Joins(f, g, h, n, m) ==
    /\ \A i \in 1 .. n : g[i] \in Nat /\ f[i] = g[i]
    /\ \A i \in 1 .. m : h[i] \in Nat /\ f[n + i] = h[i]

\* Their sum is the sum of both.
LEMMA SumConcat ==
    ASSUME NEW n \in Nat, NEW m \in Nat, NEW f, NEW g, NEW h,
           Joins(f, g, h, n, m)
    PROVE  SumOver(f, 1 .. n + m) = SumOver(g, 1 .. n) + SumOver(h, 1 .. m)
<1> USE DEF Joins
<1> DEFINE S == 1 .. n
           T == n + 1 .. n + m
           b == [i \in 1 .. m |-> n + i]
<1>1. IsFiniteSet(S) /\ IsFiniteSet(T)
  BY FS_Interval
<1>2. S \cap T = {} /\ S \cup T = 1 .. n + m
  OBVIOUS
<1>3. \A i \in T : i - n \in 1 .. m /\ f[i] = h[i - n] /\ f[i] \in Nat
  <2> TAKE i \in T
  <2>1. i - n \in 1 .. m /\ n + (i - n) = i
    OBVIOUS
  <2> QED
    BY <2>1
<1>4. b \in Bijection(1 .. m, T)
  <2>1. b \in [1 .. m -> T]
    OBVIOUS
  <2>2. \A i, j \in 1 .. m : b[i] = b[j] => i = j
    OBVIOUS
  <2>3. \A t \in T : \E i \in 1 .. m : b[i] = t
    <3> TAKE t \in T
    <3>1. t - n \in 1 .. m /\ b[t - n] = t
      OBVIOUS
    <3> QED
      BY <3>1
  <2> QED
    BY <2>1, <2>2, <2>3 DEF Bijection, Injection, Surjection, IsInjective
<1>5. \A i \in 1 .. m : h[i] = f[b[i]]
  OBVIOUS
<1> HIDE DEF b
<1>6. SumOver(h, 1 .. m) = SumOver(f, T)
  <2>1. \A t \in T : f[t] \in Nat
    BY <1>3
  <2> DEFINE U == 1 .. m
  <2>2. /\ IsFiniteSet(T) /\ \A t \in T : f[t] \in Nat
        /\ b \in Bijection(U, T) /\ \A i \in U : h[i] = f[b[i]]
    BY <1>1, <1>4, <1>5, <2>1
  <2> HIDE DEF T, U
  <2>3. SumOver(h, U) = SumOver(f, T)
    BY <2>2, SumReindex, Zenon
  <2> QED
    BY <2>3 DEF U
<1>7. SumOver(f, S) = SumOver(g, S)
  BY SumSame
<1>8. SumOver(f, S \cup T) = SumOver(f, S) + SumOver(f, T)
  <2>1. \A x \in S \cup T : f[x] \in Nat
    BY <1>3
  <2> HIDE DEF S, T
  <2> QED
    BY <1>1, <1>2, <2>1, SumUnion
<1> QED
  BY <1>2, <1>6, <1>7, <1>8

\* What a loop over 1 .. n computes, started with x0, step after step.
Iterates(r, n, V, x0, step) ==
    /\ r \in [0 .. n -> V]
    /\ r[0] = x0
    /\ \A i \in 1 .. n : r[i] = step[<<i, r[i - 1]>>]

\* Every loop computes something.
LEMMA IterationExists ==
    ASSUME NEW n \in Nat, NEW V, NEW x0 \in V,
           NEW step \in [(1 .. n) \X V -> V]
    PROVE  \E r : Iterates(r, n, V, x0, step)
<1> DEFINE Runs(k, r) == /\ r \in [0 .. k -> V]
                         /\ r[0] = x0
                         /\ \A i \in 1 .. k : r[i] = step[<<i, r[i - 1]>>]
           G == {k \in 0 .. n : \E r : Runs(k, r)}
<1>1. 0 \in G
  <2>1. Runs(0, [i \in 0 .. 0 |-> x0])
    OBVIOUS
  <2>2. \E r : Runs(0, r)
    BY <2>1
  <2> HIDE DEF Runs
  <2> QED
    BY <2>2
<1>2. ASSUME NEW k \in 1 .. n, k - 1 \in G
      PROVE  k \in G
  <2>1. PICK r : Runs(k - 1, r)
    BY <1>2
  <2> DEFINE s == [i \in 0 .. k |-> IF i = k THEN step[<<k, r[k - 1]>>] ELSE r[i]]
  <2>2. k \in Nat /\ k # 0 /\ k - 1 \in 0 .. (k - 1)
    OBVIOUS
  <2>3. r[k - 1] \in V /\ \A i \in 0 .. (k - 1) : r[i] \in V
    BY <2>1, <2>2
  <2>4. <<k, r[k - 1]>> \in (1 .. n) \X V
    BY <2>3
  <2>5. step[<<k, r[k - 1]>>] \in V
    BY <2>4
  <2>6. /\ \A i \in 0 .. (k - 1) : i \in 0 .. k /\ s[i] = r[i]
        /\ s[k] = step[<<k, r[k - 1]>>]
    BY <2>2
  <2>7. s \in [0 .. k -> V]
    <3>1. ASSUME NEW i \in 0 .. k
          PROVE  (IF i = k THEN step[<<k, r[k - 1]>>] ELSE r[i]) \in V
      <4>1. i # k => i \in 0 .. (k - 1)
        BY <2>2
      <4> QED
        BY <2>3, <2>5, <4>1
    <3> QED
      BY <3>1
  <2> HIDE DEF s
  <2>8. ASSUME NEW i \in 1 .. k
        PROVE  s[i] = step[<<i, s[i - 1]>>]
    <3>1. i - 1 \in 0 .. (k - 1)
      BY <2>2
    <3>2. s[i - 1] = r[i - 1]
      BY <2>6, <3>1
    <3>3. CASE i = k
      BY <2>6, <3>2, <3>3
    <3>4. CASE i # k
      <4>1. i \in 1 .. (k - 1) /\ i \in 0 .. (k - 1)
        BY <2>2, <3>4
      <4>2. r[i] = step[<<i, r[i - 1]>>]
        BY <2>1, <4>1
      <4> QED
        BY <2>6, <3>2, <4>1, <4>2
    <3> QED
      BY <3>3, <3>4
  <2>9. s[0] = x0
    <3>1. 0 \in 0 .. (k - 1)
      BY <2>2
    <3> QED
      BY <2>1, <2>6, <3>1
  <2>10. Runs(k, s)
    BY <2>7, <2>8, <2>9
  <2> QED
    BY <2>10
<1>3. 0 .. n \subseteq G
  <2> HIDE DEF G
  <2> QED
    BY <1>1, <1>2, RangeInduction
<1>4. \E r : Runs(n, r)
  BY <1>3
<1> QED
  BY <1>4 DEF Iterates

=============================================================================
