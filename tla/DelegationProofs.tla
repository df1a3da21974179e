-------------------------- MODULE DelegationProofs --------------------------
(***************************************************************************)
(* The operators of Delegation, for any number of validators and amounts:  *)
(* a split distributes everything in one pass and never asks a validator   *)
(* for more than it holds; the order of the answer leaves nobody out.      *)
(***************************************************************************)
EXTENDS Delegation, SumLemmas, SequenceTheorems

-----------------------------------------------------------------------------
(* The loop.                                                               *)

\* The smaller of two amounts.
LEMMA MinOfTwo ==
    ASSUME NEW a \in Nat, NEW b \in Nat
    PROVE  Min({a, b}) = IF a <= b THEN a ELSE b
<1>1. \E x \in {a, b} : \A y \in {a, b} : x <= y
  OBVIOUS
<1>2. /\ Min({a, b}) \in {a, b}
      /\ \A y \in {a, b} : Min({a, b}) <= y
  BY <1>1 DEF Min
<1> QED
  BY <1>2

\* The equation of the loop.
LoopEquation(r, amount, share, n) ==
    r = [i \in 0 .. n |->
            IF i = 0 THEN amount
            ELSE r[i - 1] - Min({share[i], r[i - 1]})]

\* What is left when the first i shares have been served.
Left(amount, share, i) ==
    IF SumOver(share, 1 .. i) <= amount THEN amount - SumOver(share, 1 .. i)
    ELSE 0

\* What is left of an amount is an amount, and the next share takes as much
\* as it is, or everything.
LEMMA LeftStep ==
    ASSUME NEW amount \in Nat, NEW n \in Nat, NEW share,
           \A i \in 1 .. n : share[i] \in Nat, NEW i \in 1 .. n
    PROVE  /\ Left(amount, share, i - 1) \in Nat
           /\ Left(amount, share, i) \in Nat
           /\ Left(amount, share, i)
                = Left(amount, share, i - 1)
                    - Min({share[i], Left(amount, share, i - 1)})
<1> DEFINE p == SumOver(share, 1 .. i - 1)
           q == SumOver(share, 1 .. i)
           s == share[i]
<1>1. p \in Nat /\ q = s + p /\ s \in Nat
  BY SumPrefix
<1>2. /\ Left(amount, share, i - 1) = IF p <= amount THEN amount - p ELSE 0
      /\ Left(amount, share, i) = IF q <= amount THEN amount - q ELSE 0
  BY DEF Left
<1> HIDE DEF p, q, s
<1> DEFINE l == IF p <= amount THEN amount - p ELSE 0
<1>3. l \in Nat
  BY <1>1
<1>4. Min({s, l}) = IF s <= l THEN s ELSE l
  BY <1>1, <1>3, MinOfTwo
<1>5. (IF q <= amount THEN amount - q ELSE 0) = l - Min({s, l})
  BY <1>1, <1>4
<1>6. (IF q <= amount THEN amount - q ELSE 0) \in Nat
  BY <1>1
<1> QED
  BY <1>2, <1>3, <1>5, <1>6 DEF s

\* Before the first share everything is left.
LEMMA LeftFirst ==
    ASSUME NEW amount \in Nat, NEW share
    PROVE  Left(amount, share, 0) = amount
<1>1. 1 .. 0 = {}
  OBVIOUS
<1>2. SumOver(share, 1 .. 0) = 0
  BY <1>1, SumEmpty
<1> QED
  BY <1>2 DEF Left

\* A function that satisfies the equation of the loop.
LEMMA LoopExists ==
    ASSUME NEW amount \in Nat, NEW n \in Nat, NEW share,
           \A i \in 1 .. n : share[i] \in Nat
    PROVE  \E r : LoopEquation(r, amount, share, n)
<1> DEFINE r == [i \in 0 .. n |-> Left(amount, share, i)]
           f == [i \in 0 .. n |->
                   IF i = 0 THEN amount
                   ELSE r[i - 1] - Min({share[i], r[i - 1]})]
<1>1. ASSUME NEW i \in 0 .. n
      PROVE  r[i] = f[i]
  <2>1. CASE i = 0
    BY <2>1, LeftFirst
  <2>2. CASE i # 0
    <3>1. i \in 1 .. n /\ i - 1 \in 0 .. n
      BY <2>2
    <3>2. r[i - 1] = Left(amount, share, i - 1) /\ r[i] = Left(amount, share, i)
      BY <3>1
    <3> QED
      BY <2>2, <3>1, <3>2, LeftStep
  <2> QED
    BY <2>1, <2>2
<1>2. r = f
  <2> HIDE DEF r
  <2>1. r = [i \in 0 .. n |-> r[i]]
    BY DEF r
  <2> QED
    BY <1>1, <2>1
<1> QED
  BY <1>2, Zenon DEF LoopEquation

\* The loop leaves what the shares served so far have not taken.
LEMMA LoopLeaves ==
    ASSUME NEW amount \in Nat, NEW n \in Nat, NEW share,
           \A i \in 1 .. n : share[i] \in Nat
    PROVE  \A i \in 0 .. n :
              remaining_after(amount, share, n)[i] = Left(amount, share, i)
<1> DEFINE r == CHOOSE r : LoopEquation(r, amount, share, n)
<1>1. LoopEquation(r, amount, share, n)
  BY LoopExists, Zenon
<1>2. remaining_after(amount, share, n) = r
  BY DEF remaining_after, LoopEquation
<1> HIDE DEF r
<1>3. /\ r[0] = amount
      /\ \A i \in 1 .. n : r[i] = r[i - 1] - Min({share[i], r[i - 1]})
  <2> DEFINE f == [i \in 0 .. n |->
                     IF i = 0 THEN amount
                     ELSE r[i - 1] - Min({share[i], r[i - 1]})]
  <2>1. r = f
    BY <1>1 DEF LoopEquation
  <2>2. f[0] = amount
    OBVIOUS
  <2>3. ASSUME NEW i \in 1 .. n
        PROVE  f[i] = r[i - 1] - Min({share[i], r[i - 1]})
    BY <2>3
  <2> HIDE DEF f
  <2> QED
    BY <2>1, <2>2, <2>3
<1> DEFINE G == {i \in 0 .. n : r[i] = Left(amount, share, i)}
<1>4. 0 \in G
  BY <1>3, LeftFirst
<1>5. ASSUME NEW i \in 1 .. n, i - 1 \in G
      PROVE  i \in G
  <2>1. r[i - 1] = Left(amount, share, i - 1)
    BY <1>5
  <2>2. Left(amount, share, i)
          = Left(amount, share, i - 1)
              - Min({share[i], Left(amount, share, i - 1)})
    BY LeftStep
  <2>3. r[i] = Left(amount, share, i)
    BY <1>3, <2>1, <2>2
  <2> QED
    BY <2>3
<1>6. 0 .. n \subseteq G
  <2> HIDE DEF G
  <2> QED
    BY <1>4, <1>5, RangeInduction
<1> QED
  BY <1>2, <1>6
\* The shares get no more than they ask for and everything together; exactly
\* what they ask for if that is everything.
Served(r, t, share, amount, n) ==
    /\ t \in [1 .. n -> Nat]
    /\ \A i \in 1 .. n : t[i] <= share[i]
    /\ r[n] = 0
    /\ SumOver(t, 1 .. n) = amount
    /\ SumOver(share, 1 .. n) = amount => \A i \in 1 .. n : t[i] = share[i]

\* Shares that ask for enough are served.
LEMMA LoopTakes ==
    ASSUME NEW amount \in Nat, NEW n \in Nat, NEW share,
           \A i \in 1 .. n : share[i] \in Nat,
           amount <= SumOver(share, 1 .. n)
    PROVE  Served(remaining_after(amount, share, n),
                  taken(remaining_after(amount, share, n), n), share, amount, n)
<1> DEFINE r == remaining_after(amount, share, n)
           t == taken(r, n)
           L(i) == Left(amount, share, i)
           P(i) == SumOver(share, 1 .. i)
           T(i) == SumOver(t, 1 .. i)
<1>1. \A i \in 0 .. n : r[i] = L(i)
  BY LoopLeaves
<1>2. \A i \in 1 .. n : t[i] = r[i - 1] - r[i]
  BY DEF taken
<1>3. ASSUME NEW i \in 1 .. n
      PROVE  /\ L(i - 1) \in Nat /\ L(i) \in Nat
             /\ t[i] = L(i - 1) - L(i)
             /\ t[i] = IF share[i] <= L(i - 1) THEN share[i] ELSE L(i - 1)
             /\ t[i] \in Nat /\ t[i] <= share[i]
  <2>1. /\ L(i - 1) \in Nat /\ L(i) \in Nat /\ share[i] \in Nat
        /\ L(i) = L(i - 1) - Min({share[i], L(i - 1)})
    <3>1. share[i] \in Nat
      OBVIOUS
    <3>2. Left(amount, share, i - 1) \in Nat /\ Left(amount, share, i) \in Nat
      BY LeftStep
    <3>3. Left(amount, share, i)
            = Left(amount, share, i - 1)
                - Min({share[i], Left(amount, share, i - 1)})
      BY LeftStep
    <3> QED
      BY <3>1, <3>2, <3>3
  <2>2. Min({share[i], L(i - 1)})
          = IF share[i] <= L(i - 1) THEN share[i] ELSE L(i - 1)
    <3> HIDE DEF L
    <3> QED
      BY <2>1, MinOfTwo
  <2>3. i \in 0 .. n /\ i - 1 \in 0 .. n
    OBVIOUS
  <2>4. t[i] = L(i - 1) - L(i)
    <3> HIDE DEF L, r, t
    <3> QED
      BY <1>1, <1>2, <2>3
  <2> HIDE DEF L, t
  <2> QED
    BY <2>1, <2>2, <2>4
<1>4. t \in [1 .. n -> Nat]
  <2>1. \A i \in 1 .. n : t[i] \in Nat
    BY <1>3
  <2>2. t = [i \in 1 .. n |-> r[i - 1] - r[i]]
    BY DEF taken
  <2> HIDE DEF r, t
  <2> QED
    BY <2>1, <2>2
<1>5. r[n] = 0
  <2>1. P(n) \in Nat
    <3>1. IsFiniteSet(1 .. n)
      BY FS_Interval
    <3> QED
      BY <3>1, SumType
  <2>2. L(n) = 0
    BY <2>1 DEF Left
  <2> HIDE DEF L, r
  <2> QED
    BY <1>1, <2>2
<1>6. SumOver(t, 1 .. n) = amount
  <2> DEFINE G == {i \in 0 .. n : T(i) = amount - L(i) /\ L(i) \in Nat}
  <2>1. 0 \in G
    <3>1. 1 .. 0 = {}
      OBVIOUS
    <3>2. T(0) = 0
      BY <3>1, SumEmpty
    <3>3. L(0) = amount
      BY LeftFirst
    <3> HIDE DEF T, L
    <3> QED
      BY <3>2, <3>3
  <2>2. ASSUME NEW i \in 1 .. n, i - 1 \in G
        PROVE  i \in G
    <3>1. \A j \in 1 .. n : t[j] \in Nat
      BY <1>3
    <3>2. T(i) = t[i] + T(i - 1) /\ T(i - 1) \in Nat
      <4> HIDE DEF t
      <4> QED
        BY <3>1, SumPrefix
    <3>3. T(i - 1) = amount - L(i - 1)
      BY <2>2
    <3>4. L(i - 1) \in Nat /\ L(i) \in Nat /\ t[i] = L(i - 1) - L(i)
      BY <1>3
    <3> HIDE DEF T, L, t
    <3>5. T(i) = amount - L(i)
      BY <3>2, <3>3, <3>4
    <3> QED
      BY <3>4, <3>5
  <2>3. n \in G
    <3> HIDE DEF G
    <3>1. \A i \in 1 .. n : i - 1 \in G => i \in G
      BY <2>2
    <3>2. 0 .. n \subseteq G
      BY <2>1, <3>1, RangeInduction
    <3> QED
      BY <3>2
  <2>4. T(n) = amount - L(n) /\ L(n) = 0
    <3>1. L(n) = r[n]
      <4> HIDE DEF L, r
      <4> QED
        BY <1>1
    <3> HIDE DEF T, L, r
    <3> QED
      BY <1>5, <2>3, <3>1
  <2> HIDE DEF L
  <2> QED
    BY <2>4
<1>7. ASSUME SumOver(share, 1 .. n) = amount, NEW i \in 1 .. n
      PROVE  t[i] = share[i]
  <2>1. P(i) = share[i] + P(i - 1) /\ P(i - 1) \in Nat /\ share[i] \in Nat
    BY SumPrefix
  <2>2. P(i) <= amount
    <3>1. IsFiniteSet(1 .. n) /\ 1 .. i \in SUBSET (1 .. n)
      BY FS_Interval
    <3>2. P(n) = P(i) + SumOver(share, (1 .. n) \ (1 .. i))
      BY <3>1, SumSplit
    <3>3. SumOver(share, (1 .. n) \ (1 .. i)) \in Nat
      <4>1. IsFiniteSet((1 .. n) \ (1 .. i))
        BY <3>1, FS_Subset
      <4> QED
        BY <4>1, SumType
    <3>4. P(i) \in Nat /\ P(n) = amount
      <4>1. P(i) \in Nat
        <5> HIDE DEF P
        <5> QED
          BY <2>1
      <4> QED
        BY <1>7, <4>1
    <3> DEFINE rest == SumOver(share, (1 .. n) \ (1 .. i))
    <3> HIDE DEF P, rest
    <3> QED
      BY <3>2, <3>3, <3>4 DEF rest
  <2>3. L(i - 1) = amount - P(i - 1)
    <3>1. L(i - 1) = IF P(i - 1) <= amount THEN amount - P(i - 1) ELSE 0
      BY DEF Left
    <3> HIDE DEF P, L
    <3> QED
      BY <2>1, <2>2, <3>1
  <2>4. share[i] <= L(i - 1)
    <3> HIDE DEF P, L
    <3> QED
      BY <2>1, <2>2, <2>3
  <2> QED
    BY <1>3, <2>4
<1> HIDE DEF r, t
<1> QED
  BY <1>3, <1>4, <1>5, <1>6, <1>7 DEF Served, r, t

-----------------------------------------------------------------------------
(* The targets.                                                            *)

\* An even split is complete, and no two parts are more than one coin apart.
LEMMA EvenSplit ==
    ASSUME NEW coins \in Nat, NEW n \in Nat \ {0}
    PROVE  LET t == target_coins_per_validator(coins, n) IN
           /\ t \in [1 .. n -> Nat]
           /\ coins \div n \in Nat
           /\ \A i \in 1 .. n : t[i] \in {coins \div n, coins \div n + 1}
           /\ SumOver(t, 1 .. n) = coins
<1> DEFINE q == coins \div n
           m == coins % n
           t == [i \in 1 .. n |-> q + (IF i <= m THEN 1 ELSE 0)]
           T(i) == SumOver(t, 1 .. i)
           G == {i \in 0 .. n : T(i) = i * q + (IF i <= m THEN i ELSE m)}
<1>1. q \in Nat /\ m \in Nat /\ m < n /\ coins = n * q + m
  OBVIOUS
<1>2. target_coins_per_validator(coins, n) = t
  BY DEF target_coins_per_validator
<1> HIDE DEF q, m
<1>3. /\ t \in [1 .. n -> Nat]
      /\ \A i \in 1 .. n : t[i] \in Nat /\ t[i] = q + (IF i <= m THEN 1 ELSE 0)
      /\ \A i \in 1 .. n : t[i] \in {q, q + 1}
  BY <1>1
<1> HIDE DEF t
<1>4. 0 \in G
  <2>1. 1 .. 0 = {}
    OBVIOUS
  <2>2. T(0) = 0
    BY <2>1, SumEmpty
  <2>3. 0 * q + (IF 0 <= m THEN 0 ELSE m) = 0
    BY <1>1
  <2> HIDE DEF T
  <2> QED
    BY <2>2, <2>3
<1>5. ASSUME NEW i \in 1 .. n, i - 1 \in G
      PROVE  i \in G
  <2>1. T(i) = t[i] + T(i - 1)
    BY <1>3, SumPrefix
  <2>2. T(i - 1) = (i - 1) * q + (IF i - 1 <= m THEN i - 1 ELSE m)
    BY <1>5
  <2>3. t[i] = q + (IF i <= m THEN 1 ELSE 0)
    BY <1>3
  <2>4. (i - 1) * q + q = i * q /\ (i - 1) * q \in Nat
    BY <1>1
  <2> HIDE DEF T
  <2> DEFINE iq == i * q
             jq == (i - 1) * q
  <2>5. iq = jq + q /\ jq \in Nat
    BY <2>4
  <2>6. T(i) = (q + (IF i <= m THEN 1 ELSE 0))
                  + (jq + (IF i - 1 <= m THEN i - 1 ELSE m))
    BY <2>1, <2>2, <2>3
  <2> HIDE DEF iq, jq
  <2>7. T(i) = iq + (IF i <= m THEN i ELSE m)
    BY <1>1, <2>5, <2>6
  <2> QED
    BY <2>7 DEF iq
<1>6. n \in G
  <2> HIDE DEF G
  <2> QED
    BY <1>4, <1>5, RangeInduction
<1>7. SumOver(t, 1 .. n) = coins
  BY <1>1, <1>6
<1> QED
  BY <1>1, <1>2, <1>3, <1>7 DEF q

-----------------------------------------------------------------------------
(* The splits.                                                             *)

\* A split of an amount that f has more than g: it is complete, takes at most
\* f, is nothing where g has reached f and ends below f elsewhere; if g is
\* nowhere above f it leads from g to f.
IsSplit(t, f, g, amount, n) ==
    /\ t \in [1 .. n -> Nat]
    /\ SumOver(t, 1 .. n) = amount
    /\ \A i \in 1 .. n : /\ t[i] <= f[i]
                         /\ f[i] <= g[i] => t[i] = 0
                         /\ g[i] <= f[i] => g[i] + t[i] <= f[i]
    /\ (\A i \in 1 .. n : g[i] <= f[i]) =>
          \A i \in 1 .. n : g[i] + t[i] = f[i]

\* The loop over what g lacks to f, when f has `amount` more in all: the
\* shares are enough, so that everything is distributed.
LEMMA LackingSplit ==
    ASSUME NEW n \in Nat, NEW f \in [1 .. n -> Nat], NEW g \in [1 .. n -> Nat],
           NEW amount \in Nat,
           SumOver(f, 1 .. n) = SumOver(g, 1 .. n) + amount,
           NEW share, \A i \in 1 .. n : share[i] = lacking(f, g, i)
    PROVE  /\ remaining_after(amount, share, n)[n] = 0
           /\ IsSplit(taken(remaining_after(amount, share, n), n), f, g, amount, n)
<1> DEFINE r == remaining_after(amount, share, n)
           t == taken(r, n)
           h == [i \in 1 .. n |-> share[i] + g[i]]
<1>1. IsFiniteSet(1 .. n)
  BY FS_Interval
<1>2. ASSUME NEW i \in 1 .. n
      PROVE  /\ f[i] \in Nat /\ g[i] \in Nat /\ share[i] \in Nat
             /\ share[i] <= f[i] /\ (f[i] <= g[i] => share[i] = 0)
             /\ g[i] <= f[i] => g[i] + share[i] = f[i]
             /\ f[i] <= share[i] + g[i]
  BY DEF lacking
<1>3. \A i \in 1 .. n : h[i] \in Nat /\ h[i] = share[i] + g[i] /\ f[i] <= h[i]
  BY <1>2
<1> HIDE DEF h
<1>4. SumOver(h, 1 .. n) = SumOver(share, 1 .. n) + SumOver(g, 1 .. n)
  BY <1>2, <1>3, SumPlus
<1>5. SumOver(f, 1 .. n) <= SumOver(h, 1 .. n)
  BY <1>1, <1>2, <1>3, SumMonotone
<1>6. SumOver(share, 1 .. n) \in Nat /\ SumOver(g, 1 .. n) \in Nat
  BY <1>1, <1>2, SumType
<1>7. amount <= SumOver(share, 1 .. n)
  BY <1>4, <1>5, <1>6
<1>8. /\ t \in [1 .. n -> Nat]
      /\ \A i \in 1 .. n : t[i] <= share[i]
      /\ r[n] = 0 /\ SumOver(t, 1 .. n) = amount
      /\ SumOver(share, 1 .. n) = amount => \A i \in 1 .. n : t[i] = share[i]
  <2>1. \A i \in 1 .. n : share[i] \in Nat
    BY <1>2
  <2> QED
    BY <2>1, <1>7, LoopTakes DEF Served
<1> HIDE DEF r, t
<1>9. ASSUME NEW i \in 1 .. n
      PROVE  /\ t[i] <= f[i]
             /\ f[i] <= g[i] => t[i] = 0
             /\ g[i] <= f[i] => g[i] + t[i] <= f[i]
  <2>1. t[i] \in Nat /\ t[i] <= share[i]
    BY <1>8
  <2> QED
    BY <1>2, <2>1
<1>10. ASSUME \A i \in 1 .. n : g[i] <= f[i]
       PROVE  \A i \in 1 .. n : g[i] + t[i] = f[i]
  <2>1. \A i \in 1 .. n : h[i] = f[i]
    BY <1>2, <1>3, <1>10
  <2>2. SumOver(h, 1 .. n) = SumOver(f, 1 .. n)
    BY <2>1, SumSame
  <2>3. SumOver(share, 1 .. n) = amount
    BY <1>4, <1>6, <2>2
  <2> QED
    BY <1>2, <1>8, <1>10, <2>3
<1> QED
  BY <1>8, <1>9, <1>10 DEF IsSplit, r, t

\* A sequence of n amounts.
Amounts(s, n) == s \in [1 .. n -> Nat] /\ Len(s) = n

\* The total of a sequence is the sum.
LEMMA TotalIsSum ==
    ASSUME NEW n \in Nat, NEW s \in [1 .. n -> Nat]
    PROVE  Total(s) = SumOver(s, 1 .. n) /\ Total(s) \in Nat
<1>1. IsFiniteSet(1 .. n)
  BY FS_Interval
<1>2. DOMAIN s = 1 .. n /\ \A i \in 1 .. n : s[i] \in Nat
  OBVIOUS
<1> QED
  BY <1>1, <1>2, SumFunctionIsSum, SumType DEF Total, SumFunction

\* calculate_delegations never fails and distributes everything; it gives
\* nothing to a validator at or above its target and lifts no other above it;
\* if nobody is above its target everybody ends at it.
LEMMA DelegationSplit ==
    ASSUME NEW n \in Nat \ {0}, NEW current, Amounts(current, n),
           NEW amount \in Nat
    PROVE  LET t == calculate_delegations(amount, current)
               q == (Total(current) + amount) \div n
           IN
           /\ t \in [1 .. n -> Nat] /\ q \in Nat
           /\ ~delegations_fail(amount, current)
           /\ Total(t) = amount
           /\ \A i \in 1 .. n : current[i] + t[i] <= q + 1 \/ t[i] = 0
           /\ (\A i \in 1 .. n : current[i] <= q) =>
                 \A i \in 1 .. n : current[i] + t[i] \in {q, q + 1}
<1> DEFINE t == calculate_delegations(amount, current)
           coins == Total(current) + amount
           q == coins \div n
           target == target_coins_per_validator(coins, n)
<1>1. current \in [1 .. n -> Nat] /\ Len(current) = n
  BY DEF Amounts
<1>2. Total(current) = SumOver(current, 1 .. n) /\ Total(current) \in Nat
  BY <1>1, TotalIsSum
<1>3. coins \in Nat
  BY <1>2
<1> HIDE DEF coins
<1>4. /\ target \in [1 .. n -> Nat] /\ q \in Nat
      /\ \A i \in 1 .. n : target[i] \in {q, q + 1}
      /\ SumOver(target, 1 .. n) = coins
  BY <1>3, EvenSplit
<1> DEFINE share == [i \in 1 .. n |-> lacking(target, current, i)]
           r == remaining_after(amount, share, n)
<1>5. delegations_remaining(amount, current) = r /\ t = taken(r, n)
  BY <1>1 DEF delegations_remaining, delegation_target, calculate_delegations,
              coins
<1> HIDE DEF target
<1>6. SumOver(target, 1 .. n) = SumOver(current, 1 .. n) + amount
  BY <1>2, <1>4 DEF coins
<1>7. r[n] = 0 /\ IsSplit(t, target, current, amount, n)
  <2>1. \A i \in 1 .. n : share[i] = lacking(target, current, i)
    OBVIOUS
  <2> HIDE DEF share
  <2> QED
    BY <1>1, <1>4, <1>5, <1>6, <2>1, LackingSplit
<1> HIDE DEF r, t, share, q
<1>8. ~delegations_fail(amount, current)
  <2>1. current # <<>>
    BY <1>1
  <2> QED
    BY <1>1, <1>5, <1>7, <2>1 DEF delegations_fail
<1>9. Total(t) = amount
  BY <1>7, TotalIsSum DEF IsSplit
<1>10. ASSUME NEW i \in 1 .. n
       PROVE  current[i] + t[i] <= q + 1 \/ t[i] = 0
  <2>1. current[i] \in Nat /\ target[i] \in {q, q + 1} /\ t[i] \in Nat
    BY <1>1, <1>4, <1>7 DEF IsSplit
  <2>2. CASE target[i] <= current[i]
    BY <1>7, <2>2 DEF IsSplit
  <2>3. CASE current[i] <= target[i]
    <3>1. current[i] + t[i] <= target[i]
      BY <1>7, <2>3 DEF IsSplit
    <3> QED
      BY <1>4, <2>1, <3>1
  <2> QED
    BY <1>4, <2>1, <2>2, <2>3
<1>11. ASSUME \A i \in 1 .. n : current[i] <= q
       PROVE  \A i \in 1 .. n : current[i] + t[i] \in {q, q + 1}
  <2>1. ASSUME NEW i \in 1 .. n
        PROVE  current[i] <= target[i]
    <3>1. current[i] \in Nat /\ current[i] <= q /\ target[i] \in {q, q + 1}
      BY <1>1, <1>4, <1>11
    <3> QED
      BY <1>4, <3>1
  <2> QED
    BY <1>4, <1>7, <2>1 DEF IsSplit
<1> QED
  BY <1>4, <1>5, <1>7, <1>8, <1>9, <1>10, <1>11 DEF IsSplit, t, q, coins

\* calculate_undelegations ends in its first pass with everything distributed;
\* it takes from no validator more than it has, nothing from one at or below
\* its target, and lowers no other below it; if nobody is below its target
\* everybody ends at it.
LEMMA UndelegationSplit ==
    ASSUME NEW n \in Nat \ {0}, NEW current, Amounts(current, n),
           NEW amount \in Nat, amount <= Total(current)
    PROVE  LET t == calculate_undelegations(amount, current)
               q == (Total(current) - amount) \div n
           IN
           /\ t \in [1 .. n -> Nat] /\ q \in Nat
           /\ undelegations_remaining(amount, current)[n] = 0
           /\ Total(t) = amount
           /\ \A i \in 1 .. n : t[i] <= current[i]
           /\ \A i \in 1 .. n : q <= current[i] - t[i] \/ t[i] = 0
           /\ (\A i \in 1 .. n : q + 1 <= current[i]) =>
                 \A i \in 1 .. n : current[i] - t[i] \in {q, q + 1}
<1> DEFINE t == calculate_undelegations(amount, current)
           coins == Total(current) - amount
           q == coins \div n
           target == target_coins_per_validator(coins, n)
<1>1. current \in [1 .. n -> Nat] /\ Len(current) = n
  BY DEF Amounts
<1>2. Total(current) = SumOver(current, 1 .. n) /\ Total(current) \in Nat
  BY <1>1, TotalIsSum
<1>3. coins \in Nat /\ Total(current) = coins + amount
  BY <1>2
<1> HIDE DEF coins
<1>4. /\ target \in [1 .. n -> Nat] /\ q \in Nat
      /\ \A i \in 1 .. n : target[i] \in {q, q + 1}
      /\ SumOver(target, 1 .. n) = coins
  BY <1>3, EvenSplit
<1> DEFINE share == [i \in 1 .. n |-> lacking(current, target, i)]
           r == remaining_after(amount, share, n)
<1>5. undelegations_remaining(amount, current) = r /\ t = taken(r, n)
  BY <1>1 DEF undelegations_remaining, undelegation_target, exceeding,
              calculate_undelegations, coins
<1> HIDE DEF target
<1>6. SumOver(current, 1 .. n) = SumOver(target, 1 .. n) + amount
  BY <1>2, <1>3, <1>4
<1>7. r[n] = 0 /\ IsSplit(t, current, target, amount, n)
  <2>1. \A i \in 1 .. n : share[i] = lacking(current, target, i)
    OBVIOUS
  <2> HIDE DEF share
  <2> QED
    BY <1>1, <1>4, <1>5, <1>6, <2>1, LackingSplit
<1> HIDE DEF r, t, share, q
<1>8. Total(t) = amount
  BY <1>7, TotalIsSum DEF IsSplit
<1>9. ASSUME NEW i \in 1 .. n
      PROVE  t[i] <= current[i] /\ (q <= current[i] - t[i] \/ t[i] = 0)
  <2>1. current[i] \in Nat /\ target[i] \in {q, q + 1} /\ t[i] \in Nat
    BY <1>1, <1>4, <1>7 DEF IsSplit
  <2>2. CASE current[i] <= target[i]
    BY <1>7, <2>1, <2>2 DEF IsSplit
  <2>3. CASE target[i] <= current[i]
    <3>1. target[i] + t[i] <= current[i]
      BY <1>7, <2>3 DEF IsSplit
    <3> QED
      BY <1>4, <2>1, <3>1
  <2> QED
    BY <1>4, <2>1, <2>2, <2>3
<1>10. ASSUME \A i \in 1 .. n : q + 1 <= current[i]
       PROVE  \A i \in 1 .. n : current[i] - t[i] \in {q, q + 1}
  <2>1. ASSUME NEW i \in 1 .. n
        PROVE  target[i] <= current[i]
    <3>1. current[i] \in Nat /\ q + 1 <= current[i] /\ target[i] \in {q, q + 1}
      BY <1>1, <1>4, <1>10
    <3> QED
      BY <1>4, <3>1
  <2>2. \A i \in 1 .. n : target[i] + t[i] = current[i]
    BY <1>7, <2>1 DEF IsSplit
  <2>3. ASSUME NEW i \in 1 .. n
        PROVE  current[i] - t[i] = target[i]
    <3>1. current[i] \in Nat /\ target[i] \in Nat /\ t[i] \in Nat
      BY <1>1, <1>4, <1>7 DEF IsSplit
    <3> QED
      BY <2>2, <3>1
  <2> QED
    BY <1>4, <2>3
<1> QED
  BY <1>4, <1>5, <1>7, <1>8, <1>9, <1>10 DEF IsSplit, t, q, coins

-----------------------------------------------------------------------------
(* The order of the registry's answer.                                     *)

\* The members of S that come no later than v.
Upto(v, S, key) == {w \in S : \/ key[w] < key[v]
                              \/ key[w] = key[v] /\ w <= v}

\* Every member has a place of its own, and no place is left empty.
LEMMA PlaceBijection ==
    ASSUME NEW S, IsFiniteSet(S), NEW key,
           \A v \in S : v \in Nat /\ key[v] \in Nat
    PROVE  /\ Cardinality(S) \in Nat
           /\ \A v \in S : place(v, S, key) \in 1 .. Cardinality(S)
           /\ \A v, w \in S : place(v, S, key) = place(w, S, key) => v = w
           /\ \A i \in 1 .. Cardinality(S) :
                 \E v \in S : place(v, S, key) = i
<1> DEFINE n == Cardinality(S)
           p(v) == place(v, S, key)
           Up(v) == Upto(v, S, key)
<1>1. n \in Nat
  BY FS_CardinalityType
<1>2. \A v : p(v) = Cardinality(Up(v))
  BY DEF place, Upto
<1>3. \A v : Up(v) = {w \in S : \/ key[w] < key[v]
                                \/ key[w] = key[v] /\ w <= v}
  BY DEF Upto
<1> HIDE DEF n, p, Up
<1>4. ASSUME NEW v \in S
      PROVE  IsFiniteSet(Up(v)) /\ v \in Up(v) /\ p(v) \in 1 .. n
  <2>1. Up(v) \subseteq S /\ v \in Up(v)
    BY <1>3
  <2>2. IsFiniteSet(Up(v)) /\ Cardinality(Up(v)) <= n
    BY <2>1, FS_Subset DEF n
  <2>3. Cardinality(Up(v)) \in Nat /\ Cardinality(Up(v)) # 0
    BY <2>1, <2>2, FS_CardinalityType, FS_EmptySet
  <2> QED
    BY <1>1, <1>2, <2>1, <2>2, <2>3
<1>5. ASSUME NEW v \in S, NEW w \in S,
             key[v] < key[w] \/ (key[v] = key[w] /\ v < w)
      PROVE  p(v) < p(w)
  <2>1. ASSUME NEW x \in Up(v)
        PROVE  x \in Up(w) /\ x # w
    <3>1. /\ x \in S /\ x \in Nat /\ v \in Nat /\ w \in Nat
          /\ key[x] \in Nat /\ key[v] \in Nat /\ key[w] \in Nat
      BY <1>3
    <3>2. key[x] < key[v] \/ (key[x] = key[v] /\ x <= v)
      BY <1>3
    <3>3. x # w /\ (key[x] < key[w] \/ (key[x] = key[w] /\ x <= w))
      BY <1>5, <3>1, <3>2
    <3> QED
      BY <1>3, <3>1, <3>3
  <2>2. /\ IsFiniteSet(Up(w) \ {w})
        /\ Cardinality(Up(w) \ {w}) = Cardinality(Up(w)) - 1
    BY <1>4, FS_RemoveElement
  <2>3. Up(v) \subseteq Up(w) \ {w}
    BY <2>1
  <2>4. Cardinality(Up(v)) <= Cardinality(Up(w) \ {w})
    BY <2>2, <2>3, FS_Subset
  <2>5. p(v) \in 1 .. n /\ p(w) \in 1 .. n
    BY <1>4
  <2> QED
    BY <1>1, <1>2, <2>2, <2>4, <2>5
<1>6. ASSUME NEW v \in S, NEW w \in S, p(v) = p(w)
      PROVE  v = w
  <2> DEFINE a == key[v]
             b == key[w]
  <2>1. /\ v \in Nat /\ w \in Nat /\ a \in Nat /\ b \in Nat
        /\ p(v) \in 1 .. n /\ p(w) \in 1 .. n
    BY <1>4
  <2>2. ~(p(v) < p(w)) /\ ~(p(w) < p(v))
    BY <1>1, <1>6, <2>1
  <2>3. /\ ~(a < b \/ (a = b /\ v < w))
        /\ ~(b < a \/ (b = a /\ w < v))
    BY <1>5, <2>2
  <2> HIDE DEF a, b
  <2>4. a = b
    BY <2>1, <2>3
  <2> QED
    BY <2>1, <2>3, <2>4
<1> DEFINE m == [v \in S |-> p(v)]
<1>7. m \in Injection(S, 1 .. n)
  <2>1. m \in [S -> 1 .. n]
    BY <1>4
  <2> QED
    BY <1>6, <2>1 DEF Injection, IsInjective
<1>8. m \in Surjection(S, 1 .. n)
  <2>1. IsFiniteSet(1 .. n) /\ Cardinality(1 .. n) = n
    BY <1>1, FS_Interval
  <2>2. Cardinality(1 .. n) = Cardinality(S)
    BY <2>1 DEF n
  <2> HIDE DEF m
  <2> QED
    BY <1>7, <2>1, <2>2, FS_Injection
<1>9. ASSUME NEW i \in 1 .. n
      PROVE  \E v \in S : p(v) = i
  <2>1. PICK v \in S : m[v] = i
    BY <1>8 DEF Surjection
  <2> QED
    BY <2>1
<1> QED
  BY <1>1, <1>4, <1>6, <1>9 DEF n, p

\* The answer lists every member once.
LEMMA InOrder ==
    ASSUME NEW S, IsFiniteSet(S), NEW key,
           \A v \in S : v \in Nat /\ key[v] \in Nat
    PROVE  /\ Cardinality(S) \in Nat
           /\ in_order(S, key) \in Bijection(1 .. Cardinality(S), S)
           /\ \A v \in S : in_order(S, key)[place(v, S, key)] = v
<1> DEFINE n == Cardinality(S)
           p(v) == place(v, S, key)
           o == in_order(S, key)
<1>1. /\ n \in Nat
      /\ \A v \in S : p(v) \in 1 .. n
      /\ \A v, w \in S : p(v) = p(w) => v = w
      /\ \A i \in 1 .. n : \E v \in S : p(v) = i
  BY PlaceBijection, Zenon
<1>2. o = [i \in 1 .. n |-> CHOOSE v \in S : p(v) = i]
  BY DEF in_order
<1> HIDE DEF n, p, o
<1>3. \A i \in 1 .. n : o[i] \in S /\ p(o[i]) = i
  BY <1>1, <1>2
<1>4. o \in [1 .. n -> S]
  BY <1>2, <1>3
<1>5. \A v \in S : o[p(v)] = v
  BY <1>1, <1>3
<1>6. o \in Injection(1 .. n, S)
  <2>1. \A i, j \in 1 .. n : o[i] = o[j] => i = j
    BY <1>3
  <2> QED
    BY <1>4, <2>1 DEF Injection, IsInjective
<1>7. o \in Surjection(1 .. n, S)
  BY <1>1, <1>4, <1>5 DEF Surjection
<1> QED
  BY <1>1, <1>5, <1>6, <1>7 DEF Bijection, n, p, o
=============================================================================
