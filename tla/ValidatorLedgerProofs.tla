----------------------- MODULE ValidatorLedgerProofs ------------------------
(***************************************************************************)
(* The splits over validators, for any number of validators and amounts:   *)
(* they distribute everything in one pass, even out, and never ask a       *)
(* validator for more than it holds.                                       *)
(***************************************************************************)
EXTENDS ValidatorLedger, DelegationProofs

-----------------------------------------------------------------------------
(* The registry's answer.                                                  *)

\* The validators are finitely many numbers, with an amount each.
LEMMA ValidatorFacts ==
    ASSUME TypeOK
    PROVE  /\ N \in Nat \ {0}
           /\ IsFiniteSet(Validators) /\ Cardinality(Validators) = N
           /\ \A v \in Validators : v \in Nat /\ delegated[v] \in Nat
<1>1. N \in Nat \ {0}
  BY LedgerAssumption
<1>2. IsFiniteSet(Validators) /\ Cardinality(Validators) = N
  BY <1>1, FS_Interval DEF Validators
<1>3. \A v \in Validators : v \in Nat /\ delegated[v] \in Nat
  BY <1>1 DEF TypeOK, Validators
<1> QED
  BY <1>1, <1>2, <1>3

\* Every validator has a place of its own in the answer, and no place is left
\* empty.
LEMMA RankBijection ==
    ASSUME TypeOK
    PROVE  /\ \A v \in Validators : rank(v) \in 1 .. N
           /\ \A v, w \in Validators : rank(v) = rank(w) => v = w
           /\ \A i \in 1 .. N : \E v \in Validators : rank(v) = i
<1>1. /\ IsFiniteSet(Validators) /\ Cardinality(Validators) = N
      /\ \A v \in Validators : v \in Nat /\ delegated[v] \in Nat
  BY ValidatorFacts
<1> HIDE DEF Validators
<1>2. /\ \A v \in Validators :
            place(v, Validators, delegated) \in 1 .. Cardinality(Validators)
      /\ \A v, w \in Validators :
            place(v, Validators, delegated) = place(w, Validators, delegated)
                => v = w
      /\ \A i \in 1 .. Cardinality(Validators) :
            \E v \in Validators : place(v, Validators, delegated) = i
  BY <1>1, PlaceBijection, Zenon
<1> QED
  BY <1>1, <1>2, Zenon DEF rank

\* The answer has every validator's delegation at its place.
LEMMA Reported ==
    ASSUME TypeOK
    PROVE  /\ N \in Nat \ {0}
           /\ Amounts(reported, N)
           /\ \A v \in Validators : reported[rank(v)] = delegated[v]
<1>1. /\ N \in Nat \ {0}
      /\ IsFiniteSet(Validators) /\ Cardinality(Validators) = N
      /\ \A v \in Validators : v \in Nat /\ delegated[v] \in Nat
  BY ValidatorFacts
<1>2. /\ query_validators \in Bijection(1 .. N, Validators)
      /\ \A v \in Validators : query_validators[rank(v)] = v
  <2> HIDE DEF Validators
  <2> QED
    BY <1>1, InOrder DEF query_validators, rank
<1>3. query_validators \in [1 .. N -> Validators]
  BY <1>2 DEF Bijection, Injection
<1>4. reported = [i \in 1 .. N |-> delegated[query_validators[i]]]
  BY DEF reported
<1>5. reported \in [1 .. N -> Nat]
  BY <1>1, <1>3, <1>4
<1>6. Len(reported) = N
  BY <1>1, <1>4
<1>7. \A v \in Validators : reported[rank(v)] = delegated[v]
  BY <1>2, <1>4, RankBijection
<1> QED
  BY <1>1, <1>5, <1>6, <1>7 DEF Amounts

-----------------------------------------------------------------------------
(* The invariant.                                                          *)

\* What the undelegations need: they come from one batch.
IInv ==
    /\ TypeOK
    /\ QueuedUndelegationsCovered
    /\ ~batch_closed => \A v \in Validators : to_undelegate[v] = 0

\* It holds without stake.
LEMMA InitIInv == Init => IInv
<1> SUFFICES ASSUME Init PROVE IInv
  OBVIOUS
<1>1. Zero \in [Validators -> Nat] /\ \A v \in Validators : Zero[v] = 0
  BY DEF Zero
<1>2. TypeOK
  BY <1>1 DEF Init, TypeOK
<1>3. \A v \in Validators : to_undelegate[v] = 0 /\ delegated[v] = 0
  BY <1>1 DEF Init
<1> QED
  BY <1>2, <1>3 DEF IInv, QueuedUndelegationsCovered

\* A stake adds to what is delegated.
LEMMA StakeStep ==
    ASSUME IInv, NEW amount \in STAKE_AMOUNTS, Stake(amount)
    PROVE  IInv'
<1> DEFINE t == calculate_delegations(amount, reported)
<1>1. TypeOK /\ amount \in Nat
  BY LedgerAssumption DEF IInv
<1>2. /\ to_delegate' = add(to_delegate, by_validator(t))
      /\ UNCHANGED <<delegated, to_undelegate, batch_closed, slashed>>
  BY DEF Stake
<1>3. t \in [1 .. N -> Nat]
  BY <1>1, Reported, DelegationSplit
<1> HIDE DEF t
<1>4. \A v \in Validators : t[rank(v)] \in Nat /\ to_delegate[v] \in Nat
  BY <1>1, <1>3, RankBijection DEF TypeOK
<1>5. to_delegate' \in [Validators -> Nat]
  BY <1>2, <1>4 DEF add, by_validator
<1> QED
  BY <1>1, <1>2, <1>5 DEF IInv, TypeOK, QueuedUndelegationsCovered

\* A closed batch asks every validator for at most what it holds.
LEMMA CloseBatchStep ==
    ASSUME IInv, NEW claim \in UNSTAKE_AMOUNTS, CloseBatch(claim)
    PROVE  IInv'
<1> DEFINE t == calculate_undelegations(claim, reported)
<1>1. TypeOK /\ claim \in Nat
  BY LedgerAssumption DEF IInv
<1>2. /\ ~batch_closed /\ ~(claim > Total(reported))
      /\ to_undelegate' = add(to_undelegate, by_validator(t))
      /\ batch_closed' = TRUE
      /\ UNCHANGED <<delegated, to_delegate, slashed>>
  BY DEF CloseBatch, undelegations_fail
<1>3. claim <= Total(reported)
  <2>1. Total(reported) \in Nat
    BY <1>1, Reported, TotalIsSum DEF Amounts
  <2> QED
    BY <1>1, <1>2, <2>1
<1>4. t \in [1 .. N -> Nat] /\ \A i \in 1 .. N : t[i] <= reported[i]
  BY <1>1, <1>3, Reported, UndelegationSplit
<1> HIDE DEF t
<1>5. ASSUME NEW v \in Validators
      PROVE  t[rank(v)] \in Nat /\ t[rank(v)] <= delegated[v]
             /\ to_undelegate[v] = 0
  BY <1>1, <1>2, <1>4, RankBijection, Reported DEF IInv
<1>6. \A v \in Validators : to_undelegate'[v] = t[rank(v)]
  BY <1>2, <1>5 DEF add, by_validator
<1>7. to_undelegate' \in [Validators -> Nat]
  BY <1>2, <1>5 DEF add, by_validator
<1> QED
  BY <1>1, <1>2, <1>5, <1>6, <1>7 DEF IInv, TypeOK, QueuedUndelegationsCovered

\* Every step keeps the invariant.
LEMMA NextIInv == IInv /\ [Next]_vars => IInv'
<1> SUFFICES ASSUME IInv, [Next]_vars PROVE IInv'
  OBVIOUS
<1>1. TypeOK
  BY DEF IInv
<1>2. CASE UNCHANGED vars
  BY <1>2 DEF vars, IInv, TypeOK, QueuedUndelegationsCovered
<1>3. CASE EpochEnd
  <2>1. /\ to_delegate' = Zero /\ to_undelegate' = Zero
        /\ batch_closed' = FALSE /\ slashed' = FALSE
        /\ delegated' = [v \in Validators |->
              LET bonded == delegated[v] + to_delegate[v] IN
              IF to_undelegate[v] <= bonded THEN bonded - to_undelegate[v]
              ELSE bonded]
    BY <1>3 DEF EpochEnd
  <2>2. ASSUME NEW v \in Validators
        PROVE  /\ delegated'[v] \in Nat
               /\ to_undelegate'[v] = 0
    <3>1. delegated[v] \in Nat /\ to_delegate[v] \in Nat
          /\ to_undelegate[v] \in Nat
      BY <1>1 DEF TypeOK
    <3> QED
      BY <2>1, <3>1 DEF Zero
  <2>3. delegated' \in [Validators -> Nat]
    BY <2>1, <2>2
  <2>4. Zero \in [Validators -> Nat]
    BY DEF Zero
  <2>5. TypeOK'
    BY <2>1, <2>3, <2>4 DEF TypeOK
  <2>6. \A v \in Validators : to_undelegate'[v] <= delegated'[v]
    BY <2>2
  <2> QED
    BY <2>2, <2>5, <2>6 DEF IInv, QueuedUndelegationsCovered
<1>4. ASSUME NEW v \in Validators, SlashValidator(v)
      PROVE  IInv'
  <2>1. PICK a \in SLASH_AMOUNTS :
          /\ a < delegated[v]
          /\ delegated' = [delegated EXCEPT ![v] = delegated[v] - a]
    BY <1>4 DEF SlashValidator
  <2>2. slashed' = TRUE /\ UNCHANGED <<to_delegate, to_undelegate, batch_closed>>
    BY <1>4 DEF SlashValidator
  <2>3. delegated[v] - a \in Nat
    BY <1>1, <2>1, LedgerAssumption DEF TypeOK
  <2>4. delegated' \in [Validators -> Nat]
    BY <1>1, <2>1, <2>3 DEF TypeOK
  <2> QED
    BY <2>2, <2>4 DEF IInv, TypeOK, QueuedUndelegationsCovered
<1> QED
  BY <1>2, <1>3, <1>4, StakeStep, CloseBatchStep DEF Next

\* The invariant holds of every behaviour.
LEMMA Invariance == Spec => []IInv
  BY InitIInv, NextIInv, PTL DEF Spec

-----------------------------------------------------------------------------
(* The theorems.                                                           *)

\* No delegation or queued message is negative (delegation.rs, unstake.rs).
THEOREM TypeCorrect == Spec => []TypeOK
  BY Invariance, PTL DEF IInv

\* For any number of validators, however unevenly slashing has left them, no
\* validator is asked for more than it holds (unstake.rs:270-291).
THEOREM UndelegationsCovered == Spec => []QueuedUndelegationsCovered
  BY Invariance, PTL DEF IInv

\* Both splits distribute every amount, in one pass and to the last coin: the
\* errors and the second pass of the loop are never reached
\* (delegation.rs:35-115).
THEOREM EverySplitComplete == Spec => []SplitsComplete
<1>1. ASSUME TypeOK PROVE SplitsComplete
  <2>1. N \in Nat \ {0} /\ Amounts(reported, N) /\ MaxStaked \in Nat
    BY <1>1, Reported, LedgerAssumption
  <2>2. ASSUME NEW amount \in 1 .. MaxStaked
        PROVE  /\ ~delegations_fail(amount, reported)
               /\ Total(calculate_delegations(amount, reported)) = amount
    <3>1. amount \in Nat
      BY <2>1
    <3> QED
      BY <2>1, <3>1, DelegationSplit
  <2>3. ASSUME NEW amount \in 1 .. Total(reported)
        PROVE  undelegations_remaining(amount, reported)[N] = 0
    <3>1. amount \in Nat /\ amount <= Total(reported)
      BY <2>1, TotalIsSum DEF Amounts
    <3> QED
      BY <2>1, <3>1, UndelegationSplit
  <2> QED
    BY <2>2, <2>3 DEF SplitsComplete
<1> QED
  BY <1>1, TypeCorrect, PTL

-----------------------------------------------------------------------------
(* Evening out.                                                            *)

\* Among finitely many amounts there is a smallest and a largest.
LEMMA Extremes ==
    ASSUME NEW n \in Nat \ {0}, NEW f \in [1 .. n -> Nat]
    PROVE  \E lo, hi \in 1 .. n : \A i \in 1 .. n : f[lo] <= f[i] /\ f[i] <= f[hi]
<1> DEFINE Ext(k) == \E lo, hi \in 1 .. k :
                        \A i \in 1 .. k : f[lo] <= f[i] /\ f[i] <= f[hi]
           G == {k \in 0 .. n : k = 0 \/ Ext(k)}
<1>1. 0 \in G
  OBVIOUS
<1>2. ASSUME NEW k \in 1 .. n, k - 1 \in G
      PROVE  k \in G
  <2>1. \A i \in 1 .. k : f[i] \in Nat
    OBVIOUS
  <2>2. \A i \in 1 .. k : i = k \/ i \in 1 .. k - 1
    OBVIOUS
  <2>3. CASE k = 1
    <3>1. \A i \in 1 .. k : i = 1 /\ f[i] \in Nat
      BY <2>1, <2>3
    <3>2. Ext(k)
      BY <2>3, <3>1
    <3> HIDE DEF Ext
    <3> QED
      BY <3>2
  <2>4. CASE k # 1
    <3>1. PICK lo \in 1 .. k - 1, hi \in 1 .. k - 1 :
             \A i \in 1 .. k - 1 : f[lo] <= f[i] /\ f[i] <= f[hi]
      BY <1>2, <2>4
    <3>2. lo \in 1 .. k /\ hi \in 1 .. k /\ k \in 1 .. k
      OBVIOUS
    <3> DEFINE l == IF f[k] < f[lo] THEN k ELSE lo
               h == IF f[hi] < f[k] THEN k ELSE hi
    <3>3. l \in 1 .. k /\ h \in 1 .. k
      BY <3>2
    <3>4. /\ f[l] \in Nat /\ f[h] \in Nat
          /\ f[l] <= f[k] /\ f[l] <= f[lo] /\ f[k] <= f[h] /\ f[hi] <= f[h]
      BY <2>1, <3>2
    <3> HIDE DEF l, h
    <3>5. ASSUME NEW i \in 1 .. k
          PROVE  f[l] <= f[i] /\ f[i] <= f[h]
      <4>1. CASE i = k
        BY <3>4, <4>1
      <4>2. CASE i \in 1 .. k - 1
        <5>1. f[lo] <= f[i] /\ f[i] <= f[hi]
          BY <3>1, <4>2
        <5>2. f[i] \in Nat /\ f[lo] \in Nat /\ f[hi] \in Nat
          BY <2>1, <3>2
        <5> QED
          BY <3>4, <5>1, <5>2
      <4> QED
        BY <2>2, <4>1, <4>2
    <3>6. Ext(k)
      BY <3>3, <3>5
    <3> HIDE DEF Ext
    <3> QED
      BY <3>6
  <2> QED
    BY <2>3, <2>4
<1>3. n \in G
  <2> HIDE DEF G
  <2>1. \A k \in 1 .. n : k - 1 \in G => k \in G
    BY <1>2
  <2>2. 0 .. n \subseteq G
    BY <1>1, <2>1, RangeInduction
  <2> QED
    BY <2>2
<1> QED
  BY <1>3

\* The spread is the distance of the largest from the smallest.
LEMMA SpreadIs ==
    ASSUME NEW n \in Nat \ {0}, NEW f \in [1 .. n -> Nat]
    PROVE  \E lo, hi \in 1 .. n :
              /\ \A i \in 1 .. n : f[lo] <= f[i] /\ f[i] <= f[hi]
              /\ Spread(f) = f[hi] - f[lo]
<1> DEFINE S == {f[i] : i \in DOMAIN f}
<1>1. PICK lo \in 1 .. n, hi \in 1 .. n :
         \A i \in 1 .. n : f[lo] <= f[i] /\ f[i] <= f[hi]
  BY Extremes
<1>2. S \subseteq Nat /\ f[lo] \in S /\ f[hi] \in S
      /\ \A x \in S : f[lo] <= x /\ x <= f[hi]
  BY <1>1
<1> HIDE DEF S
<1>3. Max(S) = f[hi]
  <2>1. Max(S) \in S /\ \A y \in S : Max(S) >= y
    BY <1>2 DEF Max
  <2> DEFINE x == Max(S)
             y == f[hi]
  <2>2. x \in Nat /\ y \in Nat /\ x <= y /\ y <= x
    BY <1>2, <2>1
  <2> HIDE DEF x, y
  <2>3. x = y
    BY <2>2
  <2> QED
    BY <2>3 DEF x, y
<1>4. Min(S) = f[lo]
  <2>1. Min(S) \in S /\ \A y \in S : Min(S) <= y
    BY <1>2 DEF Min
  <2> DEFINE x == Min(S)
             y == f[lo]
  <2>2. x \in Nat /\ y \in Nat /\ x <= y /\ y <= x
    BY <1>2, <2>1
  <2> HIDE DEF x, y
  <2>3. x = y
    BY <2>2
  <2> QED
    BY <2>3 DEF x, y
<1>5. Spread(f) = Max(S) - Min(S)
  BY DEF Spread, S
<1> QED
  BY <1>1, <1>3, <1>4, <1>5

\* Amounts between two bounds are no further apart than the bounds.
LEMMA SpreadBound ==
    ASSUME NEW n \in Nat \ {0}, NEW f \in [1 .. n -> Nat],
           NEW a \in Nat, NEW b \in Nat,
           \A i \in 1 .. n : a <= f[i] /\ f[i] <= b
    PROVE  Spread(f) \in Nat /\ Spread(f) <= b - a
<1>1. PICK lo \in 1 .. n, hi \in 1 .. n :
         /\ \A i \in 1 .. n : f[lo] <= f[i] /\ f[i] <= f[hi]
         /\ Spread(f) = f[hi] - f[lo]
  BY SpreadIs
<1>2. /\ f[lo] \in Nat /\ f[hi] \in Nat /\ f[lo] <= f[hi]
      /\ a <= f[lo] /\ f[hi] <= b
  BY <1>1
<1> QED
  BY <1>1, <1>2

\* The larger of two amounts.
LEMMA MaxOfTwo ==
    ASSUME NEW a \in Nat, NEW b \in Nat
    PROVE  Max({a, b}) \in Nat /\ a <= Max({a, b}) /\ b <= Max({a, b})
<1>1. \E x \in {a, b} : \A y \in {a, b} : x >= y
  OBVIOUS
<1>2. Max({a, b}) \in {a, b} /\ \A y \in {a, b} : Max({a, b}) >= y
  BY <1>1 DEF Max
<1> QED
  BY <1>2

\* A split that leads to a target that is even, or stays between the extremes
\* of before, evens out.
LEMMA EvensOut ==
    ASSUME NEW n \in Nat \ {0}, NEW f \in [1 .. n -> Nat],
           NEW g \in [1 .. n -> Nat], NEW q \in Nat,
           \/ \A i \in 1 .. n : g[i] \in {q, q + 1}
           \/ \A a, b \in Nat : (\A i \in 1 .. n : a <= f[i] /\ f[i] <= b)
                                  => \A i \in 1 .. n : a <= g[i] /\ g[i] <= b
    PROVE  Spread(g) <= Max({Spread(f), 1})
<1>1. PICK lo \in 1 .. n, hi \in 1 .. n :
         /\ \A i \in 1 .. n : f[lo] <= f[i] /\ f[i] <= f[hi]
         /\ Spread(f) = f[hi] - f[lo]
  BY SpreadIs
<1>2. f[lo] \in Nat /\ f[hi] \in Nat /\ f[lo] <= f[hi]
  BY <1>1
<1>3. Spread(f) \in Nat
  BY <1>1, <1>2
<1>4. Max({Spread(f), 1}) \in Nat /\ Spread(f) <= Max({Spread(f), 1})
      /\ 1 <= Max({Spread(f), 1})
  BY <1>3, MaxOfTwo
<1>5. CASE \A i \in 1 .. n : g[i] \in {q, q + 1}
  <2>1. \A i \in 1 .. n : q <= g[i] /\ g[i] <= q + 1
    BY <1>5
  <2>2. q + 1 \in Nat
    OBVIOUS
  <2>3. Spread(g) \in Nat /\ Spread(g) <= (q + 1) - q
    BY <2>1, <2>2, SpreadBound
  <2> QED
    BY <1>4, <2>3
<1>6. CASE \A a, b \in Nat : (\A i \in 1 .. n : a <= f[i] /\ f[i] <= b)
                               => \A i \in 1 .. n : a <= g[i] /\ g[i] <= b
  <2>1. \A i \in 1 .. n : f[lo] <= g[i] /\ g[i] <= f[hi]
    BY <1>1, <1>2, <1>6
  <2>2. Spread(g) \in Nat /\ Spread(g) <= f[hi] - f[lo]
    BY <1>2, <2>1, SpreadBound
  <2> QED
    BY <1>1, <1>3, <1>4, <2>2
<1> QED
  BY <1>5, <1>6

\* A delegation evens out: either nobody is above the even share, and
\* everybody ends at it, or nobody is lifted above the largest.
LEMMA DelegationEvensOut ==
    ASSUME NEW n \in Nat \ {0}, NEW current, Amounts(current, n),
           NEW amount \in Nat, NEW g,
           g = [i \in 1 .. n |->
                   current[i] + 1 * calculate_delegations(amount, current)[i]]
    PROVE  Spread(g) <= Max({Spread(current), 1})
<1> DEFINE t == calculate_delegations(amount, current)
           q == (Total(current) + amount) \div n
<1>1. current \in [1 .. n -> Nat]
  BY DEF Amounts
<1>2. /\ t \in [1 .. n -> Nat] /\ q \in Nat
      /\ \A i \in 1 .. n : current[i] + t[i] <= q + 1 \/ t[i] = 0
      /\ (\A i \in 1 .. n : current[i] <= q) =>
            \A i \in 1 .. n : current[i] + t[i] \in {q, q + 1}
  BY DelegationSplit
<1> HIDE DEF t, q
<1>3. \A i \in 1 .. n : g[i] = current[i] + 1 * t[i]
  BY DEF t
<1>4. ASSUME NEW i \in 1 .. n
      PROVE  /\ current[i] \in Nat /\ t[i] \in Nat
             /\ g[i] = current[i] + t[i] /\ g[i] \in Nat
  BY <1>1, <1>2, <1>3
<1>5. g \in [1 .. n -> Nat]
  BY <1>4
<1>6. CASE \A i \in 1 .. n : current[i] <= q
  <2>1. \A i \in 1 .. n : g[i] \in {q, q + 1}
    BY <1>2, <1>4, <1>6
  <2> QED
    BY <1>1, <1>2, <1>5, <2>1, EvensOut
<1>7. CASE \E j \in 1 .. n : ~(current[j] <= q)
  <2>1. PICK j \in 1 .. n : ~(current[j] <= q)
    BY <1>7
  <2>2. ASSUME NEW a \in Nat, NEW b \in Nat,
               \A i \in 1 .. n : a <= current[i] /\ current[i] <= b,
               NEW i \in 1 .. n
        PROVE  a <= g[i] /\ g[i] <= b
    <3>1. current[j] \in Nat /\ current[j] <= b
      BY <1>4, <2>2
    <3>2. q + 1 <= b
      BY <1>2, <2>1, <3>1
    <3>3. a <= current[i] /\ current[i] <= b
      BY <2>2
    <3>4. current[i] + t[i] <= q + 1 \/ t[i] = 0
      BY <1>2
    <3>5. /\ current[i] \in Nat /\ t[i] \in Nat /\ g[i] = current[i] + t[i]
      BY <1>4
    <3> QED
      BY <1>2, <3>2, <3>3, <3>4, <3>5
  <2>3. \A a, b \in Nat : (\A i \in 1 .. n : a <= current[i] /\ current[i] <= b)
                            => \A i \in 1 .. n : a <= g[i] /\ g[i] <= b
    BY <2>2
  <2> QED
    BY <1>1, <1>2, <1>5, <2>3, EvensOut
<1> QED
  BY <1>6, <1>7

\* An undelegation evens out: either nobody is below the even share, and
\* everybody ends at it, or nobody is lowered below the smallest.
LEMMA UndelegationEvensOut ==
    ASSUME NEW n \in Nat \ {0}, NEW current, Amounts(current, n),
           NEW amount \in Nat, amount <= Total(current), NEW g,
           g = [i \in 1 .. n |->
                   current[i] + (-1) * calculate_undelegations(amount, current)[i]]
    PROVE  Spread(g) <= Max({Spread(current), 1})
<1> DEFINE t == calculate_undelegations(amount, current)
           q == (Total(current) - amount) \div n
<1>1. current \in [1 .. n -> Nat]
  BY DEF Amounts
<1>2. /\ t \in [1 .. n -> Nat] /\ q \in Nat
      /\ \A i \in 1 .. n : t[i] <= current[i]
      /\ \A i \in 1 .. n : q <= current[i] - t[i] \/ t[i] = 0
      /\ (\A i \in 1 .. n : q + 1 <= current[i]) =>
            \A i \in 1 .. n : current[i] - t[i] \in {q, q + 1}
  BY UndelegationSplit
<1> HIDE DEF t, q
<1>3. \A i \in 1 .. n : g[i] = current[i] + (-1) * t[i]
  BY DEF t
<1>4. ASSUME NEW i \in 1 .. n
      PROVE  /\ current[i] \in Nat /\ t[i] \in Nat
             /\ g[i] = current[i] - t[i] /\ g[i] \in Nat
  <2>1. current[i] \in Nat /\ t[i] \in Nat /\ t[i] <= current[i]
    BY <1>1, <1>2
  <2>2. g[i] = current[i] + (-1) * t[i]
    BY <1>3
  <2> DEFINE x == current[i]
             y == t[i]
  <2> HIDE DEF x, y
  <2>3. x \in Nat /\ y \in Nat /\ y <= x
    BY <2>1 DEF x, y
  <2>4. x + (-1) * y = x - y /\ x - y \in Nat
    BY <2>3
  <2> QED
    BY <2>1, <2>2, <2>4 DEF x, y
<1>5. g \in [1 .. n -> Nat]
  BY <1>4
<1>6. CASE \A i \in 1 .. n : q + 1 <= current[i]
  <2>1. \A i \in 1 .. n : g[i] \in {q, q + 1}
    BY <1>2, <1>4, <1>6
  <2> QED
    BY <1>1, <1>2, <1>5, <2>1, EvensOut
<1>7. CASE \E j \in 1 .. n : ~(q + 1 <= current[j])
  <2>1. PICK j \in 1 .. n : ~(q + 1 <= current[j])
    BY <1>7
  <2>2. ASSUME NEW a \in Nat, NEW b \in Nat,
               \A i \in 1 .. n : a <= current[i] /\ current[i] <= b,
               NEW i \in 1 .. n
        PROVE  a <= g[i] /\ g[i] <= b
    <3>1. current[j] \in Nat /\ a <= current[j]
      BY <1>4, <2>2
    <3>2. a <= q
      BY <1>2, <2>1, <3>1
    <3>3. a <= current[i] /\ current[i] <= b
      BY <2>2
    <3>4. q <= current[i] - t[i] \/ t[i] = 0
      BY <1>2
    <3>5. /\ current[i] \in Nat /\ t[i] \in Nat /\ g[i] = current[i] - t[i]
      BY <1>4
    <3> QED
      BY <1>2, <3>2, <3>3, <3>4, <3>5
  <2>3. \A a, b \in Nat : (\A i \in 1 .. n : a <= current[i] /\ current[i] <= b)
                            => \A i \in 1 .. n : a <= g[i] /\ g[i] <= b
    BY <2>2
  <2> QED
    BY <1>1, <1>2, <1>5, <2>3, EvensOut
<1> QED
  BY <1>6, <1>7

\* No split drives the validators apart: executed by itself it leaves them as
\* close as they were, or one coin apart (delegation.rs:118-146).
THEOREM EverySplitEvensOut == Spec => []SplitsEvenOut
<1>1. ASSUME TypeOK PROVE SplitsEvenOut
  <2> DEFINE after(split, sign) ==
                 [i \in 1 .. N |-> reported[i] + sign * split[i]]
             bound == Max({Spread(reported), 1})
  <2>1. N \in Nat \ {0} /\ Amounts(reported, N) /\ MaxStaked \in Nat
    BY <1>1, Reported, LedgerAssumption
  <2>2. ASSUME NEW amount \in 1 .. MaxStaked
        PROVE  Spread(after(calculate_delegations(amount, reported), 1)) <= bound
    <3>1. amount \in Nat
      BY <2>1
    <3> QED
      BY <2>1, <3>1, DelegationEvensOut
  <2>3. ASSUME NEW amount \in 1 .. Total(reported)
        PROVE  Spread(after(calculate_undelegations(amount, reported), -1))
                 <= bound
    <3>1. amount \in Nat /\ amount <= Total(reported)
      BY <2>1, TotalIsSum DEF Amounts
    <3> QED
      BY <2>1, <3>1, UndelegationEvensOut
  <2> QED
    BY <2>2, <2>3 DEF SplitsEvenOut
<1> QED
  BY <1>1, TypeCorrect, PTL


=============================================================================
