---------------------- MODULE ValidatorsRegistryProofs ----------------------
(***************************************************************************)
(* The registry and the hub's stake on each validator, for any number of   *)
(* validators, amounts and calls: no stake is forgotten, redelegations and *)
(* undelegations do not get in each other's way, and the validators        *)
(* together implement StakePool.                                           *)
(***************************************************************************)
EXTENDS ValidatorsRegistry, DelegationProofs

Ledgers == [Validators -> Nat]
Held(ledger) == SumOver(ledger, Validators)

\* The validators are finitely many numbers, none of them the hub's.
LEMMA ValidatorFacts ==
    /\ N \in Nat \ {0} /\ Validators = 1 .. N
    /\ IsFiniteSet(Validators)
    /\ \A v \in Validators : v \in Nat /\ v # HUB
    /\ HUB \in Nat /\ HUB \notin Validators
<1>1. N \in Nat \ {0}
  BY RegistryAssumption
<1>2. IsFiniteSet(Validators)
  BY <1>1, FS_Interval DEF Validators
<1>3. \A v \in Validators : v \in Nat /\ v # HUB
  BY <1>1 DEF Validators, HUB
<1> QED
  BY <1>1, <1>2, <1>3 DEF Validators, HUB

\* The fields of a message.
LEMMA MessageFields ==
    ASSUME NEW m \in Message
    PROVE  /\ m.src \in Validators \cup {HUB}
           /\ m.dst \in Validators \cup {HUB}
           /\ m.amount \in Nat
  BY DEF Message

-----------------------------------------------------------------------------
(* The end of an epoch.                                                    *)

\* A message that is executed moves its amount, and no more is taken from a
\* validator than it has.
LEMMA ExecutedType ==
    ASSUME NEW ledger \in Ledgers, NEW m \in Message
    PROVE  executed(ledger, m) \in Ledgers
<1>1. m.amount \in Nat
  BY MessageFields
<1>2. CASE m.src # HUB /\ ledger[m.src] < m.amount
  BY <1>2 DEF executed
<1>3. CASE ~(m.src # HUB /\ ledger[m.src] < m.amount)
  <2>1. executed(ledger, m) =
          [v \in Validators |->
              ledger[v] + (IF m.dst = v THEN m.amount ELSE 0)
                        - (IF m.src = v THEN m.amount ELSE 0)]
    BY <1>3 DEF executed
  <2>2. ASSUME NEW v \in Validators
        PROVE  ledger[v] + (IF m.dst = v THEN m.amount ELSE 0)
                         - (IF m.src = v THEN m.amount ELSE 0) \in Nat
    <3> DEFINE a == m.amount
               l == ledger[v]
    <3>1. l \in Nat /\ a \in Nat
      BY <1>1 DEF Ledgers
    <3>2. m.src = v => ~(l < a)
      BY <1>3, ValidatorFacts
    <3> HIDE DEF a, l
    <3>3. l + (IF m.dst = v THEN a ELSE 0) - (IF m.src = v THEN a ELSE 0)
            \in Nat
      BY <3>1, <3>2
    <3> QED
      BY <3>3 DEF a, l
  <2> QED
    BY <2>1, <2>2 DEF Ledgers
<1> QED
  BY <1>2, <1>3

\* The equation of the loop over the queue.
EpochEquation(r, refused) ==
    r = [i \in 0 .. Len(queue) |->
            IF i = 0 THEN delegated
            ELSE IF i \in refused THEN r[i - 1]
            ELSE executed(r[i - 1], queue[i])]

\* The ledgers while the queue is executed, step by step.
LEMMA EpochLedgers ==
    ASSUME TypeOK, NEW refused
    PROVE  LET r == on_epoch_end(refused) IN
           /\ r[0] = delegated
           /\ \A i \in 1 .. Len(queue) :
                 r[i] = IF i \in refused THEN r[i - 1]
                        ELSE executed(r[i - 1], queue[i])
           /\ \A i \in 0 .. Len(queue) : r[i] \in Ledgers
<1> DEFINE n == Len(queue)
           step == [p \in (1 .. n) \X Ledgers |->
                      IF p[1] \in refused THEN p[2]
                      ELSE executed(p[2], queue[p[1]])]
<1>1. n \in Nat /\ \A i \in 1 .. n : queue[i] \in Message
  BY DEF TypeOK
<1>2. delegated \in Ledgers
  BY DEF TypeOK, Ledgers
<1>3. step \in [(1 .. n) \X Ledgers -> Ledgers]
  <2>1. ASSUME NEW p \in (1 .. n) \X Ledgers
        PROVE  (IF p[1] \in refused THEN p[2]
                ELSE executed(p[2], queue[p[1]])) \in Ledgers
    <3>1. p[1] \in 1 .. n /\ p[2] \in Ledgers
      OBVIOUS
    <3>2. executed(p[2], queue[p[1]]) \in Ledgers
      BY <1>1, <3>1, ExecutedType
    <3> QED
      BY <3>1, <3>2
  <2> QED
    BY <2>1
<1>4. \A i \in 1 .. n, l \in Ledgers :
         step[<<i, l>>] = IF i \in refused THEN l ELSE executed(l, queue[i])
  OBVIOUS
<1> HIDE DEF step, n
<1>5. PICK s : /\ s \in [0 .. n -> Ledgers]
               /\ s[0] = delegated
               /\ \A i \in 1 .. n : s[i] = step[<<i, s[i - 1]>>]
  <2>1. \E s : Iterates(s, n, Ledgers, delegated, step)
    BY <1>1, <1>2, <1>3, IterationExists
  <2> QED
    BY <2>1 DEF Iterates
<1>6. EpochEquation(s, refused)
  <2> DEFINE f == [i \in 0 .. n |->
                     IF i = 0 THEN delegated
                     ELSE IF i \in refused THEN s[i - 1]
                     ELSE executed(s[i - 1], queue[i])]
  <2>1. ASSUME NEW i \in 0 .. n
        PROVE  s[i] = f[i]
    <3>1. CASE i = 0
      BY <1>5, <3>1
    <3>2. CASE i # 0
      <4>1. i \in 1 .. n /\ i - 1 \in 0 .. n
        BY <1>1, <3>2
      <4>2. s[i - 1] \in Ledgers
        BY <1>5, <4>1
      <4>3. s[i] = IF i \in refused THEN s[i - 1]
                   ELSE executed(s[i - 1], queue[i])
        BY <1>4, <1>5, <4>1, <4>2
      <4> QED
        BY <3>2, <4>3
    <3> QED
      BY <3>1, <3>2
  <2>2. s = f
    <3>1. s = [i \in 0 .. n |-> s[i]]
      BY <1>5
    <3> QED
      BY <2>1, <3>1
  <2> QED
    BY <2>2 DEF EpochEquation, n
<1> DEFINE r == CHOOSE r : EpochEquation(r, refused)
<1>7. EpochEquation(r, refused)
  BY <1>6, Zenon
<1>8. on_epoch_end(refused) = r
  BY DEF on_epoch_end, EpochEquation
<1> HIDE DEF r
<1>9. /\ r[0] = delegated
      /\ \A i \in 1 .. n :
            r[i] = IF i \in refused THEN r[i - 1]
                   ELSE executed(r[i - 1], queue[i])
  <2> DEFINE f == [i \in 0 .. n |->
                     IF i = 0 THEN delegated
                     ELSE IF i \in refused THEN r[i - 1]
                     ELSE executed(r[i - 1], queue[i])]
  <2>1. r = f
    BY <1>7 DEF EpochEquation, n
  <2>2. f[0] = delegated
    BY <1>1
  <2>3. ASSUME NEW i \in 1 .. n
        PROVE  f[i] = IF i \in refused THEN r[i - 1]
                      ELSE executed(r[i - 1], queue[i])
    BY <1>1
  <2> HIDE DEF f
  <2> QED
    BY <2>1, <2>2, <2>3
<1> DEFINE G == {i \in 0 .. n : r[i] \in Ledgers}
<1>10. 0 \in G
  BY <1>1, <1>2, <1>9
<1>11. ASSUME NEW i \in 1 .. n, i - 1 \in G
       PROVE  i \in G
  <2>1. r[i - 1] \in Ledgers /\ i \in 0 .. n
    BY <1>11
  <2>2. executed(r[i - 1], queue[i]) \in Ledgers
    BY <1>1, <2>1, ExecutedType
  <2> QED
    BY <1>9, <2>1, <2>2
<1>12. 0 .. n \subseteq G
  <2> HIDE DEF G
  <2> QED
    BY <1>1, <1>10, <1>11, RangeInduction
<1> QED
  BY <1>8, <1>9, <1>12 DEF n
-----------------------------------------------------------------------------
(* The messages of a transaction.                                          *)

AmountsOf(s) == [i \in 1 .. Len(s) |-> s[i].amount]
Sent(s) == SumOver(AmountsOf(s), 1 .. Len(s))

\* The first i messages without those of amount zero: each is one of them,
\* from different sources if they are, and of the same sum.
IsKept(w, s, i) ==
    /\ w \in Seq(Message)
    /\ \A k \in 1 .. Len(w) :
          \E j \in 1 .. i : w[k] = s[j] /\ s[j].amount # 0
    /\ (\A j, k \in 1 .. Len(s) : j # k => s[j].src # s[k].src) =>
          \A k, l \in 1 .. Len(w) : k # l => w[k].src # w[l].src
    /\ Sent(w) = SumOver(AmountsOf(s), 1 .. i)

\* The amounts of messages are amounts.
LEMMA SentType ==
    ASSUME NEW s \in Seq(Message)
    PROVE  /\ Len(s) \in Nat
           /\ \A i \in 1 .. Len(s) : s[i] \in Message /\ s[i].amount \in Nat
                                       /\ AmountsOf(s)[i] = s[i].amount
           /\ Sent(s) \in Nat
<1>1. Len(s) \in Nat /\ \A i \in 1 .. Len(s) : s[i] \in Message
  OBVIOUS
<1>2. \A i \in 1 .. Len(s) : s[i].amount \in Nat
  BY <1>1, MessageFields
<1>3. \A i \in 1 .. Len(s) : AmountsOf(s)[i] = s[i].amount
  BY DEF AmountsOf
<1>4. IsFiniteSet(1 .. Len(s))
  BY <1>1, FS_Interval
<1>5. Sent(s) \in Nat
  BY <1>2, <1>3, <1>4, SumType DEF Sent
<1> QED
  BY <1>1, <1>2, <1>3, <1>5

\* A message is appended.
LEMMA AppendKept ==
    ASSUME NEW s \in Seq(Message), NEW w, NEW i \in 1 .. Len(s),
           IsKept(w, s, i - 1), s[i].amount # 0
    PROVE  IsKept(Append(w, s[i]), s, i)
<1> DEFINE n == Len(w)
           u == Append(w, s[i])
<1>1. w \in Seq(Message) /\ s[i] \in Message /\ n \in Nat
  BY DEF IsKept
<1>2. /\ u \in Seq(Message) /\ Len(u) = n + 1
      /\ \A k \in 1 .. n : u[k] = w[k]
      /\ u[n + 1] = s[i]
  BY <1>1
<1> HIDE DEF u, n
<1>3. ASSUME NEW k \in 1 .. n + 1
      PROVE  \E j \in 1 .. i : u[k] = s[j] /\ s[j].amount # 0
  <2>1. CASE k = n + 1
    BY <1>2, <2>1
  <2>2. CASE k # n + 1
    <3>1. k \in 1 .. n
      BY <1>1, <2>2
    <3>2. PICK j \in 1 .. i - 1 : w[k] = s[j] /\ s[j].amount # 0
      BY <3>1 DEF IsKept, n
    <3> QED
      BY <1>2, <3>1, <3>2
  <2> QED
    BY <2>1, <2>2
<1>4. ASSUME \A j, k \in 1 .. Len(s) : j # k => s[j].src # s[k].src,
             NEW k \in 1 .. n + 1, NEW l \in 1 .. n + 1, k # l
      PROVE  u[k].src # u[l].src
  <2>1. ASSUME NEW x \in 1 .. n
        PROVE  u[x].src # s[i].src
    <3>1. PICK j \in 1 .. i - 1 : w[x] = s[j]
      BY DEF IsKept, n
    <3>2. j \in 1 .. Len(s) /\ j # i
      OBVIOUS
    <3>3. s[j].src # s[i].src
      BY <1>4, <3>2
    <3> QED
      BY <1>2, <3>1, <3>3
  <2>2. CASE k = n + 1
    <3>1. l \in 1 .. n
      BY <1>1, <1>4, <2>2
    <3> QED
      BY <1>2, <2>1, <2>2, <3>1
  <2>3. CASE l = n + 1
    <3>1. k \in 1 .. n
      BY <1>1, <1>4, <2>3
    <3> QED
      BY <1>2, <2>1, <2>3, <3>1
  <2>4. CASE k # n + 1 /\ l # n + 1
    <3>1. k \in 1 .. n /\ l \in 1 .. n
      BY <1>1, <2>4
    <3>2. w[k].src # w[l].src
      BY <1>4, <3>1 DEF IsKept, n
    <3> QED
      BY <1>2, <3>1, <3>2
  <2> QED
    BY <2>2, <2>3, <2>4
<1>5. Sent(u) = SumOver(AmountsOf(s), 1 .. i)
  <2> DEFINE f == AmountsOf(u)
             g == AmountsOf(w)
             h == AmountsOf(s)
  <2>1. /\ \A k \in 1 .. n + 1 : f[k] \in Nat /\ f[k] = u[k].amount
        /\ \A k \in 1 .. n : g[k] = w[k].amount
        /\ \A k \in 1 .. Len(s) : h[k] \in Nat /\ h[k] = s[k].amount
        /\ Len(s) \in Nat
    BY <1>1, <1>2, SentType DEF n
  <2>2. SumOver(g, 1 .. n) = SumOver(h, 1 .. i - 1)
    BY DEF IsKept, Sent, n
  <2> HIDE DEF f, g, h
  <2>3. \A k \in 1 .. n : f[k] = g[k]
    BY <1>1, <1>2, <2>1
  <2>4. SumOver(f, 1 .. n) = SumOver(g, 1 .. n)
    BY <2>3, SumSame
  <2>5. /\ n + 1 \in Nat /\ n + 1 \in 1 .. n + 1 /\ (n + 1) - 1 = n
    BY <1>1
  <2>6. SumOver(f, 1 .. n + 1) = f[n + 1] + SumOver(f, 1 .. n)
    <3> DEFINE m == n + 1
    <3>1. /\ m \in Nat /\ m \in 1 .. m /\ m - 1 = n
          /\ \A k \in 1 .. m : f[k] \in Nat
      BY <2>1, <2>5
    <3> HIDE DEF m
    <3>2. SumOver(f, 1 .. m) = f[m] + SumOver(f, 1 .. m - 1)
      BY <3>1, SumPrefix
    <3> QED
      BY <3>1, <3>2 DEF m
  <2>7. SumOver(h, 1 .. i) = h[i] + SumOver(h, 1 .. i - 1)
    BY <2>1, SumPrefix
  <2>8. f[n + 1] = h[i]
    BY <1>2, <2>1, <2>5
  <2>9. SumOver(f, 1 .. n + 1) = SumOver(h, 1 .. i)
    BY <2>2, <2>4, <2>6, <2>7, <2>8
  <2> QED
    BY <1>2, <2>9 DEF Sent, f, h
<1>6. IsKept(u, s, i)
  BY <1>2, <1>3, <1>4, <1>5 DEF IsKept
<1> QED
  BY <1>6 DEF u

\* The equation of wrapped.
KeptEquation(r, s) ==
    r = [i \in 0 .. Len(s) |->
            IF i = 0 THEN <<>>
            ELSE IF s[i].amount = 0 THEN r[i - 1]
            ELSE Append(r[i - 1], s[i])]

\* What is sent are the messages that move something.
LEMMA WrappedIsKept ==
    ASSUME NEW s \in Seq(Message)
    PROVE  IsKept(wrapped(s), s, Len(s))
<1> DEFINE n == Len(s)
           V == Seq(Message)
           step == [p \in (1 .. n) \X V |->
                      IF s[p[1]].amount = 0 THEN p[2]
                      ELSE Append(p[2], s[p[1]])]
<1>1. n \in Nat /\ \A i \in 1 .. n : s[i] \in Message
  OBVIOUS
<1>2. <<>> \in V
  OBVIOUS
<1>3. step \in [(1 .. n) \X V -> V]
  <2>1. ASSUME NEW p \in (1 .. n) \X V
        PROVE  (IF s[p[1]].amount = 0 THEN p[2]
                ELSE Append(p[2], s[p[1]])) \in V
    <3>1. p[1] \in 1 .. n /\ p[2] \in V
      OBVIOUS
    <3>2. Append(p[2], s[p[1]]) \in V
      BY <1>1, <3>1
    <3> QED
      BY <3>1, <3>2
  <2> QED
    BY <2>1
<1>4. \A i \in 1 .. n, w \in V :
         step[<<i, w>>] = IF s[i].amount = 0 THEN w ELSE Append(w, s[i])
  OBVIOUS
<1> HIDE DEF step, n, V
<1>5. PICK q : /\ q \in [0 .. n -> V]
               /\ q[0] = <<>>
               /\ \A i \in 1 .. n : q[i] = step[<<i, q[i - 1]>>]
  <2>1. \E q : Iterates(q, n, V, <<>>, step)
    BY <1>1, <1>2, <1>3, IterationExists
  <2> QED
    BY <2>1 DEF Iterates
<1>6. KeptEquation(q, s)
  <2> DEFINE f == [i \in 0 .. n |->
                     IF i = 0 THEN <<>>
                     ELSE IF s[i].amount = 0 THEN q[i - 1]
                     ELSE Append(q[i - 1], s[i])]
  <2>1. ASSUME NEW i \in 0 .. n
        PROVE  q[i] = f[i]
    <3>1. CASE i = 0
      BY <1>5, <3>1
    <3>2. CASE i # 0
      <4>1. i \in 1 .. n /\ i - 1 \in 0 .. n
        BY <1>1, <3>2
      <4>2. q[i - 1] \in V
        BY <1>5, <4>1
      <4>3. q[i] = IF s[i].amount = 0 THEN q[i - 1] ELSE Append(q[i - 1], s[i])
        BY <1>4, <1>5, <4>1, <4>2
      <4> QED
        BY <3>2, <4>3
    <3> QED
      BY <3>1, <3>2
  <2>2. q = f
    <3>1. q = [i \in 0 .. n |-> q[i]]
      BY <1>5
    <3> QED
      BY <2>1, <3>1
  <2> QED
    BY <2>2 DEF KeptEquation, n
<1> DEFINE r == CHOOSE r : KeptEquation(r, s)
<1>7. KeptEquation(r, s)
  BY <1>6, Zenon
<1>8. wrapped(s) = r[n]
  BY DEF wrapped, KeptEquation, n
<1> HIDE DEF r
<1>9. /\ r[0] = <<>>
      /\ \A i \in 1 .. n :
            r[i] = IF s[i].amount = 0 THEN r[i - 1] ELSE Append(r[i - 1], s[i])
  <2> DEFINE f == [i \in 0 .. n |->
                     IF i = 0 THEN <<>>
                     ELSE IF s[i].amount = 0 THEN r[i - 1]
                     ELSE Append(r[i - 1], s[i])]
  <2>1. r = f
    BY <1>7 DEF KeptEquation, n
  <2>2. f[0] = <<>>
    BY <1>1
  <2>3. ASSUME NEW i \in 1 .. n
        PROVE  f[i] = IF s[i].amount = 0 THEN r[i - 1]
                      ELSE Append(r[i - 1], s[i])
    BY <1>1
  <2> HIDE DEF f
  <2> QED
    BY <2>1, <2>2, <2>3
<1> DEFINE G == {i \in 0 .. n : IsKept(r[i], s, i)}
<1>10. 0 \in G
  <2>1. IsKept(<<>>, s, 0)
    <3>1. Len(<<>>) = 0 /\ <<>> \in Seq(Message) /\ 1 .. 0 = {}
      OBVIOUS
    <3>2. Sent(<<>>) = SumOver(AmountsOf(s), 1 .. 0)
      BY <3>1, SumEmpty DEF Sent
    <3> QED
      BY <3>1, <3>2 DEF IsKept
  <2> QED
    BY <1>1, <1>9, <2>1
<1>11. ASSUME NEW i \in 1 .. n, i - 1 \in G
       PROVE  i \in G
  <2>1. IsKept(r[i - 1], s, i - 1) /\ i \in 0 .. n /\ i \in 1 .. Len(s)
    BY <1>11 DEF n
  <2>2. CASE s[i].amount # 0
    <3>1. IsKept(Append(r[i - 1], s[i]), s, i)
      BY <2>1, <2>2, AppendKept
    <3> QED
      BY <1>9, <2>1, <2>2, <3>1
  <2>3. CASE s[i].amount = 0
    <3> DEFINE w == r[i - 1]
               h == AmountsOf(s)
    <3>1. /\ \A k \in 1 .. n : h[k] \in Nat /\ h[k] = s[k].amount
      BY SentType DEF n
    <3>2. /\ SumOver(h, 1 .. i - 1) \in Nat
          /\ SumOver(h, 1 .. i) = h[i] + SumOver(h, 1 .. i - 1)
      BY <1>1, <3>1, SumPrefix
    <3>3. SumOver(h, 1 .. i) = SumOver(h, 1 .. i - 1)
      BY <2>3, <3>1, <3>2
    <3>4. \A k \in 1 .. Len(w) :
             \E j \in 1 .. i : w[k] = s[j] /\ s[j].amount # 0
      BY <2>1 DEF IsKept
    <3>5. IsKept(w, s, i)
      BY <2>1, <3>3, <3>4 DEF IsKept
    <3> QED
      BY <1>9, <2>1, <2>3, <3>5
  <2> QED
    BY <2>2, <2>3
<1>12. 0 .. n \subseteq G
  <2> HIDE DEF G
  <2> QED
    BY <1>1, <1>10, <1>11, RangeInduction
<1>13. IsKept(r[n], s, n)
  BY <1>1, <1>12
<1> QED
  BY <1>8, <1>13 DEF n
-----------------------------------------------------------------------------
(* The registry's answers.                                                 *)

\* What the registry reports for an address is an amount.
LEMMA DelegationType ==
    ASSUME TypeOK, NEW address \in Address
    PROVE  delegation_of(address) \in Nat
<1>1. address.id \in Validators
  BY DEF Address
<1>2. delegated[address.id] \in Nat
  BY <1>1 DEF TypeOK
<1> QED
  BY <1>2 DEF delegation_of

\* A list of all members of S, none of them twice.
Lists(o, S, n) ==
    /\ n \in Nat /\ n = Cardinality(S)
    /\ o \in Bijection(1 .. n, S)
    /\ o \in [1 .. n -> S] /\ Len(o) = n
    /\ \A i, j \in 1 .. n : o[i] = o[j] => i = j
    /\ S # {} => n # 0

\* The order of an answer leaves nobody out.
LEMMA InOrderLists ==
    ASSUME NEW S \in SUBSET Validators, NEW key,
           \A v \in S : key[v] \in Nat
    PROVE  Lists(in_order(S, key), S, Cardinality(S))
<1> DEFINE o == in_order(S, key)
           n == Cardinality(S)
<1>1. IsFiniteSet(S)
  BY ValidatorFacts, FS_Subset
<1>2. \A v \in S : v \in Nat /\ key[v] \in Nat
  BY ValidatorFacts
<1>3. n \in Nat /\ o \in Bijection(1 .. n, S)
  BY <1>1, <1>2, InOrder
<1>4. o \in [1 .. n -> S] /\ \A i, j \in 1 .. n : o[i] = o[j] => i = j
  BY <1>3 DEF Bijection, Injection, IsInjective
<1>5. S # {} => n # 0
  BY <1>1, FS_EmptySet
<1>6. Len(o) = n
  <2>1. DOMAIN o = 1 .. n /\ o \in Seq(S)
    BY <1>3, <1>4
  <2> HIDE DEF o, n
  <2> QED
    BY <1>3, <2>1
<1> QED
  BY <1>3, <1>4, <1>5, <1>6 DEF Lists

\* The validators that stakes and batches are split over.
LEMMA ActiveAnswer ==
    ASSUME TypeOK
    PROVE  LET n == Cardinality(DOMAIN registry) IN
           /\ Lists(query_validators, DOMAIN registry, n)
           /\ Amounts(delegations_in(query_validators), n)
           /\ \A i \in 1 .. n :
                 delegations_in(query_validators)[i]
                    = total_delegated(query_validators[i])
<1> DEFINE n == Cardinality(DOMAIN registry)
           key == [v \in active_validators |-> total_delegated(v)]
           o == query_validators
           d == delegations_in(o)
<1>1. \A v \in DOMAIN registry : total_delegated(v) \in Nat
  BY DelegationType DEF TypeOK, total_delegated
<1>2. \A v \in DOMAIN registry : key[v] \in Nat
  BY <1>1 DEF active_validators
<1>3. o = in_order(DOMAIN registry, key)
  BY DEF query_validators, active_validators
<1> HIDE DEF key
<1>4. DOMAIN registry \in SUBSET Validators
  BY DEF TypeOK
<1>5. Lists(o, DOMAIN registry, n)
  <2> DEFINE S == DOMAIN registry
  <2>1. S \in SUBSET Validators /\ \A v \in S : key[v] \in Nat
    BY <1>2, <1>4
  <2> HIDE DEF S
  <2>2. Lists(in_order(S, key), S, Cardinality(S))
    BY <2>1, InOrderLists
  <2> QED
    BY <1>3, <2>2 DEF S
<1>6. n \in Nat /\ o \in [1 .. n -> DOMAIN registry]
  BY <1>5 DEF Lists
<1> HIDE DEF n, o
<1>7. d = [i \in 1 .. n |-> total_delegated(o[i])]
  BY <1>6 DEF delegations_in
<1>8. d \in [1 .. n -> Nat]
  BY <1>1, <1>6, <1>7
<1>9. Len(d) = n
  BY <1>6, <1>7
<1>10. \A i \in 1 .. n : d[i] = total_delegated(o[i])
  BY <1>7
<1> QED
  BY <1>5, <1>8, <1>9, <1>10 DEF Amounts, n, o

\* The validators that ProcessRedelegations goes through.
LEMMA ExcludedAnswer ==
    ASSUME TypeOK
    PROVE  Lists(query_exclude_list, exclude_list, Cardinality(exclude_list))
<1> DEFINE key == [v \in exclude_list |-> 0]
<1>1. exclude_list \in SUBSET Validators /\ \A v \in exclude_list : key[v] \in Nat
  BY DEF TypeOK
<1>2. query_exclude_list = in_order(exclude_list, key)
  BY DEF query_exclude_list
<1> HIDE DEF key
<1> QED
  BY <1>1, <1>2, InOrderLists

-----------------------------------------------------------------------------
(* The messages of each operation.                                         *)

\* The messages w that move something among s, which distribute `amount`.
Wraps(w, s, n, amount) ==
    /\ w \in Seq(Message) /\ Sent(w) = amount
    /\ \A k \in 1 .. Len(w) :
          w[k].amount # 0 /\ \E j \in 1 .. n : w[k] = s[j]
    /\ (\A j, k \in 1 .. n : j # k => s[j].src # s[k].src) =>
          \A k, l \in 1 .. Len(w) : k # l => w[k].src # w[l].src

\* Messages for a split.
LEMMA WrappedSplit ==
    ASSUME NEW n \in Nat, NEW s \in [1 .. n -> Message],
           NEW split \in [1 .. n -> Nat],
           \A i \in 1 .. n : s[i].amount = split[i]
    PROVE  Wraps(wrapped(s), s, n, Total(split))
<1> DEFINE w == wrapped(s)
<1>1. s \in Seq(Message) /\ Len(s) = n
  OBVIOUS
<1>2. IsKept(w, s, n)
  BY <1>1, WrappedIsKept
<1>3. \A i \in 1 .. n : AmountsOf(s)[i] = split[i]
  BY <1>1 DEF AmountsOf
<1>4. SumOver(AmountsOf(s), 1 .. n) = SumOver(split, 1 .. n)
  BY <1>3, SumSame
<1>5. Total(split) = SumOver(split, 1 .. n)
  BY TotalIsSum
<1> HIDE DEF w
<1>6. Sent(w) = Total(split) /\ w \in Seq(Message)
  BY <1>2, <1>4, <1>5 DEF IsKept
<1>7. ASSUME NEW k \in 1 .. Len(w)
      PROVE  w[k].amount # 0 /\ \E j \in 1 .. n : w[k] = s[j]
  BY <1>2 DEF IsKept
<1>8. (\A j, k \in 1 .. n : j # k => s[j].src # s[k].src) =>
         \A k, l \in 1 .. Len(w) : k # l => w[k].src # w[l].src
  BY <1>1, <1>2 DEF IsKept
<1> QED
  BY <1>6, <1>7, <1>8 DEF Wraps, w

\* A stake is delegated to registered validators, all of it.
Delegates(w, amount) ==
    /\ w \in Seq(Message) /\ Sent(w) = amount
    /\ \A k \in 1 .. Len(w) : w[k].src = HUB /\ w[k].dst \in DOMAIN registry

\* execute_stake's messages delegate the stake.
LEMMA DelegateMessages ==
    ASSUME TypeOK, NEW amount \in Nat,
           ~delegations_fail(amount, delegations_in(query_validators))
    PROVE  Delegates(prepare_wrapped_delegate_msgs(query_validators,
                        calculate_delegations(amount,
                            delegations_in(query_validators))), amount)
<1> DEFINE n == Cardinality(DOMAIN registry)
           o == query_validators
           d == delegations_in(o)
           t == calculate_delegations(amount, d)
           s == [i \in DOMAIN t |->
                    [src |-> HUB, dst |-> o[i], amount |-> t[i]]]
<1>1. Lists(o, DOMAIN registry, n) /\ Amounts(d, n)
  BY ActiveAnswer
<1>2. n \in Nat \ {0}
  <2>1. d # <<>>
    BY DEF delegations_fail
  <2>2. n \in Nat /\ d \in [1 .. n -> Nat]
    BY <1>1 DEF Lists, Amounts
  <2> HIDE DEF n, d
  <2> QED
    BY <2>1, <2>2
<1>3. t \in [1 .. n -> Nat] /\ Total(t) = amount
  BY <1>1, <1>2, DelegationSplit
<1>4. o \in [1 .. n -> DOMAIN registry] /\ DOMAIN registry \subseteq Validators
  BY <1>1 DEF Lists, TypeOK
<1>5. prepare_wrapped_delegate_msgs(o, t) = wrapped(s)
  BY DEF prepare_wrapped_delegate_msgs
<1> HIDE DEF n, o, d, t
<1>6. s \in [1 .. n -> Message]
      /\ \A i \in 1 .. n : s[i].amount = t[i] /\ s[i].src = HUB
                           /\ s[i].dst \in DOMAIN registry
  BY <1>3, <1>4, ValidatorFacts DEF Message
<1> HIDE DEF s
<1>7. Wraps(wrapped(s), s, n, amount)
  BY <1>2, <1>3, <1>6, WrappedSplit
<1>8. Delegates(wrapped(s), amount)
  BY <1>6, <1>7 DEF Wraps, Delegates
<1> QED
  BY <1>5, <1>8 DEF o, d, t

\* A batch is undelegated from registered validators, all of it, in one
\* message each and no more than the registry reports.
Undelegates(w, claim) ==
    /\ w \in Seq(Message) /\ Sent(w) = claim
    /\ \A k \in 1 .. Len(w) :
          /\ w[k].dst = HUB /\ w[k].src \in DOMAIN registry
          /\ w[k].amount <= total_delegated(w[k].src)
    /\ \A k, l \in 1 .. Len(w) : k # l => w[k].src # w[l].src

\* The messages of pick_validator_for_undelegation undelegate the claim, and
\* a claim that is not refused is at most what the registry reports.
LEMMA UndelegateMessages ==
    ASSUME TypeOK, NEW claim \in Nat,
           ~undelegations_fail(claim, delegations_in(query_validators))
    PROVE  /\ Undelegates(prepare_wrapped_undelegate_msgs(query_validators,
                            calculate_undelegations(claim,
                                delegations_in(query_validators))), claim)
           /\ claim # 0 /\ claim <= Total(delegations_in(query_validators))
<1> DEFINE n == Cardinality(DOMAIN registry)
           o == query_validators
           d == delegations_in(o)
           t == calculate_undelegations(claim, d)
           s == [i \in DOMAIN t |->
                    [src |-> o[i], dst |-> HUB, amount |-> t[i]]]
<1>1. /\ Lists(o, DOMAIN registry, n) /\ Amounts(d, n)
      /\ \A i \in 1 .. n : d[i] = total_delegated(o[i])
  BY ActiveAnswer
<1>2. n \in Nat \ {0} /\ d \in [1 .. n -> Nat]
  <2>1. d # <<>>
    BY DEF undelegations_fail
  <2>2. n \in Nat /\ d \in [1 .. n -> Nat]
    BY <1>1 DEF Lists, Amounts
  <2> HIDE DEF n, d
  <2> QED
    BY <2>1, <2>2
<1>3. claim # 0 /\ claim <= Total(d)
  <2>1. Total(d) \in Nat
    BY <1>2, TotalIsSum
  <2> HIDE DEF n
  <2>2. ~(claim > Total(d)) /\ claim # 0
    BY DEF undelegations_fail
  <2> HIDE DEF d
  <2> QED
    BY <2>1, <2>2
<1>4. /\ t \in [1 .. n -> Nat] /\ Total(t) = claim
      /\ \A i \in 1 .. n : t[i] <= d[i]
  BY <1>1, <1>2, <1>3, UndelegationSplit
<1>5. /\ o \in [1 .. n -> DOMAIN registry] /\ DOMAIN registry \subseteq Validators
      /\ \A i, j \in 1 .. n : o[i] = o[j] => i = j
  BY <1>1 DEF Lists, TypeOK
<1>6. prepare_wrapped_undelegate_msgs(o, t) = wrapped(s)
  BY DEF prepare_wrapped_undelegate_msgs
<1> HIDE DEF n, o, d, t
<1>7. /\ s \in [1 .. n -> Message]
      /\ \A i \in 1 .. n : /\ s[i].amount = t[i] /\ s[i].dst = HUB
                           /\ s[i].src = o[i]
  BY <1>4, <1>5, ValidatorFacts DEF Message
<1> HIDE DEF s
<1>8. Wraps(wrapped(s), s, n, claim)
  BY <1>2, <1>4, <1>7, WrappedSplit
<1> DEFINE w == wrapped(s)
<1> HIDE DEF w
<1>9. ASSUME NEW k \in 1 .. Len(w)
      PROVE  /\ w[k].dst = HUB /\ w[k].src \in DOMAIN registry
             /\ w[k].amount <= total_delegated(w[k].src)
  <2>1. PICK j \in 1 .. n : w[k] = s[j]
    BY <1>8 DEF Wraps, w
  <2>2. /\ w[k].dst = HUB /\ w[k].src = o[j] /\ w[k].amount = t[j]
        /\ o[j] \in DOMAIN registry /\ t[j] <= d[j]
        /\ d[j] = total_delegated(o[j])
    BY <1>1, <1>4, <1>5, <1>7, <2>1
  <2> QED
    BY <2>2
<1>10. \A j, k \in 1 .. n : j # k => s[j].src # s[k].src
  BY <1>5, <1>7
<1>11. Undelegates(w, claim)
  BY <1>8, <1>9, <1>10 DEF Wraps, Undelegates, w
<1> QED
  BY <1>3, <1>6, <1>11 DEF o, d, t, w

\* Redelegations lead from excluded validators to registered ones.
Redelegates(w) ==
    /\ w \in Seq(Message)
    /\ \A k \in 1 .. Len(w) :
          w[k].src \in exclude_list /\ w[k].dst \in DOMAIN registry

\* process_redelegations' messages for one excluded validator do.
LEMMA RedelegateMessages ==
    ASSUME TypeOK, redelegation_possible, NEW v \in exclude_list
    PROVE  Redelegates(redelegations(v, query_validators))
<1> DEFINE n == Cardinality(DOMAIN registry)
           o == query_validators
           d == delegations_in(o)
           held == delegation_of([id |-> v, prefix |-> VALIDATOR_ADDR_PREFIX])
           t == calculate_delegations(held, d)
           s == [i \in DOMAIN t |->
                    [src |-> v, dst |-> o[i], amount |-> t[i]]]
<1>1. v \in Validators /\ DOMAIN registry \subseteq Validators
  BY DEF TypeOK
<1>2. held \in Nat
  <2>1. [id |-> v, prefix |-> VALIDATOR_ADDR_PREFIX] \in Address
    BY <1>1 DEF Address
  <2> QED
    BY <2>1, DelegationType
<1>3. CASE held = 0
  <2>1. redelegations(v, o) = <<>>
    BY <1>3 DEF redelegations
  <2>2. Redelegates(<<>>)
    BY DEF Redelegates
  <2> QED
    BY <2>1, <2>2
<1>4. CASE held # 0
  <2>1. Lists(o, DOMAIN registry, n) /\ Amounts(d, n)
    BY ActiveAnswer
  <2>2. DOMAIN registry # {}
    BY <1>4 DEF redelegation_possible, active_validators
  <2>3. n \in Nat \ {0} /\ o \in [1 .. n -> DOMAIN registry]
    BY <2>1, <2>2 DEF Lists
  <2>4. t \in [1 .. n -> Nat]
    BY <1>2, <2>1, <2>3, DelegationSplit
  <2>5. redelegations(v, o) = wrapped(s)
    BY <1>4 DEF redelegations, execute_redelegate_proxy
  <2> HIDE DEF n, o, d, held, t
  <2>6. /\ s \in [1 .. n -> Message]
        /\ \A i \in 1 .. n : /\ s[i].amount = t[i] /\ s[i].src = v
                             /\ s[i].dst \in DOMAIN registry
    BY <1>1, <2>3, <2>4 DEF Message
  <2> HIDE DEF s
  <2>7. Wraps(wrapped(s), s, n, Total(t))
    BY <2>3, <2>4, <2>6, WrappedSplit
  <2>8. Redelegates(wrapped(s))
    BY <2>6, <2>7 DEF Wraps, Redelegates
  <2> QED
    BY <2>5, <2>8 DEF o
<1> QED
  BY <1>3, <1>4

\* Two lists of redelegations.
LEMMA RedelegatesConcat ==
    ASSUME NEW u, NEW w, Redelegates(u), Redelegates(w)
    PROVE  Redelegates(u \o w)
<1>1. u \in Seq(Message) /\ w \in Seq(Message)
  BY DEF Redelegates
<1>2. /\ u \o w \in Seq(Message) /\ Len(u \o w) = Len(u) + Len(w)
      /\ \A k \in 1 .. Len(u) + Len(w) :
            (u \o w)[k] = IF k <= Len(u) THEN u[k] ELSE w[k - Len(u)]
  BY <1>1
<1>3. ASSUME NEW k \in 1 .. Len(u \o w)
      PROVE  (u \o w)[k].src \in exclude_list /\ (u \o w)[k].dst \in DOMAIN registry
  <2>1. Len(u) \in Nat /\ Len(w) \in Nat
    BY <1>1
  <2>2. CASE k <= Len(u)
    <3>1. k \in 1 .. Len(u) /\ (u \o w)[k] = u[k]
      BY <1>2, <2>1, <2>2
    <3> QED
      BY <3>1 DEF Redelegates
  <2>3. CASE ~(k <= Len(u))
    <3>1. k - Len(u) \in 1 .. Len(w) /\ (u \o w)[k] = w[k - Len(u)]
      BY <1>2, <2>1, <2>3
    <3> QED
      BY <3>1 DEF Redelegates
  <2> QED
    BY <2>2, <2>3
<1> QED
  BY <1>2, <1>3 DEF Redelegates

\* The equation of all_redelegations.
AllEquation(r, e, o) ==
    r = [i \in 0 .. Len(e) |->
            IF i = 0 THEN <<>>
            ELSE r[i - 1] \o redelegations(e[i], o)]

\* The messages of ProcessRedelegations lead from excluded validators to
\* registered ones.
LEMMA AllRedelegations ==
    ASSUME TypeOK, redelegation_possible
    PROVE  Redelegates(all_redelegations(query_exclude_list, query_validators))
<1> DEFINE e == query_exclude_list
           o == query_validators
           n == Len(e)
           V == Seq(Message)
           step == [p \in (1 .. n) \X V |-> p[2] \o redelegations(e[p[1]], o)]
<1>1. n \in Nat /\ \A i \in 1 .. n : e[i] \in exclude_list
  BY ExcludedAnswer DEF Lists
<1>2. <<>> \in V
  OBVIOUS
<1>3. ASSUME NEW i \in 1 .. n
      PROVE  Redelegates(redelegations(e[i], o)) /\ redelegations(e[i], o) \in V
  <2>1. Redelegates(redelegations(e[i], o))
    BY <1>1, RedelegateMessages
  <2> QED
    BY <2>1 DEF Redelegates
<1>4. step \in [(1 .. n) \X V -> V]
  <2>1. ASSUME NEW p \in (1 .. n) \X V
        PROVE  p[2] \o redelegations(e[p[1]], o) \in V
    <3>1. p[1] \in 1 .. n /\ p[2] \in V
      OBVIOUS
    <3>2. redelegations(e[p[1]], o) \in V
      BY <1>3, <3>1
    <3> QED
      BY <3>1, <3>2
  <2> QED
    BY <2>1
<1>5. \A i \in 1 .. n, w \in V :
         step[<<i, w>>] = w \o redelegations(e[i], o)
  OBVIOUS
<1> HIDE DEF step, n, V, e, o
<1>6. PICK q : /\ q \in [0 .. n -> V]
               /\ q[0] = <<>>
               /\ \A i \in 1 .. n : q[i] = step[<<i, q[i - 1]>>]
  <2>1. \E q : Iterates(q, n, V, <<>>, step)
    BY <1>1, <1>2, <1>4, IterationExists
  <2> QED
    BY <2>1 DEF Iterates
<1>7. AllEquation(q, e, o)
  <2> DEFINE f == [i \in 0 .. n |->
                     IF i = 0 THEN <<>>
                     ELSE q[i - 1] \o redelegations(e[i], o)]
  <2>1. ASSUME NEW i \in 0 .. n
        PROVE  q[i] = f[i]
    <3>1. CASE i = 0
      BY <1>6, <3>1
    <3>2. CASE i # 0
      <4>1. i \in 1 .. n /\ i - 1 \in 0 .. n
        BY <1>1, <3>2
      <4>2. q[i - 1] \in V
        BY <1>6, <4>1
      <4>3. q[i] = q[i - 1] \o redelegations(e[i], o)
        BY <1>5, <1>6, <4>1, <4>2
      <4> QED
        BY <3>2, <4>3
    <3> QED
      BY <3>1, <3>2
  <2>2. q = f
    <3>1. q = [i \in 0 .. n |-> q[i]]
      BY <1>6
    <3> QED
      BY <2>1, <3>1
  <2> QED
    BY <2>2 DEF AllEquation, n
<1> DEFINE r == CHOOSE r : AllEquation(r, e, o)
<1>8. AllEquation(r, e, o)
  BY <1>7, Zenon
<1>9. all_redelegations(e, o) = r[n]
  BY DEF all_redelegations, AllEquation, n
<1> HIDE DEF r
<1>10. /\ r[0] = <<>>
       /\ \A i \in 1 .. n : r[i] = r[i - 1] \o redelegations(e[i], o)
  <2> DEFINE f == [i \in 0 .. n |->
                     IF i = 0 THEN <<>>
                     ELSE r[i - 1] \o redelegations(e[i], o)]
  <2>1. r = f
    BY <1>8 DEF AllEquation, n
  <2>2. f[0] = <<>>
    BY <1>1
  <2>3. ASSUME NEW i \in 1 .. n
        PROVE  f[i] = r[i - 1] \o redelegations(e[i], o)
    <3>1. i \in 0 .. n /\ i # 0
      BY <1>1
    <3> QED
      BY <3>1, Zenon
  <2> HIDE DEF f
  <2> QED
    BY <2>1, <2>2, <2>3
<1> DEFINE G == {i \in 0 .. n : Redelegates(r[i])}
<1>11. 0 \in G
  <2>1. Redelegates(<<>>)
    BY DEF Redelegates
  <2> QED
    BY <1>1, <1>10, <2>1
<1>12. ASSUME NEW i \in 1 .. n, i - 1 \in G
       PROVE  i \in G
  <2>1. Redelegates(r[i - 1]) /\ i \in 0 .. n
    BY <1>12
  <2>2. Redelegates(r[i - 1] \o redelegations(e[i], o))
    BY <1>3, <2>1, RedelegatesConcat
  <2> QED
    BY <1>10, <2>1, <2>2
<1>13. 0 .. n \subseteq G
  <2> HIDE DEF G
  <2> QED
    BY <1>1, <1>11, <1>12, RangeInduction
<1> QED
  BY <1>1, <1>9, <1>13 DEF e, o

-----------------------------------------------------------------------------
(* The invariant.                                                          *)

Known == DOMAIN registry \cup exclude_list

\* A validator is registered under its own number or excluded, not both.
RegistryConsistent ==
    /\ DOMAIN registry \cap exclude_list = {}
    /\ \A v \in DOMAIN registry : registry[v].id = v

\* Stake is on known validators, and queued messages send it to such.
StakeKnown ==
    /\ \A v \in Validators : delegated[v] > 0 => v \in Known
    /\ \A i \in 1 .. Len(queue) :
          /\ queue[i].src = HUB => queue[i].dst # HUB
          /\ queue[i].dst # HUB => queue[i].dst \in Known

\* The undelegations of an epoch come from one batch.
OneBatch ==
    ~batch_closed => \A i \in 1 .. Len(queue) : queue[i].dst # HUB

\* Without a disturbance, a queued undelegation is covered and nothing before
\* it takes from the same validator; redelegations leave only validators that
\* are not registered, from which no batch undelegates.
Undisturbed ==
    ~disturbed =>
        /\ \A i \in 1 .. Len(queue) : queue[i].dst = HUB =>
              /\ queue[i].amount <= delegated[queue[i].src]
              /\ \A j \in 1 .. i - 1 : queue[j].src # queue[i].src
        /\ \A i \in 1 .. Len(queue) :
              queue[i].src # HUB /\ queue[i].dst # HUB
                => queue[i].src \notin DOMAIN registry

IInv == TypeOK /\ RegistryConsistent /\ StakeKnown /\ OneBatch /\ Undisturbed

\* It holds of a registry without stake.
LEMMA InitIInv == Init => IInv
<1> SUFFICES ASSUME Init PROVE IInv
  OBVIOUS
<1>1. /\ registry = [v \in INITIAL |->
                       [id |-> v, prefix |-> VALIDATOR_ADDR_PREFIX]]
      /\ INITIAL \subseteq Validators
  BY RegistryAssumption DEF Init
<1>2. /\ DOMAIN registry \subseteq Validators
      /\ \A v \in DOMAIN registry : registry[v] \in Address /\ registry[v].id = v
  BY <1>1 DEF Address
<1>3. /\ exclude_list = {} /\ hub_contract \in HUB_CONTRACTS
      /\ delegated \in [Validators -> Nat]
      /\ \A v \in Validators : delegated[v] = 0
      /\ queue = <<>> /\ batch_closed = FALSE /\ calls = 0
      /\ disturbed = FALSE /\ faults = 0
  BY RegistryAssumption DEF Init
<1>4. Len(queue) = 0 /\ queue \in Seq(Message)
  BY <1>3
<1>5. TypeOK
  BY <1>2, <1>3, <1>4 DEF TypeOK
<1>6. RegistryConsistent
  BY <1>2, <1>3 DEF RegistryConsistent
<1>7. StakeKnown /\ OneBatch /\ Undisturbed
  BY <1>3, <1>4 DEF StakeKnown, OneBatch, Undisturbed
<1> QED
  BY <1>5, <1>6, <1>7 DEF IInv

-----------------------------------------------------------------------------
(* The owner's operations and slashes keep it.                             *)

\* Registering a validator behind its queued redelegation is a disturbance;
\* otherwise the validator has no redelegation queued.
LEMMA AddStep ==
    ASSUME IInv, NEW v \in Validators, NEW prefix \in PREFIXES,
           add_validator([id |-> v, prefix |-> prefix])
    PROVE  IInv'
<1> DEFINE a == [id |-> v, prefix |-> prefix]
<1>1. TypeOK /\ RegistryConsistent /\ StakeKnown /\ OneBatch /\ Undisturbed
  BY DEF IInv
<1>2. /\ registry' = [w \in DOMAIN registry \cup {v} |->
                        IF w = v THEN a ELSE registry[w]]
      /\ exclude_list' = exclude_list \ {v}
      /\ disturbed' = (disturbed \/ leaving(v))
      /\ UNCHANGED <<hub_contract, delegated, queue, batch_closed, calls, faults>>
  <2>1. convert_addr_by_prefix(a, VALIDATOR_ADDR_PREFIX).id = v
    BY DEF convert_addr_by_prefix
  <2> HIDE DEF a
  <2> QED
    BY <2>1 DEF add_validator, a
<1>3. a \in Address /\ a.id = v
  BY RegistryAssumption DEF Address
<1> HIDE DEF a
<1>4. /\ DOMAIN registry' = DOMAIN registry \cup {v}
      /\ \A w \in DOMAIN registry' :
            registry'[w] = IF w = v THEN a ELSE registry[w]
  BY <1>2
<1>5. TypeOK'
  BY <1>1, <1>2, <1>3, <1>4 DEF TypeOK, leaving
<1>6. RegistryConsistent'
  <2>1. DOMAIN registry' \cap exclude_list' = {}
    BY <1>1, <1>2, <1>4 DEF RegistryConsistent
  <2>2. \A w \in DOMAIN registry' : registry'[w].id = w
    BY <1>1, <1>3, <1>4 DEF RegistryConsistent
  <2> QED
    BY <2>1, <2>2 DEF RegistryConsistent
<1>7. Known \subseteq Known'
  BY <1>2, <1>4 DEF Known
<1>8. StakeKnown'
  BY <1>1, <1>2, <1>7 DEF StakeKnown
<1>9. OneBatch'
  BY <1>1, <1>2 DEF OneBatch
<1>10. Undisturbed'
  <2>1. SUFFICES ASSUME ~disturbed' PROVE Undisturbed'
    BY DEF Undisturbed
  <2>2. ~disturbed /\ ~leaving(v)
    BY <1>2, <2>1
  <2>3. DOMAIN queue = 1 .. Len(queue)
    BY <1>1 DEF TypeOK
  <2>4. \A i \in 1 .. Len(queue) : ~(queue[i].src = v /\ queue[i].dst # HUB)
    BY <2>2, <2>3 DEF leaving
  <2> QED
    BY <1>1, <1>2, <1>4, <2>2, <2>4 DEF Undisturbed
<1> QED
  BY <1>5, <1>6, <1>8, <1>9, <1>10 DEF IInv

\* A removed validator is put on the exclude list: nothing is forgotten.
LEMMA RemoveStep ==
    ASSUME IInv, NEW v \in Validators, remove_validator(v)
    PROVE  IInv'
<1>1. TypeOK /\ RegistryConsistent /\ StakeKnown /\ OneBatch /\ Undisturbed
  BY DEF IInv
<1>2. /\ registry' = [w \in DOMAIN registry \ {v} |-> registry[w]]
      /\ exclude_list' = exclude_list \cup {v}
      /\ UNCHANGED <<hub_contract, delegated, queue, batch_closed, calls,
                     disturbed, faults>>
  BY DEF remove_validator, Restrict
<1>3. /\ DOMAIN registry' = DOMAIN registry \ {v}
      /\ \A w \in DOMAIN registry' : registry'[w] = registry[w]
  BY <1>2
<1>4. TypeOK'
  BY <1>1, <1>2, <1>3 DEF TypeOK
<1>5. RegistryConsistent'
  BY <1>1, <1>2, <1>3 DEF RegistryConsistent
<1>6. Known \subseteq Known'
  BY <1>2, <1>3 DEF Known
<1>7. StakeKnown'
  BY <1>1, <1>2, <1>6 DEF StakeKnown
<1>8. OneBatch' /\ Undisturbed'
  BY <1>1, <1>2, <1>3 DEF OneBatch, Undisturbed
<1> QED
  BY <1>4, <1>5, <1>7, <1>8 DEF IInv

\* Nothing of it depends on the contract that the registry takes for the hub.
LEMMA ConfigStep ==
    ASSUME IInv, update_config
    PROVE  IInv'
  BY DEF IInv, update_config, TypeOK, RegistryConsistent, StakeKnown, OneBatch,
         Undisturbed, Known

\* A slash is a disturbance.
LEMMA SlashStep ==
    ASSUME IInv, NEW v \in Validators, SlashValidator(v)
    PROVE  IInv'
<1>1. TypeOK /\ RegistryConsistent /\ StakeKnown /\ OneBatch
  BY DEF IInv
<1>2. PICK a \in SLASH_AMOUNTS :
         /\ a < delegated[v]
         /\ delegated' = [delegated EXCEPT ![v] = delegated[v] - a]
  BY DEF SlashValidator
<1>3. /\ disturbed' = TRUE /\ faults' = faults + 1
      /\ UNCHANGED <<registry, exclude_list, hub_contract, queue, batch_closed,
                     calls>>
  BY DEF SlashValidator, registryVars
<1>4. delegated[v] \in Nat /\ a \in Nat /\ delegated[v] - a \in Nat
  BY <1>1, <1>2, RegistryAssumption DEF TypeOK
<1>5. delegated' \in [Validators -> Nat]
      /\ \A w \in Validators : delegated'[w] > 0 => delegated[w] > 0
  BY <1>1, <1>2, <1>4 DEF TypeOK
<1>6. TypeOK'
  BY <1>1, <1>3, <1>5 DEF TypeOK
<1>7. RegistryConsistent' /\ OneBatch' /\ Undisturbed'
  BY <1>1, <1>3 DEF RegistryConsistent, OneBatch, Undisturbed
<1>8. StakeKnown'
  BY <1>1, <1>3, <1>5 DEF StakeKnown, Known
<1> QED
  BY <1>6, <1>7, <1>8 DEF IInv

-----------------------------------------------------------------------------
(* Operations that queue messages keep it.                                 *)

\* The queue p is the queue q followed by the messages w.
Extends(p, q, w) ==
    /\ p \in Seq(Message)
    /\ Len(q) \in Nat /\ Len(w) \in Nat /\ Len(p) = Len(q) + Len(w)
    /\ \A i \in 1 .. Len(q) : p[i] = q[i]
    /\ \A i \in 1 .. Len(w) : p[Len(q) + i] = w[i]

\* What is queued comes behind what is there.
LEMMA QueueGrows ==
    ASSUME NEW q \in Seq(Message), NEW w \in Seq(Message), NEW p, p = q \o w
    PROVE  Extends(p, q, w)
<1>1. /\ p \in Seq(Message) /\ Len(q) \in Nat /\ Len(w) \in Nat
      /\ Len(p) = Len(q) + Len(w)
  OBVIOUS
<1>2. \A i \in 1 .. Len(q) : p[i] = q[i]
  OBVIOUS
<1>3. \A i \in 1 .. Len(w) : p[Len(q) + i] = w[i]
  OBVIOUS
<1> QED
  BY <1>1, <1>2, <1>3 DEF Extends

\* Every message of the new queue is an old or a new one.
LEMMA OldOrNew ==
    ASSUME NEW p, NEW q, NEW w, Extends(p, q, w), NEW i \in 1 .. Len(p)
    PROVE  \/ i \in 1 .. Len(q) /\ p[i] = q[i]
           \/ \E k \in 1 .. Len(w) : i = Len(q) + k /\ p[i] = w[k]
<1> DEFINE a == Len(q)
           b == Len(w)
<1>1. /\ a \in Nat /\ b \in Nat /\ i \in 1 .. a + b
      /\ \A j \in 1 .. a : p[j] = q[j]
      /\ \A j \in 1 .. b : p[a + j] = w[j]
  BY DEF Extends
<1> HIDE DEF a, b
<1>2. CASE i <= a
  BY <1>1, <1>2 DEF a
<1>3. CASE ~(i <= a)
  <2>1. i - a \in 1 .. b /\ i = a + (i - a)
    BY <1>1, <1>3
  <2> QED
    BY <1>1, <2>1 DEF a, b
<1> QED
  BY <1>2, <1>3

\* Messages that undelegate nothing and send stake to registered validators,
\* from the hub or from excluded ones, may always be queued.
LEMMA QueueStep ==
    ASSUME IInv, NEW w \in Seq(Message), queue' = queue \o w,
           \A k \in 1 .. Len(w) :
              w[k].src \in {HUB} \cup exclude_list /\ w[k].dst \in DOMAIN registry,
           calls' \in Nat,
           UNCHANGED <<registryVars, delegated, batch_closed, disturbed, faults>>
    PROVE  IInv'
<1>1. TypeOK /\ RegistryConsistent /\ StakeKnown /\ OneBatch /\ Undisturbed
  BY DEF IInv
<1>2. UNCHANGED <<registry, exclude_list, hub_contract, delegated, batch_closed,
                  disturbed, faults>>
  BY DEF registryVars
<1>3. Extends(queue', queue, w)
  BY <1>1, QueueGrows DEF TypeOK
<1>4. queue' \in Seq(Message)
  BY <1>3 DEF Extends
<1>5. ASSUME NEW i \in 1 .. Len(queue')
      PROVE  \/ i \in 1 .. Len(queue) /\ queue'[i] = queue[i]
             \/ /\ queue'[i].src \in {HUB} \cup exclude_list
                /\ queue'[i].dst \in DOMAIN registry /\ queue'[i].dst # HUB
  <2>1. CASE i \in 1 .. Len(queue) /\ queue'[i] = queue[i]
    BY <2>1
  <2>2. CASE \E k \in 1 .. Len(w) : i = Len(queue) + k /\ queue'[i] = w[k]
    BY <1>1, <2>2, ValidatorFacts DEF TypeOK
  <2> QED
    BY <1>3, <2>1, <2>2, OldOrNew
<1>6. TypeOK'
  BY <1>1, <1>2, <1>4 DEF TypeOK
<1>7. RegistryConsistent'
  BY <1>1, <1>2 DEF RegistryConsistent
<1>8. StakeKnown'
  <2>1. ASSUME NEW i \in 1 .. Len(queue')
        PROVE  /\ queue'[i].src = HUB => queue'[i].dst # HUB
               /\ queue'[i].dst # HUB => queue'[i].dst \in Known
    BY <1>1, <1>5 DEF StakeKnown, Known
  <2> QED
    BY <1>1, <1>2, <2>1 DEF StakeKnown, Known
<1>9. OneBatch'
  BY <1>1, <1>2, <1>5 DEF OneBatch
<1>10. Undisturbed'
  <2> SUFFICES ASSUME ~disturbed PROVE Undisturbed'
    BY <1>2 DEF Undisturbed
  <2>1. ASSUME NEW i \in 1 .. Len(queue'), queue'[i].dst = HUB
        PROVE  /\ queue'[i].amount <= delegated[queue'[i].src]
               /\ \A j \in 1 .. i - 1 : queue'[j].src # queue'[i].src
    <3>1. i \in 1 .. Len(queue) /\ queue'[i] = queue[i]
      BY <1>5, <2>1
    <3>2. ASSUME NEW j \in 1 .. i - 1
          PROVE  queue'[j].src # queue'[i].src
      <4>1. j \in 1 .. Len(queue) /\ queue'[j] = queue[j]
        <5>1. Len(queue) \in Nat
          BY <1>3 DEF Extends
        <5>2. j \in 1 .. Len(queue)
          BY <3>1, <5>1
        <5> QED
          BY <1>3, <5>2 DEF Extends
      <4> QED
        BY <1>1, <2>1, <3>1, <4>1 DEF Undisturbed
    <3> QED
      BY <1>1, <2>1, <3>1, <3>2 DEF Undisturbed
  <2>2. ASSUME NEW i \in 1 .. Len(queue'),
               queue'[i].src # HUB, queue'[i].dst # HUB
        PROVE  queue'[i].src \notin DOMAIN registry
    <3>1. CASE i \in 1 .. Len(queue) /\ queue'[i] = queue[i]
      BY <1>1, <2>2, <3>1 DEF Undisturbed
    <3>2. CASE queue'[i].src \in {HUB} \cup exclude_list
      BY <1>1, <2>2, <3>2 DEF RegistryConsistent
    <3> QED
      BY <1>5, <3>1, <3>2
  <2> QED
    BY <1>2, <2>1, <2>2 DEF Undisturbed
<1> QED
  BY <1>6, <1>7, <1>8, <1>9, <1>10 DEF IInv

\* ProcessRedelegations
LEMMA RedelegationStep ==
    ASSUME IInv, process_redelegations
    PROVE  IInv'
<1> DEFINE w == all_redelegations(query_exclude_list, query_validators)
<1>1. TypeOK /\ redelegation_possible
  BY DEF IInv, process_redelegations
<1>2. Redelegates(w)
  BY <1>1, AllRedelegations
<1>3. queue' = queue \o w
  BY DEF process_redelegations
<1>4. calls' \in Nat
  BY <1>1 DEF process_redelegations, TypeOK
<1>5. UNCHANGED <<registryVars, delegated, batch_closed, disturbed, faults>>
  BY DEF process_redelegations
<1> HIDE DEF w
<1>6. /\ w \in Seq(Message)
      /\ \A k \in 1 .. Len(w) :
            w[k].src \in {HUB} \cup exclude_list /\ w[k].dst \in DOMAIN registry
  BY <1>2 DEF Redelegates
<1> QED
  BY <1>3, <1>4, <1>5, <1>6, QueueStep

\* A stake queues delegations of the amount staked.
LEMMA StakeIs ==
    ASSUME IInv, Stake
    PROVE  \E amount \in Nat \ {0}, w \in Seq(Message) :
              /\ Delegates(w, amount)
              /\ queue' = queue \o w
              /\ UNCHANGED <<registryVars, delegated, batch_closed, calls,
                             disturbed, faults>>
<1>1. TypeOK
  BY DEF IInv
<1> DEFINE d == delegations_in(query_validators)
           msgs(amount) == prepare_wrapped_delegate_msgs(query_validators,
                              calculate_delegations(amount, d))
<1>2. PICK amount \in STAKE_AMOUNTS :
         /\ ~delegations_fail(amount, d)
         /\ queue' = queue \o msgs(amount)
         /\ UNCHANGED <<registryVars, delegated, batch_closed, calls, disturbed,
                        faults>>
  BY Zenon DEF Stake
<1>3. amount \in Nat \ {0}
  BY RegistryAssumption
<1>4. Delegates(msgs(amount), amount)
  BY <1>1, <1>2, <1>3, DelegateMessages
<1>5. msgs(amount) \in Seq(Message)
  BY <1>4 DEF Delegates
<1> HIDE DEF msgs, d
<1> QED
  BY <1>2, <1>3, <1>4, <1>5

\* A stake keeps the invariant.
LEMMA StakeStep ==
    ASSUME IInv, Stake
    PROVE  IInv'
<1>1. PICK amount \in Nat \ {0}, w \in Seq(Message) :
         /\ Delegates(w, amount)
         /\ queue' = queue \o w
         /\ UNCHANGED <<registryVars, delegated, batch_closed, calls,
                        disturbed, faults>>
  BY StakeIs
<1>2. /\ w \in Seq(Message)
      /\ \A k \in 1 .. Len(w) :
            w[k].src \in {HUB} \cup exclude_list /\ w[k].dst \in DOMAIN registry
  BY <1>1 DEF Delegates
<1>3. calls' \in Nat
  BY <1>1 DEF IInv, TypeOK
<1> QED
  BY <1>1, <1>2, <1>3, QueueStep

\* A batch that is closed queues undelegations of its claim, which is covered.
LEMMA CloseBatchIs ==
    ASSUME IInv, CloseBatch
    PROVE  \E claim \in Nat \ {0}, w \in Seq(Message) :
              /\ Undelegates(w, claim)
              /\ claim <= Total(delegations_in(query_validators))
              /\ ~batch_closed /\ batch_closed' = TRUE
              /\ queue' = queue \o w
              /\ UNCHANGED <<registryVars, delegated, calls, disturbed, faults>>
<1>1. TypeOK
  BY DEF IInv
<1> DEFINE d == delegations_in(query_validators)
           msgs(claim) == prepare_wrapped_undelegate_msgs(query_validators,
                              calculate_undelegations(claim, d))
<1>2. PICK claim \in UNSTAKE_AMOUNTS :
         /\ ~undelegations_fail(claim, d)
         /\ ~batch_closed /\ batch_closed' = TRUE
         /\ queue' = queue \o msgs(claim)
         /\ UNCHANGED <<registryVars, delegated, calls, disturbed, faults>>
  BY Zenon DEF CloseBatch
<1>3. claim \in Nat
  BY RegistryAssumption
<1>4. Undelegates(msgs(claim), claim) /\ claim # 0 /\ claim <= Total(d)
  BY <1>1, <1>2, <1>3, UndelegateMessages
<1>5. msgs(claim) \in Seq(Message)
  BY <1>4 DEF Undelegates
<1> HIDE DEF msgs, d
<1> QED
  BY <1>2, <1>3, <1>4, <1>5 DEF d

\* The registry reports no more than there is.
LEMMA ReportedAtMost ==
    ASSUME TypeOK, RegistryConsistent, NEW v \in DOMAIN registry
    PROVE  total_delegated(v) \in Nat /\ total_delegated(v) <= delegated[v]
<1>1. v \in Validators /\ registry[v].id = v /\ delegated[v] \in Nat
  BY DEF TypeOK, RegistryConsistent
<1>2. total_delegated(v) \in {0, delegated[v]}
  BY <1>1 DEF total_delegated, delegation_of
<1> QED
  BY <1>1, <1>2

\* The undelegations of a batch come from registered validators: no
\* redelegation queued before takes from them.
LEMMA CloseBatchStep ==
    ASSUME IInv, CloseBatch
    PROVE  IInv'
<1>1. TypeOK /\ RegistryConsistent /\ StakeKnown /\ OneBatch /\ Undisturbed
  BY DEF IInv
<1>2. PICK claim, w :
         /\ Undelegates(w, claim)
         /\ ~batch_closed /\ batch_closed' = TRUE
         /\ queue' = queue \o w
         /\ UNCHANGED <<registryVars, delegated, calls, disturbed, faults>>
  BY CloseBatchIs
<1>3. UNCHANGED <<registry, exclude_list, hub_contract, delegated, calls,
                  disturbed, faults>>
  BY <1>2 DEF registryVars
<1>4. Extends(queue', queue, w)
  BY <1>1, <1>2, QueueGrows DEF TypeOK, Undelegates
<1>5. ASSUME NEW k \in 1 .. Len(w)
      PROVE  /\ w[k].dst = HUB /\ w[k].src \in DOMAIN registry
             /\ w[k].src # HUB /\ w[k].amount \in Nat
             /\ w[k].amount <= delegated[w[k].src]
  <2>1. /\ w[k].dst = HUB /\ w[k].src \in DOMAIN registry
        /\ w[k].amount <= total_delegated(w[k].src)
        /\ w[k] \in Message
    BY <1>2 DEF Undelegates
  <2>2. /\ total_delegated(w[k].src) \in Nat
        /\ total_delegated(w[k].src) <= delegated[w[k].src]
    BY <1>1, <2>1, ReportedAtMost
  <2>3. w[k].src \in Validators
    BY <1>1, <2>1 DEF TypeOK
  <2>4. w[k].src # HUB /\ delegated[w[k].src] \in Nat /\ w[k].amount \in Nat
    BY <1>1, <2>1, <2>3, ValidatorFacts, MessageFields DEF TypeOK
  <2> DEFINE x == w[k].amount
             y == total_delegated(w[k].src)
             z == delegated[w[k].src]
  <2>5. x \in Nat /\ y \in Nat /\ z \in Nat /\ x <= y /\ y <= z
    BY <2>1, <2>2, <2>4
  <2> HIDE DEF x, y, z
  <2>6. x <= z
    BY <2>5
  <2> QED
    BY <2>1, <2>4, <2>6 DEF x, z
<1>6. TypeOK'
  BY <1>1, <1>2, <1>3, <1>4 DEF TypeOK, Extends
<1>7. RegistryConsistent'
  BY <1>1, <1>3 DEF RegistryConsistent
<1>8. StakeKnown'
  <2>1. ASSUME NEW i \in 1 .. Len(queue')
        PROVE  /\ queue'[i].src = HUB => queue'[i].dst # HUB
               /\ queue'[i].dst # HUB => queue'[i].dst \in Known
    <3>1. CASE i \in 1 .. Len(queue) /\ queue'[i] = queue[i]
      BY <1>1, <3>1 DEF StakeKnown
    <3>2. CASE \E k \in 1 .. Len(w) : i = Len(queue) + k /\ queue'[i] = w[k]
      BY <1>5, <3>2
    <3> QED
      BY <1>4, <3>1, <3>2, OldOrNew
  <2> QED
    BY <1>1, <1>3, <2>1 DEF StakeKnown, Known
<1>9. OneBatch'
  BY <1>2 DEF OneBatch
<1>10. Undisturbed'
  <2> SUFFICES ASSUME ~disturbed PROVE Undisturbed'
    BY <1>3 DEF Undisturbed
  <2>1. \A i \in 1 .. Len(queue) :
           queue[i].dst # HUB
           /\ (queue[i].src # HUB => queue[i].src \notin DOMAIN registry)
    BY <1>1, <1>2 DEF OneBatch, Undisturbed
  <2>2. ASSUME NEW i \in 1 .. Len(queue'), queue'[i].dst = HUB
        PROVE  /\ queue'[i].amount <= delegated[queue'[i].src]
               /\ \A j \in 1 .. i - 1 : queue'[j].src # queue'[i].src
    <3>1. PICK k \in 1 .. Len(w) : i = Len(queue) + k /\ queue'[i] = w[k]
      <4>1. \/ i \in 1 .. Len(queue) /\ queue'[i] = queue[i]
            \/ \E k \in 1 .. Len(w) : i = Len(queue) + k /\ queue'[i] = w[k]
        BY <1>4, OldOrNew
      <4> QED
        BY <2>1, <2>2, <4>1
    <3>2. ASSUME NEW j \in 1 .. i - 1
          PROVE  queue'[j].src # queue'[i].src
      <4>1. /\ Len(queue) \in Nat /\ Len(w) \in Nat
            /\ Len(queue') = Len(queue) + Len(w)
        BY <1>4 DEF Extends
      <4>2. j \in 1 .. Len(queue') /\ j < i
        BY <3>1, <4>1
      <4>3. CASE j \in 1 .. Len(queue) /\ queue'[j] = queue[j]
        BY <1>5, <2>1, <3>1, <4>3
      <4>4. CASE \E l \in 1 .. Len(w) : j = Len(queue) + l /\ queue'[j] = w[l]
        <5>1. PICK l \in 1 .. Len(w) : j = Len(queue) + l /\ queue'[j] = w[l]
          BY <4>4
        <5>2. l # k
          BY <3>1, <4>1, <4>2, <5>1
        <5> QED
          BY <1>2, <3>1, <5>1, <5>2 DEF Undelegates
      <4> QED
        BY <1>4, <4>2, <4>3, <4>4, OldOrNew
    <3> QED
      BY <1>5, <3>1, <3>2
  <2>3. ASSUME NEW i \in 1 .. Len(queue'),
               queue'[i].src # HUB, queue'[i].dst # HUB
        PROVE  queue'[i].src \notin DOMAIN registry
    <3>1. i \in 1 .. Len(queue) /\ queue'[i] = queue[i]
      <4>1. \/ i \in 1 .. Len(queue) /\ queue'[i] = queue[i]
            \/ \E k \in 1 .. Len(w) : i = Len(queue) + k /\ queue'[i] = w[k]
        BY <1>4, OldOrNew
      <4> QED
        BY <1>5, <2>3, <4>1
    <3> QED
      BY <2>1, <2>3, <3>1
  <2> QED
    BY <1>3, <2>2, <2>3 DEF Undisturbed
<1> QED
  BY <1>6, <1>7, <1>8, <1>9, <1>10 DEF IInv

-----------------------------------------------------------------------------
(* The end of an epoch.                                                    *)

\* A ledger with stake on known validators only.
OnKnown(ledger) == \A v \in Validators : ledger[v] > 0 => v \in Known

\* While the queue is executed stake stays on known validators.
LEMMA EpochKnown ==
    ASSUME IInv, NEW refused
    PROVE  \A i \in 0 .. Len(queue) : OnKnown(on_epoch_end(refused)[i])
<1> DEFINE r == on_epoch_end(refused)
           n == Len(queue)
           G == {i \in 0 .. n : OnKnown(r[i])}
<1>1. TypeOK /\ StakeKnown
  BY DEF IInv
<1>2. n \in Nat /\ \A i \in 1 .. n : queue[i] \in Message
  BY <1>1 DEF TypeOK
<1>3. /\ r[0] = delegated
      /\ \A i \in 1 .. n : r[i] = IF i \in refused THEN r[i - 1]
                                  ELSE executed(r[i - 1], queue[i])
      /\ \A i \in 0 .. n : r[i] \in Ledgers
  BY <1>1, EpochLedgers
<1> HIDE DEF r, n
<1>4. 0 \in G
  BY <1>1, <1>2, <1>3 DEF StakeKnown, OnKnown
<1>5. ASSUME NEW i \in 1 .. n, i - 1 \in G
      PROVE  i \in G
  <2> DEFINE l == r[i - 1]
             m == queue[i]
  <2>1. OnKnown(l) /\ i - 1 \in 0 .. n /\ i \in 0 .. n
    BY <1>5
  <2>2. l \in Ledgers /\ m \in Message
    BY <1>2, <1>3, <2>1
  <2>3. m.dst # HUB => m.dst \in Known
    BY <1>1 DEF StakeKnown, n
  <2> HIDE DEF l, m
  <2>4. ASSUME NEW v \in Validators, executed(l, m)[v] > 0
        PROVE  v \in Known
    <3>1. CASE m.dst = v
      BY <2>3, <3>1, ValidatorFacts
    <3>2. CASE m.dst # v
      <4>1. l[v] \in Nat /\ m.amount \in Nat
        BY <2>2, MessageFields DEF Ledgers
      <4>2. executed(l, m)[v] = l[v]
            \/ executed(l, m)[v] = l[v] + 0 - (IF m.src = v THEN m.amount ELSE 0)
        BY <3>2 DEF executed
      <4>3. l[v] > 0
        BY <2>4, <4>1, <4>2
      <4> QED
        BY <2>1, <4>3 DEF OnKnown
    <3> QED
      BY <3>1, <3>2
  <2>5. OnKnown(executed(l, m))
    BY <2>4 DEF OnKnown
  <2>6. OnKnown(r[i])
    BY <1>3, <2>1, <2>5 DEF l, m
  <2> QED
    BY <2>1, <2>6
<1>6. 0 .. n \subseteq G
  <2> HIDE DEF G
  <2> QED
    BY <1>2, <1>4, <1>5, RangeInduction
<1> QED
  BY <1>6 DEF r, n

\* The queue is empty and nothing is disturbed any more.
LEMMA EpochEndStep ==
    ASSUME IInv, EpochEnd
    PROVE  IInv'
<1> DEFINE n == Len(queue)
<1>1. TypeOK /\ RegistryConsistent
  BY DEF IInv
<1>2. PICK refused \in SUBSET {i \in DOMAIN queue :
                                 queue[i].src # HUB /\ queue[i].dst # HUB} :
         /\ faults' = faults + Cardinality(refused)
         /\ delegated' = on_epoch_end(refused)[n]
  BY DEF EpochEnd
<1>3. /\ queue' = <<>> /\ batch_closed' = FALSE /\ calls' = 0
      /\ disturbed' = FALSE /\ UNCHANGED <<registry, exclude_list, hub_contract>>
  BY DEF EpochEnd, registryVars
<1>4. n \in Nat /\ DOMAIN queue = 1 .. n
  BY <1>1 DEF TypeOK
<1>5. delegated' \in Ledgers /\ OnKnown(delegated')
  <2>1. n \in 0 .. n
    BY <1>4
  <2> QED
    BY <1>1, <1>2, <2>1, EpochLedgers, EpochKnown
<1>6. Cardinality(refused) \in Nat
  <2>1. IsFiniteSet(1 .. n)
    BY <1>4, FS_Interval
  <2>2. IsFiniteSet(refused)
    BY <1>4, <2>1, FS_Subset
  <2> QED
    BY <2>2, FS_CardinalityType
<1>7. Len(queue') = 0 /\ queue' \in Seq(Message)
  BY <1>3
<1>8. TypeOK'
  <2>1. faults' \in Nat
    BY <1>1, <1>2, <1>6 DEF TypeOK
  <2>2. delegated' \in [Validators -> Nat]
    BY <1>5 DEF Ledgers
  <2> QED
    BY <1>1, <1>3, <1>7, <2>1, <2>2 DEF TypeOK
<1>9. RegistryConsistent'
  BY <1>1, <1>3 DEF RegistryConsistent
<1>10. StakeKnown' /\ OneBatch' /\ Undisturbed'
  BY <1>3, <1>5, <1>7 DEF StakeKnown, OneBatch, Undisturbed, OnKnown, Known
<1> QED
  BY <1>8, <1>9, <1>10 DEF IInv

\* Every step keeps the invariant.
LEMMA NextIInv == IInv /\ [Next]_vars => IInv'
<1> SUFFICES ASSUME IInv, [Next]_vars PROVE IInv'
  OBVIOUS
<1>1. CASE UNCHANGED vars
  BY <1>1 DEF vars, registryVars, IInv, TypeOK, RegistryConsistent, StakeKnown,
              OneBatch, Undisturbed, Known
<1> QED
  BY <1>1, AddStep, RemoveStep, ConfigStep, RedelegationStep, StakeStep,
     CloseBatchStep, EpochEndStep, SlashStep DEF Next

\* The invariant holds of every behaviour.
LEMMA Invariance == Spec => []IInv
  BY InitIInv, NextIInv, PTL DEF Spec

-----------------------------------------------------------------------------
(* The invariants that the runs check.                                     *)

\* The registry, the exclude list, the ledger and the queue are well formed
\* for any number of validators.
THEOREM TypeCorrect == Spec => []TypeOK
  BY Invariance, PTL DEF IInv

\* Whatever the chain refuses, a queued undelegation finds its stake when its
\* turn comes: nothing before it takes from the validator.
LEMMA UndelegationCovered ==
    ASSUME IInv, ~disturbed, NEW refused, NEW i \in 1 .. Len(queue),
           queue[i].dst = HUB
    PROVE  on_epoch_end(refused)[i - 1][queue[i].src] >= queue[i].amount
<1> DEFINE r == on_epoch_end(refused)
           n == Len(queue)
           v == queue[i].src
           G == {k \in 0 .. i - 1 : r[k][v] >= delegated[v]}
<1>1. TypeOK /\ StakeKnown /\ Undisturbed
  BY DEF IInv
<1>2. n \in Nat /\ \A k \in 1 .. n : queue[k] \in Message
  BY <1>1 DEF TypeOK
<1>3. /\ r[0] = delegated
      /\ \A k \in 1 .. n : r[k] = IF k \in refused THEN r[k - 1]
                                  ELSE executed(r[k - 1], queue[k])
      /\ \A k \in 0 .. n : r[k] \in Ledgers
  BY <1>1, EpochLedgers
<1>4. /\ queue[i].amount <= delegated[v]
      /\ \A j \in 1 .. i - 1 : queue[j].src # v
      /\ v # HUB
  BY <1>1 DEF Undisturbed, StakeKnown
<1>5. v \in Validators /\ queue[i].amount \in Nat /\ i \in 1 .. n
  BY <1>2, <1>4, MessageFields
<1>6. delegated[v] \in Nat
  BY <1>1, <1>5 DEF TypeOK
<1> HIDE DEF r, n, v
<1>7. 0 \in G
  BY <1>2, <1>3, <1>5, <1>6
<1>8. ASSUME NEW k \in 1 .. i - 1, k - 1 \in G
      PROVE  k \in G
  <2> DEFINE l == r[k - 1]
             m == queue[k]
  <2>1. k \in 1 .. n /\ k - 1 \in 0 .. n /\ k \in 0 .. i - 1
    BY <1>2, <1>5
  <2>2. l \in Ledgers /\ m \in Message /\ m.src # v /\ l[v] >= delegated[v]
    BY <1>2, <1>3, <1>4, <1>8, <2>1
  <2> HIDE DEF l, m
  <2>3. l[v] \in Nat /\ m.amount \in Nat
    BY <1>5, <2>2, MessageFields DEF Ledgers
  <2>4. \/ executed(l, m)[v] = l[v]
        \/ executed(l, m)[v] = l[v] + (IF m.dst = v THEN m.amount ELSE 0) - 0
    BY <1>5, <2>2 DEF executed
  <2>5. executed(l, m)[v] >= delegated[v]
    BY <1>6, <2>2, <2>3, <2>4
  <2>6. r[k][v] >= delegated[v]
    BY <1>3, <2>1, <2>2, <2>5 DEF l, m
  <2> QED
    BY <2>1, <2>6
<1>9. i - 1 \in G
  <2> HIDE DEF G
  <2>1. i - 1 \in Nat
    BY <1>2, <1>5
  <2>2. 0 .. i - 1 \subseteq G
    BY <1>7, <1>8, <2>1, RangeInduction
  <2> QED
    BY <2>1, <2>2
<1>10. r[i - 1][v] \in Nat /\ r[i - 1][v] >= delegated[v]
  <2>1. i - 1 \in 0 .. n
    BY <1>2, <1>5
  <2> QED
    BY <1>3, <1>5, <1>9, <2>1 DEF Ledgers
<1> DEFINE x == r[i - 1][v]
           y == delegated[v]
           z == queue[i].amount
<1> HIDE DEF x, y, z
<1>11. x \in Nat /\ y \in Nat /\ z \in Nat /\ x >= y /\ z <= y
  BY <1>4, <1>5, <1>6, <1>10 DEF x, y, z
<1>12. x >= z
  BY <1>11
<1> QED
  BY <1>12 DEF x, z, r, v

\* The redelegations and undelegations of an epoch do not get in each other's
\* way, for any validators, amounts and number of calls
\* (contract.rs:138-215, unstake.rs:250-294).
THEOREM EveryUndelegationExecuted == Spec => []UndelegationsExecuted
<1>1. ASSUME IInv PROVE UndelegationsExecuted
  <2>1. DOMAIN queue = 1 .. Len(queue)
    BY <1>1 DEF IInv, TypeOK
  <2> QED
    BY <1>1, <2>1, UndelegationCovered DEF UndelegationsExecuted
<1> QED
  BY <1>1, Invariance, PTL

-----------------------------------------------------------------------------
(* No stake is forgotten.                                                  *)

\* AddValidator is given operator addresses, as the chain writes them; with an
\* account address the registry would report nothing for the validator.
OperatorAddresses == PREFIXES \subseteq {VALIDATOR_ADDR_PREFIX}
OperatorsStored ==
    \A v \in DOMAIN registry : registry[v].prefix = VALIDATOR_ADDR_PREFIX

\* Then the registry stores only such addresses.
LEMMA OperatorsStep ==
    ASSUME OperatorAddresses, OperatorsStored, [Next]_vars
    PROVE  OperatorsStored'
<1>1. CASE UNCHANGED registry
  BY <1>1 DEF OperatorsStored
<1>2. ASSUME NEW v \in Validators, NEW prefix \in PREFIXES,
             add_validator([id |-> v, prefix |-> prefix])
      PROVE  OperatorsStored'
  <2> DEFINE a == [id |-> v, prefix |-> prefix]
  <2>1. convert_addr_by_prefix(a, VALIDATOR_ADDR_PREFIX).id = v
    BY DEF convert_addr_by_prefix
  <2>2. a.prefix = VALIDATOR_ADDR_PREFIX
    BY DEF OperatorAddresses
  <2> HIDE DEF a
  <2>3. registry' = [w \in DOMAIN registry \cup {v} |->
                       IF w = v THEN a ELSE registry[w]]
    BY <1>2, <2>1 DEF add_validator, a
  <2> QED
    BY <2>2, <2>3 DEF OperatorsStored
<1>3. ASSUME NEW v \in Validators, remove_validator(v)
      PROVE  OperatorsStored'
  <2>1. registry' = [w \in DOMAIN registry \ {v} |-> registry[w]]
    BY <1>3 DEF remove_validator, Restrict
  <2> QED
    BY <2>1 DEF OperatorsStored
<1>4. CASE update_config \/ process_redelegations \/ Stake \/ CloseBatch \/ EpochEnd
           \/ (\E v \in Validators : SlashValidator(v)) \/ UNCHANGED vars
  <2>1. UNCHANGED registry
    BY <1>4 DEF update_config, process_redelegations, Stake, CloseBatch, EpochEnd,
                SlashValidator, vars, registryVars
  <2> QED
    BY <1>1, <2>1
<1> QED
  BY <1>2, <1>3, <1>4 DEF Next

\* So it does in every behaviour.
LEMMA OperatorsInvariance ==
    ASSUME OperatorAddresses
    PROVE  Spec => []OperatorsStored
<1>1. Init => OperatorsStored
  BY DEF Init, OperatorsStored
<1>2. OperatorsStored /\ [Next]_vars => OperatorsStored'
  BY OperatorsStep
<1> QED
  BY <1>1, <1>2, PTL DEF Spec

\* Sums over the validators.
LEMMA TotalHeld ==
    ASSUME NEW ledger \in Ledgers
    PROVE  /\ Total(ledger) = Held(ledger) /\ Held(ledger) \in Nat
           /\ \A S \in SUBSET Validators :
                 /\ SumFunctionOnSet(ledger, S) = SumOver(ledger, S)
                 /\ SumOver(ledger, S) \in Nat
<1>1. IsFiniteSet(Validators)
  BY ValidatorFacts
<1>2. DOMAIN ledger = Validators /\ \A v \in Validators : ledger[v] \in Nat
  BY DEF Ledgers
<1> HIDE DEF Validators
<1>3. ASSUME NEW S \in SUBSET Validators
      PROVE  /\ SumFunctionOnSet(ledger, S) = SumOver(ledger, S)
             /\ SumOver(ledger, S) \in Nat
  <2>1. IsFiniteSet(S) /\ \A v \in S : ledger[v] \in Nat
    BY <1>1, <1>2, FS_Subset
  <2> QED
    BY <2>1, SumFunctionIsSum, SumType
<1>4. Total(ledger) = SumFunctionOnSet(ledger, Validators)
  BY <1>2 DEF Total, SumFunction
<1> QED
  BY <1>3, <1>4 DEF Held

\* What the registry reports in all, is the stake on registered validators or
\* nothing.
LEMMA TotalReported ==
    ASSUME TypeOK, RegistryConsistent
    PROVE  LET t == Total(delegations_in(query_validators)) IN
           /\ t \in Nat /\ t <= SumOver(delegated, DOMAIN registry)
           /\ hub_contract = HUB /\ OperatorsStored
                => t = SumOver(delegated, DOMAIN registry)
<1> DEFINE n == Cardinality(DOMAIN registry)
           R == DOMAIN registry
           o == query_validators
           d == delegations_in(o)
           f == [v \in R |-> total_delegated(v)]
<1>1. /\ Lists(o, R, n) /\ Amounts(d, n)
      /\ \A i \in 1 .. n : d[i] = total_delegated(o[i])
  BY ActiveAnswer
<1>2. /\ n \in Nat /\ o \in Bijection(1 .. n, R) /\ o \in [1 .. n -> R]
      /\ d \in [1 .. n -> Nat]
  BY <1>1 DEF Lists, Amounts
<1>3. IsFiniteSet(R)
  BY ValidatorFacts, FS_Subset DEF TypeOK
<1>4. \A v \in R : /\ f[v] = total_delegated(v) /\ f[v] \in Nat
                   /\ f[v] <= delegated[v] /\ delegated[v] \in Nat
  BY ReportedAtMost DEF TypeOK
<1>5. Total(d) = SumOver(d, 1 .. n) /\ Total(d) \in Nat
  BY <1>2, TotalIsSum
<1>6. \A i \in 1 .. n : d[i] = f[o[i]]
  BY <1>1, <1>2
<1>7. hub_contract = HUB /\ OperatorsStored => \A v \in R : f[v] = delegated[v]
  BY DEF OperatorsStored, RegistryConsistent, total_delegated, delegation_of
<1> HIDE DEF n, R, o, d, f
<1>8. SumOver(d, 1 .. n) = SumOver(f, R)
  BY <1>2, <1>3, <1>4, <1>6, SumReindex
<1>9. SumOver(f, R) <= SumOver(delegated, R)
  BY <1>3, <1>4, SumMonotone
<1>10. hub_contract = HUB /\ OperatorsStored => SumOver(f, R) = SumOver(delegated, R)
  BY <1>7, SumSame
<1> QED
  BY <1>5, <1>8, <1>9, <1>10 DEF R, o, d

\* Stake on registered validators, on excluded ones, and nowhere else.
LEMMA KnownStake ==
    ASSUME IInv
    PROVE  SumOver(delegated, DOMAIN registry) + SumOver(delegated, exclude_list)
              = Held(delegated)
<1> DEFINE R == DOMAIN registry
           E == exclude_list
           rest == Validators \ (R \cup E)
<1>1. TypeOK /\ RegistryConsistent /\ StakeKnown
  BY DEF IInv
<1>2. /\ R \subseteq Validators /\ E \subseteq Validators /\ R \cap E = {}
      /\ \A v \in Validators : delegated[v] \in Nat
      /\ \A v \in Validators : delegated[v] > 0 => v \in R \cup E
  BY <1>1 DEF TypeOK, RegistryConsistent, StakeKnown, Known
<1>3. IsFiniteSet(Validators)
  BY ValidatorFacts
<1> HIDE DEF R, E, Validators
<1>4. IsFiniteSet(R) /\ IsFiniteSet(E) /\ IsFiniteSet(rest)
      /\ R \cup E \in SUBSET Validators
  BY <1>2, <1>3, FS_Subset
<1>5. SumOver(delegated, R \cup E) = SumOver(delegated, R) + SumOver(delegated, E)
  BY <1>2, <1>4, SumUnion
<1>6. Held(delegated) = SumOver(delegated, R \cup E) + SumOver(delegated, rest)
  BY <1>2, <1>3, <1>4, SumSplit DEF Held
<1>7. SumOver(delegated, rest) = 0
  <2>1. \A v \in rest : delegated[v] = 0
    BY <1>2
  <2> QED
    BY <2>1, SumZero
<1>8. SumOver(delegated, R \cup E) \in Nat
  <2>1. IsFiniteSet(R \cup E) /\ \A v \in R \cup E : delegated[v] \in Nat
    BY <1>2, <1>3, FS_Subset
  <2> QED
    BY <2>1, SumType
<1> QED
  BY <1>5, <1>6, <1>7, <1>8 DEF R, E

\* For registries of operator addresses, any validators and amounts, batches
\* and ProcessRedelegations together reach all stake, now and when the queue
\* has been executed (contract.rs:138-240, unstake.rs:272-291).
THEOREM NoStakeForgotten ==
    ASSUME OperatorAddresses
    PROVE  Spec => []StakeAccountedFor
<1>1. ASSUME IInv, OperatorsStored PROVE StakeAccountedFor
  <2>1. TypeOK /\ RegistryConsistent
    BY <1>1 DEF IInv
  <2>2. ASSUME hub_contract = HUB
        PROVE  Total(delegations_in(query_validators))
                  + SumFunctionOnSet(delegated, exclude_list) = Total(delegated)
    <3>1. Total(delegations_in(query_validators)) = SumOver(delegated, DOMAIN registry)
      BY <1>1, <2>1, <2>2, TotalReported
    <3>2. delegated \in Ledgers /\ exclude_list \in SUBSET Validators
      BY <2>1 DEF TypeOK, Ledgers
    <3>3. /\ SumFunctionOnSet(delegated, exclude_list) = SumOver(delegated, exclude_list)
          /\ Total(delegated) = Held(delegated)
      BY <3>2, TotalHeld
    <3> QED
      BY <1>1, <3>1, <3>3, KnownStake
  <2>3. ASSUME NEW v \in Validators, on_epoch_end({})[Len(queue)][v] > 0
        PROVE  v \in DOMAIN registry \cup exclude_list
    <3>1. Len(queue) \in 0 .. Len(queue)
      BY <2>1 DEF TypeOK
    <3>2. OnKnown(on_epoch_end({})[Len(queue)])
      BY <1>1, <3>1, EpochKnown
    <3> QED
      BY <2>3, <3>2 DEF OnKnown, Known
  <2> QED
    BY <2>2, <2>3 DEF StakeAccountedFor
<1> QED
  BY <1>1, Invariance, OperatorsInvariance, PTL

-----------------------------------------------------------------------------
(* The validators together implement StakePool.                            *)

\* The amounts that messages take from an account, and those they bring it.
FromAmounts(q, a) ==
    [i \in 1 .. Len(q) |-> IF q[i].src = a THEN q[i].amount ELSE 0]
ToAmounts(q, a) ==
    [i \in 1 .. Len(q) |-> IF q[i].dst = a THEN q[i].amount ELSE 0]
From(q, a) == SumOver(FromAmounts(q, a), 1 .. Len(q))
To(q, a) == SumOver(ToAmounts(q, a), 1 .. Len(q))

\* They are amounts.
LEMMA QueuedAmounts ==
    ASSUME NEW q \in Seq(Message), NEW a, NEW i \in 1 .. Len(q)
    PROVE  /\ q[i].amount \in Nat
           /\ FromAmounts(q, a)[i] = IF q[i].src = a THEN q[i].amount ELSE 0
           /\ ToAmounts(q, a)[i] = IF q[i].dst = a THEN q[i].amount ELSE 0
           /\ FromAmounts(q, a)[i] \in Nat /\ ToAmounts(q, a)[i] \in Nat
<1>1. q[i].amount \in Nat
  BY MessageFields
<1>2. /\ FromAmounts(q, a)[i] = IF q[i].src = a THEN q[i].amount ELSE 0
      /\ ToAmounts(q, a)[i] = IF q[i].dst = a THEN q[i].amount ELSE 0
  BY DEF FromAmounts, ToAmounts
<1> QED
  BY <1>1, <1>2

\* The model's sums are theirs.
LEMMA QueuedSums ==
    ASSUME NEW q \in Seq(Message), NEW a
    PROVE  /\ From(q, a) \in Nat /\ To(q, a) \in Nat
           /\ SumFunction([i \in DOMAIN q |->
                 IF q[i].src = a THEN q[i].amount ELSE 0]) = From(q, a)
           /\ SumFunction([i \in DOMAIN q |->
                 IF q[i].dst = a THEN q[i].amount ELSE 0]) = To(q, a)
<1> DEFINE n == Len(q)
           f == FromAmounts(q, a)
           g == ToAmounts(q, a)
<1>1. n \in Nat /\ DOMAIN q = 1 .. n
  OBVIOUS
<1>2. /\ f = [i \in 1 .. n |-> IF q[i].src = a THEN q[i].amount ELSE 0]
      /\ g = [i \in 1 .. n |-> IF q[i].dst = a THEN q[i].amount ELSE 0]
  BY DEF FromAmounts, ToAmounts
<1>3. \A i \in 1 .. n : f[i] \in Nat /\ g[i] \in Nat
  BY QueuedAmounts
<1>4. f \in [1 .. n -> Nat] /\ g \in [1 .. n -> Nat]
  BY <1>2, <1>3
<1> HIDE DEF f, g
<1>5. /\ Total(f) = SumOver(f, 1 .. n) /\ Total(f) \in Nat
      /\ Total(g) = SumOver(g, 1 .. n) /\ Total(g) \in Nat
  BY <1>1, <1>4, TotalIsSum
<1>6. From(q, a) = SumOver(f, 1 .. n) /\ To(q, a) = SumOver(g, 1 .. n)
  BY DEF From, To, f, g
<1>7. /\ SumFunction([i \in DOMAIN q |->
             IF q[i].src = a THEN q[i].amount ELSE 0]) = Total(f)
      /\ SumFunction([i \in DOMAIN q |->
             IF q[i].dst = a THEN q[i].amount ELSE 0]) = Total(g)
  BY <1>1, <1>2 DEF Total
<1> QED
  BY <1>5, <1>6, <1>7

\* New messages add to the sums.
LEMMA QueuedMore ==
    ASSUME NEW q \in Seq(Message), NEW w \in Seq(Message), NEW p,
           Extends(p, q, w), NEW a
    PROVE  /\ p \in Seq(Message)
           /\ From(p, a) = From(q, a) + From(w, a)
           /\ To(p, a) = To(q, a) + To(w, a)
<1> DEFINE n == Len(q)
           m == Len(w)
<1>1. /\ p \in Seq(Message) /\ n \in Nat /\ m \in Nat /\ Len(p) = n + m
      /\ \A i \in 1 .. n : i \in 1 .. Len(p) /\ p[i] = q[i]
      /\ \A i \in 1 .. m : n + i \in 1 .. Len(p) /\ p[n + i] = w[i]
  BY DEF Extends
<1>2. p \in Seq(Message)
  BY <1>1
<1> DEFINE f == FromAmounts(p, a)
           g == FromAmounts(q, a)
           h == FromAmounts(w, a)
           ff == ToAmounts(p, a)
           gg == ToAmounts(q, a)
           hh == ToAmounts(w, a)
<1>3. ASSUME NEW i \in 1 .. n
      PROVE  /\ g[i] \in Nat /\ f[i] = g[i]
             /\ gg[i] \in Nat /\ ff[i] = gg[i]
  <2>1. i \in 1 .. Len(p) /\ p[i] = q[i]
    BY <1>1
  <2>2. /\ f[i] = IF p[i].src = a THEN p[i].amount ELSE 0
        /\ ff[i] = IF p[i].dst = a THEN p[i].amount ELSE 0
    BY <1>2, <2>1, QueuedAmounts
  <2>3. /\ g[i] = IF q[i].src = a THEN q[i].amount ELSE 0
        /\ gg[i] = IF q[i].dst = a THEN q[i].amount ELSE 0
        /\ g[i] \in Nat /\ gg[i] \in Nat
    BY QueuedAmounts
  <2> HIDE DEF f, g, ff, gg
  <2> QED
    BY <2>1, <2>2, <2>3
<1>4. ASSUME NEW i \in 1 .. m
      PROVE  /\ h[i] \in Nat /\ f[n + i] = h[i]
             /\ hh[i] \in Nat /\ ff[n + i] = hh[i]
  <2> DEFINE k == n + i
  <2>1. k \in 1 .. Len(p) /\ p[k] = w[i]
    BY <1>1
  <2> HIDE DEF k
  <2>2. /\ f[k] = IF p[k].src = a THEN p[k].amount ELSE 0
        /\ ff[k] = IF p[k].dst = a THEN p[k].amount ELSE 0
    BY <1>2, <2>1, QueuedAmounts
  <2>3. /\ h[i] = IF w[i].src = a THEN w[i].amount ELSE 0
        /\ hh[i] = IF w[i].dst = a THEN w[i].amount ELSE 0
        /\ h[i] \in Nat /\ hh[i] \in Nat
    BY QueuedAmounts
  <2> HIDE DEF f, h, ff, hh
  <2>4. f[k] = h[i] /\ ff[k] = hh[i]
    BY <2>1, <2>2, <2>3
  <2> QED
    BY <2>3, <2>4 DEF k
<1> HIDE DEF n, m, f, g, h, ff, gg, hh
<1>5. Joins(f, g, h, n, m)
  BY <1>3, <1>4 DEF Joins
<1>6. SumOver(f, 1 .. n + m) = SumOver(g, 1 .. n) + SumOver(h, 1 .. m)
  BY <1>1, <1>5, SumConcat
<1>7. Joins(ff, gg, hh, n, m)
  BY <1>3, <1>4 DEF Joins
<1>8. SumOver(ff, 1 .. n + m) = SumOver(gg, 1 .. n) + SumOver(hh, 1 .. m)
  BY <1>1, <1>7, SumConcat
<1>9. From(p, a) = From(q, a) + From(w, a)
  BY <1>1, <1>6 DEF From, f, g, h, n, m
<1>10. To(p, a) = To(q, a) + To(w, a)
  BY <1>1, <1>8 DEF To, ff, gg, hh, n, m
<1> QED
  BY <1>1, <1>9, <1>10

\* Delegations take their sum from the hub, undelegations bring it theirs;
\* redelegations do neither.
LEMMA HubSums ==
    ASSUME TypeOK, NEW w \in Seq(Message)
    PROVE  /\ \A amount : Delegates(w, amount) =>
                 From(w, HUB) = amount /\ To(w, HUB) = 0
           /\ \A claim : Undelegates(w, claim) =>
                 From(w, HUB) = 0 /\ To(w, HUB) = claim
           /\ Redelegates(w) => From(w, HUB) = 0 /\ To(w, HUB) = 0
<1> DEFINE n == Len(w)
           f == FromAmounts(w, HUB)
           g == ToAmounts(w, HUB)
           h == AmountsOf(w)
<1>1. \A i \in 1 .. n : /\ f[i] = IF w[i].src = HUB THEN w[i].amount ELSE 0
                        /\ g[i] = IF w[i].dst = HUB THEN w[i].amount ELSE 0
  BY QueuedAmounts
<1>2. \A i \in 1 .. n : h[i] = w[i].amount
  BY SentType
<1>3. /\ From(w, HUB) = SumOver(f, 1 .. n) /\ To(w, HUB) = SumOver(g, 1 .. n)
      /\ Sent(w) = SumOver(h, 1 .. n)
  BY DEF From, To, Sent
<1>4. HUB \notin DOMAIN registry /\ HUB \notin exclude_list
  BY ValidatorFacts DEF TypeOK
<1> HIDE DEF n, f, g, h
<1>5. ASSUME NEW amount, Delegates(w, amount)
      PROVE  From(w, HUB) = amount /\ To(w, HUB) = 0
  <2>1. \A i \in 1 .. n : f[i] = h[i] /\ g[i] = 0
    BY <1>1, <1>2, <1>4, <1>5 DEF Delegates, n
  <2>2. SumOver(f, 1 .. n) = SumOver(h, 1 .. n) /\ SumOver(g, 1 .. n) = 0
    BY <2>1, SumSame, SumZero
  <2> QED
    BY <1>3, <1>5, <2>2 DEF Delegates
<1>6. ASSUME NEW claim, Undelegates(w, claim)
      PROVE  From(w, HUB) = 0 /\ To(w, HUB) = claim
  <2>1. \A i \in 1 .. n : g[i] = h[i] /\ f[i] = 0
    BY <1>1, <1>2, <1>4, <1>6 DEF Undelegates, n
  <2>2. SumOver(g, 1 .. n) = SumOver(h, 1 .. n) /\ SumOver(f, 1 .. n) = 0
    BY <2>1, SumSame, SumZero
  <2> QED
    BY <1>3, <1>6, <2>2 DEF Undelegates
<1>7. ASSUME Redelegates(w)
      PROVE  From(w, HUB) = 0 /\ To(w, HUB) = 0
  <2>1. \A i \in 1 .. n : g[i] = 0 /\ f[i] = 0
    BY <1>1, <1>4, <1>7 DEF Redelegates, n
  <2>2. SumOver(g, 1 .. n) = 0 /\ SumOver(f, 1 .. n) = 0
    BY <2>1, SumZero
  <2> QED
    BY <1>3, <2>2
<1> QED
  BY <1>5, <1>6, <1>7

\* What one message does to the sum of the stake: a delegation adds to it, an
\* undelegation that is covered takes from it, a redelegation leaves it alone.
LEMMA ExecutedSum ==
    ASSUME NEW l \in Ledgers, NEW m \in Message,
           m.src = HUB => m.dst # HUB
    PROVE  LET e == executed(l, m) IN
           /\ m.src = HUB => Held(e) = Held(l) + m.amount
           /\ m.dst = HUB => \/ Held(e) = Held(l) /\ l[m.src] < m.amount
                             \/ Held(e) + m.amount = Held(l)
           /\ m.src # HUB /\ m.dst # HUB => Held(e) = Held(l)
<1> DEFINE e == executed(l, m)
           a == m.amount
           s == m.src
           d == m.dst
<1>1. /\ s \in Validators \cup {HUB} /\ d \in Validators \cup {HUB} /\ a \in Nat
      /\ s = HUB => d # HUB
  BY MessageFields
<1>2. IsFiniteSet(Validators) /\ HUB \notin Validators
  BY ValidatorFacts
<1>3. e \in Ledgers
  BY ExecutedType
<1>4. \A v \in Validators : l[v] \in Nat /\ e[v] \in Nat
  BY <1>3 DEF Ledgers
<1>5. Held(e) \in Nat /\ Held(l) \in Nat
  BY <1>3, TotalHeld
<1>6. CASE s # HUB /\ l[s] < a
  <2>1. e = l
    BY <1>6 DEF executed
  <2> QED
    BY <1>6, <2>1
<1>7. CASE ~(s # HUB /\ l[s] < a)
  <2>1. \A v \in Validators :
           e[v] = l[v] + (IF d = v THEN a ELSE 0) - (IF s = v THEN a ELSE 0)
    BY <1>7 DEF executed
  <2> HIDE DEF e, a, s, d, Validators
  <2>2. CASE s = HUB
    <3>1. d \in Validators
      BY <1>1, <2>2
    <3>2. e[d] = l[d] + a
      BY <1>1, <1>2, <1>4, <2>1, <2>2, <3>1
    <3>3. \A v \in Validators \ {d} : e[v] = l[v]
      BY <1>1, <1>2, <1>4, <2>1, <2>2
    <3>4. SumOver(e, Validators) + l[d] = SumOver(l, Validators) + e[d]
      BY <1>2, <1>4, <3>1, <3>3, SumUpdate
    <3>5. l[d] \in Nat
      BY <1>4, <3>1
    <3>6. Held(e) = Held(l) + a
      BY <1>1, <1>5, <3>2, <3>4, <3>5 DEF Held
    <3> QED
      BY <1>1, <2>2, <3>6 DEF e, a, s, d
  <2>3. CASE d = HUB
    <3>1. s \in Validators
      BY <1>1, <2>3
    <3>2. e[s] = l[s] - a
      BY <1>1, <1>2, <1>4, <2>1, <2>3, <3>1
    <3>3. \A v \in Validators \ {s} : e[v] = l[v]
      BY <1>1, <1>2, <1>4, <2>1, <2>3
    <3>4. SumOver(e, Validators) + l[s] = SumOver(l, Validators) + e[s]
      BY <1>2, <1>4, <3>1, <3>3, SumUpdate
    <3>5. l[s] \in Nat
      BY <1>4, <3>1
    <3>6. Held(e) + a = Held(l)
      BY <1>1, <1>5, <3>2, <3>4, <3>5 DEF Held
    <3> QED
      BY <1>1, <2>3, <3>6 DEF e, a, s, d
  <2>4. CASE s # HUB /\ d # HUB
    <3>1. s \in Validators /\ d \in Validators
      BY <1>1, <2>4
    <3>2. CASE s = d
      <4>1. \A v \in Validators : e[v] = l[v]
        BY <1>1, <1>4, <2>1, <3>2
      <4>2. Held(e) = Held(l)
        BY <4>1, SumSame DEF Held
      <4> QED
        BY <2>4, <4>2 DEF e, a, s, d
    <3>3. CASE s # d
      <4> DEFINE k == [v \in Validators |-> IF v = d THEN l[d] + a ELSE l[v]]
      <4>1. /\ \A v \in Validators : k[v] \in Nat
            /\ k[d] = l[d] + a /\ k[s] = l[s]
            /\ \A v \in Validators \ {d} : k[v] = l[v]
        BY <1>1, <1>4, <3>1, <3>3
      <4> HIDE DEF k
      <4>2. e[s] = l[s] - a /\ \A v \in Validators \ {s} : e[v] = k[v]
        <5>1. e[s] = l[s] - a
          BY <1>1, <1>4, <2>1, <3>1, <3>3
        <5>2. ASSUME NEW v \in Validators \ {s}
              PROVE  e[v] = k[v]
          BY <1>1, <1>4, <2>1, <4>1
        <5> QED
          BY <5>1, <5>2
      <4>3. SumOver(k, Validators) + l[d] = SumOver(l, Validators) + k[d]
        BY <1>2, <1>4, <3>1, <4>1, SumUpdate
      <4>4. SumOver(e, Validators) + k[s] = SumOver(k, Validators) + e[s]
        BY <1>2, <1>4, <3>1, <4>1, <4>2, SumUpdate
      <4>5. SumOver(k, Validators) \in Nat /\ l[s] \in Nat /\ l[d] \in Nat
        BY <1>2, <1>4, <3>1, <4>1, SumType
      <4>6. Held(e) = Held(l)
        BY <1>1, <1>5, <4>1, <4>2, <4>3, <4>4, <4>5 DEF Held
      <4> QED
        BY <2>4, <4>6 DEF e, a, s, d
    <3> QED
      BY <3>2, <3>3
  <2> QED
    BY <2>2, <2>3, <2>4
<1> QED
  BY <1>6, <1>7

\* The first i messages have been executed: the delegations among them have
\* been added to the stake, and out of the undelegations among them `out` has
\* left it, all of them if nothing is disturbed.
Balanced(ledger, i) ==
    \E out \in 0 .. SumOver(ToAmounts(queue, HUB), 1 .. i) :
        /\ Held(ledger) + out
              = Held(delegated) + SumOver(FromAmounts(queue, HUB), 1 .. i)
        /\ ~disturbed => out = SumOver(ToAmounts(queue, HUB), 1 .. i)

\* The chain may refuse redelegations only, which do not change the sum.
LEMMA EpochBalanced ==
    ASSUME IInv,
           NEW refused \in SUBSET {i \in DOMAIN queue :
                                     queue[i].src # HUB /\ queue[i].dst # HUB}
    PROVE  \A i \in 0 .. Len(queue) : Balanced(on_epoch_end(refused)[i], i)
<1> DEFINE r == on_epoch_end(refused)
           n == Len(queue)
           f == FromAmounts(queue, HUB)
           t == ToAmounts(queue, HUB)
           F(i) == SumOver(f, 1 .. i)
           T(i) == SumOver(t, 1 .. i)
           G == {i \in 0 .. n : Balanced(r[i], i)}
<1>1. TypeOK /\ StakeKnown
  BY DEF IInv
<1>2. n \in Nat /\ queue \in Seq(Message) /\ \A i \in 1 .. n : queue[i] \in Message
  BY <1>1 DEF TypeOK
<1>3. /\ r[0] = delegated
      /\ \A i \in 1 .. n : r[i] = IF i \in refused THEN r[i - 1]
                                  ELSE executed(r[i - 1], queue[i])
      /\ \A i \in 0 .. n : r[i] \in Ledgers
  BY <1>1, EpochLedgers
<1>4. \A i \in 1 .. n : /\ f[i] = IF queue[i].src = HUB THEN queue[i].amount ELSE 0
                        /\ t[i] = IF queue[i].dst = HUB THEN queue[i].amount ELSE 0
                        /\ f[i] \in Nat /\ t[i] \in Nat
  BY <1>2, QueuedAmounts
<1>5. \A l \in Ledgers : Held(l) \in Nat
  BY TotalHeld
<1>6. delegated \in Ledgers
  BY <1>1 DEF TypeOK, Ledgers
<1> HIDE DEF f, t
<1>7. \A i \in 1 .. n : /\ F(i - 1) \in Nat /\ F(i) = f[i] + F(i - 1)
                        /\ T(i - 1) \in Nat /\ T(i) = t[i] + T(i - 1)
  BY <1>2, <1>4, SumPrefix
<1>8. \A l, i : Balanced(l, i) <=>
         \E out \in 0 .. T(i) : /\ Held(l) + out = Held(delegated) + F(i)
                                /\ ~disturbed => out = T(i)
  BY DEF Balanced, f, t
<1>9. F(0) = 0 /\ T(0) = 0
  <2>1. 1 .. 0 = {}
    OBVIOUS
  <2> QED
    BY <2>1, SumEmpty
<1>10. ASSUME ~disturbed, NEW i \in 1 .. n, queue[i].dst = HUB
       PROVE  r[i - 1][queue[i].src] >= queue[i].amount
  BY <1>10, UndelegationCovered
<1> HIDE DEF r, n, F, T
<1>11. 0 \in G
  <2>1. Held(delegated) \in Nat
    BY <1>5, <1>6
  <2>2. Balanced(delegated, 0)
    <3>1. 0 \in 0 .. T(0) /\ Held(delegated) + 0 = Held(delegated) + F(0)
          /\ (~disturbed => 0 = T(0))
      BY <1>9, <2>1
    <3> QED
      BY <1>8, <3>1
  <2> QED
    BY <1>2, <1>3, <2>2
<1>12. ASSUME NEW i \in 1 .. n, i - 1 \in G
       PROVE  i \in G
  <2> DEFINE l == r[i - 1]
             m == queue[i]
             e == r[i]
             a == m.amount
             H == Held(delegated)
             x == Held(l)
             y == Held(e)
             F0 == F(i - 1)
             F1 == F(i)
             T0 == T(i - 1)
             T1 == T(i)
  <2>1. i - 1 \in 0 .. n /\ i \in 0 .. n /\ Balanced(l, i - 1)
    BY <1>2, <1>12
  <2>2. l \in Ledgers /\ e \in Ledgers /\ m \in Message /\ a \in Nat
    BY <1>2, <1>3, <2>1, MessageFields
  <2>3. H \in Nat /\ x \in Nat /\ y \in Nat
    BY <1>5, <1>6, <2>2
  <2>4. PICK out \in 0 .. T0 :
           x + out = H + F0 /\ (~disturbed => out = T0)
    BY <1>8, <2>1
  <2>5. /\ F0 \in Nat /\ T0 \in Nat
        /\ F1 = (IF m.src = HUB THEN a ELSE 0) + F0
        /\ T1 = (IF m.dst = HUB THEN a ELSE 0) + T0
    BY <1>4, <1>7
  <2>6. m.src = HUB => m.dst # HUB
    BY <1>1 DEF StakeKnown, n
  <2>7. CASE i \in refused
    <3>1. m.src # HUB /\ m.dst # HUB /\ e = l
      BY <1>3, <2>7
    <3>2. out \in 0 .. T1 /\ y + out = H + F1 /\ (~disturbed => out = T1)
      BY <2>4, <2>5, <3>1
    <3>3. Balanced(e, i)
      BY <1>8, <3>2
    <3> QED
      BY <2>1, <3>3
  <2>8. CASE i \notin refused
    <3>1. e = executed(l, m)
      BY <1>3, <2>8
    <3>2. /\ m.src = HUB => y = x + a
          /\ m.dst = HUB => (y = x /\ l[m.src] < a) \/ y + a = x
          /\ m.src # HUB /\ m.dst # HUB => y = x
      BY <2>2, <2>6, <3>1, ExecutedSum
    <3>3. CASE m.dst # HUB
      <4>1. F1 = (y - x) + F0 /\ T1 = T0
        <5> HIDE DEF l, m, e, a, H, x, y, F0, F1, T0, T1
        <5> QED
          BY <2>2, <2>3, <2>5, <3>2, <3>3
      <4>2. out \in 0 .. T1 /\ y + out = H + F1 /\ (~disturbed => out = T1)
        <5> HIDE DEF l, m, e, a, H, x, y, F0, F1, T0, T1
        <5> QED
          BY <2>3, <2>4, <2>5, <4>1
      <4>3. Balanced(e, i)
        BY <1>8, <4>2
      <4> QED
        BY <2>1, <4>3
    <3>4. CASE m.dst = HUB
      <4>1. F1 = F0 /\ T1 = a + T0
        <5> HIDE DEF l, m, e, a, H, x, y, F0, F1, T0, T1
        <5> QED
          BY <2>2, <2>5, <2>6, <3>4
      <4>2. CASE y + a = x
        <5>1. /\ out + a \in 0 .. T1 /\ y + (out + a) = H + F1
              /\ (~disturbed => out + a = T1)
          <6> HIDE DEF l, m, e, a, H, x, y, F0, F1, T0, T1
          <6> QED
            BY <2>2, <2>3, <2>4, <2>5, <4>1, <4>2
        <5>2. Balanced(e, i)
          BY <1>8, <5>1
        <5> QED
          BY <2>1, <5>2
      <4>3. CASE y = x /\ l[m.src] < a
        <5>1. disturbed
          <6>1. m.src \in Validators
            BY <2>2, <2>6, <3>4, MessageFields
          <6>2. l[m.src] \in Nat
            BY <2>2, <6>1 DEF Ledgers
          <6> SUFFICES ASSUME ~disturbed PROVE FALSE
            OBVIOUS
          <6>3. l[m.src] >= a
            BY <1>10, <3>4
          <6> QED
            BY <2>2, <4>3, <6>2, <6>3
        <5>2. out \in 0 .. T1 /\ y + out = H + F1
          <6> HIDE DEF l, m, e, a, H, x, y, F0, F1, T0, T1
          <6> QED
            BY <2>2, <2>3, <2>4, <2>5, <4>1, <4>3
        <5>3. Balanced(e, i)
          BY <1>8, <5>1, <5>2
        <5> QED
          BY <2>1, <5>3
      <4> QED
        BY <3>2, <3>4, <4>2, <4>3
    <3> QED
      BY <3>3, <3>4
  <2> QED
    BY <2>7, <2>8
<1>13. 0 .. n \subseteq G
  <2> HIDE DEF G
  <2> QED
    BY <1>2, <1>11, <1>12, RangeInduction
<1> QED
  BY <1>13 DEF r, n

\* The variables of the pool.
LEMMA PoolVariables ==
    ASSUME TypeOK
    PROVE  /\ Total(delegated) = Held(delegated) /\ Held(delegated) \in Nat
           /\ QueuedFrom(HUB) = From(queue, HUB) /\ From(queue, HUB) \in Nat
           /\ QueuedTo(HUB) = To(queue, HUB) /\ To(queue, HUB) \in Nat
<1>1. delegated \in Ledgers /\ queue \in Seq(Message)
  BY DEF TypeOK, Ledgers
<1> QED
  BY <1>1, TotalHeld, QueuedSums DEF QueuedFrom, QueuedTo

\* The same after a step.
LEMMA PoolVariablesNext ==
    ASSUME TypeOK'
    PROVE  /\ Total(delegated)' = Held(delegated') /\ Held(delegated') \in Nat
           /\ QueuedFrom(HUB)' = From(queue', HUB) /\ From(queue', HUB) \in Nat
           /\ QueuedTo(HUB)' = To(queue', HUB) /\ To(queue', HUB) \in Nat
<1>1. delegated' \in Ledgers /\ queue' \in Seq(Message)
  BY DEF TypeOK, Ledgers
<1>2. Total(delegated)' = Total(delegated')
  BY DEF Total
<1> QED
  BY <1>1, <1>2, TotalHeld, QueuedSums DEF QueuedFrom, QueuedTo

\* The pool is empty at first.
LEMMA PoolInitially == Init => Pool!PoolInit
<1> SUFFICES ASSUME Init PROVE Pool!PoolInit
  OBVIOUS
<1>1. TypeOK
  BY InitIInv DEF IInv
<1>2. /\ queue = <<>> /\ disturbed = FALSE
      /\ \A v \in Validators : delegated[v] = 0
  BY DEF Init
<1>3. Held(delegated) = 0
  BY <1>2, SumZero DEF Held
<1>4. Len(queue) = 0 /\ 1 .. 0 = {}
  BY <1>2
<1>5. From(queue, HUB) = 0 /\ To(queue, HUB) = 0
  BY <1>4, SumEmpty DEF From, To
<1> QED
  BY <1>1, <1>2, <1>3, <1>5, PoolVariables DEF Pool!PoolInit

\* What leaves stake, queue and disturbance alone does not show.
LEMMA PoolUnchanged ==
    ASSUME UNCHANGED <<delegated, queue, disturbed>>
    PROVE  UNCHANGED Pool!poolVars
  BY DEF Pool!poolVars, Total, QueuedFrom, QueuedTo

\* A registration behind a queued redelegation and a slash disturb.
LEMMA DisturbRefines ==
    ASSUME TypeOK, TypeOK', Held(delegated') <= Held(delegated),
           disturbed' = TRUE, UNCHANGED queue
    PROVE  Pool!Disturb
<1>1. /\ Total(delegated) = Held(delegated) /\ Held(delegated) \in Nat
      /\ Total(delegated)' = Held(delegated') /\ Held(delegated') \in Nat
  BY PoolVariables, PoolVariablesNext
<1>2. Held(delegated') \in 0 .. Held(delegated)
  BY <1>1
<1>3. UNCHANGED <<QueuedFrom(HUB), QueuedTo(HUB)>>
  BY DEF QueuedFrom, QueuedTo
<1>4. (~disturbed)' = FALSE
  OBVIOUS
<1> QED
  BY <1>1, <1>2, <1>3, <1>4 DEF Pool!Disturb

\* What is queued.
LEMMA QueueRefines ==
    ASSUME TypeOK, TypeOK', NEW w \in Seq(Message), queue' = queue \o w,
           UNCHANGED <<delegated, disturbed>>
    PROVE  /\ Total(delegated)' = Total(delegated)
           /\ QueuedFrom(HUB)' = QueuedFrom(HUB) + From(w, HUB)
           /\ QueuedTo(HUB)' = QueuedTo(HUB) + To(w, HUB)
           /\ Total(delegated) = Held(delegated) /\ Held(delegated) \in Nat
           /\ QueuedFrom(HUB) \in Nat /\ QueuedTo(HUB) \in Nat
<1>1. queue \in Seq(Message)
  BY DEF TypeOK
<1>2. Extends(queue', queue, w)
  BY <1>1, QueueGrows
<1>3. /\ From(queue', HUB) = From(queue, HUB) + From(w, HUB)
      /\ To(queue', HUB) = To(queue, HUB) + To(w, HUB)
  BY <1>1, <1>2, QueuedMore
<1>4. Total(delegated)' = Total(delegated)
  BY DEF Total
<1> QED
  BY <1>3, <1>4, PoolVariables, PoolVariablesNext

\* Every step is a step of the pool or does not show.
LEMMA NextRefines ==
    ASSUME IInv, IInv', [Next]_vars
    PROVE  [Pool!PoolNext]_Pool!poolVars
<1>1. TypeOK /\ TypeOK'
  BY DEF IInv
<1>2. ASSUME NEW v \in Validators, NEW prefix \in PREFIXES,
             add_validator([id |-> v, prefix |-> prefix])
      PROVE  Pool!PoolNext \/ UNCHANGED Pool!poolVars
  <2>1. UNCHANGED <<delegated, queue>> /\ (disturbed => disturbed' = TRUE)
    BY <1>1, <1>2 DEF add_validator, TypeOK
  <2>2. CASE disturbed' = disturbed
    BY <2>1, <2>2, PoolUnchanged
  <2>3. CASE disturbed' # disturbed
    <3>1. disturbed' = TRUE
      BY <1>1, <2>1, <2>3 DEF TypeOK
    <3>2. Held(delegated') <= Held(delegated)
      BY <1>1, <2>1, PoolVariables
    <3> QED
      BY <1>1, <2>1, <3>1, <3>2, DisturbRefines DEF Pool!PoolNext
  <2> QED
    BY <2>2, <2>3
<1>3. CASE \/ \E v \in Validators : remove_validator(v)
           \/ update_config
           \/ UNCHANGED vars
  <2>1. UNCHANGED <<delegated, queue, disturbed>>
    BY <1>3 DEF remove_validator, update_config, vars
  <2> QED
    BY <2>1, PoolUnchanged
<1>4. CASE process_redelegations
  <2> DEFINE w == all_redelegations(query_exclude_list, query_validators)
  <2>1. redelegation_possible /\ queue' = queue \o w
        /\ UNCHANGED <<delegated, disturbed>>
    BY <1>4 DEF process_redelegations
  <2>2. Redelegates(w)
    BY <1>1, <2>1, AllRedelegations
  <2> HIDE DEF w
  <2>3. w \in Seq(Message)
    BY <2>2 DEF Redelegates
  <2>4. From(w, HUB) = 0 /\ To(w, HUB) = 0
    BY <1>1, <2>2, <2>3, HubSums
  <2>5. /\ Total(delegated)' = Total(delegated)
        /\ QueuedFrom(HUB)' = QueuedFrom(HUB) + From(w, HUB)
        /\ QueuedTo(HUB)' = QueuedTo(HUB) + To(w, HUB)
        /\ QueuedFrom(HUB) \in Nat /\ QueuedTo(HUB) \in Nat
    BY <1>1, <2>1, <2>3, QueueRefines
  <2>6. QueuedFrom(HUB)' = QueuedFrom(HUB) /\ QueuedTo(HUB)' = QueuedTo(HUB)
    BY <2>4, <2>5
  <2> QED
    BY <2>1, <2>5, <2>6 DEF Pool!poolVars
<1>5. CASE Stake
  <2>1. PICK amount \in Nat \ {0}, w \in Seq(Message) :
           /\ Delegates(w, amount)
           /\ queue' = queue \o w
           /\ UNCHANGED <<registryVars, delegated, batch_closed, calls,
                          disturbed, faults>>
    BY <1>5, StakeIs
  <2>2. w \in Seq(Message) /\ UNCHANGED <<delegated, disturbed>>
    BY <2>1 DEF Delegates
  <2>3. From(w, HUB) = amount /\ To(w, HUB) = 0
    BY <1>1, <2>1, <2>2, HubSums
  <2>4. /\ Total(delegated)' = Total(delegated)
        /\ QueuedFrom(HUB)' = QueuedFrom(HUB) + From(w, HUB)
        /\ QueuedTo(HUB)' = QueuedTo(HUB) + To(w, HUB)
        /\ QueuedFrom(HUB) \in Nat /\ QueuedTo(HUB) \in Nat
    BY <1>1, <2>1, <2>2, QueueRefines
  <2>5. QueuedFrom(HUB)' > QueuedFrom(HUB) /\ QueuedTo(HUB)' = QueuedTo(HUB)
    BY <2>3, <2>4
  <2>6. Pool!Delegate
    BY <2>2, <2>4, <2>5 DEF Pool!Delegate
  <2> QED
    BY <2>6 DEF Pool!PoolNext
<1>6. CASE CloseBatch
  <2>1. PICK claim \in Nat \ {0}, w \in Seq(Message) :
           /\ Undelegates(w, claim)
           /\ claim <= Total(delegations_in(query_validators))
           /\ ~batch_closed /\ batch_closed' = TRUE
           /\ queue' = queue \o w
           /\ UNCHANGED <<registryVars, delegated, calls, disturbed, faults>>
    BY <1>6, CloseBatchIs
  <2>2. w \in Seq(Message) /\ UNCHANGED <<delegated, disturbed>>
    BY <2>1 DEF Undelegates
  <2>3. From(w, HUB) = 0 /\ To(w, HUB) = claim
    BY <1>1, <2>1, <2>2, HubSums
  <2>4. /\ Total(delegated)' = Total(delegated)
        /\ QueuedFrom(HUB)' = QueuedFrom(HUB) + From(w, HUB)
        /\ QueuedTo(HUB)' = QueuedTo(HUB) + To(w, HUB)
        /\ Total(delegated) = Held(delegated) /\ Held(delegated) \in Nat
        /\ QueuedFrom(HUB) \in Nat /\ QueuedTo(HUB) \in Nat
    BY <1>1, <2>1, <2>2, QueueRefines
  <2>5. QueuedTo(HUB) = 0
    <3>1. \A i \in 1 .. Len(queue) : queue[i].dst # HUB
      BY <2>1 DEF IInv, OneBatch
    <3>2. \A i \in 1 .. Len(queue) : ToAmounts(queue, HUB)[i] = 0
      BY <3>1 DEF ToAmounts
    <3>3. To(queue, HUB) = 0
      BY <3>2, SumZero DEF To
    <3> QED
      BY <1>1, <3>3, PoolVariables
  <2>6. claim <= Held(delegated)
    <3> DEFINE t == Total(delegations_in(query_validators))
               s == SumOver(delegated, DOMAIN registry)
               u == SumOver(delegated, exclude_list)
    <3>1. t \in Nat /\ t <= s
      BY TotalReported DEF IInv
    <3>2. s + u = Held(delegated)
      BY KnownStake
    <3>3. s \in Nat /\ u \in Nat
      <4>1. delegated \in Ledgers /\ DOMAIN registry \in SUBSET Validators
            /\ exclude_list \in SUBSET Validators
        BY <1>1 DEF TypeOK, Ledgers
      <4> QED
        BY <4>1, TotalHeld
    <3>4. claim <= t
      BY <2>1
    <3> HIDE DEF t, s, u
    <3> QED
      BY <3>1, <3>2, <3>3, <3>4
  <2>7. /\ QueuedTo(HUB)' \in QueuedTo(HUB) + 1 .. Total(delegated)
        /\ QueuedFrom(HUB)' = QueuedFrom(HUB)
    BY <2>3, <2>4, <2>5, <2>6
  <2>8. Pool!Undelegate
    BY <2>2, <2>4, <2>7 DEF Pool!Undelegate
  <2> QED
    BY <2>8 DEF Pool!PoolNext
<1>7. CASE EpochEnd
  <2>1. PICK refused \in SUBSET {i \in DOMAIN queue :
                                   queue[i].src # HUB /\ queue[i].dst # HUB} :
           delegated' = on_epoch_end(refused)[Len(queue)]
    BY <1>7 DEF EpochEnd
  <2>2. queue' = <<>> /\ disturbed' = FALSE
    BY <1>7 DEF EpochEnd
  <2>3. Balanced(delegated', Len(queue))
    <3>1. Len(queue) \in 0 .. Len(queue)
      BY <1>1 DEF TypeOK
    <3> QED
      BY <2>1, <3>1, EpochBalanced
  <2>4. PICK out \in 0 .. To(queue, HUB) :
           /\ Held(delegated') + out = Held(delegated) + From(queue, HUB)
           /\ ~disturbed => out = To(queue, HUB)
    BY <2>3 DEF Balanced, From, To
  <2>5. /\ Total(delegated) = Held(delegated) /\ Held(delegated) \in Nat
        /\ QueuedFrom(HUB) = From(queue, HUB) /\ From(queue, HUB) \in Nat
        /\ QueuedTo(HUB) = To(queue, HUB) /\ To(queue, HUB) \in Nat
        /\ Total(delegated)' = Held(delegated') /\ Held(delegated') \in Nat
        /\ QueuedFrom(HUB)' = From(queue', HUB)
        /\ QueuedTo(HUB)' = To(queue', HUB)
    BY <1>1, PoolVariables, PoolVariablesNext
  <2>6. From(queue', HUB) = 0 /\ To(queue', HUB) = 0
    <3>1. Len(queue') = 0 /\ 1 .. 0 = {}
      BY <2>2
    <3> QED
      BY <3>1, SumEmpty DEF From, To
  <2>7. /\ out \in 0 .. QueuedTo(HUB)
        /\ ~disturbed => out = QueuedTo(HUB)
        /\ Total(delegated)' = Total(delegated) + QueuedFrom(HUB) - out
    BY <2>4, <2>5
  <2>8. QueuedFrom(HUB)' = 0 /\ QueuedTo(HUB)' = 0 /\ (~disturbed)' = TRUE
    BY <2>2, <2>5, <2>6
  <2>9. Pool!EpochEnd
    BY <2>7, <2>8 DEF Pool!EpochEnd
  <2> QED
    BY <2>9 DEF Pool!PoolNext
<1>8. ASSUME NEW v \in Validators, SlashValidator(v)
      PROVE  Pool!PoolNext
  <2>1. PICK a \in SLASH_AMOUNTS :
           /\ a < delegated[v]
           /\ delegated' = [delegated EXCEPT ![v] = delegated[v] - a]
    BY <1>8 DEF SlashValidator
  <2>2. disturbed' = TRUE /\ UNCHANGED queue
    BY <1>8 DEF SlashValidator
  <2>3. \A w \in Validators : /\ delegated[w] \in Nat /\ delegated'[w] \in Nat
                              /\ delegated'[w] <= delegated[w]
    BY <1>1, <2>1, RegistryAssumption DEF TypeOK
  <2>4. Held(delegated') <= Held(delegated)
    <3>1. IsFiniteSet(Validators)
      BY ValidatorFacts
    <3> HIDE DEF Validators
    <3> QED
      BY <2>3, <3>1, SumMonotone DEF Held
  <2> QED
    BY <1>1, <2>2, <2>4, DisturbRefines DEF Pool!PoolNext
<1> QED
  BY <1>2, <1>3, <1>4, <1>5, <1>6, <1>7, <1>8 DEF Next

\* The hub may treat its stake as one sum, however the owner changes the
\* validators, whoever calls ProcessRedelegations and whatever redelegations
\* the chain refuses: redelegations do not change the sum, a stake adds to it
\* and without a disturbance every undelegation leaves it
\* (contract.rs:138-240, stake.rs, unstake.rs:250-294).
THEOREM RegistryImplementsPool == Spec => ImplementsStakePool
<1>1. IInv /\ IInv' /\ [Next]_vars => [Pool!PoolNext]_Pool!poolVars
  BY NextRefines
<1> QED
  BY <1>1, PoolInitially, Invariance, PTL
  DEF Spec, ImplementsStakePool, Pool!PoolSpec

=============================================================================
