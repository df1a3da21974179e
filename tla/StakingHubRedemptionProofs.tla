--------------------- MODULE StakingHubRedemptionProofs ---------------------
(***************************************************************************)
(* What redeemers can rely on, for every value of the constants: the wait  *)
(* list accounts for the batches, the coins for the entries are there, and *)
(* the hub implements RedemptionQueue.                                     *)
(*                                                                         *)
(* The sums are taken as SumOver of SumLemmas, of functions that have the  *)
(* wait list w and the history h as parameters, so that each fact is       *)
(* stated once and used before and after a step.                           *)
(***************************************************************************)
EXTENDS StakingHubProofs, StakingHubRefinement, HubQueries, SumLemmas

EntriesOf(w, b) == {k \in DOMAIN w : k[2] = b}
EntrySum(w, b) == SumOver(w, EntriesOf(w, b))

Required(h) ==
    [b \in DOMAIN h |-> decimal_multiplication(h[b].lst_token_amount,
                                               h[b].lst_withdraw_rate)]
Unreleased(h) == {b \in DOMAIN h : ~h[b].released}

Value(w, h) ==
    [k \in DOMAIN w |->
        decimal_multiplication(w[k], h[k[2]].lst_applied_exchange_rate)]
ReleasedKeys(w, h) == {k \in DOMAIN w : k[2] \in DOMAIN h /\ h[k[2]].released}

\* A wait list and a history of the types the hub keeps.
WaitList(w) ==
    /\ IsFiniteSet(DOMAIN w)
    /\ w \in [DOMAIN w -> Nat]
    /\ DOMAIN w \subseteq Users \X Nat
Batches(h, n) == h \in [1 .. n - 1 -> History]

-----------------------------------------------------------------------------
(* The wait list.                                                          *)

\* The entries of a batch are finitely many amounts.
LEMMA EntriesType ==
    ASSUME NEW w, WaitList(w), NEW b
    PROVE  /\ IsFiniteSet(EntriesOf(w, b))
           /\ \A k \in EntriesOf(w, b) : w[k] \in Nat
           /\ EntrySum(w, b) \in Nat
<1>1. EntriesOf(w, b) \subseteq DOMAIN w
  BY DEF EntriesOf
<1>2. IsFiniteSet(EntriesOf(w, b))
  BY <1>1, FS_Subset DEF WaitList
<1>3. \A k \in EntriesOf(w, b) : w[k] \in Nat
  BY <1>1 DEF WaitList
<1> QED
  BY <1>2, <1>3, SumType DEF EntrySum

\* The fold of the model is the sum.
LEMMA EntryTotalIsSum ==
    ASSUME NEW w, WaitList(w), NEW b
    PROVE  SumFunctionOnSet(w, {k \in DOMAIN w : k[2] = b}) = EntrySum(w, b)
  BY EntriesType, SumFunctionIsSum DEF EntrySum, EntriesOf

\* A request: the sum of its batch grows by its amount, the others stay.
LEMMA RequestEntries ==
    ASSUME NEW w, WaitList(w), NEW user \in Users, NEW n \in Nat,
           NEW amount \in Nat, NEW v, v = [k \in DOMAIN v |-> v[k]],
           DOMAIN v = DOMAIN w \cup {<<user, n>>},
           \A k \in DOMAIN w : k # <<user, n>> => v[k] = w[k],
           v[<<user, n>>] = IF <<user, n>> \in DOMAIN w
                            THEN w[<<user, n>>] + amount ELSE amount
    PROVE  /\ WaitList(v)
           /\ EntrySum(v, n) = EntrySum(w, n) + amount
           /\ \A b : b # n => EntrySum(v, b) = EntrySum(w, b)
<1> DEFINE key == <<user, n>>
<1>1. /\ DOMAIN v = DOMAIN w \cup {key}
      /\ key \in Users \X Nat
      /\ \A k \in DOMAIN w : k # key => v[k] = w[k]
      /\ v[key] = (IF key \in DOMAIN w THEN w[key] + amount ELSE amount)
  OBVIOUS
<1>2. key[2] = n
  OBVIOUS
<1>3. \A k \in DOMAIN w : w[k] \in Nat
  BY DEF WaitList
<1> HIDE DEF key
<1>4. \A k \in DOMAIN v : v[k] \in Nat
  <2> TAKE k \in DOMAIN v
  <2>1. CASE k = key
    BY <1>1, <1>3, <2>1
  <2>2. CASE k # key
    BY <1>1, <1>3, <2>2
  <2> QED
    BY <2>1, <2>2
<1>5. WaitList(v)
  <2>1. IsFiniteSet(DOMAIN v)
    BY <1>1, FS_AddElement DEF WaitList
  <2>2. v \in [DOMAIN v -> Nat]
    BY <1>4
  <2> QED
    BY <1>1, <2>1, <2>2 DEF WaitList
<1>6. ASSUME NEW b, b # n
      PROVE  EntrySum(v, b) = EntrySum(w, b)
  <2>1. EntriesOf(v, b) = EntriesOf(w, b)
    BY <1>1, <1>2, <1>6 DEF EntriesOf
  <2>2. \A k \in EntriesOf(w, b) : v[k] = w[k]
    BY <1>1, <1>2, <1>6 DEF EntriesOf
  <2>3. SumOver(v, EntriesOf(w, b)) = SumOver(w, EntriesOf(w, b))
    BY <2>2, SumSame
  <2> QED
    BY <2>1, <2>3 DEF EntrySum
<1>7. EntriesOf(v, n) = EntriesOf(w, n) \cup {key}
  BY <1>1, <1>2 DEF EntriesOf
<1>8. EntrySum(v, n) = EntrySum(w, n) + amount
  <2> DEFINE rest == EntriesOf(w, n) \ {key}
  <2>1. IsFiniteSet(EntriesOf(v, n)) /\ IsFiniteSet(EntriesOf(w, n))
    BY <1>5, EntriesType
  <2>2. EntriesOf(v, n) \ {key} = rest
    BY <1>7
  <2>3. /\ \A k \in EntriesOf(v, n) : v[k] \in Nat
        /\ \A k \in EntriesOf(w, n) : w[k] \in Nat
    BY <1>5, EntriesType
  <2>4. key \in EntriesOf(v, n)
    BY <1>7
  <2>5. SumOver(v, EntriesOf(v, n)) = v[key] + SumOver(v, rest)
    <3>1. SumOver(v, EntriesOf(v, n))
            = v[key] + SumOver(v, EntriesOf(v, n) \ {key})
      BY <2>1, <2>3, <2>4, SumRemove
    <3> HIDE DEF rest
    <3> QED
      BY <2>2, <3>1
  <2>6. \A k \in rest : v[k] = w[k]
    BY <1>1 DEF EntriesOf
  <2>7. SumOver(v, rest) = SumOver(w, rest)
    BY <2>6, SumSame
  <2>8. IsFiniteSet(rest) /\ \A k \in rest : w[k] \in Nat
    BY <2>1, <2>3, FS_Subset
  <2>9. SumOver(w, rest) \in Nat
    BY <2>8, SumType
  <2> HIDE DEF rest
  <2>10. CASE key \in DOMAIN w
    <3>1. key \in EntriesOf(w, n)
      BY <1>2, <2>10 DEF EntriesOf
    <3>2. SumOver(w, EntriesOf(w, n)) = w[key] + SumOver(w, rest)
      BY <2>1, <2>3, <3>1, SumRemove DEF rest
    <3>3. v[key] = w[key] + amount /\ w[key] \in Nat
      BY <1>1, <1>3, <2>10
    <3> QED
      BY <2>5, <2>7, <2>9, <3>2, <3>3 DEF EntrySum
  <2>11. CASE key \notin DOMAIN w
    <3>1. rest = EntriesOf(w, n)
      BY <2>11 DEF EntriesOf, rest
    <3>2. v[key] = amount
      BY <1>1, <2>11
    <3> QED
      BY <2>5, <2>7, <2>9, <3>1, <3>2 DEF EntrySum
  <2> QED
    BY <2>10, <2>11
<1> QED
  BY <1>5, <1>6, <1>8

\* Entries are removed: sums shrink, and those of other batches stay.
LEMMA RemoveEntries ==
    ASSUME NEW w, WaitList(w), NEW P, NEW v, v = [k \in DOMAIN v |-> v[k]],
           DOMAIN v = DOMAIN w \ P, \A k \in DOMAIN v : v[k] = w[k]
    PROVE  /\ WaitList(v)
           /\ \A b : EntrySum(v, b) <= EntrySum(w, b)
           /\ \A b : (\A k \in P : k[2] # b) => EntrySum(v, b) = EntrySum(w, b)
<1>1. /\ DOMAIN v = DOMAIN w \ P
      /\ \A k \in DOMAIN v : v[k] = w[k] /\ w[k] \in Nat
  BY DEF WaitList
<1>2. WaitList(v)
  <2>1. IsFiniteSet(DOMAIN v)
    BY <1>1, FS_Subset DEF WaitList
  <2>2. v \in [DOMAIN v -> Nat]
    BY <1>1
  <2> QED
    BY <1>1, <2>1, <2>2 DEF WaitList
<1>3. ASSUME NEW b
      PROVE  EntrySum(v, b) = SumOver(w, EntriesOf(v, b))
  <2>1. \A k \in EntriesOf(v, b) : v[k] = w[k]
    BY <1>1 DEF EntriesOf
  <2> QED
    BY <2>1, SumSame DEF EntrySum
<1>4. ASSUME NEW b
      PROVE  EntrySum(v, b) <= EntrySum(w, b)
  <2> DEFINE S == EntriesOf(w, b)
             T == EntriesOf(v, b)
  <2>1. T \in SUBSET S
    BY <1>1 DEF EntriesOf
  <2>2. IsFiniteSet(S) /\ \A k \in S : w[k] \in Nat
    BY EntriesType
  <2>3. IsFiniteSet(T) /\ IsFiniteSet(S \ T)
    BY <2>1, <2>2, FS_Subset
  <2>4. SumOver(w, T) \in Nat /\ SumOver(w, S \ T) \in Nat
    BY <2>1, <2>2, <2>3, SumType
  <2>5. SumOver(w, S) = SumOver(w, T) + SumOver(w, S \ T)
    BY <2>1, <2>2, SumSplit
  <2>6. SumOver(w, T) <= SumOver(w, S)
    BY <2>4, <2>5
  <2> QED
    BY <1>3, <2>6 DEF EntrySum
<1>5. ASSUME NEW b, \A k \in P : k[2] # b
      PROVE  EntrySum(v, b) = EntrySum(w, b)
  <2>1. EntriesOf(v, b) = EntriesOf(w, b)
    BY <1>1, <1>5 DEF EntriesOf
  <2> QED
    BY <1>3, <2>1 DEF EntrySum
<1> QED
  BY <1>2, <1>4, <1>5

-----------------------------------------------------------------------------
(* What closed batches need.                                               *)

\* What a batch needs is an amount, and the fold of the model is the sum.
LEMMA RequiredType ==
    ASSUME NEW n \in Nat \ {0}, NEW h, Batches(h, n),
           NEW S \in SUBSET (DOMAIN h)
    PROVE  /\ IsFiniteSet(S)
           /\ \A b \in DOMAIN h : Required(h)[b] \in Nat
           /\ SumOver(Required(h), S) \in Nat
           /\ SumFunction([b \in S |->
                 decimal_multiplication(h[b].lst_token_amount,
                                        h[b].lst_withdraw_rate)])
                 = SumOver(Required(h), S)
<1>1. DOMAIN h = 1 .. n - 1 /\ 1 \in Int /\ n - 1 \in Int
  BY DEF Batches
<1>2. IsFiniteSet(S)
  BY <1>1, FS_Interval, FS_Subset
<1>3. \A b \in DOMAIN h : h[b].lst_token_amount \in Nat
                          /\ h[b].lst_withdraw_rate \in Nat
  BY DEF Batches, History
<1>4. \A b \in DOMAIN h : Required(h)[b] \in Nat
  BY <1>3, MathTypes DEF Required
<1>5. SumOver(Required(h), S) \in Nat
  BY <1>2, <1>4, SumType
<1> DEFINE f == [b \in S |-> decimal_multiplication(h[b].lst_token_amount,
                                                    h[b].lst_withdraw_rate)]
<1>6. DOMAIN f = S /\ \A b \in S : f[b] = Required(h)[b]
  BY DEF Required
<1> HIDE DEF f
<1>7. SumFunctionOnSet(f, S) = SumOver(f, S)
  BY <1>2, <1>4, <1>6, SumFunctionIsSum
<1>8. SumOver(f, S) = SumOver(Required(h), S)
  BY <1>6, SumSame
<1>9. SumFunction(f) = SumOver(Required(h), S)
  BY <1>6, <1>7, <1>8 DEF SumFunction
<1> QED
  BY <1>2, <1>4, <1>5, <1>9 DEF f

\* A batch is closed: it is needed in addition.
LEMMA CloseRequired ==
    ASSUME NEW n \in Nat \ {0}, NEW h, Batches(h, n), NEW g, Batches(g, n + 1),
           \A b \in DOMAIN h : g[b] = h[b], ~g[n].released
    PROVE  SumOver(Required(g), Unreleased(g))
              = SumOver(Required(h), Unreleased(h)) + Required(g)[n]
<1>1. /\ DOMAIN h = 1 .. n - 1 /\ DOMAIN g = 1 .. n
      /\ n \notin DOMAIN h /\ n \in DOMAIN g
      /\ DOMAIN g = DOMAIN h \cup {n}
  BY DEF Batches
<1>2. Unreleased(g) = Unreleased(h) \cup {n} /\ n \notin Unreleased(h)
  BY <1>1 DEF Unreleased
<1>3. Unreleased(h) \in SUBSET (DOMAIN h) /\ Unreleased(g) \in SUBSET (DOMAIN g)
      /\ n + 1 \in Nat \ {0}
  BY DEF Unreleased
<1>4. /\ IsFiniteSet(Unreleased(h))
      /\ \A b \in DOMAIN g : Required(g)[b] \in Nat
      /\ SumOver(Required(h), Unreleased(h)) \in Nat
  BY <1>3, RequiredType
<1>5. \A b \in Unreleased(h) : Required(g)[b] = Required(h)[b]
  BY <1>1 DEF Required, Unreleased
<1>6. SumOver(Required(g), Unreleased(h)) = SumOver(Required(h), Unreleased(h))
  BY <1>5, SumSame
<1>7. \A b \in Unreleased(h) \cup {n} : Required(g)[b] \in Nat
  BY <1>1, <1>4 DEF Unreleased
<1>8. SumOver(Required(g), Unreleased(h) \cup {n})
        = Required(g)[n] + SumOver(Required(g), Unreleased(h))
  BY <1>2, <1>4, <1>7, SumAdd
<1>9. Required(g)[n] \in Nat
  BY <1>1, <1>4
<1> QED
  BY <1>2, <1>4, <1>6, <1>8, <1>9

\* Histories that differ in what is released only.
SameBatches(h, g) ==
    /\ DOMAIN g = DOMAIN h
    /\ \A b \in DOMAIN h :
          /\ g[b].lst_token_amount = h[b].lst_token_amount
          /\ g[b].lst_withdraw_rate = h[b].lst_withdraw_rate
          /\ g[b].lst_applied_exchange_rate = h[b].lst_applied_exchange_rate

\* Batches are released: they are needed no longer.
LEMMA ReleaseRequired ==
    ASSUME NEW n \in Nat \ {0}, NEW h, Batches(h, n), NEW g, SameBatches(h, g),
           NEW R \in SUBSET Unreleased(h),
           Unreleased(g) = Unreleased(h) \ R
    PROVE  SumOver(Required(h), Unreleased(h))
              = SumOver(Required(h), R) + SumOver(Required(g), Unreleased(g))
<1>1. Unreleased(h) \in SUBSET (DOMAIN h)
  BY DEF Unreleased
<1>2. /\ IsFiniteSet(Unreleased(h))
      /\ \A b \in Unreleased(h) : Required(h)[b] \in Nat
  BY <1>1, RequiredType
<1>3. SumOver(Required(h), Unreleased(h))
        = SumOver(Required(h), R) + SumOver(Required(h), Unreleased(h) \ R)
  BY <1>2, SumSplit
<1>4. \A b \in Unreleased(h) \ R : Required(g)[b] = Required(h)[b]
  BY <1>1 DEF Required, SameBatches
<1>5. SumOver(Required(g), Unreleased(h) \ R)
        = SumOver(Required(h), Unreleased(h) \ R)
  BY <1>4, SumSame
<1> QED
  BY <1>3, <1>5, Zenon

-----------------------------------------------------------------------------
(* What wait list entries are worth.                                       *)

\* An entry of a closed batch is worth an amount, and the fold of the model is
\* the sum.
LEMMA ValueType ==
    ASSUME NEW w, WaitList(w), NEW n \in Nat \ {0}, NEW h, Batches(h, n),
           NEW S \in SUBSET {k \in DOMAIN w : k[2] \in DOMAIN h}
    PROVE  /\ IsFiniteSet(S)
           /\ \A k \in S : Value(w, h)[k] \in Nat
           /\ SumOver(Value(w, h), S) \in Nat
           /\ SumFunction([k \in S |->
                 decimal_multiplication(w[<<k[1], k[2]>>],
                                        h[k[2]].lst_applied_exchange_rate)])
                 = SumOver(Value(w, h), S)
<1>1. IsFiniteSet(S)
  BY FS_Subset DEF WaitList
<1>2. \A k \in S : w[k] \in Nat /\ k = <<k[1], k[2]>>
  BY DEF WaitList
<1>3. \A b \in DOMAIN h : h[b].lst_applied_exchange_rate \in Nat
  BY DEF Batches, History
<1>4. \A k \in S : Value(w, h)[k] \in Nat
  BY <1>2, <1>3, MathTypes DEF Value
<1>5. SumOver(Value(w, h), S) \in Nat
  BY <1>1, <1>4, SumType
<1> DEFINE f == [k \in S |->
                    decimal_multiplication(w[<<k[1], k[2]>>],
                                           h[k[2]].lst_applied_exchange_rate)]
<1>6. DOMAIN f = S /\ \A k \in S : f[k] = Value(w, h)[k]
  BY <1>2 DEF Value
<1> HIDE DEF f
<1>7. SumFunctionOnSet(f, S) = SumOver(f, S)
  BY <1>1, <1>4, <1>6, SumFunctionIsSum
<1>8. SumOver(f, S) = SumOver(Value(w, h), S)
  BY <1>6, SumSame
<1>9. SumFunction(f) = SumOver(Value(w, h), S)
  BY <1>6, <1>7, <1>8 DEF SumFunction
<1> QED
  BY <1>1, <1>4, <1>5, <1>9 DEF f

\* Priced one by one, the entries of a batch that are all there are worth no
\* more than what the batch needs.
LEMMA BatchPriced ==
    ASSUME NEW w, WaitList(w), NEW n \in Nat \ {0}, NEW h, Batches(h, n),
           NEW b \in DOMAIN h, EntrySum(w, b) = h[b].lst_token_amount,
           h[b].lst_withdraw_rate = h[b].lst_applied_exchange_rate
    PROVE  SumOver(Value(w, h), EntriesOf(w, b)) <= Required(h)[b]
<1> DEFINE r == h[b].lst_applied_exchange_rate
           D == DECIMAL_FRACTIONAL
<1>1. r \in Nat /\ D \in Nat \ {0}
  BY ScaleAssumption DEF Batches, History
<1>2. /\ IsFiniteSet(EntriesOf(w, b))
      /\ \A k \in EntriesOf(w, b) : w[k] \in Nat
  BY EntriesType
<1>3. \A k \in EntriesOf(w, b) : Value(w, h)[k] = (w[k] * r) \div D
  BY DEF Value, EntriesOf, decimal_multiplication
<1>4. SumOver(Value(w, h), EntriesOf(w, b))
        <= (SumOver(w, EntriesOf(w, b)) * r) \div D
  <2> HIDE DEF r, D
  <2> QED
    BY <1>1, <1>2, <1>3, SumOfPrices
<1>5. Required(h)[b] = (EntrySum(w, b) * r) \div D
  BY DEF Required, decimal_multiplication
<1> QED
  BY <1>4, <1>5 DEF EntrySum

\* The same for several batches together.
LEMMA BatchesPriced ==
    ASSUME NEW w, WaitList(w), NEW n \in Nat \ {0}, NEW h, Batches(h, n),
           NEW R \in SUBSET (DOMAIN h),
           \A b \in R : EntrySum(w, b) = h[b].lst_token_amount,
           \A b \in R : h[b].lst_withdraw_rate = h[b].lst_applied_exchange_rate
    PROVE  SumOver(Value(w, h), {k \in DOMAIN w : k[2] \in R})
              <= SumOver(Required(h), R)
<1> DEFINE S == {k \in DOMAIN w : k[2] \in R}
           group == [k \in DOMAIN w |-> k[2]]
<1>1. S \in SUBSET {k \in DOMAIN w : k[2] \in DOMAIN h}
  OBVIOUS
<1>2. IsFiniteSet(S) /\ \A k \in S : Value(w, h)[k] \in Nat
  BY <1>1, ValueType
<1>3. IsFiniteSet(R) /\ \A b \in R : Required(h)[b] \in Nat
  BY RequiredType
<1>4. \A k \in S : group[k] \in R
  OBVIOUS
<1>5. ASSUME NEW b \in R
      PROVE  SumOver(Value(w, h), {k \in S : group[k] = b}) <= Required(h)[b]
  <2>1. {k \in S : group[k] = b} = EntriesOf(w, b)
    BY DEF EntriesOf
  <2>2. SumOver(Value(w, h), EntriesOf(w, b)) <= Required(h)[b]
    BY BatchPriced
  <2> HIDE DEF S, group
  <2> QED
    BY <2>1, <2>2
<1> HIDE DEF S, group
<1>6. SumOver(Value(w, h), S) <= SumOver(Required(h), R)
  BY <1>2, <1>3, <1>4, <1>5, SumGrouped
<1> QED
  BY <1>6 DEF S

-----------------------------------------------------------------------------
(* The kinds of steps, as far as redemption is concerned.                  *)

\* The coins at hand, and those that are there or on their way.
Vault == hub_balance - queue.delegate
Backing == Vault + unbonding + queue.undelegate + lost

\* The batches and what is set aside stay; coins may come in, and what leaves
\* the bank balance was queued for delegation.
QuietForQueue ==
    /\ UNCHANGED <<wait_list, history, current_batch>>
    /\ state'.unclaimed_unstaked_balance = state.unclaimed_unstaked_balance
    /\ state'.last_processed_batch = state.last_processed_batch
    /\ Vault' >= Vault
    /\ Backing' >= Backing
    /\ hub_balance' < hub_balance =>
          queue' # queue /\ hub_balance - hub_balance' = queue.delegate

\* The batch is stored, or closed and what it needs queued for undelegation.
BatchDealtWith(batch) ==
    /\ UNCHANGED <<hub_balance, unbonding, lost>>
    /\ queue'.delegate = queue.delegate
    /\ state'.unclaimed_unstaked_balance = state.unclaimed_unstaked_balance
    /\ state'.last_processed_batch = state.last_processed_batch
    /\ \/ /\ current_batch' = batch
          /\ UNCHANGED <<queue, history>>
       \/ /\ current_batch' = [id |-> batch.id + 1, requested |-> 0]
          /\ \A b \in DOMAIN history : history'[b] = history[b]
          /\ ~history'[batch.id].released
          /\ history'[batch.id].time = time
          /\ history'[batch.id].lst_token_amount = batch.requested
          /\ history'[batch.id].lst_withdraw_rate
                = history'[batch.id].lst_applied_exchange_rate
          /\ queue'.undelegate
                = queue.undelegate + Required(history')[batch.id]

Requests ==
    \E user \in Users, amount \in Nat :
        /\ wait_list' = updated_wait_list(user, amount)
        /\ BatchDealtWith([current_batch EXCEPT !.requested = @ + amount])

Closes ==
    /\ wait_list' = wait_list
    /\ BatchDealtWith(current_batch)

\* The batches after the last processed one, up to `last`, are released and
\* `left` of the coins at hand remains unreserved.
ReleasesUpTo(last, left) ==
    LET R == state.last_processed_batch + 1 .. last IN
    /\ last >= state.last_processed_batch
    /\ state'.last_processed_batch = last
    /\ R \subseteq Unreleased(history)
    /\ Unreleased(history') = Unreleased(history) \ R
    /\ SameBatches(history, history')
    /\ left = Vault - state.unclaimed_unstaked_balance
                - SumOver(Required(history), R)
    /\ UNCHANGED <<current_batch, queue, unbonding, lost>>

Releases ==
    \E last, left \in Nat :
        /\ ReleasesUpTo(last, left)
        /\ state'.unclaimed_unstaked_balance = Vault - left
        /\ UNCHANGED <<wait_list, hub_balance>>

\* The keys of the entries that a withdrawal pays when h is the history.
PaidKeys(user, selection, h) ==
    {<<user, selection[i]>> : i \in finished(user, selection, h)}

Pays(user, selection) ==
    \E last, left, paid \in Nat :
        /\ ReleasesUpTo(last, left)
        /\ paid = finished_amount(user, selection, history')
        /\ paid > 0
        /\ state'.unclaimed_unstaked_balance = Vault - paid - left
        /\ hub_balance' = hub_balance - paid
        /\ wait_list' = [k \in DOMAIN wait_list \ PaidKeys(user, selection, history') |->
                            wait_list[k]]

\* The batches a user may select: all those with an entry, or a given list.
Selections(user) == BATCH_ID_LISTS \cup {user_batches(user)}

\* Steps of the chain leave the batches alone; what an epoch end takes from
\* the bank balance was queued, and what it does not undelegate is lost.
LEMMA ChainIsQuiet ==
    ASSUME IInv, ChainStep
    PROVE  QuietForQueue
<1>1. TypeOK
  BY DEF IInv
<1>2. /\ hub_balance \in Nat /\ queue.delegate \in Nat
      /\ queue.undelegate \in Nat /\ unbonding \in Nat /\ lost \in Nat
      /\ queue \in [delegate : Nat, undelegate : Nat]
  BY <1>1 DEF TypeOK, ChainTypeOK
<1>3. UNCHANGED <<state, wait_list, history, current_batch>>
  BY DEF ChainStep, hubVars
<1>4. ASSUME Vault' >= Vault, Backing' >= Backing,
             hub_balance' < hub_balance =>
                queue' # queue /\ hub_balance - hub_balance' = queue.delegate
      PROVE  QuietForQueue
  BY <1>3, <1>4 DEF QuietForQueue
<1>5. CASE NextBlock
  <2>1. CASE height + 1 = epoch_start + EPOCH_BLOCKS
    <3>1. PICK out \in 0 .. queue.undelegate :
            /\ unbonding' = unbonding + out
            /\ lost' = lost + queue.undelegate - out
            /\ hub_balance' = hub_balance - queue.delegate
            /\ queue' = [delegate |-> 0, undelegate |-> 0]
      BY <1>5, <2>1 DEF NextBlock, on_epoch_end
    <3>2. queue'.delegate = 0 /\ queue'.undelegate = 0
      BY <3>1
    <3>3. out \in Nat
      BY <1>2
    <3>4. Vault' = Vault /\ Backing' = Backing
      BY <1>2, <3>1, <3>2, <3>3 DEF Vault, Backing
    <3>5. hub_balance' < hub_balance => queue' # queue
      BY <1>2, <3>1, <3>2
    <3>6. Vault \in Int /\ Backing \in Int
          /\ hub_balance - hub_balance' = queue.delegate
      BY <1>2, <3>1 DEF Vault, Backing
    <3> QED
      BY <1>4, <3>4, <3>5, <3>6
  <2>2. CASE height + 1 # epoch_start + EPOCH_BLOCKS
    BY <1>2, <1>4, <1>5, <2>2 DEF NextBlock, Vault, Backing
  <2> QED
    BY <2>1, <2>2
<1>6. CASE ChangeValidators \/ Slash
  BY <1>2, <1>4, <1>6 DEF ChangeValidators, Slash, Vault, Backing
<1>7. CASE SlashUnbonding
  <2>1. PICK a \in UNBONDING_SLASHES : /\ unbonding' = unbonding - a
                                       /\ lost' = lost + a
    BY <1>7 DEF SlashUnbonding
  <2>2. a \in Nat
    BY ChainAssumption
  <2>3. UNCHANGED <<hub_balance, queue>>
    BY <1>7 DEF SlashUnbonding
  <2> QED
    BY <1>2, <1>4, <2>1, <2>2, <2>3 DEF Vault, Backing
<1>8. CASE CompleteUnbonding
  <2>1. PICK a \in UNBONDING_PORTIONS \cup {unbonding} :
           /\ unbonding' = unbonding - a
           /\ hub_balance' = hub_balance + a
    BY <1>8 DEF CompleteUnbonding
  <2>2. a \in Nat
    BY <1>2, ChainAssumption
  <2>3. UNCHANGED <<lost, queue>>
    BY <1>8 DEF CompleteUnbonding
  <2> QED
    BY <1>2, <1>4, <2>1, <2>2, <2>3 DEF Vault, Backing
<1>9. CASE Donate
  <2>1. PICK a \in DONATIONS : hub_balance' = hub_balance + a
    BY <1>9 DEF Donate
  <2>2. a \in Nat
    BY ChainAssumption
  <2>3. UNCHANGED <<lost, queue, unbonding>>
    BY <1>9 DEF Donate
  <2> QED
    BY <1>2, <1>4, <2>1, <2>2, <2>3 DEF Vault, Backing
<1> QED
  BY <1>5, <1>6, <1>7, <1>8, <1>9 DEF ChainStep, ChainNext

\* Neither the slashing check nor staking, burning and the owner's parameters
\* touch the batches: what is staked is queued in the same step.
LEMMA HubIsQuiet ==
    ASSUME IInv,
           \/ CheckSlashing
           \/ UpdateParams
           \/ UpdateGlobalIndex
           \/ \E user \in Users : Stake(user) \/ TokenBurn(user)
    PROVE  QuietForQueue
<1>1. TypeOK
  BY DEF IInv
<1>2. /\ hub_balance \in Nat /\ queue.delegate \in Nat
      /\ queue.undelegate \in Nat /\ unbonding \in Nat /\ lost \in Nat
      /\ queue \in [delegate : Nat, undelegate : Nat]
      /\ state \in State /\ pending \in PendingDelegation
      /\ total_supply \in Nat /\ current_batch.requested \in Nat
  BY <1>1 DEF TypeOK, ChainTypeOK
<1>3. ASSUME UNCHANGED <<chainVars, wait_list, history, current_batch>>,
             state'.unclaimed_unstaked_balance
                = state.unclaimed_unstaked_balance,
             state'.last_processed_batch = state.last_processed_batch
      PROVE  QuietForQueue
  BY <1>2, <1>3 DEF QuietForQueue, chainVars, Vault, Backing
<1>4. CASE CheckSlashing
  BY <1>1, <1>3, <1>4, CheckedState DEF CheckSlashing
<1>5. CASE UpdateParams
  BY <1>3, <1>5 DEF UpdateParams
<1>6. ASSUME NEW user \in Users, TokenBurn(user)
      PROVE  QuietForQueue
  <2>1. PICK amount \in BURN_AMOUNTS :
           /\ burn(user, amount)
           /\ actual_state_defined(state, pending)
           /\ state' = query_actual_state(state, pending, total_supply',
                                          current_batch.requested)
           /\ UNCHANGED <<chainVars, current_batch, wait_list, history>>
    BY <1>6 DEF TokenBurn
  <2>2. total_supply' \in Nat
    BY <1>2, <2>1, HubAssumption DEF burn
  <2>3. /\ state'.unclaimed_unstaked_balance = state.unclaimed_unstaked_balance
        /\ state'.last_processed_batch = state.last_processed_batch
    BY <1>1, <1>2, <2>1, <2>2, ActualState
  <2> QED
    BY <1>3, <2>1, <2>3
<1>7. ASSUME NEW payment \in Nat, NEW mint, execute_stake(payment, mint)
      PROVE  QuietForQueue
  <2>1. /\ actual_state_defined(state, pending)
        /\ state' = staked_state(payment, mint)
        /\ hub_balance' = hub_balance + payment
        /\ queue' = push_delegate(payment)
        /\ UNCHANGED <<unbonding, lost, current_batch, wait_list, history>>
    BY <1>7 DEF execute_stake
  <2>2. /\ checked_state \in State
        /\ checked_state.unclaimed_unstaked_balance
              = state.unclaimed_unstaked_balance
        /\ checked_state.last_processed_batch = state.last_processed_batch
    BY <1>1, <2>1, CheckedState
  <2>3. /\ state'.unclaimed_unstaked_balance = state.unclaimed_unstaked_balance
        /\ state'.last_processed_batch = state.last_processed_batch
    BY <2>1, <2>2 DEF staked_state, State
  <2>4. /\ queue'.delegate = queue.delegate + payment
        /\ queue'.undelegate = queue.undelegate
    BY <1>2, <2>1 DEF push_delegate
  <2> QED
    BY <1>2, <2>1, <2>3, <2>4 DEF QuietForQueue, Vault, Backing
<1>8. CASE UpdateGlobalIndex
  <2>1. PICK reward \in REWARDS :
          /\ reward - compute_fee(reward, FEE_RATE) > 0
          /\ execute_stake(reward - compute_fee(reward, FEE_RATE), 0)
    BY <1>8 DEF UpdateGlobalIndex
  <2> DEFINE rest == reward - compute_fee(reward, FEE_RATE)
  <2>2. reward \in Nat /\ FEE_RATE \in Nat
    BY HubAssumption, ScaleAssumption
  <2>3. compute_fee(reward, FEE_RATE) \in Nat
    BY <2>2, MathTypes
  <2>4. rest \in Nat
    BY <2>1, <2>2, <2>3
  <2> HIDE DEF rest
  <2> QED
    BY <1>7, <2>1, <2>4 DEF rest
<1>9. ASSUME NEW user \in Users, Stake(user)
      PROVE  QuietForQueue
  BY <1>7, <1>9, HubAssumption DEF Stake
<1> QED
  BY <1>4, <1>5, <1>6, <1>8, <1>9

\* Closing the batch records one rate twice and queues the batch's worth.
LEMMA CompletionDealsWithBatch ==
    ASSUME IInv, NEW batch \in [id : Nat \ {0}, requested : Nat],
           batch.id = current_batch.id, NEW st \in State,
           check_for_unstake_batch_epoch_completion(batch, st),
           UNCHANGED <<hub_balance, unbonding, lost>>,
           state'.unclaimed_unstaked_balance = state.unclaimed_unstaked_balance,
           state'.last_processed_batch = state.last_processed_batch
    PROVE  BatchDealtWith(batch)
<1>1. /\ queue \in [delegate : Nat, undelegate : Nat]
      /\ history \in [1 .. current_batch.id - 1 -> History]
  BY DEF IInv, TypeOK, ChainTypeOK
<1>2. CASE ~epoch_completed
  BY <1>2 DEF check_for_unstake_batch_epoch_completion, BatchDealtWith
<1>3. CASE epoch_completed
  <2> DEFINE claim == unstaked_amount_in_batch(batch, st)
             r == closed_history(batch, st)
  <2>1. /\ queue' = push_undelegate(claim)
        /\ history' = appended(history, batch.id, r)
        /\ current_batch' = next_batch(batch)
    BY <1>3 DEF check_for_unstake_batch_epoch_completion,
                process_undelegations_for_batch
  <2>2. /\ queue'.delegate = queue.delegate
        /\ queue'.undelegate = queue.undelegate + claim
    BY <1>1, <2>1 DEF push_undelegate
  <2>3. /\ r.lst_token_amount = batch.requested
        /\ r.lst_withdraw_rate = st.lst_exchange_rate
        /\ r.lst_applied_exchange_rate = st.lst_exchange_rate
        /\ ~r.released /\ r.time = time
    BY DEF closed_history
  <2> HIDE DEF claim, r
  <2>4. /\ DOMAIN history' = 1 .. batch.id
        /\ history'[batch.id] = r
        /\ \A b \in DOMAIN history : history'[b] = history[b]
    BY <1>1, <2>1 DEF appended
  <2>5. Required(history')[batch.id] = claim
    <3>1. batch.id \in DOMAIN history'
      BY <2>4
    <3> QED
      BY <2>3, <2>4, <3>1 DEF Required, claim, unstaked_amount_in_batch
  <2>6. current_batch' = [id |-> batch.id + 1, requested |-> 0]
    BY <2>1 DEF next_batch
  <2> QED
    BY <2>2, <2>3, <2>4, <2>5, <2>6 DEF BatchDealtWith
<1> QED
  BY <1>2, <1>3

\* A request may close the batch it is added to.
LEMMA UnstakeRequests ==
    ASSUME IInv, NEW user \in Users, Unstake(user)
    PROVE  Requests
<1>1. TypeOK
  BY DEF IInv
<1>2. /\ current_batch \in [id : Nat \ {0}, requested : Nat]
      /\ total_supply \in Nat /\ state \in State
  BY <1>1 DEF TypeOK
<1>3. PICK amount \in UNSTAKE_AMOUNTS :
        LET batch == [current_batch EXCEPT !.requested = @ + amount]
            st == completed_state(batch, checked_state)
        IN
        /\ actual_state_defined(state, pending)
        /\ wait_list' = updated_wait_list(user, amount)
        /\ check_for_unstake_batch_epoch_completion(batch, checked_state)
        /\ burn(user, amount)
        /\ actual_state_defined(st, pending')
        /\ state' = query_actual_state(st, pending', total_supply',
                                       current_batch'.requested)
        /\ UNCHANGED <<height, time, epoch_start, hub_balance, delegated,
                       unbonding, lost, disturbances, params>>
  BY DEF Unstake
<1> DEFINE batch == [current_batch EXCEPT !.requested = @ + amount]
           st == completed_state(batch, checked_state)
<1>4. amount \in Nat
  BY HubAssumption
<1>5. batch \in [id : Nat \ {0}, requested : Nat] /\ batch.id = current_batch.id
  BY <1>2, <1>4
<1>6. check_for_unstake_batch_epoch_completion(batch, checked_state)
  BY <1>3
<1>7. /\ checked_state \in State
      /\ checked_state.unclaimed_unstaked_balance
            = state.unclaimed_unstaked_balance
      /\ checked_state.last_processed_batch = state.last_processed_batch
  BY <1>1, <1>3, CheckedState
<1>8. /\ actual_state_defined(st, pending')
      /\ state' = query_actual_state(st, pending', total_supply',
                                     current_batch'.requested)
  BY <1>3
<1>9. UNCHANGED <<height, time, epoch_start>>
      /\ UNCHANGED <<hub_balance, unbonding, lost>>
  BY <1>3
<1> HIDE DEF batch
<1>10. /\ st \in State /\ pending' \in PendingDelegation
       /\ st.unclaimed_unstaked_balance = state.unclaimed_unstaked_balance
       /\ st.last_processed_batch = state.last_processed_batch
       /\ current_batch'.requested \in Nat
  BY <1>5, <1>6, <1>7, <1>9, BatchStep
<1>11. total_supply' \in Nat
  BY <1>2, <1>3, <1>4 DEF burn
<1> HIDE DEF st
<1>12. /\ state'.unclaimed_unstaked_balance = state.unclaimed_unstaked_balance
       /\ state'.last_processed_batch = state.last_processed_batch
  BY <1>1, <1>8, <1>10, <1>11, ActualState
<1>13. BatchDealtWith(batch)
  BY <1>5, <1>6, <1>7, <1>9, <1>12, CompletionDealsWithBatch
<1> QED
  BY <1>3, <1>4, <1>13 DEF Requests, batch

\* ProcessUndelegations closes the open batch or changes nothing here.
LEMMA UndelegationsClose ==
    ASSUME IInv, ProcessUndelegations
    PROVE  Closes
<1>1. TypeOK
  BY DEF IInv
<1>2. current_batch \in [id : Nat \ {0}, requested : Nat]
  BY <1>1 DEF TypeOK
<1>3. /\ actual_state_defined(state, pending)
      /\ check_for_unstake_batch_epoch_completion(current_batch, checked_state)
      /\ state' = completed_state(current_batch, checked_state)
      /\ UNCHANGED <<height, time, epoch_start>>
      /\ UNCHANGED <<hub_balance, unbonding, lost>>
      /\ wait_list' = wait_list
  BY DEF ProcessUndelegations
<1>4. /\ checked_state \in State
      /\ checked_state.unclaimed_unstaked_balance
            = state.unclaimed_unstaked_balance
      /\ checked_state.last_processed_batch = state.last_processed_batch
  BY <1>1, <1>3, CheckedState
<1>5. /\ state'.unclaimed_unstaked_balance = state.unclaimed_unstaked_balance
      /\ state'.last_processed_batch = state.last_processed_batch
  BY <1>2, <1>3, <1>4, BatchStep
<1> QED
  BY <1>2, <1>3, <1>4, <1>5, CompletionDealsWithBatch DEF Closes

\* The release releases what it has found releasable, at what it needs.
LEMMA ReleaseIsUpTo ==
    ASSUME IInv, NEW last \in state.last_processed_batch .. current_batch.id - 1,
           NEW left, process_withdraw_rate(last, left),
           history' = released_history(last),
           state'.last_processed_batch = last,
           UNCHANGED <<current_batch, queue, unbonding, lost>>
    PROVE  ReleasesUpTo(last, left) /\ actual_free_balance = Vault
           /\ last \in Nat
<1> DEFINE R == state.last_processed_batch + 1 .. last
<1>1. TypeOK /\ ReleasedIsPrefix
  BY DEF IInv
<1>2. /\ history \in [1 .. current_batch.id - 1 -> History]
      /\ state.last_processed_batch \in Nat
      /\ current_batch.id \in Nat \ {0}
  BY <1>1 DEF TypeOK, State
<1>3. /\ actual_free_balance = Vault
      /\ history' \in [1 .. current_batch.id - 1 -> History]
      /\ \A b \in DOMAIN history' : history'[b].released <=> b <= last
      /\ \A b \in DOMAIN history :
            \/ history'[b] = history[b]
            \/ history'[b] = [history[b] EXCEPT !.released = TRUE]
  BY ReleaseStep DEF Vault
<1>4. /\ \A b \in R : releasable(b)
      /\ left = actual_free_balance - state.unclaimed_unstaked_balance
                  - required_total(R)
  BY DEF process_withdraw_rate, get_unprocessed_histories
<1>5. R \subseteq Unreleased(history)
  BY <1>4 DEF releasable, Unreleased
<1>6. SameBatches(history, history')
  <2> SUFFICES ASSUME NEW b \in DOMAIN history
               PROVE  /\ history'[b].lst_token_amount
                            = history[b].lst_token_amount
                      /\ history'[b].lst_withdraw_rate
                            = history[b].lst_withdraw_rate
                      /\ history'[b].lst_applied_exchange_rate
                            = history[b].lst_applied_exchange_rate
    BY <1>2, <1>3 DEF SameBatches
  <2>1. history[b] \in History
    BY <1>2
  <2> QED
    BY <1>3, <2>1 DEF History
<1>7. Unreleased(history') = Unreleased(history) \ R
  <2>1. ASSUME NEW b \in DOMAIN history
        PROVE  ~history'[b].released <=> ~history[b].released /\ b \notin R
    <3>1. b \in DOMAIN history' /\ b \in Nat
      BY <1>2, <1>3
    <3> QED
      BY <1>1, <1>2, <1>3, <3>1 DEF ReleasedIsPrefix
  <2>2. DOMAIN history' = DOMAIN history
    BY <1>2, <1>3
  <2> HIDE DEF R
  <2> QED
    BY <2>1, <2>2 DEF Unreleased
<1>8. required_total(R) = SumOver(Required(history), R)
  <2>1. R \in SUBSET (DOMAIN history)
    BY <1>5 DEF Unreleased
  <2> HIDE DEF R
  <2> QED
    BY <1>2, <2>1, RequiredType DEF required_total, required_amount, Batches
<1>9. last >= state.last_processed_batch /\ last \in Nat
  BY <1>2
<1> HIDE DEF R
<1>10. left = Vault - state.unclaimed_unstaked_balance
                - SumOver(Required(history), R)
  BY <1>3, <1>4, <1>8
<1> QED
  BY <1>3, <1>5, <1>6, <1>7, <1>9, <1>10 DEF ReleasesUpTo, R

\* ProcessWithdrawRequests releases and pays nobody.
LEMMA RequestsRelease ==
    ASSUME IInv, ProcessWithdrawRequests
    PROVE  Releases
<1>1. PICK last \in state.last_processed_batch .. current_batch.id - 1,
           left \in 0 .. hub_balance :
        /\ process_withdraw_rate(last, left)
        /\ history' = released_history(last)
        /\ state' = released_state(last, actual_free_balance - left)
  BY DEF ProcessWithdrawRequests
<1>2. UNCHANGED <<current_batch, queue, unbonding, lost>>
      /\ UNCHANGED <<wait_list, hub_balance>>
  BY DEF ProcessWithdrawRequests, chainVars
<1>3. state \in State /\ hub_balance \in Nat
  BY DEF IInv, TypeOK, ChainTypeOK
<1>4. /\ state'.last_processed_batch = last
      /\ state'.unclaimed_unstaked_balance = actual_free_balance - left
  BY <1>1, <1>3 DEF released_state, State
<1>5. ReleasesUpTo(last, left) /\ actual_free_balance = Vault /\ last \in Nat
  BY <1>1, <1>2, <1>4, ReleaseIsUpTo
<1>6. left \in Nat
  BY <1>3
<1> QED
  BY <1>2, <1>4, <1>5, <1>6 DEF Releases

\* A withdrawal releases and pays the selected entries.
LEMMA WithdrawalPays ==
    ASSUME IInv, NEW user \in Users, NEW selection,
           execute_withdraw_unstaked_impl(user, selection)
    PROVE  Pays(user, selection)
<1> DEFINE amount == finished_amount(user, selection, history')
<1>1. PICK last \in state.last_processed_batch .. current_batch.id - 1,
           left \in 0 .. hub_balance :
        /\ process_withdraw_rate(last, left)
        /\ history' = released_history(last)
        /\ amount \in 1 .. actual_free_balance - left
        /\ wait_list' = remove_unstake_wait_list(user,
                {selection[i] : i \in finished(user, selection, history')})
        /\ state' = released_state(last, actual_free_balance - amount - left)
        /\ hub_balance' = hub_balance - amount
  BY DEF execute_withdraw_unstaked_impl, withdraw_succeeds
<1>2. UNCHANGED <<current_batch, queue, unbonding, lost>>
  BY DEF execute_withdraw_unstaked_impl
<1> HIDE DEF amount
<1>3. state \in State /\ hub_balance \in Nat /\ queue.delegate \in Nat
  BY DEF IInv, TypeOK, ChainTypeOK
<1>4. /\ state'.last_processed_batch = last
      /\ state'.unclaimed_unstaked_balance
            = actual_free_balance - amount - left
  BY <1>1, <1>3 DEF released_state, State
<1>5. ReleasesUpTo(last, left) /\ actual_free_balance = Vault /\ last \in Nat
  BY <1>1, <1>2, <1>4, ReleaseIsUpTo
<1>6. left \in Nat /\ Vault \in Int
  BY <1>3 DEF Vault
<1>7. amount \in Nat /\ amount > 0
  BY <1>1, <1>5, <1>6
<1>8. {<<user, b>> : b \in {selection[i] :
                               i \in finished(user, selection, history')}}
        = PaidKeys(user, selection, history')
  <2> HIDE DEF amount
  <2> QED
    BY DEF PaidKeys
<1>9. wait_list' = [k \in DOMAIN wait_list \ PaidKeys(user, selection, history') |->
                        wait_list[k]]
  BY <1>1, <1>8 DEF remove_unstake_wait_list
<1> QED
  BY <1>1, <1>4, <1>5, <1>6, <1>7, <1>9 DEF Pays, amount

\* Every step is of one of these kinds.
LEMMA StepKinds ==
    ASSUME IInv, [Next]_vars
    PROVE  \/ QuietForQueue \/ Requests \/ Closes \/ Releases
           \/ \E user \in Users : \E selection \in Selections(user) :
                 Pays(user, selection)
<1>1. ASSUME NEW user \in Users,
             WithdrawUnstaked(user) \/ WithdrawUnstakedForBatches(user)
      PROVE  \E selection \in Selections(user) : Pays(user, selection)
  <2>1. PICK selection \in Selections(user) :
           execute_withdraw_unstaked_impl(user, selection)
    BY <1>1 DEF WithdrawUnstaked, WithdrawUnstakedForBatches, Selections
  <2> QED
    BY <2>1, WithdrawalPays
<1>2. CASE HubNext
  BY <1>1, <1>2, HubIsQuiet, UnstakeRequests, UndelegationsClose,
     RequestsRelease DEF HubNext
<1>3. CASE ChainStep
  BY <1>3, ChainIsQuiet
<1>4. CASE UNCHANGED vars
  <2>1. UNCHANGED <<chainVars, state, wait_list, history, current_batch>>
    BY <1>4 DEF vars, hubVars
  <2>2. /\ hub_balance \in Nat /\ queue.delegate \in Nat
        /\ queue.undelegate \in Nat /\ unbonding \in Nat /\ lost \in Nat
    BY DEF IInv, TypeOK, ChainTypeOK
  <2> QED
    BY <2>1, <2>2 DEF QuietForQueue, chainVars, Vault, Backing
<1> QED
  BY <1>2, <1>3, <1>4 DEF Next

-----------------------------------------------------------------------------
(* The batches, their entries and the coins behind them: the invariant     *)
(* that is inductive together with IInv.                                   *)

\* A batch is paid at the rate at which it was closed.
OneRate(h) ==
    \A b \in DOMAIN h : h[b].lst_withdraw_rate = h[b].lst_applied_exchange_rate

\* The entries of the open and of each closed batch add up to its amount, as
\* long as it has not been released.
Matched(w, h, c) ==
    /\ c.requested = EntrySum(w, c.id)
    /\ \A b \in DOMAIN h :
          IF h[b].released
          THEN EntrySum(w, b) <= h[b].lst_token_amount
          ELSE EntrySum(w, b) = h[b].lst_token_amount

Funded ==
    SumOver(Required(history), Unreleased(history))
        <= Backing - state.unclaimed_unstaked_balance

QInv ==
    /\ WaitList(wait_list)
    /\ OneRate(history)
    /\ Matched(wait_list, history, current_batch)
    /\ Funded

\* What IInv says about the values used here.
LEMMA HubTypes ==
    ASSUME IInv
    PROVE  /\ current_batch \in [id : Nat \ {0}, requested : Nat]
           /\ current_batch.id \in Nat \ {0}
           /\ Batches(history, current_batch.id)
           /\ DOMAIN history = 1 .. current_batch.id - 1
           /\ wait_list \in [DOMAIN wait_list -> Nat]
           /\ DOMAIN wait_list \subseteq Users \X (1 .. current_batch.id)
           /\ hub_balance \in Nat /\ queue.delegate \in Nat
           /\ queue.undelegate \in Nat /\ unbonding \in Nat /\ lost \in Nat
           /\ state.unclaimed_unstaked_balance \in Nat
           /\ state.last_processed_batch \in Nat
           /\ state.unclaimed_unstaked_balance <= Vault
           /\ Vault \in Nat /\ Backing \in Nat
<1>1. /\ current_batch \in [id : Nat \ {0}, requested : Nat]
      /\ history \in [1 .. current_batch.id - 1 -> History]
      /\ wait_list \in [DOMAIN wait_list -> Nat]
      /\ DOMAIN wait_list \subseteq Users \X (1 .. current_batch.id)
      /\ hub_balance \in Nat /\ queue.delegate \in Nat
      /\ queue.undelegate \in Nat /\ unbonding \in Nat /\ lost \in Nat
      /\ state.unclaimed_unstaked_balance \in Nat
      /\ state.last_processed_batch \in Nat
  BY DEF IInv, TypeOK, ChainTypeOK, State
<1>2. queue.delegate + state.unclaimed_unstaked_balance <= hub_balance
  BY DEF IInv, BalanceCoversCommitments
<1>3. /\ state.unclaimed_unstaked_balance <= Vault
      /\ Vault \in Nat /\ Backing \in Nat
  <2> DEFINE c == state.unclaimed_unstaked_balance
  <2>1. /\ hub_balance \in Nat /\ queue.delegate \in Nat
        /\ queue.undelegate \in Nat /\ unbonding \in Nat /\ lost \in Nat
        /\ c \in Nat /\ queue.delegate + c <= hub_balance
    BY <1>1, <1>2
  <2> HIDE DEF c
  <2>2. c <= Vault /\ Vault \in Nat
    BY <2>1 DEF Vault
  <2>3. Backing \in Nat
    BY <2>1, <2>2 DEF Backing
  <2> QED
    BY <2>2, <2>3 DEF c
<1>4. Batches(history, current_batch.id) /\ current_batch.id \in Nat \ {0}
      /\ DOMAIN history = 1 .. current_batch.id - 1
  BY <1>1 DEF Batches
<1> QED
  BY <1>1, <1>3, <1>4

\* Nothing is requested and nothing closed yet.
LEMMA InitQInv == Init => QInv
<1> SUFFICES ASSUME Init PROVE QInv
  OBVIOUS
<1>1. /\ wait_list = [k \in {} |-> 0] /\ history = [b \in 1 .. 0 |-> 0]
      /\ current_batch = [id |-> 1, requested |-> 0]
      /\ state.unclaimed_unstaked_balance = 0
      /\ hub_balance = 0 /\ unbonding = 0 /\ lost = 0
      /\ queue = [delegate |-> 0, undelegate |-> 0]
  BY DEF Init, HubInit, ChainInit
<1>2. DOMAIN wait_list = {} /\ DOMAIN history = {}
  BY <1>1
<1>3. WaitList(wait_list)
  BY <1>1, <1>2, FS_EmptySet DEF WaitList
<1>4. EntriesOf(wait_list, 1) = {} /\ Unreleased(history) = {}
  BY <1>2 DEF EntriesOf, Unreleased
<1>5. EntrySum(wait_list, 1) = 0
      /\ SumOver(Required(history), Unreleased(history)) = 0
  BY <1>4, SumEmpty DEF EntrySum
<1>6. Matched(wait_list, history, current_batch)
  BY <1>1, <1>2, <1>5 DEF Matched
<1>7. Backing = 0
  BY <1>1 DEF Backing, Vault
<1>8. Funded
  BY <1>1, <1>5, <1>7 DEF Funded
<1> QED
  BY <1>2, <1>3, <1>6, <1>8 DEF QInv, OneRate

\* A step that leaves the batches alone.
LEMMA QuietQInv ==
    ASSUME IInv, QInv, QuietForQueue, IInv'
    PROVE  QInv'
<1>1. /\ wait_list' = wait_list /\ history' = history
      /\ current_batch' = current_batch
      /\ state'.unclaimed_unstaked_balance = state.unclaimed_unstaked_balance
      /\ Backing' >= Backing
  BY DEF QuietForQueue
<1>2. WaitList(wait_list') /\ OneRate(history')
      /\ Matched(wait_list', history', current_batch')
  BY <1>1 DEF QInv
<1>3. Unreleased(history) \in SUBSET (DOMAIN history)
  BY DEF Unreleased
<1> DEFINE need == SumOver(Required(history), Unreleased(history))
<1>4. need \in Nat
  BY <1>3, HubTypes, RequiredType
<1>5. need <= Backing - state.unclaimed_unstaked_balance
  BY DEF QInv, Funded
<1>6. SumOver(Required(history'), Unreleased(history')) = need
  BY <1>1
<1>7. Backing \in Nat /\ state.unclaimed_unstaked_balance \in Nat
  BY HubTypes
<1>8. Backing' \in Nat
  <2>1. /\ hub_balance' \in Nat /\ queue'.delegate \in Nat
        /\ queue'.undelegate \in Nat /\ unbonding' \in Nat /\ lost' \in Nat
    BY DEF IInv, TypeOK, ChainTypeOK
  <2>2. queue'.delegate + state'.unclaimed_unstaked_balance <= hub_balance'
    BY DEF IInv, BalanceCoversCommitments
  <2> QED
    BY <1>1, <1>7, <2>1, <2>2 DEF Backing, Vault
<1> HIDE DEF need
<1>9. need <= Backing' - state'.unclaimed_unstaked_balance
  BY <1>1, <1>4, <1>5, <1>7, <1>8
<1>10. Funded'
  BY <1>6, <1>9 DEF Funded
<1> QED
  BY <1>2, <1>10 DEF QInv

\* A batch with the entries of v is stored, or closed and undelegated.
LEMMA BatchQInv ==
    ASSUME IInv, QInv, IInv', NEW batch \in [id : Nat \ {0}, requested : Nat],
           batch.id = current_batch.id, BatchDealtWith(batch),
           WaitList(wait_list'),
           DOMAIN wait_list' \subseteq Users \X (1 .. current_batch.id),
           batch.requested = EntrySum(wait_list', batch.id),
           \A b \in DOMAIN history :
              EntrySum(wait_list', b) = EntrySum(wait_list, b)
    PROVE  QInv'
<1> DEFINE need == SumOver(Required(history), Unreleased(history))
           n == current_batch.id
<1>1. /\ n \in Nat \ {0} /\ Batches(history, n)
      /\ DOMAIN history = 1 .. n - 1
      /\ hub_balance \in Nat /\ queue.delegate \in Nat
      /\ queue.undelegate \in Nat /\ unbonding \in Nat /\ lost \in Nat
      /\ state.unclaimed_unstaked_balance \in Nat
  BY HubTypes
<1>2. /\ hub_balance' = hub_balance /\ unbonding' = unbonding /\ lost' = lost
      /\ queue'.delegate = queue.delegate
      /\ state'.unclaimed_unstaked_balance = state.unclaimed_unstaked_balance
  BY DEF BatchDealtWith
<1>3. /\ need <= Backing - state.unclaimed_unstaked_balance
      /\ OneRate(history)
      /\ \A b \in DOMAIN history :
            IF history[b].released
            THEN EntrySum(wait_list', b) <= history[b].lst_token_amount
            ELSE EntrySum(wait_list', b) = history[b].lst_token_amount
  BY DEF QInv, Funded, Matched
<1>4. need \in Nat
  <2>1. Unreleased(history) \in SUBSET (DOMAIN history)
    BY DEF Unreleased
  <2> QED
    BY <1>1, <2>1, RequiredType
<1>5. CASE current_batch' = batch /\ UNCHANGED <<queue, history>>
  <2>1. queue' = queue /\ history' = history /\ current_batch' = batch
    BY <1>5
  <2>2. OneRate(history')
    BY <1>3, <2>1
  <2>3. Matched(wait_list', history', current_batch')
    BY <1>3, <2>1 DEF Matched
  <2>4. Backing' = Backing
    BY <1>2, <2>1 DEF Backing, Vault
  <2>5. SumOver(Required(history'), Unreleased(history')) = need
    BY <2>1
  <2> HIDE DEF need
  <2>6. Funded'
    BY <1>2, <1>3, <2>4, <2>5 DEF Funded
  <2> QED
    BY <2>2, <2>3, <2>6 DEF QInv
<1>6. CASE /\ current_batch' = [id |-> batch.id + 1, requested |-> 0]
           /\ \A b \in DOMAIN history : history'[b] = history[b]
           /\ ~history'[batch.id].released
           /\ history'[batch.id].lst_token_amount = batch.requested
           /\ history'[batch.id].lst_withdraw_rate
                 = history'[batch.id].lst_applied_exchange_rate
           /\ queue'.undelegate
                 = queue.undelegate + Required(history')[batch.id]
  <2>1. /\ current_batch'.id = n + 1 /\ current_batch'.requested = 0
        /\ batch.id = n
    BY <1>6
  <2>2. history' \in [1 .. (n + 1) - 1 -> History]
    BY <2>1 DEF IInv, TypeOK
  <2>3. Batches(history', n + 1) /\ DOMAIN history' = 1 .. n
    BY <1>1, <2>2 DEF Batches
  <2>4. DOMAIN history' = DOMAIN history \cup {n}
    BY <1>1, <2>3
  <2>5. OneRate(history')
    BY <1>3, <1>6, <2>1, <2>4 DEF OneRate
  <2>6. EntrySum(wait_list', n + 1) = 0
    <3>1. EntriesOf(wait_list', n + 1) = {}
      BY <1>1 DEF EntriesOf
    <3> QED
      BY <3>1, SumEmpty DEF EntrySum
  <2>7. Matched(wait_list', history', current_batch')
    BY <1>3, <1>6, <2>1, <2>4, <2>6 DEF Matched
  <2>8. SumOver(Required(history'), Unreleased(history'))
          = need + Required(history')[n]
    BY <1>1, <1>6, <2>1, <2>3, CloseRequired
  <2>9. Required(history')[n] \in Nat
    <3>1. n \in DOMAIN history' /\ n + 1 \in Nat \ {0} /\ {} \in SUBSET (DOMAIN history')
      BY <1>1, <2>4
    <3> QED
      BY <2>3, <3>1, RequiredType
  <2>10. Backing' = Backing + Required(history')[n]
    <3> DEFINE r == Required(history')[n]
    <3>1. queue'.undelegate = queue.undelegate + r
      BY <1>6, <2>1
    <3>2. r \in Nat
      BY <2>9
    <3> HIDE DEF r
    <3>3. Backing' = Backing + r
      BY <1>1, <1>2, <3>1, <3>2 DEF Backing, Vault
    <3> QED
      BY <3>3 DEF r
  <2>11. Backing \in Int
    BY <1>1 DEF Backing, Vault
  <2> HIDE DEF need
  <2>12. Funded'
    <3>1. need + Required(history')[n]
            <= Backing' - state'.unclaimed_unstaked_balance
      BY <1>1, <1>2, <1>3, <1>4, <2>9, <2>10, <2>11
    <3> QED
      BY <2>8, <3>1 DEF Funded
  <2> QED
    BY <2>5, <2>7, <2>12 DEF QInv
<1> QED
  BY <1>5, <1>6 DEF BatchDealtWith

\* The wait list after a request.
LEMMA RequestedWaitList ==
    ASSUME IInv, WaitList(wait_list), NEW user \in Users, NEW amount \in Nat,
           wait_list' = updated_wait_list(user, amount)
    PROVE  /\ WaitList(wait_list')
           /\ DOMAIN wait_list' = DOMAIN wait_list \cup {<<user, current_batch.id>>}
           /\ \A k \in DOMAIN wait_list :
                 k # <<user, current_batch.id>> => wait_list'[k] = wait_list[k]
           /\ \A k \in DOMAIN wait_list : wait_list'[k] >= wait_list[k]
           /\ DOMAIN wait_list' \subseteq Users \X (1 .. current_batch.id)
           /\ EntrySum(wait_list', current_batch.id)
                 = EntrySum(wait_list, current_batch.id) + amount
           /\ \A b : b # current_batch.id =>
                 EntrySum(wait_list', b) = EntrySum(wait_list, b)
<1> DEFINE n == current_batch.id
           key == <<user, n>>
<1>1. /\ n \in Nat \ {0}
      /\ DOMAIN wait_list \subseteq Users \X (1 .. n)
      /\ \A k \in DOMAIN wait_list : wait_list[k] \in Nat
  BY HubTypes
<1>2. /\ wait_list' = [k \in DOMAIN wait_list' |-> wait_list'[k]]
      /\ DOMAIN wait_list' = DOMAIN wait_list \cup {key}
      /\ \A k \in DOMAIN wait_list : k # key => wait_list'[k] = wait_list[k]
      /\ wait_list'[key] = IF key \in DOMAIN wait_list
                           THEN wait_list[key] + amount ELSE amount
  BY DEF updated_wait_list
<1>3. key \in Users \X (1 .. n)
  BY <1>1
<1>4. /\ WaitList(wait_list')
      /\ EntrySum(wait_list', n) = EntrySum(wait_list, n) + amount
      /\ \A b : b # n => EntrySum(wait_list', b) = EntrySum(wait_list, b)
  <2> HIDE DEF n
  <2> QED
    BY <1>1, <1>2, RequestEntries
<1>5. \A k \in DOMAIN wait_list : wait_list'[k] >= wait_list[k]
  <2> HIDE DEF key
  <2> QED
    BY <1>1, <1>2
<1> QED
  BY <1>1, <1>2, <1>3, <1>4, <1>5

\* A request, and the closing of a batch without one.
LEMMA RequestQInv ==
    ASSUME IInv, QInv, IInv', Requests \/ Closes
    PROVE  QInv'
<1>1. /\ current_batch \in [id : Nat \ {0}, requested : Nat]
      /\ current_batch.id \in Nat \ {0}
      /\ DOMAIN history = 1 .. current_batch.id - 1
      /\ DOMAIN wait_list \subseteq Users \X (1 .. current_batch.id)
  BY HubTypes
<1>2. /\ WaitList(wait_list)
      /\ current_batch.requested = EntrySum(wait_list, current_batch.id)
  BY DEF QInv, Matched
<1>3. CASE Closes
  <2>1. wait_list' = wait_list /\ BatchDealtWith(current_batch)
    BY <1>3 DEF Closes
  <2> QED
    BY <1>1, <1>2, <2>1, BatchQInv
<1>4. CASE Requests
  <2>1. PICK user \in Users, amount \in Nat :
           /\ wait_list' = updated_wait_list(user, amount)
           /\ BatchDealtWith([current_batch EXCEPT !.requested = @ + amount])
    BY <1>4 DEF Requests
  <2> DEFINE batch == [current_batch EXCEPT !.requested = @ + amount]
  <2>2. /\ batch \in [id : Nat \ {0}, requested : Nat]
        /\ batch.id = current_batch.id
        /\ batch.requested = current_batch.requested + amount
    BY <1>1
  <2>3. /\ WaitList(wait_list')
        /\ DOMAIN wait_list' \subseteq Users \X (1 .. current_batch.id)
        /\ EntrySum(wait_list', current_batch.id)
              = EntrySum(wait_list, current_batch.id) + amount
        /\ \A b : b # current_batch.id =>
              EntrySum(wait_list', b) = EntrySum(wait_list, b)
    BY <1>2, <2>1, RequestedWaitList
  <2>4. batch.requested = EntrySum(wait_list', batch.id)
    BY <1>2, <2>2, <2>3
  <2>5. \A b \in DOMAIN history :
           EntrySum(wait_list', b) = EntrySum(wait_list, b)
    BY <1>1, <2>3
  <2>6. BatchDealtWith(batch)
    BY <2>1
  <2> HIDE DEF batch
  <2> QED
    BY <2>2, <2>3, <2>4, <2>5, <2>6, BatchQInv
<1> QED
  BY <1>3, <1>4

\* Releasing batches, and paying entries of released batches.
LEMMA ReleaseQInv ==
    ASSUME IInv, QInv, IInv', NEW last \in Nat, NEW left \in Nat,
           NEW paid \in Nat, ReleasesUpTo(last, left),
           state'.unclaimed_unstaked_balance = Vault - paid - left,
           hub_balance' = hub_balance - paid,
           NEW P, \A k \in P : k[2] \in DOMAIN history'
                                  /\ history'[k[2]].released,
           wait_list' = [k \in DOMAIN wait_list' |-> wait_list'[k]],
           DOMAIN wait_list' = DOMAIN wait_list \ P,
           \A k \in DOMAIN wait_list' : wait_list'[k] = wait_list[k]
    PROVE  QInv'
<1> DEFINE R == state.last_processed_batch + 1 .. last
           need == SumOver(Required(history), Unreleased(history))
           rest == SumOver(Required(history'), Unreleased(history'))
           now == SumOver(Required(history), R)
<1>1. /\ R \in SUBSET Unreleased(history)
      /\ Unreleased(history') = Unreleased(history) \ R
      /\ SameBatches(history, history')
      /\ left = Vault - state.unclaimed_unstaked_balance - now
      /\ current_batch' = current_batch /\ queue' = queue
      /\ unbonding' = unbonding /\ lost' = lost
  BY DEF ReleasesUpTo
<1>2. /\ current_batch.id \in Nat \ {0} /\ Batches(history, current_batch.id)
      /\ DOMAIN history = 1 .. current_batch.id - 1
      /\ hub_balance \in Nat /\ queue.delegate \in Nat
      /\ queue.undelegate \in Nat /\ unbonding \in Nat /\ lost \in Nat
      /\ state.unclaimed_unstaked_balance \in Nat
  BY HubTypes
<1>3. /\ WaitList(wait_list) /\ OneRate(history)
      /\ Matched(wait_list, history, current_batch)
      /\ need <= Backing - state.unclaimed_unstaked_balance
  BY DEF QInv, Funded
<1>4. /\ WaitList(wait_list')
      /\ \A b : EntrySum(wait_list', b) <= EntrySum(wait_list, b)
      /\ \A b : (\A k \in P : k[2] # b) =>
            EntrySum(wait_list', b) = EntrySum(wait_list, b)
  BY <1>3, RemoveEntries
<1>5. OneRate(history')
  BY <1>1, <1>3 DEF OneRate, SameBatches
<1>6. DOMAIN history' = DOMAIN history
  BY <1>1 DEF SameBatches
<1> HIDE DEF R, need, rest, now
<1>7. Matched(wait_list', history', current_batch')
  <2>1. \A k \in P : k[2] # current_batch.id
    BY <1>2, <1>6
  <2>2. current_batch'.requested = EntrySum(wait_list', current_batch'.id)
    BY <1>1, <1>3, <1>4, <2>1 DEF Matched
  <2>3. ASSUME NEW b \in DOMAIN history'
        PROVE  IF history'[b].released
               THEN EntrySum(wait_list', b) <= history'[b].lst_token_amount
               ELSE EntrySum(wait_list', b) = history'[b].lst_token_amount
    <3>1. b \in DOMAIN history
          /\ history'[b].lst_token_amount = history[b].lst_token_amount
      BY <1>1, <1>6 DEF SameBatches
    <3>2. EntrySum(wait_list, b) <= history[b].lst_token_amount
      <4>1. EntrySum(wait_list, b) \in Nat
        BY <1>3, EntriesType
      <4> QED
        BY <1>3, <3>1, <4>1 DEF Matched
    <3>3. EntrySum(wait_list', b) \in Nat /\ EntrySum(wait_list, b) \in Nat
          /\ history[b].lst_token_amount \in Nat
      BY <1>2, <1>3, <1>4, <3>1, EntriesType DEF Batches, History
    <3>4. CASE history'[b].released
      <4>1. EntrySum(wait_list', b) <= EntrySum(wait_list, b)
        BY <1>4
      <4>2. EntrySum(wait_list', b) <= history[b].lst_token_amount
        BY <3>2, <3>3, <4>1
      <4> QED
        BY <3>1, <3>4, <4>2
    <3>5. CASE ~history'[b].released
      <4>1. b \in Unreleased(history')
        BY <3>5 DEF Unreleased
      <4>2. b \in Unreleased(history)
        BY <1>1, <4>1
      <4>3. ~history[b].released
        BY <4>2 DEF Unreleased
      <4>4. \A k \in P : k[2] # b
        BY <3>5
      <4>5. EntrySum(wait_list', b) = EntrySum(wait_list, b)
        BY <1>4, <4>4
      <4> QED
        BY <1>3, <3>1, <3>5, <4>3, <4>5 DEF Matched
    <3> QED
      BY <3>4, <3>5
  <2> QED
    BY <2>2, <2>3 DEF Matched
<1>8. Funded'
  <2>1. need = now + rest
    BY <1>1, <1>2, ReleaseRequired DEF need, now, rest
  <2>2. need \in Nat /\ now \in Nat
    <3>1. /\ Unreleased(history) \in SUBSET (DOMAIN history)
          /\ R \in SUBSET (DOMAIN history)
      BY <1>1 DEF Unreleased
    <3> QED
      BY <1>2, <3>1, RequiredType DEF need, now
  <2>3. rest \in Nat
    <3>1. /\ Unreleased(history') \in SUBSET (DOMAIN history')
          /\ Batches(history', current_batch.id)
      BY <1>1 DEF Unreleased, IInv, TypeOK, Batches
    <3> QED
      BY <1>2, <3>1, RequiredType DEF rest
  <2>4. Backing' - state'.unclaimed_unstaked_balance
          = left + unbonding + queue.undelegate + lost
    <3>1. /\ hub_balance \in Nat /\ queue.delegate \in Nat
          /\ queue.undelegate \in Nat /\ unbonding \in Nat /\ lost \in Nat
          /\ Backing' = hub_balance' - queue.delegate + unbonding
                          + queue.undelegate + lost
      BY <1>1, <1>2 DEF Backing, Vault
    <3> QED
      BY <3>1 DEF Vault
  <2>5. Backing - state.unclaimed_unstaked_balance
          = left + now + unbonding + queue.undelegate + lost
    <3>1. /\ hub_balance \in Nat /\ queue.delegate \in Nat
          /\ queue.undelegate \in Nat /\ unbonding \in Nat /\ lost \in Nat
          /\ state.unclaimed_unstaked_balance \in Nat
          /\ left = Vault - state.unclaimed_unstaked_balance - now
      BY <1>1, <1>2
    <3> QED
      BY <2>2, <3>1 DEF Backing, Vault
  <2>6. rest <= Backing' - state'.unclaimed_unstaked_balance
    BY <1>2, <1>3, <2>1, <2>2, <2>3, <2>4, <2>5
  <2> QED
    BY <2>6 DEF Funded, rest
<1> QED
  BY <1>4, <1>5, <1>7, <1>8 DEF QInv

\* Only released entries are paid.
LEMMA PaidAreReleased ==
    ASSUME NEW user, NEW selection, NEW h
    PROVE  /\ PaidKeys(user, selection, h) \subseteq ReleasedKeys(wait_list, h)
           /\ \A k \in PaidKeys(user, selection, h) :
                 k[2] \in DOMAIN h /\ h[k[2]].released
<1>1. ASSUME NEW k \in PaidKeys(user, selection, h)
      PROVE  /\ k \in DOMAIN wait_list
             /\ k[2] \in DOMAIN h /\ h[k[2]].released
  <2>1. PICK i \in finished(user, selection, h) : k = <<user, selection[i]>>
    BY DEF PaidKeys
  <2>2. k[2] = selection[i]
    BY <2>1
  <2> QED
    BY <2>1, <2>2 DEF finished
<1> QED
  BY <1>1 DEF ReleasedKeys

\* The invariant is inductive relative to IInv.
LEMMA NextQInv == IInv /\ IInv' /\ QInv /\ [Next]_vars => QInv'
<1> SUFFICES ASSUME IInv, IInv', QInv, [Next]_vars PROVE QInv'
  OBVIOUS
<1>1. CASE QuietForQueue
  BY <1>1, QuietQInv
<1>2. CASE Requests \/ Closes
  BY <1>2, RequestQInv
<1>3. CASE Releases
  <2>1. PICK last \in Nat, left \in Nat :
           /\ ReleasesUpTo(last, left)
           /\ state'.unclaimed_unstaked_balance = Vault - left
           /\ wait_list' = wait_list /\ hub_balance' = hub_balance
    BY <1>3 DEF Releases
  <2> DEFINE none == {}
             zero == 0
  <2>2. Vault \in Nat /\ hub_balance \in Nat
        /\ wait_list \in [DOMAIN wait_list -> Nat]
    BY HubTypes
  <2>3. /\ Vault - left = Vault - zero - left
        /\ hub_balance' = hub_balance - zero
    BY <2>1, <2>2
  <2>4. /\ wait_list' = [k \in DOMAIN wait_list' |-> wait_list'[k]]
        /\ DOMAIN wait_list' = DOMAIN wait_list \ none
        /\ \A k \in DOMAIN wait_list' : wait_list'[k] = wait_list[k]
    BY <2>1, <2>2
  <2>5. state'.unclaimed_unstaked_balance = Vault - zero - left
    BY <2>1, <2>3
  <2>6. zero \in Nat /\ \A k \in none : k[2] \in DOMAIN history'
                                         /\ history'[k[2]].released
    OBVIOUS
  <2> HIDE DEF none, zero
  <2> QED
    BY <2>1, <2>3, <2>4, <2>5, <2>6, ReleaseQInv
<1>4. ASSUME NEW user \in Users, NEW selection, Pays(user, selection)
      PROVE  QInv'
  <2>1. PICK last \in Nat, left \in Nat, paid \in Nat :
          /\ ReleasesUpTo(last, left)
          /\ state'.unclaimed_unstaked_balance = Vault - paid - left
          /\ hub_balance' = hub_balance - paid
          /\ wait_list' = [k \in DOMAIN wait_list \ PaidKeys(user, selection, history') |->
                              wait_list[k]]
    BY <1>4 DEF Pays
  <2> DEFINE P == PaidKeys(user, selection, history')
  <2>2. /\ wait_list' = [k \in DOMAIN wait_list' |-> wait_list'[k]]
        /\ DOMAIN wait_list' = DOMAIN wait_list \ P
        /\ \A k \in DOMAIN wait_list' : wait_list'[k] = wait_list[k]
    BY <2>1
  <2>3. \A k \in P : k[2] \in DOMAIN history' /\ history'[k[2]].released
    BY PaidAreReleased
  <2> HIDE DEF P
  <2> QED
    BY <2>1, <2>2, <2>3, ReleaseQInv
<1> QED
  BY <1>1, <1>2, <1>3, <1>4, StepKinds

\* Both invariants hold throughout.
LEMMA QueueInvariance == Spec => []QInv
<1> QED
  BY Invariance, InitQInv, NextQInv, PTL DEF Spec

\* What the invariants say in the model's own terms.
LEMMA QInvImplies ==
    ASSUME IInv, QInv
    PROVE  BatchMatchesWaitList /\ ClosedBatchesFunded
<1>1. WaitList(wait_list) /\ Matched(wait_list, history, current_batch)
  BY DEF QInv
<1>2. \A b : EntryTotal(b) = EntrySum(wait_list, b)
  BY <1>1, EntryTotalIsSum DEF EntryTotal
<1>3. BatchMatchesWaitList
  BY <1>1, <1>2 DEF Matched, BatchMatchesWaitList
<1>4. Unreleased(history) \in SUBSET (DOMAIN history)
  BY DEF Unreleased
<1> DEFINE U == Unreleased(history)
<1>5. required_total(U) = SumOver(Required(history), U)
  <2> HIDE DEF U
  <2> QED
    BY <1>4, HubTypes, RequiredType DEF required_total, required_amount, U
<1>6. U = {b \in DOMAIN history : ~history[b].released}
  BY DEF Unreleased
<1>7. hub_balance - queue.delegate - state.unclaimed_unstaked_balance
        + unbonding + queue.undelegate + lost
          = Backing - state.unclaimed_unstaked_balance
  <2>1. /\ hub_balance \in Nat /\ queue.delegate \in Nat
        /\ queue.undelegate \in Nat /\ unbonding \in Nat /\ lost \in Nat
        /\ state.unclaimed_unstaked_balance \in Nat
    BY HubTypes
  <2> QED
    BY <2>1 DEF Backing, Vault
<1>8. required_total(U) <= Backing - state.unclaimed_unstaked_balance
  BY <1>5 DEF QInv, Funded
<1> HIDE DEF U
<1>9. ClosedBatchesFunded
  BY <1>6, <1>7, <1>8 DEF ClosedBatchesFunded
<1> QED
  BY <1>3, <1>9

\* The wait list accounts for every token burnt into a batch: the entries of
\* an unreleased batch add up to its amount, those of a released one to no
\* more (unstake.rs:180-198, 229-242).
THEOREM WaitListMatches == Spec => []BatchMatchesWaitList
<1>1. IInv /\ QInv => BatchMatchesWaitList
  BY QInvImplies
<1> QED
  BY <1>1, Invariance, QueueInvariance, PTL

\* What closed batches still need is at hand, unbonding, queued for
\* undelegation or lost to slashing; this does not depend on which lists of
\* batches are withdrawn (unstake.rs:298-366).
THEOREM BatchesFunded == Spec => []ClosedBatchesFunded
<1>1. IInv /\ QInv => ClosedBatchesFunded
  BY QInvImplies
<1> QED
  BY <1>1, Invariance, QueueInvariance, PTL

-----------------------------------------------------------------------------
(* What is set aside covers what released entries are worth.  This needs   *)
(* the lists of WithdrawUnstakedForBatches to name each batch once: a      *)
(* repeated batch is paid as often as it is named (state.rs:71-86).        *)

BatchIdsDistinct ==
    \A batch_ids \in BATCH_ID_LISTS :
        \A i, j \in DOMAIN batch_ids : batch_ids[i] = batch_ids[j] => i = j

Covered ==
    SumOver(Value(wait_list, history), ReleasedKeys(wait_list, history))
        <= state.unclaimed_unstaked_balance

\* What a withdrawal pays is the worth of the entries it removes.
LEMMA PaidAmount ==
    ASSUME IInv, QInv, BatchIdsDistinct, NEW h, SameBatches(history, h),
           NEW user \in Users, NEW selection \in Selections(user)
    PROVE  finished_amount(user, selection, h)
              = SumOver(Value(wait_list, history), PaidKeys(user, selection, h))
<1> DEFINE F == finished(user, selection, h)
           P == PaidKeys(user, selection, h)
           m == [i \in F |-> <<user, selection[i]>>]
           g == [i \in F |-> entry_amount(user, selection[i])]
           V == Value(wait_list, history)
<1>1. \A i, j \in DOMAIN selection : selection[i] = selection[j] => i = j
  BY DEF BatchIdsDistinct, Selections, user_batches
<1>2. F \subseteq DOMAIN selection
  BY DEF finished
<1>3. m \in Bijection(F, P)
  <2>1. m \in [F -> P]
    BY DEF PaidKeys
  <2>2. \A i, j \in F : m[i] = m[j] => i = j
    BY <1>1, <1>2
  <2>3. \A k \in P : \E i \in F : m[i] = k
    BY DEF PaidKeys
  <2> QED
    BY <2>1, <2>2, <2>3 DEF Bijection, Injection, Surjection, IsInjective
<1>4. P \in SUBSET {k \in DOMAIN wait_list : k[2] \in DOMAIN history}
  <2>1. P \subseteq ReleasedKeys(wait_list, h)
    BY PaidAreReleased
  <2>2. DOMAIN h = DOMAIN history
    BY DEF SameBatches
  <2> HIDE DEF P
  <2> QED
    BY <2>1, <2>2 DEF ReleasedKeys
<1>5. IsFiniteSet(P) /\ \A k \in P : V[k] \in Nat
  BY <1>4, HubTypes, ValueType DEF QInv
<1>6. \A i \in F : g[i] = V[m[i]]
  <2> TAKE i \in F
  <2>1. m[i] = <<user, selection[i]>> /\ m[i][2] = selection[i]
    OBVIOUS
  <2>2. m[i] \in DOMAIN wait_list
    BY DEF finished
  <2> QED
    BY <2>1, <2>2 DEF Value, entry_amount
<1>7. DOMAIN g = F
  OBVIOUS
<1>8. SumFunction(g) = finished_amount(user, selection, h)
  BY DEF finished_amount
<1> HIDE DEF F, P, m, g, V
<1>9. SumOver(g, F) = SumOver(V, P)
  BY <1>3, <1>5, <1>6, SumReindex
<1>10. IsFiniteSet(F)
  <2>1. ExistsBijection(P, F)
    BY <1>3, Fun_ExistsBijSymmetric DEF ExistsBijection
  <2> QED
    BY <1>5, <2>1, FS_Bijection
<1>11. \A i \in F : g[i] \in Nat
  <2>1. \A i \in F : m[i] \in P
    BY <1>3 DEF Bijection, Injection
  <2> QED
    BY <1>5, <1>6, <2>1
<1>12. SumFunctionOnSet(g, F) = SumOver(g, F)
  BY <1>10, <1>11, SumFunctionIsSum
<1>13. SumFunction(g) = SumOver(V, P)
  BY <1>7, <1>9, <1>12 DEF SumFunction
<1> QED
  BY <1>8, <1>13 DEF P, V

\* Steps that release nothing keep what released entries are worth.
LEMMA KeptReleased ==
    ASSUME NEW w, NEW h, NEW v, NEW g,
           ReleasedKeys(v, g) = ReleasedKeys(w, h),
           \A k \in ReleasedKeys(w, h) :
              v[k] = w[k] /\ g[k[2]].lst_applied_exchange_rate
                                = h[k[2]].lst_applied_exchange_rate
    PROVE  SumOver(Value(v, g), ReleasedKeys(v, g))
              = SumOver(Value(w, h), ReleasedKeys(w, h))
<1>1. \A k \in ReleasedKeys(w, h) : k \in DOMAIN w /\ k \in DOMAIN v
  BY DEF ReleasedKeys
<1>2. \A k \in ReleasedKeys(w, h) : Value(v, g)[k] = Value(w, h)[k]
  BY <1>1 DEF Value
<1>3. SumOver(Value(v, g), ReleasedKeys(w, h))
        = SumOver(Value(w, h), ReleasedKeys(w, h))
  BY <1>2, SumSame
<1> QED
  BY <1>3

\* Requests and closed batches: the new keys are not released.
LEMMA RequestCovered ==
    ASSUME IInv, QInv, IInv', Covered, Requests \/ Closes
    PROVE  Covered'
<1> DEFINE n == current_batch.id
<1>1. /\ n \in Nat \ {0} /\ DOMAIN history = 1 .. n - 1
      /\ current_batch \in [id : Nat \ {0}, requested : Nat]
  BY HubTypes
<1>2. WaitList(wait_list)
  BY DEF QInv
<1>3. /\ DOMAIN wait_list \subseteq DOMAIN wait_list'
      /\ \A k \in DOMAIN wait_list' \ DOMAIN wait_list : k[2] = n
      /\ \A k \in DOMAIN wait_list : k[2] # n => wait_list'[k] = wait_list[k]
  <2>1. CASE Closes
    BY <2>1 DEF Closes
  <2>2. CASE Requests
    <3>1. PICK user \in Users, amount \in Nat :
             wait_list' = updated_wait_list(user, amount)
      BY <2>2 DEF Requests
    <3>2. <<user, n>>[2] = n
      OBVIOUS
    <3> QED
      BY <1>2, <3>1, <3>2, RequestedWaitList
  <2> QED
    BY <2>1, <2>2
<1>4. PICK batch : batch.id = n /\ BatchDealtWith(batch)
  <2>1. CASE Closes
    BY <2>1 DEF Closes
  <2>2. CASE Requests
    <3>1. PICK amount \in Nat :
             BatchDealtWith([current_batch EXCEPT !.requested = @ + amount])
      BY <2>2 DEF Requests
    <3>2. [current_batch EXCEPT !.requested = @ + amount].id = n
      BY <1>1
    <3> QED
      BY <3>1, <3>2
  <2> QED
    BY <2>1, <2>2
<1>5. /\ \A b \in DOMAIN history : b \in DOMAIN history' /\ history'[b] = history[b]
      /\ \A b \in DOMAIN history' \ DOMAIN history :
            b = n /\ ~history'[b].released
  <2>1. CASE history' = history
    BY <2>1
  <2>2. CASE history' # history
    <3>1. /\ current_batch' = [id |-> batch.id + 1, requested |-> 0]
          /\ \A b \in DOMAIN history : history'[b] = history[b]
          /\ ~history'[batch.id].released
      BY <1>4, <2>2 DEF BatchDealtWith
    <3>2. DOMAIN history' = 1 .. (n + 1) - 1
      BY <1>4, <3>1 DEF IInv, TypeOK
    <3>3. DOMAIN history' = DOMAIN history \cup {n}
      BY <1>1, <3>2
    <3> QED
      BY <1>4, <3>1, <3>3
  <2> QED
    BY <2>1, <2>2
<1>6. n \notin DOMAIN history
  BY <1>1
<1>7. state'.unclaimed_unstaked_balance = state.unclaimed_unstaked_balance
  BY <1>4 DEF BatchDealtWith
<1> HIDE DEF n
<1>8. ReleasedKeys(wait_list', history') = ReleasedKeys(wait_list, history)
  BY <1>3, <1>5, <1>6 DEF ReleasedKeys
<1>9. \A k \in ReleasedKeys(wait_list, history) :
         /\ wait_list'[k] = wait_list[k]
         /\ history'[k[2]].lst_applied_exchange_rate
               = history[k[2]].lst_applied_exchange_rate
  BY <1>3, <1>5, <1>6 DEF ReleasedKeys
<1>10. SumOver(Value(wait_list', history'), ReleasedKeys(wait_list', history'))
         = SumOver(Value(wait_list, history), ReleasedKeys(wait_list, history))
  BY <1>8, <1>9, KeptReleased
<1> QED
  BY <1>7, <1>10 DEF Covered

\* Once further batches are released, in history g, all released entries
\* together are worth no more than what is set aside and what those need.
LEMMA ReleasedWorth ==
    ASSUME IInv, QInv, Covered, NEW g, SameBatches(history, g),
           NEW R \in SUBSET Unreleased(history),
           Unreleased(g) = Unreleased(history) \ R
    PROVE  LET V == Value(wait_list, history)
               All == ReleasedKeys(wait_list, g)
           IN  /\ IsFiniteSet(All)
               /\ \A k \in All : V[k] \in Nat
               /\ SumOver(V, All) <= state.unclaimed_unstaked_balance
                                       + SumOver(Required(history), R)
<1> DEFINE V == Value(wait_list, history)
           Old == ReleasedKeys(wait_list, history)
           New == {k \in DOMAIN wait_list : k[2] \in R}
           All == ReleasedKeys(wait_list, g)
           now == SumOver(Required(history), R)
<1>1. /\ current_batch.id \in Nat \ {0} /\ Batches(history, current_batch.id)
      /\ state.unclaimed_unstaked_balance \in Nat
  BY HubTypes
<1>2. WaitList(wait_list) /\ OneRate(history)
      /\ Matched(wait_list, history, current_batch)
  BY DEF QInv
<1>3. DOMAIN g = DOMAIN history
  BY DEF SameBatches
<1>4. R \subseteq DOMAIN history /\ \A b \in R : ~history[b].released
  BY DEF Unreleased
<1>5. \A b \in DOMAIN history :
         g[b].released <=> history[b].released \/ b \in R
  BY <1>3, <1>4 DEF Unreleased
<1>6. All = Old \cup New /\ Old \cap New = {}
  BY <1>3, <1>4, <1>5 DEF ReleasedKeys
<1>7. All \subseteq {k \in DOMAIN wait_list : k[2] \in DOMAIN history}
  BY <1>3 DEF ReleasedKeys
<1> HIDE DEF Old, New, All, V, now
<1>8. /\ IsFiniteSet(All) /\ IsFiniteSet(Old) /\ IsFiniteSet(New)
      /\ \A k \in All : V[k] \in Nat
      /\ SumOver(V, Old) \in Nat /\ SumOver(V, New) \in Nat
  BY <1>1, <1>2, <1>6, <1>7, ValueType DEF V
<1>9. SumOver(V, Old \cup New) = SumOver(V, Old) + SumOver(V, New)
  BY <1>6, <1>8, SumUnion
<1>10. SumOver(V, New) <= now
  <2>1. \A b \in R : EntrySum(wait_list, b) = history[b].lst_token_amount
    BY <1>2, <1>4 DEF Matched
  <2>2. \A b \in R : history[b].lst_withdraw_rate
                        = history[b].lst_applied_exchange_rate
    BY <1>2, <1>4 DEF OneRate
  <2> QED
    BY <1>1, <1>2, <1>4, <2>1, <2>2, BatchesPriced DEF V, New, now
<1>11. SumOver(V, Old) <= state.unclaimed_unstaked_balance
  BY DEF Covered, V, Old
<1>12. now \in Nat
  BY <1>1, <1>4, RequiredType DEF now
<1>13. SumOver(V, All) <= state.unclaimed_unstaked_balance + now
  <2> DEFINE c == state.unclaimed_unstaked_balance
  <2>1. c \in Nat /\ SumOver(V, Old) <= c
    BY <1>1, <1>11
  <2> HIDE DEF c
  <2>2. SumOver(V, All) <= c + now
    BY <1>6, <1>8, <1>9, <1>10, <1>12, <2>1
  <2> QED
    BY <2>2 DEF c
<1> QED
  BY <1>8, <1>13 DEF V, All, now

\* Releasing batches sets aside at least what their entries are worth, and
\* what is paid is taken from what is set aside.
LEMMA ReleaseCovered ==
    ASSUME IInv, QInv, Covered, IInv', NEW last \in Nat, NEW left \in Nat,
           NEW paid \in Nat, ReleasesUpTo(last, left),
           state'.unclaimed_unstaked_balance = Vault - paid - left,
           NEW P \in SUBSET ReleasedKeys(wait_list, history'),
           DOMAIN wait_list' = DOMAIN wait_list \ P,
           \A k \in DOMAIN wait_list' : wait_list'[k] = wait_list[k],
           paid = SumOver(Value(wait_list, history), P)
    PROVE  Covered'
<1> DEFINE R == state.last_processed_batch + 1 .. last
           V == Value(wait_list, history)
           All == ReleasedKeys(wait_list, history')
           now == SumOver(Required(history), R)
           c == state.unclaimed_unstaked_balance
           owed == SumOver(V, All \ P)
<1>1. /\ R \in SUBSET Unreleased(history)
      /\ Unreleased(history') = Unreleased(history) \ R
      /\ SameBatches(history, history')
      /\ left = Vault - c - now
  BY DEF ReleasesUpTo
<1> HIDE DEF R
<1>2. /\ current_batch.id \in Nat \ {0} /\ Batches(history, current_batch.id)
      /\ Vault \in Nat /\ c \in Nat
  BY HubTypes
<1>3. /\ IsFiniteSet(All)
      /\ \A k \in All : V[k] \in Nat
      /\ SumOver(V, All) <= c + now
  BY <1>1, ReleasedWorth
<1>4. R \in SUBSET (DOMAIN history)
  BY <1>1 DEF Unreleased
<1>5. now \in Nat
  BY <1>2, <1>4, RequiredType
<1>6. ReleasedKeys(wait_list', history') = All \ P
  BY DEF ReleasedKeys
<1>7. ASSUME NEW k \in All \ P
      PROVE  Value(wait_list', history')[k] = V[k]
  <2>1. k \in DOMAIN wait_list /\ k[2] \in DOMAIN history
    BY <1>1 DEF ReleasedKeys, SameBatches
  <2>2. k \in DOMAIN wait_list' /\ wait_list'[k] = wait_list[k]
    BY <2>1
  <2>3. history'[k[2]].lst_applied_exchange_rate
          = history[k[2]].lst_applied_exchange_rate
    BY <1>1, <2>1 DEF SameBatches
  <2> QED
    BY <2>1, <2>2, <2>3 DEF Value
<1> HIDE DEF V, All, now, c
<1>8. SumOver(V, All) = paid + owed
  <2>1. P \in SUBSET All
    BY DEF All
  <2> QED
    BY <1>3, <2>1, SumSplit DEF V
<1>9. SumOver(Value(wait_list', history'), All \ P) = owed
  BY <1>7, SumSame
<1>10. owed \in Nat
  <2>1. IsFiniteSet(All \ P)
    BY <1>3, FS_Subset
  <2> QED
    BY <1>3, <2>1, SumType
<1> HIDE DEF owed
<1>11. owed <= Vault - paid - left
  BY <1>1, <1>2, <1>3, <1>5, <1>8, <1>10
<1> QED
  BY <1>6, <1>9, <1>11 DEF Covered

\* A withdrawal, seen as a release that pays the selected keys.
LEMMA PaysFacts ==
    ASSUME IInv, QInv, BatchIdsDistinct, NEW user \in Users,
           NEW selection \in Selections(user), Pays(user, selection)
    PROVE  \E last, left, paid \in Nat :
              LET P == PaidKeys(user, selection, history') IN
              /\ ReleasesUpTo(last, left)
              /\ paid > 0
              /\ state'.unclaimed_unstaked_balance = Vault - paid - left
              /\ hub_balance' = hub_balance - paid
              /\ P \in SUBSET ReleasedKeys(wait_list, history')
              /\ P \in SUBSET (DOMAIN wait_list)
              /\ wait_list' = [k \in DOMAIN wait_list \ P |-> wait_list[k]]
              /\ DOMAIN wait_list' = DOMAIN wait_list \ P
              /\ \A k \in DOMAIN wait_list' : wait_list'[k] = wait_list[k]
              /\ paid = SumOver(Value(wait_list, history), P)
<1> DEFINE P == PaidKeys(user, selection, history')
<1>1. PICK last \in Nat, left \in Nat, paid \in Nat :
        /\ ReleasesUpTo(last, left)
        /\ paid = finished_amount(user, selection, history')
        /\ paid > 0
        /\ state'.unclaimed_unstaked_balance = Vault - paid - left
        /\ hub_balance' = hub_balance - paid
        /\ wait_list' = [k \in DOMAIN wait_list \ P |-> wait_list[k]]
  BY DEF Pays
<1>2. SameBatches(history, history')
  BY <1>1 DEF ReleasesUpTo
<1>3. paid = SumOver(Value(wait_list, history), P)
  BY <1>1, <1>2, PaidAmount
<1>4. P \in SUBSET ReleasedKeys(wait_list, history')
  BY PaidAreReleased
<1>5. P \in SUBSET (DOMAIN wait_list)
  BY <1>4 DEF ReleasedKeys
<1> HIDE DEF P
<1>6. /\ DOMAIN wait_list' = DOMAIN wait_list \ P
      /\ \A k \in DOMAIN wait_list' : wait_list'[k] = wait_list[k]
  BY <1>1
<1> QED
  BY <1>1, <1>3, <1>4, <1>5, <1>6 DEF P

\* A release without a withdrawal, in the same form.
LEMMA ReleasesFacts ==
    ASSUME IInv, Covered, QInv, IInv', Releases
    PROVE  Covered'
<1>1. PICK last \in Nat, left \in Nat :
        /\ ReleasesUpTo(last, left)
        /\ state'.unclaimed_unstaked_balance = Vault - left
        /\ wait_list' = wait_list /\ hub_balance' = hub_balance
  BY DEF Releases
<1> DEFINE none == {}
           zero == 0
<1>2. Vault \in Nat
  BY HubTypes
<1>3. state'.unclaimed_unstaked_balance = Vault - zero - left /\ zero \in Nat
  BY <1>1, <1>2
<1>4. /\ none \in SUBSET ReleasedKeys(wait_list, history')
      /\ DOMAIN wait_list' = DOMAIN wait_list \ none
      /\ \A k \in DOMAIN wait_list' : wait_list'[k] = wait_list[k]
  BY <1>1
<1>5. zero = SumOver(Value(wait_list, history), none)
  BY SumEmpty
<1> HIDE DEF none, zero
<1> QED
  BY <1>1, <1>3, <1>4, <1>5, ReleaseCovered

\* The coverage is inductive relative to the other invariants.
LEMMA NextCovered ==
    ASSUME BatchIdsDistinct
    PROVE  IInv /\ IInv' /\ QInv /\ Covered /\ [Next]_vars => Covered'
<1> SUFFICES ASSUME IInv, IInv', QInv, Covered, [Next]_vars PROVE Covered'
  OBVIOUS
<1>1. CASE QuietForQueue
  <2>1. /\ wait_list' = wait_list /\ history' = history
        /\ state'.unclaimed_unstaked_balance = state.unclaimed_unstaked_balance
    BY <1>1 DEF QuietForQueue
  <2> QED
    BY <2>1 DEF Covered
<1>2. CASE Requests \/ Closes
  BY <1>2, RequestCovered
<1>3. CASE Releases
  BY <1>3, ReleasesFacts
<1>4. ASSUME NEW user \in Users, NEW selection \in Selections(user),
             Pays(user, selection)
      PROVE  Covered'
  <2> DEFINE P == PaidKeys(user, selection, history')
  <2>1. PICK last \in Nat, left \in Nat, paid \in Nat :
          /\ ReleasesUpTo(last, left)
          /\ state'.unclaimed_unstaked_balance = Vault - paid - left
          /\ P \in SUBSET ReleasedKeys(wait_list, history')
          /\ DOMAIN wait_list' = DOMAIN wait_list \ P
          /\ \A k \in DOMAIN wait_list' : wait_list'[k] = wait_list[k]
          /\ paid = SumOver(Value(wait_list, history), P)
    BY <1>4, PaysFacts
  <2> HIDE DEF P
  <2> QED
    BY <2>1, ReleaseCovered
<1> QED
  BY <1>1, <1>2, <1>3, <1>4, StepKinds

\* Nothing is released yet.
LEMMA InitCovered == Init => Covered
<1> SUFFICES ASSUME Init PROVE Covered
  OBVIOUS
<1>1. DOMAIN wait_list = {} /\ state.unclaimed_unstaked_balance = 0
  BY DEF Init, HubInit
<1>2. ReleasedKeys(wait_list, history) = {}
  BY <1>1 DEF ReleasedKeys
<1>3. SumOver(Value(wait_list, history), ReleasedKeys(wait_list, history)) = 0
  BY <1>2, SumEmpty
<1> QED
  BY <1>1, <1>3 DEF Covered

\* What is set aside covers what released entries are worth, always.
LEMMA CoveredInvariance ==
    ASSUME BatchIdsDistinct
    PROVE  Spec => []Covered
<1>1. IInv /\ IInv' /\ QInv /\ Covered /\ [Next]_vars => Covered'
  BY NextCovered
<1> QED
  BY <1>1, Invariance, QueueInvariance, InitCovered, PTL DEF Spec

\* What entries are worth in the model's own terms.
LEMMA EntriesValueIsSum ==
    ASSUME IInv, QInv,
           NEW S \in SUBSET {k \in DOMAIN wait_list : k[2] \in DOMAIN history}
    PROVE  EntriesValue(S) = SumOver(Value(wait_list, history), S)
  BY HubTypes, ValueType DEF QInv, EntriesValue, entry_amount

\* The reserve covers what can be withdrawn from released batches, whoever
\* withdraws first and however amounts are rounded, if no list of batches
\* names one twice (state.rs:94-105, unstake.rs:480-484).
THEOREM EntriesCovered ==
    ASSUME BatchIdsDistinct
    PROVE  Spec => []ReleasedEntriesCovered
<1>1. ASSUME IInv, QInv, Covered
      PROVE  ReleasedEntriesCovered
  <2> DEFINE S == ReleasedKeys(wait_list, history)
  <2>1. S = {k \in DOMAIN wait_list :
                k[2] \in DOMAIN history /\ history[k[2]].released}
    BY DEF ReleasedKeys
  <2>2. S \in SUBSET {k \in DOMAIN wait_list : k[2] \in DOMAIN history}
    BY <2>1
  <2> HIDE DEF S
  <2>3. EntriesValue(S) = SumOver(Value(wait_list, history), S)
    BY <1>1, <2>2, EntriesValueIsSum
  <2>4. EntriesValue(S) <= state.unclaimed_unstaked_balance
    BY <1>1, <2>3 DEF Covered, S
  <2> QED
    BY <2>1, <2>4 DEF ReleasedEntriesCovered
<1>2. IInv /\ QInv /\ Covered => ReleasedEntriesCovered
  BY <1>1
<1> QED
  BY <1>2, Invariance, QueueInvariance, CoveredInvariance, PTL

\* The step of EntriesPaidOnce.
PaidOnceStep ==
    LET paid == DOMAIN wait_list \ DOMAIN wait_list' IN
    hub_balance' < hub_balance \/ paid # {} =>
       IF queue' # queue
       THEN hub_balance - hub_balance' = queue.delegate /\ paid = {}
       ELSE hub_balance - hub_balance' = EntriesValue(paid)

\* Every step is one that EntriesPaidOnce allows.
LEMMA NextPaidOnce ==
    ASSUME BatchIdsDistinct, IInv, QInv, [Next]_vars
    PROVE  PaidOnceStep
<1>1. hub_balance \in Nat
  BY HubTypes
<1>2. CASE QuietForQueue
  BY <1>2 DEF QuietForQueue, PaidOnceStep
<1>3. CASE Requests \/ Closes
  <2>1. DOMAIN wait_list \ DOMAIN wait_list' = {} /\ hub_balance' = hub_balance
    BY <1>3, RequestedWaitList DEF Requests, Closes, BatchDealtWith, QInv
  <2> QED
    BY <1>1, <2>1 DEF PaidOnceStep
<1>4. CASE Releases
  BY <1>1, <1>4 DEF Releases, PaidOnceStep
<1>5. ASSUME NEW user \in Users, NEW selection \in Selections(user),
             Pays(user, selection)
      PROVE  PaidOnceStep
  <2> DEFINE P == PaidKeys(user, selection, history')
  <2>1. PICK last \in Nat, left \in Nat, paid \in Nat :
          /\ ReleasesUpTo(last, left)
          /\ hub_balance' = hub_balance - paid
          /\ P \in SUBSET ReleasedKeys(wait_list, history')
          /\ P \in SUBSET (DOMAIN wait_list)
          /\ DOMAIN wait_list' = DOMAIN wait_list \ P
          /\ paid = SumOver(Value(wait_list, history), P)
    BY <1>5, PaysFacts
  <2> HIDE DEF P
  <2>2. DOMAIN wait_list \ DOMAIN wait_list' = P
    BY <2>1
  <2>3. queue' = queue /\ DOMAIN history' = DOMAIN history
    BY <2>1 DEF ReleasesUpTo, SameBatches
  <2>4. P \in SUBSET {k \in DOMAIN wait_list : k[2] \in DOMAIN history}
    BY <2>1, <2>3 DEF ReleasedKeys
  <2>5. EntriesValue(P) = paid
    BY <2>1, <2>4, EntriesValueIsSum
  <2>6. hub_balance - hub_balance' = paid
    BY <1>1, <2>1
  <2> QED
    BY <2>2, <2>3, <2>5, <2>6 DEF PaidOnceStep
<1> QED
  BY <1>2, <1>3, <1>4, <1>5, StepKinds

\* Coins leave the hub when the queue is executed, or as the exact value of
\* entries that the same step removes, if no list of batches names one twice
\* (state.rs:62-109, unstake.rs:464-495).
THEOREM PaidOnce ==
    ASSUME BatchIdsDistinct
    PROVE  Spec => EntriesPaidOnce
<1>1. IInv /\ QInv /\ [Next]_vars => PaidOnceStep
  BY NextPaidOnce
<1> QED
  BY <1>1, Invariance, QueueInvariance, PTL DEF Spec, EntriesPaidOnce, PaidOnceStep

-----------------------------------------------------------------------------
(* The hub implements RedemptionQueue.                                     *)

\* The rates of the batches, as the redemption queue has them.
Rates(h) == [b \in DOMAIN h |-> h[b].lst_applied_exchange_rate]

\* What keys are worth in the terms of the redemption queue.
LEMMA QueueValue ==
    ASSUME NEW w, WaitList(w), NEW n \in Nat \ {0}, NEW h, Batches(h, n),
           NEW S \in SUBSET {k \in DOMAIN w : k[2] \in DOMAIN h}
    PROVE  SumFunction([k \in S |->
                 decimal_multiplication(w[k], Rates(h)[k[2]])])
              = SumOver(Value(w, h), S)
<1> DEFINE f == [k \in S |-> decimal_multiplication(w[k], Rates(h)[k[2]])]
<1>1. DOMAIN f = S /\ \A k \in S : f[k] = Value(w, h)[k]
  BY DEF Value, Rates
<1>2. IsFiniteSet(S) /\ \A k \in S : Value(w, h)[k] \in Nat
  BY ValueType
<1> HIDE DEF f
<1>3. SumFunctionOnSet(f, S) = SumOver(f, S)
  BY <1>1, <1>2, SumFunctionIsSum
<1>4. SumOver(f, S) = SumOver(Value(w, h), S)
  BY <1>1, SumSame
<1> QED
  BY <1>1, <1>3, <1>4 DEF SumFunction, f

\* The instance of the redemption queue has the same sums and products.
LEMMA InstanceOperators ==
    /\ \A f : Redemption!SumFunction(f) = SumFunction(f)
    /\ \A a, b : Redemption!decimal_multiplication(a, b)
                  = decimal_multiplication(a, b)
<1>1. ASSUME NEW f
      PROVE  Redemption!SumFunction(f) = SumFunction(f)
  BY DEF Redemption!SumFunction, Redemption!SumFunctionOnSet,
         Redemption!FoldFunctionOnSet, Redemption!MapThenFoldSet,
         SumFunction, SumFunctionOnSet, FoldFunctionOnSet, MapThenFoldSet
<1> QED
  BY <1>1 DEF Redemption!decimal_multiplication, decimal_multiplication

\* What keys are worth, for the queue.
LEMMA QueueValueOf ==
    ASSUME IInv, QInv,
           NEW S \in SUBSET {k \in DOMAIN wait_list : k[2] \in DOMAIN history}
    PROVE  Redemption!ValueOf(S) = SumOver(Value(wait_list, history), S)
<1>1. \A k : Redemption!value(k)
               = decimal_multiplication(wait_list[k], Rates(history)[k[2]])
  BY InstanceOperators DEF Redemption!value, Rates
<1>2. Redemption!ValueOf(S)
        = SumFunction([k \in S |-> decimal_multiplication(wait_list[k],
                                                Rates(history)[k[2]])])
  BY <1>1, InstanceOperators DEF Redemption!ValueOf
<1> QED
  BY <1>2, HubTypes, QueueValue DEF QInv

\* The queue is solvent: the reserve covers what is owed and is at hand.
LEMMA QueueSolvent == IInv /\ QInv /\ Covered => Redemption!Solvent
<1> SUFFICES ASSUME IInv, QInv, Covered PROVE Redemption!Solvent
  OBVIOUS
<1> DEFINE S == {k \in DOMAIN wait_list : k[2] <= state.last_processed_batch}
<1>1. /\ current_batch.id \in Nat \ {0} /\ Batches(history, current_batch.id)
      /\ DOMAIN history = 1 .. current_batch.id - 1
      /\ DOMAIN wait_list \subseteq Users \X (1 .. current_batch.id)
      /\ state.last_processed_batch \in Nat
      /\ state.unclaimed_unstaked_balance <= Vault
  BY HubTypes
<1>2. /\ state.last_processed_batch < current_batch.id
      /\ \A b \in DOMAIN history :
            history[b].released <=> b <= state.last_processed_batch
  BY DEF IInv, ReleasedIsPrefix
<1>3. S = ReleasedKeys(wait_list, history)
  <2>1. ASSUME NEW k \in DOMAIN wait_list
        PROVE  k[2] <= state.last_processed_batch
                  <=> k[2] \in DOMAIN history /\ history[k[2]].released
    <3>1. k[2] \in 1 .. current_batch.id
      BY <1>1
    <3> QED
      BY <1>1, <1>2, <3>1
  <2> QED
    BY <2>1 DEF ReleasedKeys
<1>4. S \in SUBSET {k \in DOMAIN wait_list : k[2] \in DOMAIN history}
  BY <1>3 DEF ReleasedKeys
<1> HIDE DEF S
<1>6. Redemption!ValueOf(S) = SumOver(Value(wait_list, history), S)
  BY <1>4, QueueValueOf
<1>7. Redemption!Owed = Redemption!ValueOf(S)
  BY DEF Redemption!Owed, S
<1>8. Redemption!Owed <= state.unclaimed_unstaked_balance
  BY <1>3, <1>6, <1>7 DEF Covered
<1> QED
  BY <1>1, <1>8 DEF Redemption!Solvent, Vault

\* The hub starts as an empty queue.
LEMMA QueueInitially == Init => Redemption!QueueInit
  BY DEF Init, HubInit, ChainInit, Redemption!QueueInit

\* Steps that leave the batches alone fund the queue or do not show.
LEMMA QuietIsFund ==
    ASSUME IInv, IInv', QuietForQueue
    PROVE  Redemption!Fund \/ UNCHANGED Redemption!queueVars
<1>1. /\ wait_list' = wait_list /\ history' = history
      /\ current_batch' = current_batch
      /\ state'.unclaimed_unstaked_balance = state.unclaimed_unstaked_balance
      /\ state'.last_processed_batch = state.last_processed_batch
      /\ Vault' >= Vault
  BY DEF QuietForQueue
<1>2. CASE Vault' = Vault
  BY <1>1, <1>2 DEF Vault, Redemption!queueVars
<1>3. CASE Vault' # Vault
  <2>1. Vault \in Nat /\ Vault' \in Int
    <3>1. hub_balance' \in Nat /\ queue'.delegate \in Nat
      BY DEF IInv, TypeOK, ChainTypeOK
    <3> QED
      BY <3>1, HubTypes DEF Vault
  <2>2. Vault' > Vault
    BY <1>1, <1>3, <2>1
  <2> QED
    BY <1>1, <2>2 DEF Vault, Redemption!Fund
<1> QED
  BY <1>2, <1>3

\* A closed batch gets its rate, and the earlier ones keep theirs.
LEMMA BatchIsClose ==
    ASSUME IInv, IInv', NEW batch, batch.id = current_batch.id,
           BatchDealtWith(batch)
    PROVE  /\ \/ Redemption!close
              \/ current_batch'.id = current_batch.id /\ history' = history
           /\ state'.unclaimed_unstaked_balance
                 = state.unclaimed_unstaked_balance
           /\ state'.last_processed_batch = state.last_processed_batch
           /\ Vault' = Vault
<1>1. /\ state'.unclaimed_unstaked_balance = state.unclaimed_unstaked_balance
      /\ state'.last_processed_batch = state.last_processed_batch
      /\ hub_balance' = hub_balance /\ queue'.delegate = queue.delegate
  BY DEF BatchDealtWith
<1>2. /\ current_batch.id \in Nat \ {0}
      /\ DOMAIN history = 1 .. current_batch.id - 1
  BY HubTypes
<1>3. CASE history' = history /\ current_batch' = batch
  BY <1>1, <1>3 DEF Vault
<1>4. CASE /\ current_batch' = [id |-> batch.id + 1, requested |-> 0]
           /\ \A b \in DOMAIN history : history'[b] = history[b]
  <2>1. current_batch'.id = current_batch.id + 1
    BY <1>4
  <2>2. DOMAIN history' = 1 .. (current_batch.id + 1) - 1
    BY <2>1 DEF IInv, TypeOK
  <2>3. DOMAIN history' = 1 .. current_batch.id
    BY <1>2, <2>2
  <2>4. \A b \in DOMAIN history : b \in DOMAIN history'
    BY <1>2, <2>3
  <2>5. Redemption!close
    BY <1>4, <2>1, <2>3, <2>4 DEF Redemption!close
  <2> QED
    BY <1>1, <2>5 DEF Vault
<1> QED
  BY <1>3, <1>4 DEF BatchDealtWith

\* Requests and closed batches are those of the queue.
LEMMA RequestsRefine ==
    ASSUME IInv, IInv', QInv, Requests \/ Closes
    PROVE  Redemption!QueueNext \/ UNCHANGED Redemption!queueVars
<1>1. current_batch \in [id : Nat \ {0}, requested : Nat]
  BY HubTypes
<1>2. ASSUME NEW batch, batch.id = current_batch.id, BatchDealtWith(batch)
      PROVE  /\ Redemption!close \/ UNCHANGED <<current_batch.id, history>>
             /\ state'.unclaimed_unstaked_balance
                   = state.unclaimed_unstaked_balance
             /\ state'.last_processed_batch = state.last_processed_batch
             /\ Vault' = Vault
  BY <1>2, BatchIsClose
<1>3. CASE Closes
  <2>1. wait_list' = wait_list /\ BatchDealtWith(current_batch)
    BY <1>3 DEF Closes
  <2>2. /\ Redemption!close \/ UNCHANGED <<current_batch.id, history>>
        /\ state'.unclaimed_unstaked_balance
              = state.unclaimed_unstaked_balance
        /\ state'.last_processed_batch = state.last_processed_batch
        /\ Vault' = Vault
    BY <1>2, <2>1
  <2>3. CASE Redemption!close
    BY <2>1, <2>2, <2>3
    DEF Redemption!QueueNext, Redemption!Close, Vault
  <2>4. CASE UNCHANGED <<current_batch.id, history>>
    BY <2>1, <2>2, <2>4 DEF Redemption!queueVars, Vault
  <2> QED
    BY <2>2, <2>3, <2>4
<1>4. CASE Requests
  <2>1. PICK user \in Users, amount \in Nat :
           /\ wait_list' = updated_wait_list(user, amount)
           /\ BatchDealtWith([current_batch EXCEPT !.requested = @ + amount])
    BY <1>4 DEF Requests
  <2>2. [current_batch EXCEPT !.requested = @ + amount].id = current_batch.id
    BY <1>1
  <2>3. /\ Redemption!close \/ UNCHANGED <<current_batch.id, history>>
        /\ state'.unclaimed_unstaked_balance
              = state.unclaimed_unstaked_balance
        /\ state'.last_processed_batch = state.last_processed_batch
        /\ Vault' = Vault
    BY <1>2, <2>1, <2>2
  <2>4. Redemption!request(user)
    <3>1. /\ DOMAIN wait_list' = DOMAIN wait_list
                                    \cup {<<user, current_batch.id>>}
          /\ \A k \in DOMAIN wait_list :
                k # <<user, current_batch.id>> => wait_list'[k] = wait_list[k]
          /\ \A k \in DOMAIN wait_list : wait_list'[k] >= wait_list[k]
      BY <2>1, RequestedWaitList DEF QInv
    <3> QED
      BY <3>1 DEF Redemption!request
  <2>5. Redemption!Request
    <3>1. CASE Redemption!close
      BY <2>3, <2>4, <3>1 DEF Redemption!Request, Vault
    <3>2. CASE UNCHANGED <<current_batch.id, history>>
      BY <2>3, <2>4, <3>2 DEF Redemption!Request, Vault
    <3> QED
      BY <2>3, <3>1, <3>2
  <2> QED
    BY <2>5 DEF Redemption!QueueNext
<1> QED
  BY <1>3, <1>4

\* What a release shows to the queue.
LEMMA ReleaseRefines ==
    ASSUME IInv, IInv', QInv', Covered', Redemption!Solvent',
           NEW last \in Nat, NEW left \in Nat, ReleasesUpTo(last, left)
    PROVE  /\ Redemption!release
           /\ current_batch' = current_batch /\ queue' = queue
           /\ Rates(history') = Rates(history)
           /\ Vault - left >= state.unclaimed_unstaked_balance
           /\ state'.last_processed_batch = state.last_processed_batch =>
                 Vault - left = state.unclaimed_unstaked_balance
<1> DEFINE R == state.last_processed_batch + 1 .. last
           now == SumOver(Required(history), R)
           c == state.unclaimed_unstaked_balance
<1>1. /\ R \in SUBSET Unreleased(history)
      /\ SameBatches(history, history')
      /\ left = Vault - c - now
      /\ current_batch' = current_batch /\ queue' = queue
      /\ last >= state.last_processed_batch
      /\ state'.last_processed_batch = last
  BY DEF ReleasesUpTo
<1>2. /\ current_batch.id \in Nat \ {0} /\ Batches(history, current_batch.id)
      /\ Vault \in Nat /\ c \in Nat /\ state.last_processed_batch \in Nat
  BY HubTypes
<1>3. state'.last_processed_batch < current_batch'.id
  BY DEF IInv, ReleasedIsPrefix
<1>4. Redemption!release
  BY <1>1, <1>2, <1>3 DEF Redemption!release
<1>5. Rates(history') = Rates(history)
  BY <1>1 DEF SameBatches, Rates
<1>6. now \in Nat
  <2>1. R \in SUBSET (DOMAIN history)
    BY <1>1 DEF Unreleased
  <2> QED
    BY <1>2, <2>1, RequiredType
<1>7. last = state.last_processed_batch => now = 0
  <2> SUFFICES ASSUME last = state.last_processed_batch PROVE now = 0
    OBVIOUS
  <2>1. R = {}
    BY <1>2
  <2> QED
    BY <2>1, SumEmpty
<1> HIDE DEF now, c
<1>8. Vault - left >= c /\ (now = 0 => Vault - left = c)
  BY <1>1, <1>2, <1>6
<1> QED
  BY <1>1, <1>4, <1>5, <1>7, <1>8 DEF c

\* Releases are releases of the queue.
LEMMA ReleasesRefine ==
    ASSUME IInv, IInv', QInv', Covered', Redemption!Solvent', Releases
    PROVE  Redemption!Release
<1>1. PICK last \in Nat, left \in Nat :
        /\ ReleasesUpTo(last, left)
        /\ state'.unclaimed_unstaked_balance = Vault - left
        /\ wait_list' = wait_list /\ hub_balance' = hub_balance
  BY DEF Releases
<1>2. /\ Redemption!release
      /\ current_batch' = current_batch /\ queue' = queue
      /\ Rates(history') = Rates(history)
      /\ Vault - left >= state.unclaimed_unstaked_balance
      /\ state'.last_processed_batch = state.last_processed_batch =>
            Vault - left = state.unclaimed_unstaked_balance
  BY <1>1, ReleaseRefines
<1> QED
  BY <1>1, <1>2 DEF Redemption!Release, Rates

\* Withdrawals are withdrawals of the queue.
LEMMA PaysRefine ==
    ASSUME IInv, IInv', QInv, QInv', Covered', Redemption!Solvent',
           BatchIdsDistinct, NEW user \in Users,
           NEW selection \in Selections(user), Pays(user, selection)
    PROVE  Redemption!Withdraw
<1> DEFINE P == PaidKeys(user, selection, history')
<1>1. PICK last \in Nat, left \in Nat, paid \in Nat :
        /\ ReleasesUpTo(last, left)
        /\ paid > 0
        /\ state'.unclaimed_unstaked_balance = Vault - paid - left
        /\ hub_balance' = hub_balance - paid
        /\ P \in SUBSET ReleasedKeys(wait_list, history')
        /\ P \in SUBSET (DOMAIN wait_list)
        /\ wait_list' = [k \in DOMAIN wait_list \ P |-> wait_list[k]]
        /\ DOMAIN wait_list' = DOMAIN wait_list \ P
        /\ paid = SumOver(Value(wait_list, history), P)
  BY PaysFacts
<1>2. /\ Redemption!release
      /\ current_batch' = current_batch /\ queue' = queue
      /\ Rates(history') = Rates(history)
      /\ Vault - left >= state.unclaimed_unstaked_balance
      /\ state'.last_processed_batch = state.last_processed_batch =>
            Vault - left = state.unclaimed_unstaked_balance
  BY <1>1, ReleaseRefines
<1>3. \A k \in P : k[1] = user /\ k = <<k[1], k[2]>>
  BY DEF PaidKeys
<1> HIDE DEF P
<1>4. DOMAIN wait_list \ DOMAIN wait_list' = P
  BY <1>1
<1>5. P \subseteq {user} \X (1 .. state'.last_processed_batch)
  <2>1. ASSUME NEW k \in P
        PROVE  k[2] \in 1 .. state'.last_processed_batch
    <3>1. k[2] \in DOMAIN history' /\ history'[k[2]].released
      BY <1>1 DEF ReleasedKeys
    <3>2. \A b \in DOMAIN history' :
             history'[b].released <=> b <= state'.last_processed_batch
      BY DEF IInv, ReleasedIsPrefix
    <3>3. DOMAIN history' = 1 .. current_batch'.id - 1
          /\ current_batch'.id \in Nat /\ state'.last_processed_batch \in Nat
      BY DEF IInv, TypeOK, State
    <3> QED
      BY <3>1, <3>2, <3>3
  <2> QED
    BY <1>3, <2>1
<1>6. Redemption!ValueOf(P) = paid
  <2>1. DOMAIN history' = DOMAIN history
    BY <1>1 DEF ReleasesUpTo, SameBatches
  <2>2. P \in SUBSET {k \in DOMAIN wait_list : k[2] \in DOMAIN history}
    BY <1>1, <2>1 DEF ReleasedKeys
  <2> QED
    BY <1>1, <2>2, QueueValueOf
<1>7. Vault' = Vault - paid
  <2>1. hub_balance \in Nat /\ queue.delegate \in Nat
    BY HubTypes
  <2> QED
    BY <1>1, <1>2, <2>1 DEF Vault
<1> DEFINE c == state.unclaimed_unstaked_balance
           d == state'.unclaimed_unstaked_balance
<1>8. /\ d >= c - paid
      /\ state'.last_processed_batch = state.last_processed_batch =>
            d = c - paid
  <2>1. Vault \in Nat /\ c \in Nat
    BY HubTypes
  <2>2. d = Vault - paid - left /\ Vault - left >= c
    BY <1>1, <1>2
  <2> HIDE DEF c, d
  <2>3. d >= c - paid /\ (Vault - left = c => d = c - paid)
    BY <2>1, <2>2
  <2> QED
    BY <1>2, <2>3 DEF c
<1>9. UNCHANGED <<current_batch.id, Rates(history)>>
  BY <1>2
<1> QED
  BY <1>1, <1>2, <1>4, <1>5, <1>6, <1>7, <1>8, <1>9
  DEF Redemption!Withdraw, Vault, Rates

\* Every step is a step of the queue or does not show.
LEMMA NextRefines ==
    ASSUME BatchIdsDistinct, IInv, IInv', QInv, QInv', Covered',
           Redemption!Solvent', [Next]_vars
    PROVE  [Redemption!QueueNext]_Redemption!queueVars
<1>1. CASE QuietForQueue
  BY <1>1, QuietIsFund DEF Redemption!QueueNext
<1>2. CASE Requests \/ Closes
  BY <1>2, RequestsRefine
<1>3. CASE Releases
  BY <1>3, ReleasesRefine DEF Redemption!QueueNext
<1>4. ASSUME NEW user \in Users, NEW selection \in Selections(user),
             Pays(user, selection)
      PROVE  Redemption!QueueNext
  BY <1>4, PaysRefine DEF Redemption!QueueNext
<1> QED
  BY <1>1, <1>2, <1>3, <1>4, StepKinds

\* The hub, with its stakes, rewards, slashes, epochs and delayed unbonding,
\* implements the redemption queue, if no list of batches names one twice:
\* entries are paid once and at their batch's rate, batches released in order
\* and only when covered, and coins leave in no other way (unstake.rs).
THEOREM HubImplementsQueue ==
    ASSUME BatchIdsDistinct
    PROVE  Spec => ImplementsRedemptionQueue
<1>1. /\ IInv /\ QInv /\ Redemption!Solvent
      /\ IInv' /\ QInv' /\ Covered' /\ Redemption!Solvent' /\ [Next]_vars
      => [Redemption!QueueNext]_Redemption!queueVars
  BY NextRefines
<1>2. Spec => [](IInv /\ QInv /\ Covered /\ Redemption!Solvent)
  BY Invariance, QueueInvariance, CoveredInvariance, QueueSolvent, PTL
<1> QED
  BY <1>1, <1>2, QueueInitially, PTL
  DEF Spec, ImplementsRedemptionQueue, Redemption!QueueSpec
-----------------------------------------------------------------------------
(* What clients are told.                                                  *)

\* The pending delegation of a query is the queue of the current epoch,
\* however many epochs have passed since the record was written
\* (query.rs:42-50).
THEOREM PendingQueryRight == Spec => []PendingQueryFollowsEpoch
<1>1. ASSUME IInv PROVE PendingQueryFollowsEpoch
  <2>1. /\ TypeOK /\ EpochAligned /\ PendingMatchesQueue
        /\ queue.delegate \in Nat /\ queue.undelegate \in Nat
    BY <1>1 DEF IInv, TypeOK, ChainTypeOK
  <2>2. update_pending_delegation_amount(0, 0) =
            [start |-> epoch_start, staking |-> queue.delegate + 0,
             unstaking |-> queue.undelegate + 0]
    BY <2>1, UpdatedPending
  <2>3. query_pending_delegation = update_pending_delegation_amount(0, 0)
    <3>1. CASE epoch_over(pending)
      BY <3>1 DEF query_pending_delegation, update_pending_delegation_amount
    <3>2. CASE ~epoch_over(pending)
      <4>1. /\ query_pending_delegation = pending
            /\ update_pending_delegation_amount(0, 0)
                  = [pending EXCEPT !.staking = @ + 0, !.unstaking = @ + 0]
        BY <3>2 DEF query_pending_delegation, update_pending_delegation_amount
      <4>2. pending \in [start : Nat, staking : Nat, unstaking : Nat]
        BY <2>1 DEF TypeOK, PendingDelegation
      <4>3. /\ pending.staking + 0 = pending.staking
            /\ pending.unstaking + 0 = pending.unstaking
        BY <4>2
      <4>4. [pending EXCEPT !.staking = pending.staking,
                            !.unstaking = pending.unstaking] = pending
        BY <4>2, Zenon
      <4> QED
        BY <4>1, <4>3, <4>4, Zenon
    <3> QED
      BY <3>1, <3>2
  <2> QED
    BY <2>1, <2>2, <2>3 DEF PendingQueryFollowsEpoch
<1> QED
  BY <1>1, Invariance, PTL

\* An element's place in a finite set of naturals, counted from zero, tells
\* the elements apart and takes every value below the size of the set: with
\* more than n elements, n of them have a place below n.
LEMMA FirstElements ==
    ASSUME NEW S, \A x \in S : x \in Nat, IsFiniteSet(S), NEW n \in Nat,
           n <= Cardinality(S)
    PROVE  Cardinality({b \in S : Cardinality({c \in S : c < b}) < n}) = n
<1> DEFINE Below(b) == {c \in S : c < b}
           r == [b \in S |-> Cardinality(Below(b))]
           N == Cardinality(S)
           P == {b \in S : r[b] < n}
<1>1. N \in Nat
  BY FS_CardinalityType
<1>2. ASSUME NEW b \in S
      PROVE  /\ IsFiniteSet(Below(b)) /\ r[b] = Cardinality(Below(b))
             /\ r[b] \in Nat /\ r[b] <= N - 1
  <2>1. Below(b) \subseteq S \ {b}
    OBVIOUS
  <2>2. IsFiniteSet(S \ {b}) /\ Cardinality(S \ {b}) = N - 1
    BY FS_RemoveElement
  <2>3. IsFiniteSet(Below(b)) /\ Cardinality(Below(b)) <= N - 1
    <3> HIDE DEF Below, N
    <3> QED
      BY <2>1, <2>2, FS_Subset
  <2> QED
    BY <2>3, FS_CardinalityType
<1>3. ASSUME NEW b \in S, NEW c \in S, c < b
      PROVE  r[c] < r[b]
  <2>1. Below(c) \cup {c} \subseteq Below(b) /\ c \notin Below(c)
    BY <1>3
  <2>2. /\ IsFiniteSet(Below(b)) /\ IsFiniteSet(Below(c))
        /\ r[b] = Cardinality(Below(b)) /\ r[c] = Cardinality(Below(c))
        /\ r[b] \in Nat /\ r[c] \in Nat
    BY <1>2
  <2> HIDE DEF Below, r
  <2>3. Cardinality(Below(c) \cup {c}) = Cardinality(Below(c)) + 1
    BY <2>1, <2>2, FS_AddElement
  <2>4. Cardinality(Below(c) \cup {c}) <= Cardinality(Below(b))
    BY <2>1, <2>2, FS_Subset
  <2> QED
    BY <2>2, <2>3, <2>4
<1>4. ASSUME NEW b \in S, NEW c \in S, r[b] = r[c]
      PROVE  b = c
  <2>1. b \in Nat /\ c \in Nat /\ r[b] \in Nat /\ r[c] \in Nat
    BY <1>2
  <2>2. ~(b < c) /\ ~(c < b)
    <3> HIDE DEF r
    <3> QED
      BY <1>3, <1>4, <2>1
  <2> QED
    BY <2>1, <2>2
<1>5. r \in Injection(S, 0 .. N - 1)
  <2>1. ASSUME NEW b \in S
        PROVE  r[b] \in 0 .. N - 1
    <3>1. r[b] \in Nat /\ r[b] <= N - 1
      BY <1>2
    <3> HIDE DEF r, N
    <3> QED
      BY <1>1, <3>1
  <2>2. r \in [S -> 0 .. N - 1]
    BY <2>1
  <2> QED
    BY <1>4, <2>2 DEF Injection, IsInjective
<1>6. IsFiniteSet(0 .. N - 1) /\ Cardinality(0 .. N - 1) = N
  <2> HIDE DEF N
  <2> QED
    BY <1>1, FS_Interval
<1>7. r \in Surjection(S, 0 .. N - 1)
  <2> HIDE DEF r
  <2> QED
    BY <1>5, <1>6, FS_Injection
<1> DEFINE q == [b \in P |-> r[b]]
<1>8. q \in Injection(P, 0 .. n - 1)
  <2>1. ASSUME NEW b \in P
        PROVE  b \in S /\ r[b] \in 0 .. n - 1
    <3>1. b \in S /\ r[b] < n
      OBVIOUS
    <3>2. r[b] \in Nat
      BY <1>2, <3>1
    <3> HIDE DEF r, P
    <3> QED
      BY <3>1, <3>2
  <2> HIDE DEF r
  <2>2. q \in [P -> 0 .. n - 1]
    BY <2>1
  <2> QED
    BY <1>4, <2>1, <2>2 DEF Injection, IsInjective
<1>9. q \in Surjection(P, 0 .. n - 1)
  <2>1. ASSUME NEW i \in 0 .. n - 1
        PROVE  \E b \in P : q[b] = i
    <3>1. i \in 0 .. N - 1 /\ i < n
      <4> HIDE DEF N
      <4> QED
        BY <1>1 DEF N
    <3>2. PICK b \in S : r[b] = i
      BY <1>7, <3>1 DEF Surjection
    <3> QED
      BY <3>1, <3>2
  <2>2. q \in [P -> 0 .. n - 1]
    BY <1>8 DEF Injection
  <2> QED
    BY <2>1, <2>2 DEF Surjection
<1>10. IsFiniteSet(0 .. n - 1) /\ Cardinality(0 .. n - 1) = n
  BY FS_Interval
<1>11. Cardinality(P) = n
  <2> HIDE DEF P, q
  <2> QED
    BY <1>8, <1>9, <1>10, FS_Injection
<1>12. P = {b \in S : Cardinality({c \in S : c < b}) < n}
  OBVIOUS
<1> QED
  BY <1>11, <1>12

\* A key from the start on that is not on the page: the page is full, and it
\* ends before the key.
LEMMA PageFull ==
    ASSUME NEW keys, \A x \in keys : x \in Nat, IsFiniteSet(keys),
           NEW start_from \in Nat, NEW limit \in Nat, NEW b \in keys, b >= start_from,
           b \notin page(keys, start_from, limit)
    PROVE  /\ Cardinality(page(keys, start_from, limit)) = limit
           /\ \A c \in page(keys, start_from, limit) : c < b
<1> DEFINE S == {c \in keys : c >= start_from}
           Below(c) == {e \in S : e < c}
           P == {c \in S : Cardinality(Below(c)) < limit}
<1>1. P = page(keys, start_from, limit)
  BY DEF page
<1>2. (\A x \in S : x \in Nat) /\ IsFiniteSet(S) /\ b \in S
  BY FS_Subset
<1>3. \A c : Below(c) \in SUBSET S
  OBVIOUS
<1> HIDE DEF S
<1>4. \A c : IsFiniteSet(Below(c)) /\ Cardinality(Below(c)) \in Nat
  <2> HIDE DEF Below
  <2> QED
    BY <1>2, <1>3, FS_Subset, FS_CardinalityType
<1>5. ~(Cardinality(Below(b)) < limit)
  BY <1>1, <1>2
<1>6. Cardinality(Below(b)) <= Cardinality(S)
  <2> HIDE DEF Below
  <2> QED
    BY <1>2, <1>3, FS_Subset
<1>7. limit <= Cardinality(S) /\ Cardinality(S) \in Nat
  <2>1. Cardinality(S) \in Nat
    BY <1>2, FS_CardinalityType
  <2> HIDE DEF Below
  <2> QED
    BY <2>1, <1>4, <1>5, <1>6
<1>8. Cardinality(P) = limit
  BY <1>2, <1>7, FirstElements
<1>9. ASSUME NEW c \in P
      PROVE  c < b
  <2>1. c \in Nat /\ b \in Nat /\ c \in S /\ Cardinality(Below(c)) < limit
    BY <1>2
  <2>2. CASE ~(c < b)
    <3>1. Below(b) \subseteq Below(c)
      <4>1. ASSUME NEW e \in S, e < b
            PROVE  e < c
        <5> HIDE DEF P, Below
        <5> QED
          BY <1>2, <2>1, <2>2, <4>1
      <4> QED
        BY <4>1, Zenon
    <3>2. Cardinality(Below(b)) <= Cardinality(Below(c))
      <4> HIDE DEF Below
      <4> QED
        BY <3>1, <1>4, FS_Subset
    <3> HIDE DEF Below
    <3>3. Cardinality(Below(b)) < limit
      BY <2>1, <3>2, <1>4
    <3> QED
      BY <1>5, <3>3
  <2> QED
    BY <2>2
<1> QED
  BY <1>1, <1>8, <1>9

\* The batch ids of a page of requests: the page without the open batch.
LEMMA RequestIds ==
    ASSUME NEW u, NEW start_from, NEW limit
    PROVE  {r.batch_id : r \in query_unstake_requests_limit(u, start_from, limit)}
             = page(entries(u), start_from, limit) \cap DOMAIN history
<1> DEFINE X == page(entries(u), start_from, limit) \cap DOMAIN history
           Request(b) ==
             [batch_id |-> b, lst_amount |-> wait_list[<<u, b>>],
              withdraw_exchange_rate |-> history[b].lst_withdraw_rate,
              applied_exchange_rate |-> history[b].lst_applied_exchange_rate,
              time |-> history[b].time, released |-> history[b].released]
<1>1. query_unstake_requests_limit(u, start_from, limit)
        = {Request(b) : b \in X}
  BY DEF query_unstake_requests_limit, get_unstake_requests
<1>2. \A b : Request(b).batch_id = b
  OBVIOUS
<1> HIDE DEF Request, X
<1>3. {r.batch_id : r \in {Request(b) : b \in X}} = X
  BY <1>2
<1> QED
  BY <1>1, <1>3 DEF X

\* The batch ids of a page of the history.
LEMMA HistoryIds ==
    ASSUME NEW start_from, NEW limit
    PROVE  {h.batch_id : h \in query_unstake_requests_limitation(start_from, limit)}
             = page(DOMAIN history, start_from, limit)
<1> DEFINE X == page(DOMAIN history, start_from, limit)
           Item(b) == [batch_id |-> b, history |-> history[b]]
<1>1. query_unstake_requests_limitation(start_from, limit) = {Item(b) : b \in X}
  BY DEF query_unstake_requests_limitation, all_unstake_history
<1>2. \A b : Item(b).batch_id = b
  OBVIOUS
<1> HIDE DEF Item, X
<1>3. {h.batch_id : h \in {Item(b) : b \in X}} = X
  BY <1>2
<1> QED
  BY <1>1, <1>3 DEF X

\* Pages of a user's requests and of the history are complete, for every start
\* and limit, although the open batch is dropped after the limit has been
\* applied (query.rs:162-205).
THEOREM EveryPageComplete ==
    Spec => [](\A start_from, limit \in Nat : PageComplete(start_from, limit))
<1>1. ASSUME IInv
      PROVE  \A start_from, limit \in Nat : PageComplete(start_from, limit)
  <2>1. /\ current_batch.id \in Nat
        /\ DOMAIN history = 1 .. current_batch.id - 1
    BY <1>1, HubTypes DEF Batches
  <2>2. (\A x \in DOMAIN history : x \in Nat) /\ IsFiniteSet(DOMAIN history)
    BY <2>1, FS_Interval
  <2>3. ASSUME NEW start_from \in Nat, NEW limit \in Nat,
               NEW u \in Users, NEW b \in entries(u) \cap DOMAIN history,
               b >= start_from,
               b \notin page(entries(u), start_from, limit) \cap DOMAIN history
        PROVE  LET seen == page(entries(u), start_from, limit)
                              \cap DOMAIN history
               IN  Cardinality(seen) = limit /\ \A c \in seen : c < b
    <3> DEFINE p == page(entries(u), start_from, limit)
    <3>1. /\ IsFiniteSet(entries(u))
          /\ \A x \in entries(u) : x \in 1 .. current_batch.id /\ x \in Nat
      <4>1. entries(u) \subseteq 1 .. current_batch.id
        BY DEF entries
      <4>2. IsFiniteSet(1 .. current_batch.id)
        BY <2>1, FS_Interval
      <4>3. IsFiniteSet(entries(u))
        BY <4>1, <4>2, FS_Subset
      <4>4. \A x \in entries(u) : x \in 1 .. current_batch.id
        BY <4>1
      <4> HIDE DEF entries
      <4> QED
        BY <2>1, <4>3, <4>4
    <3>2. Cardinality(p) = limit /\ \A c \in p : c < b
      BY <2>3, <3>1, PageFull
    <3>3. p \subseteq entries(u)
      BY DEF page
    <3> HIDE DEF p
    <3>4. p \subseteq DOMAIN history
      BY <2>1, <3>1, <3>2, <3>3
    <3>5. p \cap DOMAIN history = p
      BY <3>4
    <3> QED
      BY <3>2, <3>5 DEF p
  <2>4. ASSUME NEW start_from \in Nat, NEW limit \in Nat,
               NEW b \in DOMAIN history, b >= start_from,
               b \notin page(DOMAIN history, start_from, limit)
        PROVE  LET seen == page(DOMAIN history, start_from, limit) IN
               Cardinality(seen) = limit /\ \A c \in seen : c < b
    BY <2>2, <2>4, PageFull
  <2> HIDE DEF page
  <2>5. ASSUME NEW start_from \in Nat, NEW limit \in Nat
        PROVE  PageComplete(start_from, limit)
    <3>1. ASSUME NEW u \in Users
          PROVE  LET seen == {r.batch_id : r \in
                         query_unstake_requests_limit(u, start_from, limit)}
                 IN
                 \A b \in entries(u) \cap DOMAIN history :
                     b >= start_from /\ b \notin seen =>
                         Cardinality(seen) = limit /\ \A c \in seen : c < b
      <4> DEFINE seen == {r.batch_id : r \in
                      query_unstake_requests_limit(u, start_from, limit)}
      <4>1. seen = page(entries(u), start_from, limit) \cap DOMAIN history
        BY RequestIds
      <4> HIDE DEF seen, entries
      <4>2. \A b \in entries(u) \cap DOMAIN history :
               b >= start_from /\ b \notin seen =>
                   Cardinality(seen) = limit /\ \A c \in seen : c < b
        BY <2>3, <4>1, Zenon
      <4> QED
        BY <4>2 DEF seen
    <3>2. LET seen == {h.batch_id : h \in
                   query_unstake_requests_limitation(start_from, limit)}
          IN
          \A b \in DOMAIN history :
              b >= start_from /\ b \notin seen =>
                  Cardinality(seen) = limit /\ \A c \in seen : c < b
      <4> DEFINE seen == {h.batch_id : h \in
                      query_unstake_requests_limitation(start_from, limit)}
      <4>1. seen = page(DOMAIN history, start_from, limit)
        BY HistoryIds
      <4> HIDE DEF seen
      <4>2. \A b \in DOMAIN history :
               b >= start_from /\ b \notin seen =>
                   Cardinality(seen) = limit /\ \A c \in seen : c < b
        BY <2>4, <4>1, Zenon
      <4> QED
        BY <4>2 DEF seen
    <3> QED
      BY <3>1, <3>2, Zenon DEF PageComplete
  <2> QED
    BY <2>5
<1> QED
  BY <1>1, Invariance, PTL

\* In particular a client that walks the pages from the first batch misses
\* none of its requests (query.rs:162-205).
THEOREM PagesComplete == Spec => []NothingAfterShortPage
<1>1. (\A start_from, limit \in Nat : PageComplete(start_from, limit))
        => NothingAfterShortPage
  <2>1. \A start_from \in 1 .. MaxBatches + 1, limit \in 1 .. 2 :
            start_from \in Nat /\ limit \in Nat
    BY HubAssumption
  <2> QED
    BY <2>1, Zenon DEF NothingAfterShortPage
<1> QED
  BY <1>1, EveryPageComplete, PTL

-----------------------------------------------------------------------------
(* A withdrawal finds its coins: the release loop stops somewhere, what it *)
(* and earlier releases have set aside covers every released entry, and    *)
(* once the unbonded coins are back it does not stop before a batch that   *)
(* is old enough.                                                          *)

\* The batches up to `last` are due and the unreserved coins suffice for them.
Affordable(last) ==
    LET R == state.last_processed_batch + 1 .. last IN
    /\ \A b \in R : releasable(b)
    /\ SumOver(Required(history), R)
          <= Vault - state.unclaimed_unstaked_balance

\* Coins that are not queued for delegation are free.
LEMMA FreeIsVault ==
    ASSUME IInv
    PROVE  actual_free_balance = Vault
  BY DEF IInv, PendingMatchesQueue, actual_free_balance, Vault

\* What due batches need is the sum the loop has subtracted.
LEMMA DueBatches ==
    ASSUME IInv, NEW last \in state.last_processed_batch .. current_batch.id - 1,
           \A b \in state.last_processed_batch + 1 .. last : releasable(b)
    PROVE  LET R == state.last_processed_batch + 1 .. last IN
           /\ R \in SUBSET (DOMAIN history)
           /\ R \in SUBSET Unreleased(history)
           /\ IsFiniteSet(R)
           /\ SumOver(Required(history), R) \in Nat
           /\ required_total(R) = SumOver(Required(history), R)
<1> DEFINE R == state.last_processed_batch + 1 .. last
<1>1. R \in SUBSET (DOMAIN history) /\ R \in SUBSET Unreleased(history)
  BY DEF releasable, Unreleased
<1> HIDE DEF R
<1>2. current_batch.id \in Nat \ {0} /\ Batches(history, current_batch.id)
  BY HubTypes
<1>3. /\ IsFiniteSet(R)
      /\ SumOver(Required(history), R) \in Nat
      /\ required_total(R) = SumOver(Required(history), R)
  BY <1>1, <1>2, RequiredType DEF required_total, required_amount
<1> QED
  BY <1>1, <1>3 DEF R

\* One due batch more.
LEMMA NextDueBatch ==
    ASSUME IInv, NEW last \in state.last_processed_batch .. current_batch.id - 1,
           \A b \in state.last_processed_batch + 1 .. last : releasable(b),
           releasable(last + 1)
    PROVE  LET lo == state.last_processed_batch + 1 IN
           /\ last + 1 \in state.last_processed_batch .. current_batch.id - 1
           /\ \A b \in lo .. last + 1 : releasable(b)
           /\ required_amount(last + 1) = Required(history)[last + 1]
           /\ Required(history)[last + 1] \in Nat
           /\ SumOver(Required(history), lo .. last + 1)
                 = Required(history)[last + 1]
                     + SumOver(Required(history), lo .. last)
<1> DEFINE lo == state.last_processed_batch + 1
           R == lo .. last
           x == last + 1
<1>1. /\ current_batch.id \in Nat \ {0} /\ Batches(history, current_batch.id)
      /\ DOMAIN history = 1 .. current_batch.id - 1
      /\ state.last_processed_batch \in Nat
  BY HubTypes
<1>2. x \in DOMAIN history
  BY DEF releasable
<1>3. x \in state.last_processed_batch .. current_batch.id - 1
  BY <1>1, <1>2
<1>4. lo .. x = R \cup {x} /\ x \notin R
  BY <1>1
<1>5. \A b \in lo .. x : releasable(b)
  BY <1>4
<1>6. IsFiniteSet(R) /\ R \in SUBSET (DOMAIN history)
  BY DueBatches
<1> HIDE DEF lo, R, x
<1>7. \A b \in DOMAIN history : Required(history)[b] \in Nat
  BY <1>1, <1>6, RequiredType
<1>8. SumOver(Required(history), R \cup {x})
        = Required(history)[x] + SumOver(Required(history), R)
  BY <1>2, <1>4, <1>6, <1>7, SumAdd
<1>9. required_amount(x) = Required(history)[x] /\ Required(history)[x] \in Nat
  BY <1>2, <1>7 DEF required_amount, Required
<1> QED
  BY <1>3, <1>4, <1>5, <1>8, <1>9 DEF lo, R, x

\* The loop stops after an affordable batch, or the next one is affordable.
LEMMA LoopStep ==
    ASSUME IInv, NEW last \in state.last_processed_batch .. current_batch.id - 1,
           Affordable(last)
    PROVE  \/ \E left \in 0 .. hub_balance : process_withdraw_rate(last, left)
           \/ /\ last + 1 \in state.last_processed_batch .. current_batch.id - 1
              /\ Affordable(last + 1)
<1> DEFINE lo == state.last_processed_batch + 1
           sum == SumOver(Required(history), lo .. last)
           u == state.unclaimed_unstaked_balance
           left == Vault - u - sum
<1>1. /\ \A b \in lo .. last : releasable(b)
      /\ sum <= Vault - u
  BY DEF Affordable
<1>2. sum \in Nat /\ required_total(lo .. last) = sum
  BY <1>1, DueBatches
<1>3. u \in Nat /\ Vault \in Nat /\ hub_balance \in Nat /\ queue.delegate \in Nat
      /\ u <= Vault
  BY HubTypes
<1>4. Vault <= hub_balance
  BY <1>3 DEF Vault
<1>5. left \in 0 .. hub_balance
  <2> HIDE DEF sum, u
  <2> QED
    BY <1>1, <1>2, <1>3, <1>4
<1>6. actual_free_balance = Vault
  BY FreeIsVault
<1>7. CASE releasable(last + 1) => left < required_amount(last + 1)
  BY <1>1, <1>2, <1>3, <1>5, <1>6, <1>7
  DEF process_withdraw_rate, get_unprocessed_histories
<1>8. CASE releasable(last + 1) /\ ~(left < required_amount(last + 1))
  <2> DEFINE r == Required(history)[last + 1]
  <2>1. /\ last + 1 \in state.last_processed_batch .. current_batch.id - 1
        /\ \A b \in lo .. last + 1 : releasable(b)
        /\ required_amount(last + 1) = r /\ r \in Nat
        /\ SumOver(Required(history), lo .. last + 1) = r + sum
    BY <1>1, <1>8, NextDueBatch
  <2>2. r + sum <= Vault - u
    <3>1. ~(left < r)
      BY <1>8, <2>1
    <3> HIDE DEF r, sum, u
    <3> QED
      BY <1>2, <1>3, <2>1, <3>1
  <2> QED
    BY <2>1, <2>2 DEF Affordable
<1> QED
  BY <1>7, <1>8

\* The release loop stops, whatever has been closed and has come back.
LEMMA LoopStops ==
    ASSUME IInv
    PROVE  \E last \in state.last_processed_batch .. current_batch.id - 1,
              left \in 0 .. hub_balance : process_withdraw_rate(last, left)
<1> DEFINE p == state.last_processed_batch
           n == current_batch.id - 1 - p
           G == {i \in 0 .. n : Affordable(p + i)}
<1>1. SUFFICES ASSUME \A last \in p .. current_batch.id - 1 :
                         ~\E left \in 0 .. hub_balance :
                             process_withdraw_rate(last, left)
               PROVE  FALSE
  OBVIOUS
<1>2. /\ p \in Nat /\ current_batch.id \in Nat \ {0} /\ p < current_batch.id
      /\ state.unclaimed_unstaked_balance \in Nat /\ Vault \in Nat
      /\ state.unclaimed_unstaked_balance <= Vault
  BY HubTypes DEF IInv, ReleasedIsPrefix
<1>3. n \in Nat
  BY <1>2
<1>4. 0 \in G
  <2>1. p + 1 .. p + 0 = {}
    BY <1>2
  <2>2. SumOver(Required(history), p + 1 .. p + 0) = 0
    BY <2>1, SumEmpty
  <2>3. Affordable(p + 0)
    BY <1>2, <2>1, <2>2 DEF Affordable
  <2> QED
    BY <1>3, <2>3
<1>5. ASSUME NEW i \in 1 .. n, i - 1 \in G
      PROVE  i \in G
  <2>1. p + (i - 1) \in p .. current_batch.id - 1 /\ Affordable(p + (i - 1))
    BY <1>2, <1>5
  <2>2. Affordable(p + (i - 1) + 1)
    BY <1>1, <2>1, LoopStep
  <2>3. p + (i - 1) + 1 = p + i
    BY <1>2
  <2> QED
    BY <2>2, <2>3
<1>6. n \in G
  <2> HIDE DEF G
  <2>1. 0 .. n \subseteq G
    BY <1>3, <1>4, <1>5, RangeInduction
  <2> QED
    BY <1>3, <2>1
<1>7. p + n = current_batch.id - 1 /\ p + n \in p .. current_batch.id - 1
  BY <1>2
<1>8. p + n + 1 \in p .. current_batch.id - 1
  BY <1>1, <1>6, <1>7, LoopStep
<1> QED
  BY <1>2, <1>7, <1>8

\* The history after a release is the same batches, those up to `last` marked.
LEMMA ReleasedHistory ==
    ASSUME IInv, NEW last \in state.last_processed_batch .. current_batch.id - 1,
           \A b \in state.last_processed_batch + 1 .. last : releasable(b)
    PROVE  LET R == state.last_processed_batch + 1 .. last
               h == released_history(last)
           IN  /\ SameBatches(history, h)
               /\ Unreleased(h) = Unreleased(history) \ R
               /\ \A b \in DOMAIN history : h[b].released <=> b <= last
<1> DEFINE R == state.last_processed_batch + 1 .. last
           h == released_history(last)
<1>1. /\ history \in [1 .. current_batch.id - 1 -> History]
      /\ state.last_processed_batch \in Nat
      /\ current_batch.id \in Nat \ {0}
      /\ \A b \in DOMAIN history :
            history[b].released <=> b <= state.last_processed_batch
  BY DEF IInv, TypeOK, State, ReleasedIsPrefix
<1>2. R \in SUBSET (DOMAIN history)
  BY DueBatches
<1>3. DOMAIN h = DOMAIN history
  BY DEF released_history
<1>4. ASSUME NEW b \in DOMAIN history
      PROVE  /\ h[b].lst_token_amount = history[b].lst_token_amount
             /\ h[b].lst_withdraw_rate = history[b].lst_withdraw_rate
             /\ h[b].lst_applied_exchange_rate
                   = history[b].lst_applied_exchange_rate
             /\ h[b].released <=> b \in R \/ history[b].released
  <2>1. history[b] \in History
    BY <1>1
  <2>2. h[b] = IF b \in R THEN [history[b] EXCEPT !.released = TRUE]
               ELSE history[b]
    BY DEF released_history
  <2> HIDE DEF R, h
  <2> QED
    BY <2>1, <2>2 DEF History
<1>5. \A b \in DOMAIN history : h[b].released <=> b <= last
  <2> TAKE b \in DOMAIN history
  <2>1. b \in Nat
    BY <1>1
  <2> HIDE DEF h
  <2> QED
    BY <1>1, <1>4, <2>1
<1> HIDE DEF R, h
<1>6. SameBatches(history, h)
  BY <1>3, <1>4 DEF SameBatches
<1>7. Unreleased(h) = Unreleased(history) \ R
  BY <1>3, <1>4 DEF Unreleased
<1> QED
  BY <1>5, <1>6, <1>7 DEF R, h

\* The entries of a user that are released in h.
UserKeys(u, h) == {k \in ReleasedKeys(wait_list, h) : k[1] = u}

\* WithdrawUnstaked pays all of them.
LEMMA OwnKeysPaid ==
    ASSUME IInv, NEW u \in Users, NEW h
    PROVE  PaidKeys(u, user_batches(u), h) = UserKeys(u, h)
<1> DEFINE s == user_batches(u)
<1>1. /\ DOMAIN s = {k[2] : k \in {k \in DOMAIN wait_list : k[1] = u}}
      /\ \A b \in DOMAIN s : s[b] = b
  BY DEF user_batches
<1>2. \A k \in DOMAIN wait_list : k = <<k[1], k[2]>>
  BY HubTypes
<1> HIDE DEF s
<1>3. ASSUME NEW k \in PaidKeys(u, s, h)
      PROVE  k \in UserKeys(u, h)
  <2>1. k \in ReleasedKeys(wait_list, h)
    BY PaidAreReleased
  <2>2. k[1] = u
    BY DEF PaidKeys
  <2> QED
    BY <2>1, <2>2 DEF UserKeys
<1>4. ASSUME NEW k \in UserKeys(u, h)
      PROVE  k \in PaidKeys(u, s, h)
  <2>1. /\ k \in DOMAIN wait_list /\ k[1] = u
        /\ k[2] \in DOMAIN h /\ h[k[2]].released
    BY DEF UserKeys, ReleasedKeys
  <2>2. k = <<u, k[2]>>
    BY <1>2, <2>1
  <2>3. k[2] \in DOMAIN s /\ s[k[2]] = k[2]
    BY <1>1, <2>1
  <2>4. k[2] \in finished(u, s, h)
    BY <2>1, <2>2, <2>3 DEF finished
  <2> QED
    BY <2>2, <2>3, <2>4 DEF PaidKeys
<1> QED
  BY <1>3, <1>4 DEF s

\* Wherever the loop stops, the user's released entries are paid: none of the
\* checks of the withdrawal fails.
LEMMA WithdrawalSucceeds ==
    ASSUME IInv, QInv, Covered, BatchIdsDistinct, ~params.paused,
           NEW u \in Users,
           NEW last \in state.last_processed_batch .. current_batch.id - 1,
           NEW left \in 0 .. hub_balance, process_withdraw_rate(last, left),
           NEW K \in SUBSET UserKeys(u, released_history(last)),
           SumOver(Value(wait_list, history), K) > 0
    PROVE  WithdrawalPaysAtLeast(u, SumOver(Value(wait_list, history), K))
<1> DEFINE R == state.last_processed_batch + 1 .. last
           h == released_history(last)
           V == Value(wait_list, history)
           All == ReleasedKeys(wait_list, h)
           Own == UserKeys(u, h)
           s == user_batches(u)
           paid == finished_amount(u, s, h)
           now == SumOver(Required(history), R)
           c == state.unclaimed_unstaked_balance
<1>1. /\ \A b \in R : releasable(b)
      /\ left = actual_free_balance - c - required_total(R)
  BY DEF process_withdraw_rate, get_unprocessed_histories
<1>2. /\ R \in SUBSET Unreleased(history)
      /\ required_total(R) = now /\ now \in Nat
  BY <1>1, DueBatches
<1>3. actual_free_balance = Vault
  BY FreeIsVault
<1>4. Vault \in Nat /\ c \in Nat /\ left \in Nat
  BY HubTypes
<1>5. SameBatches(history, h) /\ Unreleased(h) = Unreleased(history) \ R
  BY <1>1, ReleasedHistory
<1> HIDE DEF R, h
<1>6. /\ IsFiniteSet(All)
      /\ \A k \in All : V[k] \in Nat
      /\ SumOver(V, All) <= c + now
  BY <1>2, <1>5, ReleasedWorth
<1>7. PaidKeys(u, s, h) = Own
  BY OwnKeysPaid
<1>8. paid = SumOver(V, Own)
  <2>1. s \in Selections(u)
    BY DEF Selections
  <2> HIDE DEF s
  <2> QED
    BY <1>5, <1>7, <2>1, PaidAmount
<1>9. Own \in SUBSET All /\ K \in SUBSET Own
  BY DEF UserKeys, h
<1> HIDE DEF V, All, Own, s, paid, now, c
<1>10. /\ IsFiniteSet(Own) /\ IsFiniteSet(K)
       /\ IsFiniteSet(All \ Own) /\ IsFiniteSet(Own \ K)
  BY <1>6, <1>9, FS_Subset
<1>11. /\ SumOver(V, Own) \in Nat /\ SumOver(V, K) \in Nat
       /\ SumOver(V, All \ Own) \in Nat /\ SumOver(V, Own \ K) \in Nat
  BY <1>6, <1>9, <1>10, SumType
<1>12. SumOver(V, All) = SumOver(V, Own) + SumOver(V, All \ Own)
  BY <1>6, <1>9, SumSplit
<1>13. SumOver(V, Own) = SumOver(V, K) + SumOver(V, Own \ K)
  BY <1>6, <1>9, <1>10, SumSplit
<1>14. SumOver(V, K) > 0
  BY DEF V
<1>15. paid \in Nat /\ paid >= SumOver(V, K) /\ paid > 0
  BY <1>8, <1>11, <1>13, <1>14
<1>16. paid <= c + now
  BY <1>2, <1>4, <1>6, <1>8, <1>11, <1>12
<1>17. paid \in 1 .. actual_free_balance - left
  BY <1>1, <1>2, <1>3, <1>4, <1>15, <1>16
<1>18. withdraw_succeeds(u, user_batches(u), last, left)
  BY <1>17 DEF withdraw_succeeds, paid, s, h
<1>19. finished_amount(u, user_batches(u), released_history(last))
         >= SumOver(Value(wait_list, history), K)
  BY <1>15 DEF paid, s, h, V
<1> QED
  BY <1>18, <1>19 DEF WithdrawalPaysAtLeast

\* What some of a user's batches are worth, taken over any set of items that
\* name each batch once, is the worth of the keys.
LEMMA ItemsWorth ==
    ASSUME IInv, QInv, NEW u \in Users, NEW I, NEW id,
           DOMAIN id = I,
           \A i, j \in I : id[i] = id[j] => i = j,
           \A i \in I : <<u, id[i]>> \in DOMAIN wait_list
                        /\ id[i] \in DOMAIN history
    PROVE  SumFunction([i \in I |-> entry_amount(u, id[i])])
             = SumOver(Value(wait_list, history), {<<u, id[i]>> : i \in I})
<1> DEFINE K == {<<u, id[i]>> : i \in I}
           m == [i \in I |-> <<u, id[i]>>]
           g == [i \in I |-> entry_amount(u, id[i])]
           V == Value(wait_list, history)
<1>1. m \in Bijection(I, K)
  <2>1. m \in [I -> K]
    OBVIOUS
  <2>2. \A i, j \in I : m[i] = m[j] => i = j
    OBVIOUS
  <2>3. \A k \in K : \E i \in I : m[i] = k
    OBVIOUS
  <2> QED
    BY <2>1, <2>2, <2>3 DEF Bijection, Injection, Surjection, IsInjective
<1>2. K \in SUBSET {k \in DOMAIN wait_list : k[2] \in DOMAIN history}
  OBVIOUS
<1>3. \A i \in I : g[i] = V[m[i]]
  <2> TAKE i \in I
  <2>1. m[i] = <<u, id[i]>> /\ m[i][2] = id[i] /\ m[i] \in DOMAIN wait_list
    OBVIOUS
  <2> QED
    BY <2>1 DEF Value, entry_amount
<1>4. DOMAIN g = I
  OBVIOUS
<1> HIDE DEF K, m, g
<1>5. IsFiniteSet(K) /\ \A k \in K : V[k] \in Nat
  BY <1>2, HubTypes, ValueType DEF QInv
<1> HIDE DEF V
<1>6. SumOver(g, I) = SumOver(V, K)
  BY <1>1, <1>3, <1>5, SumReindex
<1>7. IsFiniteSet(I)
  <2>1. ExistsBijection(K, I)
    BY <1>1, Fun_ExistsBijSymmetric DEF ExistsBijection
  <2> QED
    BY <1>5, <2>1, FS_Bijection
<1>8. \A i \in I : g[i] \in Nat
  <2>1. \A i \in I : m[i] \in K
    BY <1>1 DEF Bijection, Injection
  <2> QED
    BY <1>3, <1>5, <2>1
<1>9. SumFunctionOnSet(g, I) = SumOver(g, I)
  BY <1>7, <1>8, SumFunctionIsSum
<1>10. SumFunction(g) = SumOver(V, K)
  BY <1>4, <1>6, <1>9 DEF SumFunction
<1> QED
  BY <1>10 DEF g, V, K

\* The requests shown as released are the user's released keys.
LEMMA ShownAsReleased ==
    ASSUME IInv, QInv, NEW u \in Users
    PROVE  LET released == {r \in query_unstake_requests(u) : r.released}
               K == {<<u, r.batch_id>> : r \in released}
           IN  /\ K \in SUBSET UserKeys(u, history)
               /\ SumFunction([r \in released |-> entry_amount(u, r.batch_id)])
                     = SumOver(Value(wait_list, history), K)
<1> DEFINE released == {r \in query_unstake_requests(u) : r.released}
           id == [r \in released |-> r.batch_id]
           K == {<<u, id[r]>> : r \in released}
<1>1. ASSUME NEW r \in released
      PROVE  /\ r.batch_id \in DOMAIN history
             /\ <<u, r.batch_id>> \in DOMAIN wait_list
             /\ history[r.batch_id].released
             /\ r = [batch_id |-> r.batch_id,
                     lst_amount |-> wait_list[<<u, r.batch_id>>],
                     withdraw_exchange_rate |->
                         history[r.batch_id].lst_withdraw_rate,
                     applied_exchange_rate |->
                         history[r.batch_id].lst_applied_exchange_rate,
                     time |-> history[r.batch_id].time,
                     released |-> history[r.batch_id].released]
  <2>1. r.released
    OBVIOUS
  <2>2. PICK b \in page(entries(u), 1, current_batch.id) \cap DOMAIN history :
           r = [batch_id |-> b, lst_amount |-> wait_list[<<u, b>>],
                withdraw_exchange_rate |-> history[b].lst_withdraw_rate,
                applied_exchange_rate |-> history[b].lst_applied_exchange_rate,
                time |-> history[b].time, released |-> history[b].released]
    BY DEF query_unstake_requests, get_unstake_requests
  <2>3. r.batch_id = b /\ r.released = history[b].released
    BY <2>2
  <2>4. b \in entries(u)
    BY <2>2 DEF page
  <2> QED
    BY <2>1, <2>2, <2>3, <2>4 DEF entries
<1>2. \A r, q \in released : r.batch_id = q.batch_id => r = q
  BY <1>1
<1> HIDE DEF released
<1>3. /\ DOMAIN id = released
      /\ \A r \in released : id[r] = r.batch_id
  OBVIOUS
<1>4. /\ \A r, q \in released : id[r] = id[q] => r = q
      /\ \A r \in released : <<u, id[r]>> \in DOMAIN wait_list
                             /\ id[r] \in DOMAIN history
  BY <1>1, <1>2, <1>3
<1>5. K = {<<u, r.batch_id>> : r \in released}
  BY <1>3
<1>6. [r \in released |-> entry_amount(u, id[r])]
        = [r \in released |-> entry_amount(u, r.batch_id)]
  BY <1>3
<1> HIDE DEF id
<1>7. SumFunction([r \in released |-> entry_amount(u, id[r])])
        = SumOver(Value(wait_list, history), K)
  BY <1>3, <1>4, ItemsWorth
<1>8. ASSUME NEW r \in released
      PROVE  <<u, r.batch_id>> \in UserKeys(u, history)
  BY <1>1 DEF UserKeys, ReleasedKeys
<1>9. K \in SUBSET UserKeys(u, history)
  BY <1>5, <1>8
<1> QED
  BY <1>5, <1>6, <1>7, <1>9 DEF released

\* What is released in the stored history is released after the loop too.
LEMMA StaysReleased ==
    ASSUME IInv, NEW u,
           NEW last \in state.last_processed_batch .. current_batch.id - 1,
           NEW left, process_withdraw_rate(last, left)
    PROVE  UserKeys(u, history) \subseteq UserKeys(u, released_history(last))
<1>1. \A b \in state.last_processed_batch + 1 .. last : releasable(b)
  BY DEF process_withdraw_rate, get_unprocessed_histories
<1> DEFINE h == released_history(last)
<1>2. /\ DOMAIN h = DOMAIN history
      /\ \A b \in DOMAIN history : h[b].released <=> b <= last
  BY <1>1, ReleasedHistory DEF SameBatches
<1>3. \A b \in DOMAIN history : history[b].released => b <= last
  <2>1. /\ state.last_processed_batch \in Nat /\ current_batch.id \in Nat \ {0}
        /\ DOMAIN history = 1 .. current_batch.id - 1
    BY HubTypes
  <2>2. \A b \in DOMAIN history :
           history[b].released <=> b <= state.last_processed_batch
    BY DEF IInv, ReleasedIsPrefix
  <2> QED
    BY <2>1, <2>2
<1> HIDE DEF h
<1>4. UserKeys(u, history) \subseteq UserKeys(u, h)
  BY <1>2, <1>3 DEF UserKeys, ReleasedKeys
<1> QED
  BY <1>4 DEF h

\* What a user's requests show as released is paid by a withdrawal at once,
\* even while other batches unbond or wait for coins, if no list of batches
\* names one twice (hub.rs:80, unstake.rs:437-503).
THEOREM ReleasedIsWithdrawable ==
    ASSUME BatchIdsDistinct
    PROVE  Spec => []ReleasedWithdrawable
<1>1. ASSUME IInv, QInv, Covered
      PROVE  ReleasedWithdrawable
  <2> SUFFICES
        ASSUME NEW u \in Users
        PROVE  LET released == {r \in query_unstake_requests(u) : r.released}
                   amount == SumFunction([r \in released |->
                                             entry_amount(u, r.batch_id)])
               IN  ~params.paused /\ amount > 0 =>
                      WithdrawalPaysAtLeast(u, amount)
    BY DEF ReleasedWithdrawable
  <2> DEFINE released == {r \in query_unstake_requests(u) : r.released}
             amount == SumFunction([r \in released |->
                                       entry_amount(u, r.batch_id)])
             K == {<<u, r.batch_id>> : r \in released}
  <2>1. /\ K \in SUBSET UserKeys(u, history)
        /\ amount = SumOver(Value(wait_list, history), K)
    BY <1>1, ShownAsReleased
  <2> HIDE DEF released, amount, K
  <2>2. ASSUME ~params.paused, amount > 0
        PROVE  WithdrawalPaysAtLeast(u, amount)
    <3>1. PICK last \in state.last_processed_batch .. current_batch.id - 1,
               left \in 0 .. hub_balance : process_withdraw_rate(last, left)
      BY <1>1, LoopStops
    <3>2. K \in SUBSET UserKeys(u, released_history(last))
      BY <1>1, <2>1, <3>1, StaysReleased
    <3> QED
      BY <1>1, <2>1, <2>2, <3>1, <3>2, WithdrawalSucceeds
  <2> QED
    BY <2>2 DEF released, amount
<1>2. IInv /\ QInv /\ Covered => ReleasedWithdrawable
  BY <1>1
<1> QED
  BY <1>2, Invariance, QueueInvariance, CoveredInvariance, PTL

\* Batches are closed one after the other: a later one is not older, and none
\* is closed in the future.
TimesOrdered ==
    \A b \in DOMAIN history :
        /\ history[b].time <= time
        /\ \A c \in DOMAIN history : b <= c => history[b].time <= history[c].time

\* Block time does not go back, and no handler moves it.
LEMMA TimeGoesOn ==
    ASSUME IInv, [Next]_vars
    PROVE  time' \in Nat /\ time' >= time
<1>1. time \in Nat
  BY DEF IInv, TypeOK, ChainTypeOK
<1>2. CASE ChainStep
  <2>1. CASE NextBlock
    BY <1>1, <2>1, ChainAssumption DEF NextBlock
  <2>2. CASE ChangeValidators \/ Slash \/ SlashUnbonding
             \/ CompleteUnbonding \/ Donate
    BY <1>1, <2>2
    DEF ChangeValidators, Slash, SlashUnbonding, CompleteUnbonding, Donate
  <2> QED
    BY <1>2, <2>1, <2>2 DEF ChainStep, ChainNext
<1>3. CASE HubNext \/ UNCHANGED vars
  <2>1. CASE \/ CheckSlashing \/ UpdateGlobalIndex \/ ProcessUndelegations
             \/ ProcessWithdrawRequests \/ UpdateParams \/ UNCHANGED vars
    BY <1>1, <2>1 DEF CheckSlashing, UpdateGlobalIndex, execute_stake,
         ProcessUndelegations, ProcessWithdrawRequests, UpdateParams, vars,
         chainVars
  <2>2. ASSUME NEW user \in Users,
               \/ Stake(user) \/ Unstake(user) \/ TokenBurn(user)
               \/ WithdrawUnstaked(user) \/ WithdrawUnstakedForBatches(user)
        PROVE  time' = time
    BY <2>2 DEF Stake, execute_stake, Unstake, TokenBurn, WithdrawUnstaked,
         WithdrawUnstakedForBatches, execute_withdraw_unstaked_impl, chainVars
  <2> QED
    BY <1>1, <1>3, <2>1, <2>2 DEF HubNext
<1> QED
  BY <1>2, <1>3 DEF Next

\* A batch that enters the history carries the time of the block.
LEMMA ClosedNow ==
    ASSUME IInv, IInv', [Next]_vars
    PROVE  \A b \in DOMAIN history' \ DOMAIN history : history'[b].time = time
<1> SUFFICES ASSUME NEW b \in DOMAIN history' \ DOMAIN history
             PROVE  history'[b].time = time
  OBVIOUS
<1>1. /\ current_batch.id \in Nat \ {0}
      /\ current_batch \in [id : Nat \ {0}, requested : Nat]
      /\ DOMAIN history = 1 .. current_batch.id - 1
  BY HubTypes
<1>2. DOMAIN history' = 1 .. current_batch'.id - 1
  BY DEF IInv, TypeOK
<1>3. ASSUME NEW batch, batch.id = current_batch.id, BatchDealtWith(batch)
      PROVE  history'[b].time = time
  <2>1. CASE UNCHANGED history
    BY <2>1
  <2>2. CASE /\ current_batch' = [id |-> batch.id + 1, requested |-> 0]
             /\ history'[batch.id].time = time
    <3>1. b = batch.id
      BY <1>1, <1>2, <1>3, <2>2
    <3> QED
      BY <2>2, <3>1
  <2> QED
    BY <1>3, <2>1, <2>2 DEF BatchDealtWith
<1>4. CASE Closes
  BY <1>3, <1>4 DEF Closes
<1>5. CASE Requests
  <2>1. PICK amount \in Nat :
           BatchDealtWith([current_batch EXCEPT !.requested = @ + amount])
    BY <1>5 DEF Requests
  <2>2. [current_batch EXCEPT !.requested = @ + amount].id = current_batch.id
    BY <1>1
  <2> QED
    BY <1>3, <2>1, <2>2
<1>6. ~QuietForQueue
  BY DEF QuietForQueue
<1>7. ASSUME NEW last, NEW left, ReleasesUpTo(last, left)
      PROVE  FALSE
  BY <1>7 DEF ReleasesUpTo, SameBatches
<1>8. ~Releases
  BY <1>7 DEF Releases
<1>9. ASSUME NEW user, NEW selection, Pays(user, selection)
      PROVE  FALSE
  BY <1>7, <1>9 DEF Pays
<1> QED
  BY <1>4, <1>5, <1>6, <1>8, <1>9, StepKinds

\* The order is kept.
LEMMA NextTimes == IInv /\ IInv' /\ TimesOrdered /\ [Next]_vars => TimesOrdered'
<1> SUFFICES ASSUME IInv, IInv', TimesOrdered, [Next]_vars PROVE TimesOrdered'
  OBVIOUS
<1>1. /\ current_batch.id \in Nat \ {0}
      /\ DOMAIN history = 1 .. current_batch.id - 1
      /\ history \in [1 .. current_batch.id - 1 -> History]
      /\ time \in Nat
  BY DEF IInv, TypeOK, ChainTypeOK
<1>2. DOMAIN history' = 1 .. current_batch'.id - 1 /\ current_batch'.id \in Nat
  BY DEF IInv, TypeOK
<1>3. time' \in Nat /\ time' >= time
  BY TimeGoesOn
<1>4. ASSUME NEW b \in DOMAIN history
      PROVE  /\ history'[b].time = history[b].time
             /\ history[b].time \in Nat /\ history[b].time <= time
  <2>1. history[b] \in History
    BY <1>1
  <2>2. \/ history'[b] = history[b]
        \/ history'[b] = [history[b] EXCEPT !.released = TRUE]
    BY NextHistoryStep DEF HistoryStep
  <2>3. history[b].time <= time
    BY DEF TimesOrdered
  <2> QED
    BY <2>1, <2>2, <2>3 DEF History
<1>5. \A b \in DOMAIN history' \ DOMAIN history : history'[b].time = time
  BY ClosedNow
<1> SUFFICES ASSUME NEW b \in DOMAIN history'
             PROVE  /\ history'[b].time <= time'
                    /\ \A c \in DOMAIN history' :
                          b <= c => history'[b].time <= history'[c].time
  BY DEF TimesOrdered
<1>6. history'[b].time <= time /\ history'[b].time \in Nat
  BY <1>1, <1>4, <1>5
<1>7. ASSUME NEW c \in DOMAIN history', b <= c
      PROVE  history'[b].time <= history'[c].time
  <2>1. CASE c \in DOMAIN history
    <3>1. b \in DOMAIN history
      BY <1>1, <1>2, <1>7, <2>1
    <3>2. history[b].time <= history[c].time
      BY <1>7, <2>1, <3>1 DEF TimesOrdered
    <3> QED
      BY <1>4, <2>1, <3>1, <3>2
  <2>2. CASE c \notin DOMAIN history
    BY <1>5, <1>6, <2>2
  <2> QED
    BY <2>1, <2>2
<1> QED
  BY <1>1, <1>3, <1>6, <1>7

\* Batches are in the order in which they were closed, always.
LEMMA TimesInvariance == Spec => []TimesOrdered
<1>1. Init => TimesOrdered
  BY DEF Init, HubInit, TimesOrdered
<1> QED
  BY <1>1, Invariance, NextTimes, PTL DEF Spec

\* Once the undelegated coins are back, the loop takes every batch whose
\* unstaking period has passed.
LEMMA LoopTakesAged ==
    ASSUME IInv, QInv, TimesOrdered, NothingUnbonding,
           NEW last \in state.last_processed_batch .. current_batch.id - 1,
           NEW left, process_withdraw_rate(last, left),
           NEW b \in DOMAIN history, history[b].time <= unstake_cutoff_time
    PROVE  b <= last
<1> DEFINE lo == state.last_processed_batch + 1
           sum == SumOver(Required(history), lo .. last)
           U == Unreleased(history)
           c == state.unclaimed_unstaked_balance
           r == Required(history)[last + 1]
<1>1. SUFFICES ASSUME b > last PROVE FALSE
  <2>1. b \in Int /\ last \in Int
    BY HubTypes
  <2> QED
    BY <2>1
<1>2. /\ \A x \in lo .. last : releasable(x)
      /\ left = actual_free_balance - c - required_total(lo .. last)
      /\ releasable(last + 1) => left < required_amount(last + 1)
  BY DEF process_withdraw_rate, get_unprocessed_histories
<1>3. /\ current_batch.id \in Nat \ {0} /\ Batches(history, current_batch.id)
      /\ DOMAIN history = 1 .. current_batch.id - 1
      /\ state.last_processed_batch \in Nat /\ Vault \in Nat /\ c \in Nat
  BY HubTypes
\* The batch after `last` is due as well: it is no younger than b.
<1>4. releasable(last + 1)
  <2>1. last + 1 \in DOMAIN history /\ last + 1 <= b
    BY <1>1, <1>3
  <2>2. history[last + 1].time <= history[b].time
    BY <2>1 DEF TimesOrdered
  <2>3. history[last + 1].time \in Nat /\ history[b].time \in Nat
    BY <1>3, <2>1 DEF Batches, History
  <2>4. unstake_cutoff_time \in Int
    BY DEF unstake_cutoff_time, IInv, TypeOK, ChainTypeOK
  <2>5. history[last + 1].time <= unstake_cutoff_time
    BY <2>2, <2>3, <2>4
  <2>6. ~history[last + 1].released
    <3>1. history[last + 1].released
             <=> last + 1 <= state.last_processed_batch
      BY <2>1 DEF IInv, ReleasedIsPrefix
    <3> QED
      BY <1>3, <3>1
  <2> QED
    BY <2>1, <2>5, <2>6 DEF releasable
<1>5. /\ last + 1 \in state.last_processed_batch .. current_batch.id - 1
      /\ \A x \in lo .. last + 1 : releasable(x)
      /\ required_amount(last + 1) = r /\ r \in Nat
      /\ SumOver(Required(history), lo .. last + 1) = r + sum
  BY <1>2, <1>4, NextDueBatch
<1>6. required_total(lo .. last) = sum /\ sum \in Nat
  BY <1>2, DueBatches
\* But the coins for all unreleased batches are there.
<1>7. SumOver(Required(history), U) <= Vault - c
  <2>1. Backing = Vault
    BY <1>3 DEF Backing, NothingUnbonding
  <2> QED
    BY <2>1 DEF QInv, Funded
<1>8. r + sum <= SumOver(Required(history), U)
  <2> DEFINE R == lo .. last + 1
  <2>1. R \in SUBSET U
    BY <1>5, DueBatches
  <2>2. U \in SUBSET (DOMAIN history)
    BY DEF Unreleased
  <2>3. SumOver(Required(history), R) = r + sum
    BY <1>5
  <2> HIDE DEF R, U, r, sum
  <2>4. IsFiniteSet(U) /\ \A x \in U : Required(history)[x] \in Nat
    BY <1>3, <2>2, RequiredType
  <2>5. SumOver(Required(history), U)
          = SumOver(Required(history), R) + SumOver(Required(history), U \ R)
    BY <2>1, <2>4, SumSplit
  <2>6. /\ SumOver(Required(history), R) \in Nat
        /\ SumOver(Required(history), U \ R) \in Nat
    <3>1. IsFiniteSet(R) /\ IsFiniteSet(U \ R)
      BY <2>1, <2>4, FS_Subset
    <3>2. \A x \in R : Required(history)[x] \in Nat
      BY <2>1, <2>4
    <3>3. \A x \in U \ R : Required(history)[x] \in Nat
      BY <2>4
    <3> QED
      BY <3>1, <3>2, <3>3, SumType
  <2> QED
    BY <2>3, <2>5, <2>6
<1>9. left < r /\ left = Vault - c - sum
  BY <1>2, <1>4, <1>5, <1>6, FreeIsVault
<1>10. SumOver(Required(history), U) \in Nat
  <2>1. U \in SUBSET (DOMAIN history)
    BY DEF Unreleased
  <2> QED
    BY <1>3, <2>1, RequiredType
<1> HIDE DEF sum, U, c, r
<1> QED
  BY <1>3, <1>5, <1>6, <1>7, <1>8, <1>9, <1>10

\* Batches that are due do not wait for more than the coins: at any moment at
\* which every undelegated coin is back, one call of ProcessWithdrawRequests
\* releases all of them (unstake.rs:298-366).
AgedBatchesReleasable ==
    NothingUnbonding =>
        \E last \in state.last_processed_batch .. current_batch.id - 1,
           left \in 0 .. hub_balance :
            /\ process_withdraw_rate(last, left)
            /\ \A b \in DOMAIN history :
                  history[b].time <= unstake_cutoff_time => b <= last

\* The release never gets stuck: what must eventually happen can happen, for
\* every value of the constants (the fairness is left to the runs).
THEOREM AgedReleasable == Spec => []AgedBatchesReleasable
<1>1. ASSUME IInv, QInv, TimesOrdered
      PROVE  AgedBatchesReleasable
  <2> SUFFICES
        ASSUME NothingUnbonding
        PROVE  \E last \in state.last_processed_batch .. current_batch.id - 1,
                  left \in 0 .. hub_balance :
                   /\ process_withdraw_rate(last, left)
                   /\ \A b \in DOMAIN history :
                         history[b].time <= unstake_cutoff_time => b <= last
    BY DEF AgedBatchesReleasable
  <2>1. PICK last \in state.last_processed_batch .. current_batch.id - 1,
             left \in 0 .. hub_balance : process_withdraw_rate(last, left)
    BY <1>1, LoopStops
  <2>2. \A b \in DOMAIN history :
           history[b].time <= unstake_cutoff_time => b <= last
    BY <1>1, <2>1, LoopTakesAged
  <2> QED
    BY <2>1, <2>2
<1>2. IInv /\ QInv /\ TimesOrdered => AgedBatchesReleasable
  BY <1>1
<1> QED
  BY <1>2, Invariance, QueueInvariance, TimesInvariance, PTL

\* The withdrawable amount a user is told is paid in full by a withdrawal as
\* soon as the undelegated coins are back, whoever else has been paid, has
\* staked or donated meanwhile, if no list of batches names one twice
\* (query.rs:68-84 against unstake.rs:437-503).
THEOREM EstimateIsHonoured ==
    ASSUME BatchIdsDistinct
    PROVE  Spec => []EstimateHonoured
<1>1. ASSUME IInv, QInv, Covered, TimesOrdered
      PROVE  EstimateHonoured
  <2> SUFFICES ASSUME NEW u \in Users, NothingUnbonding, ~params.paused,
                      query_withdrawable_unstaked(u) > 0
               PROVE  WithdrawalPaysAtLeast(u, query_withdrawable_unstaked(u))
    BY DEF EstimateHonoured
  <2> DEFINE I == {b \in entries(u) \cap DOMAIN history :
                      history[b].time < unstake_cutoff_time}
             id == [b \in I |-> b]
             K == {<<u, id[b]>> : b \in I}
  <2>1. query_withdrawable_unstaked(u)
          = SumFunction([b \in I |-> entry_amount(u, id[b])])
    <3>1. [b \in I |-> entry_amount(u, id[b])] = [b \in I |-> entry_amount(u, b)]
      OBVIOUS
    <3> QED
      BY <3>1 DEF query_withdrawable_unstaked, query_get_finished_amount
  <2>2. /\ DOMAIN id = I
        /\ \A b, d \in I : id[b] = id[d] => b = d
        /\ \A b \in I : <<u, id[b]>> \in DOMAIN wait_list
                        /\ id[b] \in DOMAIN history
    BY DEF entries
  <2>3. \A b \in I : history[b].time <= unstake_cutoff_time /\ id[b] = b
    <3>1. \A b \in I : history[b].time \in Nat
      BY <1>1, HubTypes DEF Batches, History
    <3>2. unstake_cutoff_time \in Int
      BY <1>1 DEF unstake_cutoff_time, IInv, TypeOK, ChainTypeOK
    <3> QED
      BY <3>1, <3>2
  <2> HIDE DEF I, id
  <2>4. query_withdrawable_unstaked(u) = SumOver(Value(wait_list, history), K)
    BY <1>1, <2>1, <2>2, ItemsWorth
  <2>5. PICK last \in state.last_processed_batch .. current_batch.id - 1,
             left \in 0 .. hub_balance : process_withdraw_rate(last, left)
    BY <1>1, LoopStops
  <2>6. \A b \in I : b <= last
    BY <1>1, <2>2, <2>3, <2>5, LoopTakesAged
  <2>7. /\ DOMAIN released_history(last) = DOMAIN history
        /\ \A b \in DOMAIN history :
              released_history(last)[b].released <=> b <= last
    <3>1. \A b \in state.last_processed_batch + 1 .. last : releasable(b)
      BY <2>5 DEF process_withdraw_rate, get_unprocessed_histories
    <3> QED
      BY <1>1, <3>1, ReleasedHistory DEF SameBatches
  <2>8. ASSUME NEW b \in I
        PROVE  <<u, id[b]>> \in UserKeys(u, released_history(last))
    <3>1. /\ <<u, b>> \in DOMAIN wait_list /\ b \in DOMAIN history
          /\ b <= last /\ id[b] = b
      BY <2>2, <2>3, <2>6
    <3>2. b \in DOMAIN released_history(last)
          /\ released_history(last)[b].released
      BY <2>7, <3>1
    <3> QED
      BY <3>1, <3>2 DEF UserKeys, ReleasedKeys
  <2>9. K \in SUBSET UserKeys(u, released_history(last))
    BY <2>8
  <2> HIDE DEF K
  <2> QED
    BY <1>1, <2>4, <2>5, <2>9, WithdrawalSucceeds
<1>2. IInv /\ QInv /\ Covered /\ TimesOrdered => EstimateHonoured
  BY <1>1
<1> QED
  BY <1>2, Invariance, QueueInvariance, CoveredInvariance, TimesInvariance, PTL

-----------------------------------------------------------------------------
(* Solvency: the rate is backed by the staked total, the staked total is   *)
(* that of the chain, and the closed batches are funded by the rest.       *)

\* Tokens are worth no more than the staked total, also when that is zero.
LEMMA TokensBacked ==
    ASSUME IInv, RateBacked, TokensHaveStake, disturbances = 0
    PROVE  SharingSupply * state.lst_exchange_rate
              <= state.total_staked_amount * One
<1>1. /\ total_supply \in Nat /\ current_batch.requested \in Nat
      /\ state.lst_exchange_rate \in Nat /\ state.total_staked_amount \in Nat
      /\ One \in Nat
  BY MathTypes DEF IInv, TypeOK, State
<1>2. CASE state.total_staked_amount # 0
  BY <1>2 DEF RateBacked
<1>3. CASE state.total_staked_amount = 0
  <2>1. SharingSupply = 0
    BY <1>3 DEF TokensHaveStake
  <2>2. 0 * state.lst_exchange_rate = 0 /\ 0 * One = 0
    BY <1>1
  <2> QED
    BY <1>3, <2>1, <2>2
<1> QED
  BY <1>2, <1>3

\* Until a slash or a refused undelegation, every claim on the hub is backed by
\* coins at hand, delegated or unbonding, for every scale of the decimals and
\* every sequence of stakes, burns, unstakes and withdrawals, if the owner
\* keeps to the check of instantiate (hub.rs:179-191, unstake.rs:206-242,
\* contract.rs:60-63).
THEOREM HubIsSolvent ==
    ASSUME ParamsRespectEpoch
    PROVE  Spec => []SolventUndisturbed
<1>1. ASSUME IInv, QInv, EInv, RateBacked, TokensHaveStake, NothingLost
      PROVE  SolventUndisturbed
  <2> DEFINE U == {b \in DOMAIN history : ~history[b].released}
             closed == required_total(U)
             c == state.unclaimed_unstaked_balance
             t == state.total_staked_amount
             worth == SharingSupply * state.lst_exchange_rate
             coins == hub_balance + delegated + unbonding
             D == One
  <2> SUFFICES ASSUME disturbances = 0
               PROVE  worth + (closed + c) * D <= coins * D
    BY DEF SolventUndisturbed
  <2>1. /\ hub_balance \in Nat /\ queue.delegate \in Nat
        /\ queue.undelegate \in Nat /\ unbonding \in Nat /\ delegated \in Nat
        /\ c \in Nat /\ t \in Nat /\ D \in Nat
    BY <1>1, HubTypes, MathTypes DEF IInv, TypeOK, ChainTypeOK, State
  <2>2. worth \in Nat
    BY <1>1 DEF IInv, TypeOK, State, SharingSupply
  <2>3. worth <= t * D
    BY <1>1, TokensBacked
  <2>4. t = delegated + queue.delegate - queue.undelegate
    BY <1>1 DEF EInv, StakeMatchesChain
  <2>5. U \in SUBSET (DOMAIN history)
    OBVIOUS
  <2> HIDE DEF U
  <2>6. closed \in Nat
    <3>1. closed = SumOver(Required(history), U)
      BY <1>1, <2>5, HubTypes, RequiredType
      DEF required_total, required_amount
    <3> QED
      BY <1>1, <2>5, <3>1, HubTypes, RequiredType
  <2>7. closed <= hub_balance - queue.delegate - c + unbonding
                    + queue.undelegate + lost
    BY <1>1, QInvImplies DEF ClosedBatchesFunded, U
  <2>8. lost = 0
    BY <1>1 DEF NothingLost
  <2> HIDE DEF closed, c, t, worth, D
  <2>9. t + closed + c <= coins
    BY <2>1, <2>4, <2>6, <2>7, <2>8
  <2> DEFINE owed == t + closed + c
  <2>10. owed \in Nat /\ coins \in Nat
    BY <2>1, <2>6
  <2>11. t * D + (closed + c) * D = owed * D
    BY <2>1, <2>6
  <2>12. owed * D <= coins * D
    <3> HIDE DEF owed, coins
    <3> QED
      BY <2>1, <2>9, <2>10 DEF owed
  <2>13. (closed + c) * D \in Nat /\ t * D \in Nat
    BY <2>1, <2>6
  <2> HIDE DEF owed, coins
  <2> QED
    BY <2>1, <2>2, <2>3, <2>10, <2>11, <2>12, <2>13
<1>2. IInv /\ QInv /\ EInv /\ RateBacked /\ (TokensHaveStake /\ NothingLost)
         => SolventUndisturbed
  BY <1>1
<1>3. Spec => []EInv
  BY EpochInvariance
<1>4. Spec => [](TokensHaveStake /\ NothingLost)
  BY SolventInvariance
<1> QED
  BY <1>2, <1>3, <1>4, Invariance, QueueInvariance, RateIsBacked, PTL

=============================================================================
