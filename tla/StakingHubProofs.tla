-------------------------- MODULE StakingHubProofs --------------------------
(***************************************************************************)
(* Theorems about StakingHub, for every value of its constants: the hub's  *)
(* accounts agree with the chain and cover its promises; the exchange rate *)
(* is backed and falls only when stake is lost; and, with parameters that  *)
(* respect the check of instantiate, no two batches are closed in one      *)
(* staking epoch, and until a validator is slashed or an undelegation      *)
(* refused the staked total is that of the chain.                          *)
(***************************************************************************)
EXTENDS StakingHub, TLAPS

-----------------------------------------------------------------------------
(* Arithmetic.                                                             *)

\* Integer division rounds down.
LEMMA DivBounds ==
    ASSUME NEW a \in Nat, NEW b \in Nat \ {0}
    PROVE  /\ a \div b \in Nat
           /\ (a \div b) * b <= a
           /\ a < (a \div b) * b + b
  OBVIOUS

\* The number of whole epochs in a distance.
LEMMA DivExact ==
    ASSUME NEW k \in Nat, NEW r \in Nat, NEW b \in Nat, r < b
    PROVE  (k * b + r) \div b = k
  OBVIOUS

\* Decimal operations on amounts give amounts.
LEMMA MathTypes ==
    /\ One \in Nat \ {0}
    /\ \A a, b \in Nat : decimal_multiplication(a, b) \in Nat
    /\ \A a \in Nat, b \in Nat \ {0} : decimal_division(a, b) \in Nat
    /\ \A t, s, r \in Nat : updated_exchange_rate(t, s, r) \in Nat
    /\ \A a, f \in Nat : compute_fee(a, f) \in Nat
<1> DEFINE D == DECIMAL_FRACTIONAL
<1>1. D \in Nat \ {0}
  BY ScaleAssumption
<1>2. \A a, b \in Nat : a * b \in Nat
  OBVIOUS
<1> HIDE DEF D
<1>3. \A a, b \in Nat : decimal_multiplication(a, b) \in Nat
  BY <1>1, <1>2, DivBounds DEF decimal_multiplication, D
<1>4. \A a \in Nat, b \in Nat \ {0} : (a * D) \div b \in Nat
  BY <1>1, <1>2, DivBounds
<1>5. \A t, s, r \in Nat : updated_exchange_rate(t, s, r) \in Nat
  <2> TAKE t, s, r \in Nat
  <2>1. CASE t = 0 \/ s + r = 0
    BY <1>1, <2>1 DEF updated_exchange_rate, One, D
  <2>2. CASE ~(t = 0 \/ s + r = 0)
    <3>1. s + r \in Nat \ {0}
      BY <2>2
    <3> QED
      BY <1>4, <2>2, <3>1 DEF updated_exchange_rate, from_ratio, D
  <2> QED
    BY <2>1, <2>2
<1>6. \A a, f \in Nat : compute_fee(a, f) \in Nat
  <2> TAKE a, f \in Nat
  <2>1. a * f + D - 1 \in Nat
    BY <1>1, <1>2
  <2> QED
    BY <1>1, <2>1, DivBounds DEF compute_fee, D
<1> QED
  BY <1>1, <1>3, <1>4, <1>5, <1>6 DEF decimal_division, One, D

-----------------------------------------------------------------------------
(* The inductive invariant.                                                *)

(***************************************************************************)
(* The current block lies in the current staking epoch, and the epoch the  *)
(* hub has stored began a whole number of epochs earlier.                  *)
(***************************************************************************)
EpochAligned ==
    /\ epoch_start <= height
    /\ height < epoch_start + EPOCH_BLOCKS
    /\ \E k \in Nat : epoch_start = pending.start + k * EPOCH_BLOCKS

IInv ==
    /\ TypeOK
    /\ EpochAligned
    /\ PendingMatchesQueue
    /\ BalanceCoversCommitments
    /\ ReleasedIsPrefix

-----------------------------------------------------------------------------
(* The stored pending amounts, as every handler sees and leaves them.      *)

\* The stored epoch is over exactly if it is not the current one.
LEMMA EpochOver ==
    ASSUME TypeOK, EpochAligned
    PROVE  epoch_over(pending) <=> pending.start # epoch_start
<1>1. PICK k \in Nat : epoch_start = pending.start + k * EPOCH_BLOCKS
  BY DEF EpochAligned
<1>2. /\ EPOCH_BLOCKS \in Nat \ {0}
      /\ pending.start \in Nat /\ height \in Nat /\ epoch_start \in Nat
  BY ChainAssumption DEF TypeOK, ChainTypeOK, PendingDelegation
<1>3. CASE k = 0
  BY <1>1, <1>2, <1>3 DEF EpochAligned, epoch_over
<1>4. CASE k > 0
  <2>1. k * EPOCH_BLOCKS >= EPOCH_BLOCKS
    BY <1>2, <1>4
  <2> QED
    BY <1>1, <1>2, <2>1 DEF EpochAligned, epoch_over
<1> QED
  BY <1>3, <1>4

\* A recorded message is added to what is queued, and the stored epoch is the
\* current one.
LEMMA UpdatedPending ==
    ASSUME TypeOK, EpochAligned, PendingMatchesQueue,
           NEW s \in Nat, NEW u \in Nat
    PROVE  update_pending_delegation_amount(s, u) =
              [start |-> epoch_start, staking |-> queue.delegate + s,
               unstaking |-> queue.undelegate + u]
<1>1. PICK k \in Nat : epoch_start = pending.start + k * EPOCH_BLOCKS
  BY DEF EpochAligned
<1>2. /\ EPOCH_BLOCKS \in Nat \ {0}
      /\ pending \in PendingDelegation
      /\ pending.start \in Nat /\ height \in Nat /\ epoch_start \in Nat
      /\ queue.delegate \in Nat /\ queue.undelegate \in Nat
  BY ChainAssumption DEF TypeOK, ChainTypeOK, PendingDelegation
<1>3. CASE epoch_over(pending)
  <2>1. queue.delegate = 0 /\ queue.undelegate = 0
    BY <1>3 DEF PendingMatchesQueue, get_pending_delegation_amount
  <2> DEFINE r == height - epoch_start
  <2>2. r \in Nat /\ r < EPOCH_BLOCKS
    BY <1>2 DEF EpochAligned
  <2>3. height - pending.start = k * EPOCH_BLOCKS + r
    BY <1>1, <1>2
  <2>4. (k * EPOCH_BLOCKS + r) \div EPOCH_BLOCKS = k
    BY <1>2, <2>2, DivExact
  <2>5. pending.start + ((height - pending.start) \div EPOCH_BLOCKS)
                            * EPOCH_BLOCKS = epoch_start
    BY <1>1, <2>3, <2>4
  <2> QED
    BY <1>3, <2>1, <2>5 DEF update_pending_delegation_amount
<1>4. CASE ~epoch_over(pending)
  <2>1. pending.start = epoch_start
    BY <1>4, EpochOver
  <2>2. pending.staking = queue.delegate /\ pending.unstaking = queue.undelegate
    BY <1>4 DEF PendingMatchesQueue, get_pending_delegation_amount
  <2> QED
    BY <1>2, <1>4, <2>1, <2>2
    DEF update_pending_delegation_amount, PendingDelegation
<1> QED
  BY <1>3, <1>4

\* The slashing check keeps the state well typed and changes only the staked
\* total and the rate.
LEMMA ActualState ==
    ASSUME TypeOK, NEW st \in State, NEW p \in PendingDelegation,
           NEW supply \in Nat, NEW requested \in Nat,
           actual_state_defined(st, p)
    PROVE  LET r == query_actual_state(st, p, supply, requested) IN
           /\ r \in State
           /\ r.unclaimed_unstaked_balance = st.unclaimed_unstaked_balance
           /\ r.last_unbonded_time = st.last_unbonded_time
           /\ r.last_processed_batch = st.last_processed_batch
<1>1. delegated \in Nat /\ height \in Nat
  BY DEF TypeOK, ChainTypeOK
<1>2. CASE delegated = 0 \/ state_total_staked(st, p) = 0
  BY <1>2 DEF query_actual_state
<1>3. CASE ~(delegated = 0 \/ state_total_staked(st, p) = 0)
  <2>1. slashed_total(st, p) \in Nat
    BY <1>1, <1>3
    DEF slashed_total, actual_state_defined, get_pending_delegation_amount,
        State, PendingDelegation
  <2>2. updated_exchange_rate(slashed_total(st, p), supply, requested) \in Nat
    BY <2>1, MathTypes
  <2> QED
    BY <1>3, <2>1, <2>2 DEF query_actual_state, State
<1> QED
  BY <1>2, <1>3

\* The state after the slashing check that opens most handlers.
LEMMA CheckedState ==
    ASSUME TypeOK, actual_state_defined(state, pending)
    PROVE  /\ checked_state \in State
           /\ checked_state.unclaimed_unstaked_balance
                 = state.unclaimed_unstaked_balance
           /\ checked_state.last_unbonded_time = state.last_unbonded_time
           /\ checked_state.last_processed_batch = state.last_processed_batch
<1>1. /\ state \in State /\ pending \in PendingDelegation
      /\ total_supply \in Nat /\ current_batch.requested \in Nat
  BY DEF TypeOK
<1> QED
  BY <1>1, ActualState DEF checked_state

\* Messages that are queued and recorded together stay in step.
LEMMA RecordedStep ==
    ASSUME TypeOK, EpochAligned, PendingMatchesQueue,
           NEW s \in Nat, NEW u \in Nat,
           pending' = update_pending_delegation_amount(s, u),
           queue' = [delegate |-> queue.delegate + s,
                     undelegate |-> queue.undelegate + u],
           UNCHANGED <<height, epoch_start>>
    PROVE  /\ pending' \in PendingDelegation
           /\ queue' \in [delegate : Nat, undelegate : Nat]
           /\ EpochAligned'
           /\ PendingMatchesQueue'
<1>1. pending' = [start |-> epoch_start, staking |-> queue.delegate + s,
                  unstaking |-> queue.undelegate + u]
  BY UpdatedPending
<1>2. /\ EPOCH_BLOCKS \in Nat \ {0} /\ height \in Nat /\ epoch_start \in Nat
      /\ queue.delegate \in Nat /\ queue.undelegate \in Nat
  BY ChainAssumption DEF TypeOK, ChainTypeOK
<1>3. EpochAligned'
  <2>1. epoch_start' = pending'.start + 0 * EPOCH_BLOCKS
    BY <1>1, <1>2
  <2> QED
    BY <2>1, <1>2 DEF EpochAligned
<1>4. ~epoch_over(pending)'
  BY <1>1, <1>2 DEF EpochAligned, epoch_over
<1>5. PendingMatchesQueue'
  BY <1>1, <1>2, <1>4 DEF PendingMatchesQueue, get_pending_delegation_amount
<1> QED
  BY <1>1, <1>2, <1>3, <1>5 DEF PendingDelegation

\* A step that leaves the epoch, the record and the queue alone keeps them in
\* step.
LEMMA UnrecordedStep ==
    ASSUME EpochAligned, PendingMatchesQueue,
           UNCHANGED <<height, epoch_start, pending, queue>>
    PROVE  EpochAligned' /\ PendingMatchesQueue'
  BY DEF EpochAligned, PendingMatchesQueue, get_pending_delegation_amount,
         epoch_over

-----------------------------------------------------------------------------
(* The initial state.                                                      *)

\* The hub starts with nothing staked, queued or promised.
LEMMA InitIInv == Init => IInv
<1> SUFFICES ASSUME Init PROVE IInv
  OBVIOUS
<1> USE DEF Init, ChainInit, HubInit
<1>1. EPOCH_BLOCKS \in Nat \ {0} /\ GENESIS_TIME \in Nat
  BY ChainAssumption
<1>2. TypeOK
  <2>1. ChainTypeOK
    BY <1>1 DEF ChainTypeOK
  <2>2. state \in State
    BY <1>1, MathTypes DEF State
  <2>3. params \in [epoch_length : Nat, unstaking_period : Nat,
                    paused : BOOLEAN]
    BY HubAssumption
  <2>4. /\ wait_list \in [DOMAIN wait_list -> Nat]
        /\ DOMAIN wait_list \subseteq Users \X (1 .. current_batch.id)
    OBVIOUS
  <2>5. history \in [1 .. current_batch.id - 1 -> History]
    OBVIOUS
  <2>6. closed_at \in [1 .. current_batch.id - 1 -> Nat]
    OBVIOUS
  <2> QED
    BY <2>1, <2>2, <2>3, <2>4, <2>5, <2>6 DEF TypeOK, PendingDelegation
<1>3. EpochAligned
  <2>1. epoch_start = pending.start + 0 * EPOCH_BLOCKS
    BY <1>1
  <2> QED
    BY <2>1, <1>1 DEF EpochAligned
<1>4. PendingMatchesQueue
  BY <1>1 DEF PendingMatchesQueue, get_pending_delegation_amount, epoch_over
<1>5. BalanceCoversCommitments
  BY DEF BalanceCoversCommitments
<1>6. ReleasedIsPrefix
  BY DEF ReleasedIsPrefix
<1> QED
  BY <1>2, <1>3, <1>4, <1>5, <1>6 DEF IInv

-----------------------------------------------------------------------------
(* Lemmas on what several handlers share.                                  *)

\* Staking, whether a payment or rewards.
LEMMA ExecuteStakeStep ==
    ASSUME IInv, NEW payment \in Nat, NEW mint \in Nat,
           execute_stake(payment, mint),
           token_balance' \in [Users -> Nat]
    PROVE  IInv'
<1>0. /\ actual_state_defined(state, pending)
      /\ pending' = update_pending_delegation_amount(payment, 0)
      /\ hub_balance' = hub_balance + payment
      /\ queue' = [queue EXCEPT !.delegate = @ + payment]
      /\ total_supply' = total_supply + mint
      /\ UNCHANGED <<height, time, epoch_start, delegated, active, unbonding,
                     lost, disturbances, params, current_batch, wait_list,
                     history, closed_at>>
  BY DEF execute_stake, push_delegate
<1>1. TypeOK /\ EpochAligned /\ PendingMatchesQueue
  BY DEF IInv
<1>2. /\ pending' \in PendingDelegation
      /\ queue' \in [delegate : Nat, undelegate : Nat]
      /\ EpochAligned' /\ PendingMatchesQueue'
  <2>1. queue' = [delegate |-> queue.delegate + payment,
                  undelegate |-> queue.undelegate + 0]
    <3>1. queue \in [delegate : Nat, undelegate : Nat]
      BY <1>1 DEF TypeOK, ChainTypeOK
    <3> QED
      BY <1>0, <3>1
  <2>2. UNCHANGED <<height, epoch_start>>
    BY <1>0
  <2> QED
    BY <1>0, <1>1, <2>1, <2>2, RecordedStep
<1>3. /\ checked_state \in State
      /\ checked_state.unclaimed_unstaked_balance
            = state.unclaimed_unstaked_balance
      /\ checked_state.last_processed_batch = state.last_processed_batch
  BY <1>0, <1>1, CheckedState
<1>4. /\ state' \in State
      /\ state'.unclaimed_unstaked_balance = state.unclaimed_unstaked_balance
      /\ state'.last_processed_batch = state.last_processed_batch
  <2> DEFINE total == checked_state.total_staked_amount + payment
             rate == updated_exchange_rate(total, total_supply + mint,
                                           current_batch.requested)
  <2>1. /\ total \in Nat /\ total_supply + mint \in Nat
        /\ current_batch.requested \in Nat
    BY <1>1, <1>3 DEF State, TypeOK
  <2>2. rate \in Nat
    BY <2>1, MathTypes
  <2>3. state' = [checked_state EXCEPT !.total_staked_amount = total,
                                       !.lst_exchange_rate = rate]
    BY <1>3 DEF execute_stake, staked_state, State
  <2> HIDE DEF total, rate
  <2> QED
    BY <1>3, <2>1, <2>2, <2>3 DEF State
<1>5. TypeOK'
  <2>1. ChainTypeOK'
    <3>1. ChainTypeOK
      BY <1>1 DEF TypeOK
    <3>2. hub_balance' \in Nat
      BY <1>0, <3>1 DEF ChainTypeOK
    <3> QED
      BY <1>0, <1>2, <3>1, <3>2 DEF ChainTypeOK
  <2>2. total_supply' \in Nat
    BY <1>0, <1>1 DEF TypeOK
  <2> QED
    BY <1>0, <1>1, <1>2, <1>4, <2>1, <2>2 DEF TypeOK
<1>6. BalanceCoversCommitments'
  <2>1. queue'.delegate = queue.delegate + payment
    BY <1>0, <1>1 DEF TypeOK, ChainTypeOK
  <2>2. /\ queue.delegate \in Nat /\ hub_balance \in Nat
        /\ state.unclaimed_unstaked_balance \in Nat
        /\ queue.delegate + state.unclaimed_unstaked_balance <= hub_balance
    BY <1>1 DEF TypeOK, ChainTypeOK, State, IInv, BalanceCoversCommitments
  <2> QED
    BY <1>0, <1>4, <2>1, <2>2 DEF BalanceCoversCommitments
<1>7. ReleasedIsPrefix'
  BY <1>0, <1>4 DEF IInv, ReleasedIsPrefix
<1> QED
  BY <1>2, <1>5, <1>6, <1>7 DEF IInv

\* Closing the batch or storing it: the handlers that do so pass on a batch
\* with the id of the open one and the state after the slashing check.
LEMMA BatchStep ==
    ASSUME IInv, NEW batch \in [id : Nat \ {0}, requested : Nat],
           batch.id = current_batch.id, NEW st \in State,
           st.unclaimed_unstaked_balance = state.unclaimed_unstaked_balance,
           st.last_processed_batch = state.last_processed_batch,
           check_for_unstake_batch_epoch_completion(batch, st),
           UNCHANGED <<height, time, epoch_start>>
    PROVE  LET done == completed_state(batch, st) IN
           /\ done \in State
           /\ done.unclaimed_unstaked_balance = state.unclaimed_unstaked_balance
           /\ done.last_processed_batch = state.last_processed_batch
           /\ pending' \in PendingDelegation
           /\ queue' \in [delegate : Nat, undelegate : Nat]
           /\ queue'.delegate = queue.delegate
           /\ EpochAligned' /\ PendingMatchesQueue'
           /\ current_batch' \in [id : Nat \ {0}, requested : Nat]
           /\ current_batch'.id >= current_batch.id
           /\ history' \in [1 .. current_batch'.id - 1 -> History]
           /\ closed_at' \in [1 .. current_batch'.id - 1 -> Nat]
           /\ \A b \in DOMAIN history' :
                 history'[b].released <=> b <= state.last_processed_batch
           /\ \A b \in DOMAIN history :
                 b \in DOMAIN history' /\ history'[b] = history[b]
<1>1. TypeOK /\ EpochAligned /\ PendingMatchesQueue /\ ReleasedIsPrefix
  BY DEF IInv
<1>2. /\ history \in [1 .. current_batch.id - 1 -> History]
      /\ closed_at \in [1 .. current_batch.id - 1 -> Nat]
      /\ time \in Nat /\ epoch_start \in Nat /\ active \in Nat
      /\ queue \in [delegate : Nat, undelegate : Nat]
      /\ current_batch.id \in Nat \ {0}
  BY <1>1 DEF TypeOK, ChainTypeOK
<1>3. CASE epoch_completed
  <2> DEFINE claim == unstaked_amount_in_batch(batch, st)
             n == batch.id
  <2>1. process_undelegations_for_batch(batch, st)
    BY <1>3 DEF check_for_unstake_batch_epoch_completion
  <2>2. claim \in Nat /\ claim <= st.total_staked_amount
    BY <1>2, <2>1
    DEF process_undelegations_for_batch, pick_validator_for_undelegation
  <2> HIDE DEF claim
  <2>3. /\ queue' = [delegate |-> queue.delegate + 0,
                     undelegate |-> queue.undelegate + claim]
        /\ queue'.delegate = queue.delegate
    BY <1>2, <2>1, <2>2
    DEF process_undelegations_for_batch, push_undelegate, claim
  <2>4. pending' = update_pending_delegation_amount(0, claim)
    BY <2>1 DEF process_undelegations_for_batch, claim
  <2>5. /\ pending' \in PendingDelegation
        /\ queue' \in [delegate : Nat, undelegate : Nat]
        /\ EpochAligned' /\ PendingMatchesQueue'
    BY <1>1, <2>2, <2>3, <2>4, RecordedStep
  <2>6. /\ completed_state(batch, st) \in State
        /\ completed_state(batch, st).unclaimed_unstaked_balance
              = state.unclaimed_unstaked_balance
        /\ completed_state(batch, st).last_processed_batch
              = state.last_processed_batch
    <3>1. completed_state(batch, st) =
             [st EXCEPT !.total_staked_amount = st.total_staked_amount - claim,
                        !.last_unbonded_time = time]
      BY <1>3 DEF completed_state, undelegated_state, claim
    <3>2. st.total_staked_amount - claim \in Nat
      BY <2>2 DEF State
    <3> QED
      BY <1>2, <3>1, <3>2 DEF State
  <2>7. /\ current_batch' = [id |-> n + 1, requested |-> 0]
        /\ current_batch'.id - 1 = n
    BY <2>1 DEF process_undelegations_for_batch, next_batch
  <2>8. closed_history(batch, st) \in History
    BY <1>2 DEF closed_history, History, State
  <2>9. /\ history' = [b \in 1 .. n |->
              IF b = n THEN closed_history(batch, st) ELSE history[b]]
        /\ closed_at' = [b \in 1 .. n |->
              IF b = n THEN epoch_start ELSE closed_at[b]]
    BY <2>1 DEF process_undelegations_for_batch, appended
  <2>10. /\ history' \in [1 .. n -> History]
         /\ closed_at' \in [1 .. n -> Nat]
    BY <1>2, <2>8, <2>9
  <2>11. \A b \in DOMAIN history' :
            history'[b].released <=> b <= state.last_processed_batch
    <3> TAKE b \in DOMAIN history'
    <3>1. b \in 1 .. n /\ state.last_processed_batch \in Nat
          /\ state.last_processed_batch < n
      BY <1>1, <2>9 DEF ReleasedIsPrefix, TypeOK, State
    <3>2. CASE b = n
      BY <2>9, <3>1, <3>2 DEF closed_history
    <3>3. CASE b # n
      BY <1>1, <1>2, <2>9, <3>1, <3>3 DEF ReleasedIsPrefix
    <3> QED
      BY <3>2, <3>3
  <2>12. \A b \in DOMAIN history :
            b \in DOMAIN history' /\ history'[b] = history[b]
    BY <1>2, <2>9
  <2> HIDE DEF n
  <2> QED
    BY <1>2, <2>3, <2>5, <2>6, <2>7, <2>10, <2>11, <2>12 DEF n
<1>4. CASE ~epoch_completed
  <2>1. /\ current_batch' = batch
        /\ UNCHANGED <<pending, queue, history, closed_at>>
    BY <1>4 DEF check_for_unstake_batch_epoch_completion
  <2>2. EpochAligned' /\ PendingMatchesQueue'
    BY <1>1, <2>1, UnrecordedStep
  <2> QED
    BY <1>1, <1>2, <1>4, <2>1, <2>2
    DEF completed_state, ReleasedIsPrefix, TypeOK
<1> QED
  BY <1>3, <1>4

\* Releasing batches: the history stays well typed and the released batches
\* are those up to `last`; the rest of the free balance is untouched.
LEMMA ReleaseStep ==
    ASSUME IInv, NEW last \in state.last_processed_batch .. current_batch.id - 1,
           NEW left, process_withdraw_rate(last, left),
           history' = released_history(last)
    PROVE  /\ history' \in [1 .. current_batch.id - 1 -> History]
           /\ last \in Nat /\ last < current_batch.id
           /\ \A b \in DOMAIN history' : history'[b].released <=> b <= last
           /\ \A b \in DOMAIN history :
                 \/ history'[b] = history[b]
                 \/ history'[b] = [history[b] EXCEPT !.released = TRUE]
           /\ actual_free_balance = hub_balance - queue.delegate
           /\ actual_free_balance \in Nat
<1>1. TypeOK /\ ReleasedIsPrefix /\ PendingMatchesQueue
      /\ BalanceCoversCommitments
  BY DEF IInv
<1>2. /\ history \in [1 .. current_batch.id - 1 -> History]
      /\ state.last_processed_batch \in Nat
      /\ state.unclaimed_unstaked_balance \in Nat
      /\ current_batch.id \in Nat /\ hub_balance \in Nat
      /\ queue.delegate \in Nat
  BY <1>1 DEF TypeOK, ChainTypeOK, State
<1>3. history' = [b \in 1 .. current_batch.id - 1 |->
                    IF b \in state.last_processed_batch + 1 .. last
                    THEN [history[b] EXCEPT !.released = TRUE]
                    ELSE history[b]]
  BY <1>2 DEF released_history
<1>4. \A b \in DOMAIN history : [history[b] EXCEPT !.released = TRUE] \in History
  BY <1>2 DEF History
<1>5. history' \in [1 .. current_batch.id - 1 -> History]
  BY <1>2, <1>3, <1>4
<1>6. \A b \in DOMAIN history' : history'[b].released <=> b <= last
  <2> TAKE b \in DOMAIN history'
  <2>1. b \in DOMAIN history /\ b \in Nat
    BY <1>2, <1>3
  <2>2. history[b] \in History /\ (history[b].released <=> b <= state.last_processed_batch)
    BY <1>1, <1>2, <2>1 DEF ReleasedIsPrefix
  <2>3. CASE b \in state.last_processed_batch + 1 .. last
    BY <1>2, <1>3, <2>1, <2>2, <2>3 DEF History
  <2>4. CASE b \notin state.last_processed_batch + 1 .. last
    BY <1>2, <1>3, <2>1, <2>2, <2>4
  <2> QED
    BY <2>3, <2>4
<1>7. actual_free_balance = hub_balance - queue.delegate
  BY <1>1 DEF actual_free_balance, PendingMatchesQueue
<1>8. actual_free_balance \in Nat
  BY <1>1, <1>2, <1>7 DEF BalanceCoversCommitments
<1>9. \A b \in DOMAIN history :
         \/ history'[b] = history[b]
         \/ history'[b] = [history[b] EXCEPT !.released = TRUE]
  BY <1>2, <1>3
<1>10. last \in Nat /\ last < current_batch.id
  BY <1>2
<1> QED
  BY <1>5, <1>6, <1>7, <1>8, <1>9, <1>10

-----------------------------------------------------------------------------
(* Every step keeps the inductive invariant.                               *)

\* A step that changes neither the batches nor what is queued and recorded,
\* and sets no coins aside.
LEMMA QuietStep ==
    ASSUME IInv,
           state' \in State,
           state'.unclaimed_unstaked_balance = state.unclaimed_unstaked_balance,
           state'.last_processed_batch = state.last_processed_batch,
           params' \in [epoch_length : Nat, unstaking_period : Nat,
                        paused : BOOLEAN],
           total_supply' \in Nat, token_balance' \in [Users -> Nat],
           UNCHANGED <<chainVars, current_batch, wait_list, history, pending,
                       closed_at>>
    PROVE  IInv'
<1>1. TypeOK /\ EpochAligned /\ PendingMatchesQueue /\ ReleasedIsPrefix
      /\ BalanceCoversCommitments
  BY DEF IInv
<1>2. UNCHANGED <<height, time, epoch_start, hub_balance, delegated, active,
                  queue, unbonding, lost, disturbances, current_batch,
                  wait_list, history, pending, closed_at>>
  BY DEF chainVars
<1>3. TypeOK'
  <2>1. ChainTypeOK'
    BY <1>1, <1>2 DEF TypeOK, ChainTypeOK
  <2> QED
    BY <1>1, <1>2, <2>1 DEF TypeOK
<1>4. EpochAligned' /\ PendingMatchesQueue'
  BY <1>1, <1>2, UnrecordedStep
<1>5. BalanceCoversCommitments' /\ ReleasedIsPrefix'
  BY <1>1, <1>2 DEF BalanceCoversCommitments, ReleasedIsPrefix
<1> QED
  BY <1>3, <1>4, <1>5 DEF IInv

\* The registry never answers with more than is delegated.
LEMMA AnswersWithin ==
    ASSUME NEW total \in Nat
    PROVE  \A x \in answers(total) : x \in 0 .. total
  BY ChainAssumption DEF answers

\* Blocks: the queue is executed exactly when the stored epoch is over.
LEMMA NextBlockStep ==
    ASSUME IInv, NextBlock, UNCHANGED hubVars
    PROVE  IInv'
<1>1. TypeOK /\ EpochAligned /\ PendingMatchesQueue /\ ReleasedIsPrefix
      /\ BalanceCoversCommitments
  BY DEF IInv
<1>2. UNCHANGED <<state, params, current_batch, wait_list, history, pending,
                  total_supply, token_balance, closed_at>>
  BY DEF hubVars
<1>3. ChainTypeOK /\ pending.start \in Nat /\ EPOCH_BLOCKS \in Nat \ {0}
      /\ state.unclaimed_unstaked_balance \in Nat
  BY <1>1, ChainAssumption DEF TypeOK, PendingDelegation, State
<1>4. PICK k \in Nat : epoch_start = pending.start + k * EPOCH_BLOCKS
  BY <1>1 DEF EpochAligned
<1>5. height' = height + 1 /\ time' \in Nat
  BY <1>3, ChainAssumption DEF NextBlock, ChainTypeOK
<1>6. k = 0 \/ k * EPOCH_BLOCKS >= EPOCH_BLOCKS
  BY <1>3
<1>7. ReleasedIsPrefix'
  BY <1>1, <1>2 DEF ReleasedIsPrefix
<1>8. CASE height + 1 = epoch_start + EPOCH_BLOCKS
  <2>1. on_epoch_end
    BY <1>8 DEF NextBlock
  <2>2. /\ queue' = [delegate |-> 0, undelegate |-> 0]
        /\ epoch_start' = height + 1
        /\ hub_balance' = hub_balance - queue.delegate
    BY <2>1 DEF on_epoch_end
  <2>3. queue.delegate \in Nat /\ queue.undelegate \in Nat
    BY <1>3 DEF ChainTypeOK
  <2>4. delegated' \in Nat /\ unbonding' \in Nat /\ lost' \in Nat
        /\ disturbances' \in Nat
    BY <1>3, <2>1, <2>3 DEF on_epoch_end, ChainTypeOK
  <2>5. hub_balance' \in Nat
    BY <1>1, <1>3, <2>2, <2>3 DEF BalanceCoversCommitments, ChainTypeOK
  <2>6. TypeOK'
    <3>1. active' \in 0 .. delegated'
      BY <2>1, <2>4, AnswersWithin DEF on_epoch_end
    <3>2. ChainTypeOK'
      BY <1>3, <1>5, <2>2, <2>4, <2>5, <3>1 DEF ChainTypeOK
    <3> QED
      BY <1>1, <1>2, <3>2 DEF TypeOK
  <2>7. EpochAligned'
    <3>1. epoch_start' = pending'.start + (k + 1) * EPOCH_BLOCKS
      BY <1>2, <1>3, <1>4, <1>8, <2>2
    <3>2. \E j \in Nat : epoch_start' = pending'.start + j * EPOCH_BLOCKS
      <4> WITNESS k + 1 \in Nat
      <4> QED
        BY <3>1
    <3>3. epoch_start' <= height' /\ height' < epoch_start' + EPOCH_BLOCKS
      BY <1>3, <1>5, <2>2 DEF ChainTypeOK
    <3> QED
      BY <3>2, <3>3, Zenon DEF EpochAligned
  <2>8. PendingMatchesQueue'
    <3>1. height' - pending'.start >= EPOCH_BLOCKS
      BY <1>2, <1>3, <1>4, <1>5, <1>6, <1>8 DEF ChainTypeOK
    <3> QED
      BY <2>2, <3>1
      DEF PendingMatchesQueue, get_pending_delegation_amount, epoch_over
  <2>9. BalanceCoversCommitments'
    BY <1>1, <1>2, <1>3, <2>2, <2>3
    DEF BalanceCoversCommitments, ChainTypeOK
  <2> QED
    BY <1>7, <2>6, <2>7, <2>8, <2>9 DEF IInv
<1>9. CASE height + 1 # epoch_start + EPOCH_BLOCKS
  <2>1. UNCHANGED <<epoch_start, hub_balance, delegated, active, queue,
                    unbonding, lost, disturbances>>
    BY <1>9 DEF NextBlock
  <2>2. TypeOK'
    <3>1. ChainTypeOK'
      BY <1>3, <1>5, <2>1 DEF ChainTypeOK
    <3> QED
      BY <1>1, <1>2, <3>1 DEF TypeOK
  <2>3. EpochAligned'
    BY <1>1, <1>2, <1>3, <1>5, <1>9, <2>1 DEF EpochAligned, ChainTypeOK
  <2>4. epoch_over(pending)' <=> epoch_over(pending)
    <3>1. /\ height \in Nat /\ epoch_start \in Nat /\ epoch_start <= height
          /\ height < epoch_start + EPOCH_BLOCKS
          /\ pending'.start = pending.start
      BY <1>1, <1>2, <1>3 DEF EpochAligned, ChainTypeOK
    <3>2. height - pending.start >= EPOCH_BLOCKS
            <=> height + 1 - pending.start >= EPOCH_BLOCKS
      <4>1. CASE k = 0
        BY <1>3, <1>4, <1>9, <3>1, <4>1
      <4>2. CASE k * EPOCH_BLOCKS >= EPOCH_BLOCKS
        BY <1>3, <1>4, <3>1, <4>2
      <4> QED
        BY <1>6, <4>1, <4>2
    <3>3. height' - pending'.start = height + 1 - pending.start
      BY <1>2, <1>3, <1>5, <3>1
    <3>4. height' - pending'.start >= EPOCH_BLOCKS
            <=> height - pending.start >= EPOCH_BLOCKS
      BY <3>2, <3>3
    <3> QED
      BY <3>4, Zenon DEF epoch_over
  <2>5. PendingMatchesQueue'
    BY <1>1, <1>2, <2>1, <2>4
    DEF PendingMatchesQueue, get_pending_delegation_amount
  <2>6. BalanceCoversCommitments'
    BY <1>1, <1>2, <2>1 DEF BalanceCoversCommitments
  <2> QED
    BY <1>7, <2>2, <2>3, <2>5, <2>6 DEF IInv
<1> QED
  BY <1>8, <1>9

\* The other steps of the chain.
LEMMA ChainStepIInv ==
    ASSUME IInv, ChainStep
    PROVE  IInv'
<1>1. TypeOK /\ EpochAligned /\ PendingMatchesQueue /\ ReleasedIsPrefix
      /\ BalanceCoversCommitments
  BY DEF IInv
<1>2. UNCHANGED <<state, params, current_batch, wait_list, history, pending,
                  total_supply, token_balance, closed_at>>
  BY DEF ChainStep, hubVars
<1>3. ChainTypeOK /\ state.unclaimed_unstaked_balance \in Nat
      /\ queue.delegate \in Nat
  BY <1>1 DEF TypeOK, ChainTypeOK, State
<1>4. CASE NextBlock
  BY <1>4, NextBlockStep DEF ChainStep
<1>5. CASE ChangeValidators \/ Slash \/ SlashUnbonding \/ CompleteUnbonding
           \/ Donate
  <2>1. /\ UNCHANGED <<height, time, epoch_start, queue>>
        /\ hub_balance' \in Nat /\ hub_balance' >= hub_balance
    BY <1>3, <1>5, ChainAssumption
    DEF ChangeValidators, Slash, SlashUnbonding, CompleteUnbonding, Donate,
        ChainTypeOK
  <2>2. delegated' \in Nat /\ unbonding' \in Nat /\ lost' \in Nat
        /\ disturbances' \in Nat
    BY <1>3, <1>5, ChainAssumption
    DEF ChangeValidators, Slash, SlashUnbonding, CompleteUnbonding, Donate,
        ChainTypeOK
  <2>3. ChainTypeOK'
    <3>1. active' \in 0 .. delegated'
      BY <1>3, <1>5, <2>2, AnswersWithin
      DEF ChangeValidators, Slash, SlashUnbonding, CompleteUnbonding, Donate,
          ChainTypeOK
    <3> QED
      BY <1>3, <2>1, <2>2, <3>1 DEF ChainTypeOK
  <2>4. TypeOK'
    BY <1>1, <1>2, <2>3 DEF TypeOK
  <2>5. EpochAligned' /\ PendingMatchesQueue'
    BY <1>1, <1>2, <2>1, UnrecordedStep
  <2>6. BalanceCoversCommitments' /\ ReleasedIsPrefix'
    BY <1>1, <1>2, <1>3, <2>1
    DEF BalanceCoversCommitments, ReleasedIsPrefix, ChainTypeOK
  <2> QED
    BY <2>4, <2>5, <2>6 DEF IInv
<1> QED
  BY <1>4, <1>5 DEF ChainStep, ChainNext

\* Slashing checks, direct burns and parameter changes move no coins.
LEMMA QuietActions ==
    ASSUME IInv,
           \/ CheckSlashing
           \/ UpdateParams
           \/ \E user \in Users : TokenBurn(user)
    PROVE  IInv'
<1>1. TypeOK
  BY DEF IInv
<1>2. /\ state \in State /\ pending \in PendingDelegation
      /\ params \in [epoch_length : Nat, unstaking_period : Nat,
                     paused : BOOLEAN]
      /\ current_batch.requested \in Nat
      /\ total_supply \in Nat /\ token_balance \in [Users -> Nat]
  BY <1>1 DEF TypeOK
<1>3. CASE CheckSlashing
  <2>1. /\ actual_state_defined(state, pending)
        /\ state' = checked_state
        /\ UNCHANGED <<chainVars, params, current_batch, wait_list, history,
                       pending, total_supply, token_balance, closed_at>>
    BY <1>3 DEF CheckSlashing
  <2>2. /\ state' \in State
        /\ state'.unclaimed_unstaked_balance = state.unclaimed_unstaked_balance
        /\ state'.last_processed_batch = state.last_processed_batch
    BY <1>1, <2>1, CheckedState
  <2>3. /\ params' = params /\ total_supply' = total_supply
        /\ token_balance' = token_balance
        /\ UNCHANGED <<chainVars, current_batch, wait_list, history, pending,
                       closed_at>>
    BY <2>1
  <2> QED
    BY <1>2, <2>2, <2>3, QuietStep
<1>4. CASE UpdateParams
  <2>1. PICK paused \in PAUSES \cup {params.paused},
             epoch_length \in EPOCH_LENGTHS \cup {params.epoch_length},
             unstaking_period \in UNSTAKING_PERIODS \cup {params.unstaking_period} :
          /\ params' = [epoch_length |-> epoch_length,
                        unstaking_period |-> unstaking_period,
                        paused |-> paused]
          /\ UNCHANGED <<chainVars, state, current_batch, wait_list, history,
                         pending, total_supply, token_balance, closed_at>>
    BY <1>4 DEF UpdateParams
  <2>2. params' \in [epoch_length : Nat, unstaking_period : Nat,
                     paused : BOOLEAN]
    <3>1. paused \in BOOLEAN
      BY <1>2, HubAssumption
    <3>2. epoch_length \in Nat /\ unstaking_period \in Nat
      BY <1>2, HubAssumption
    <3> QED
      BY <2>1, <3>1, <3>2
  <2>3. /\ state' = state /\ total_supply' = total_supply
        /\ token_balance' = token_balance
        /\ UNCHANGED <<chainVars, current_batch, wait_list, history, pending,
                       closed_at>>
    BY <2>1
  <2> QED
    BY <1>2, <2>2, <2>3, QuietStep
<1>5. CASE \E user \in Users : TokenBurn(user)
  <2>1. PICK user \in Users, amount \in BURN_AMOUNTS :
          /\ burn(user, amount)
          /\ actual_state_defined(state, pending)
          /\ state' = query_actual_state(state, pending, total_supply',
                                         current_batch.requested)
          /\ UNCHANGED <<chainVars, params, current_batch, wait_list, history,
                         pending, closed_at>>
    BY <1>5 DEF TokenBurn
  <2>2. total_supply' \in Nat /\ token_balance' \in [Users -> Nat]
    BY <1>2, <2>1, HubAssumption DEF burn
  <2>3. /\ state' \in State
        /\ state'.unclaimed_unstaked_balance = state.unclaimed_unstaked_balance
        /\ state'.last_processed_batch = state.last_processed_batch
    BY <1>1, <1>2, <2>1, <2>2, ActualState
  <2>4. /\ params' = params
        /\ UNCHANGED <<chainVars, current_batch, wait_list, history, pending,
                       closed_at>>
    BY <2>1
  <2> QED
    BY <1>2, <2>2, <2>3, <2>4, QuietStep
<1> QED
  BY <1>3, <1>4, <1>5

\* A payment and rewards are staked alike.
LEMMA StakeActions ==
    ASSUME IInv, UpdateGlobalIndex \/ \E user \in Users : Stake(user)
    PROVE  IInv'
<1>1. TypeOK /\ token_balance \in [Users -> Nat]
  BY DEF IInv, TypeOK
<1>2. CASE UpdateGlobalIndex
  <2>1. PICK reward \in REWARDS :
          /\ reward - compute_fee(reward, FEE_RATE) > 0
          /\ execute_stake(reward - compute_fee(reward, FEE_RATE), 0)
          /\ token_balance' = token_balance
    BY <1>2 DEF UpdateGlobalIndex
  <2> DEFINE rest == reward - compute_fee(reward, FEE_RATE)
  <2>2. reward \in Nat /\ FEE_RATE \in Nat
    BY HubAssumption, ScaleAssumption
  <2>3. compute_fee(reward, FEE_RATE) \in Nat
    BY <2>2, MathTypes
  <2>4. rest \in Nat
    BY <2>1, <2>2, <2>3
  <2> HIDE DEF rest
  <2> QED
    BY <1>1, <2>1, <2>4, ExecuteStakeStep DEF rest
<1>3. CASE \E user \in Users : Stake(user)
  <2>1. PICK user \in Users, payment \in STAKE_AMOUNTS :
          /\ checked_state.lst_exchange_rate # 0
          /\ execute_stake(payment, mint_amount(payment))
          /\ token_balance' = [token_balance EXCEPT
                                   ![user] = @ + mint_amount(payment)]
    BY <1>3 DEF Stake
  <2>2. payment \in Nat
    BY HubAssumption
  <2>3. mint_amount(payment) \in Nat
    <3>1. checked_state \in State
      BY <1>1, <2>1, CheckedState DEF execute_stake
    <3>2. checked_state.lst_exchange_rate \in Nat \ {0}
      BY <2>1, <3>1 DEF State
    <3> QED
      BY <2>2, <3>2, MathTypes DEF mint_amount
  <2>4. token_balance' \in [Users -> Nat]
    BY <1>1, <2>1, <2>3
  <2> QED
    BY <2>1, <2>2, <2>3, <2>4, ExecuteStakeStep
<1> QED
  BY <1>2, <1>3

\* Unstaking and closing a batch.
LEMMA UnstakeActions ==
    ASSUME IInv, ProcessUndelegations \/ \E user \in Users : Unstake(user)
    PROVE  IInv'
<1>1. TypeOK /\ BalanceCoversCommitments /\ ReleasedIsPrefix
  BY DEF IInv
<1>2. /\ state \in State /\ pending \in PendingDelegation /\ ChainTypeOK
      /\ current_batch \in [id : Nat \ {0}, requested : Nat]
      /\ total_supply \in Nat /\ token_balance \in [Users -> Nat]
      /\ wait_list \in [DOMAIN wait_list -> Nat]
      /\ DOMAIN wait_list \subseteq Users \X (1 .. current_batch.id)
  BY <1>1 DEF TypeOK
\* What is left to show once the batch has been dealt with.
<1>3. ASSUME NEW batch \in [id : Nat \ {0}, requested : Nat],
             batch.id = current_batch.id,
             actual_state_defined(state, pending),
             check_for_unstake_batch_epoch_completion(batch, checked_state),
             state' \in State,
             state'.unclaimed_unstaked_balance
                = completed_state(batch, checked_state).unclaimed_unstaked_balance,
             state'.last_processed_batch
                = completed_state(batch, checked_state).last_processed_batch,
             wait_list' \in [DOMAIN wait_list' -> Nat],
             DOMAIN wait_list' \subseteq Users \X (1 .. current_batch.id),
             total_supply' \in Nat, token_balance' \in [Users -> Nat],
             UNCHANGED <<height, time, epoch_start, hub_balance, delegated,
                         active, unbonding, lost, disturbances, params>>
      PROVE  IInv'
  <2>1. /\ checked_state \in State
        /\ checked_state.unclaimed_unstaked_balance
              = state.unclaimed_unstaked_balance
        /\ checked_state.last_processed_batch = state.last_processed_batch
    BY <1>1, <1>3, CheckedState
  <2>2. UNCHANGED <<height, time, epoch_start>>
    BY <1>3
  <2>3. /\ completed_state(batch, checked_state).unclaimed_unstaked_balance
              = state.unclaimed_unstaked_balance
        /\ completed_state(batch, checked_state).last_processed_batch
              = state.last_processed_batch
        /\ pending' \in PendingDelegation
        /\ queue' \in [delegate : Nat, undelegate : Nat]
        /\ queue'.delegate = queue.delegate
        /\ EpochAligned' /\ PendingMatchesQueue'
        /\ current_batch' \in [id : Nat \ {0}, requested : Nat]
        /\ current_batch'.id >= current_batch.id
        /\ history' \in [1 .. current_batch'.id - 1 -> History]
        /\ closed_at' \in [1 .. current_batch'.id - 1 -> Nat]
        /\ \A b \in DOMAIN history' :
              history'[b].released <=> b <= state.last_processed_batch
    BY <1>3, <2>1, <2>2, BatchStep
  <2>4. TypeOK'
    <3>1. ChainTypeOK'
      BY <1>2, <1>3, <2>3 DEF ChainTypeOK
    <3>2. DOMAIN wait_list' \subseteq Users \X (1 .. current_batch'.id)
      <4>1. 1 .. current_batch.id \subseteq 1 .. current_batch'.id
        BY <1>2, <2>3
      <4> QED
        BY <1>3, <4>1
    <3>3. params' \in [epoch_length : Nat, unstaking_period : Nat,
                       paused : BOOLEAN]
      BY <1>1, <1>3 DEF TypeOK
    <3> QED
      BY <1>3, <2>3, <3>1, <3>2, <3>3 DEF TypeOK
  <2>5. BalanceCoversCommitments'
    BY <1>1, <1>3, <2>3 DEF BalanceCoversCommitments
  <2>6. ReleasedIsPrefix'
    BY <1>1, <1>2, <1>3, <2>3 DEF ReleasedIsPrefix, State
  <2> QED
    BY <2>3, <2>4, <2>5, <2>6 DEF IInv
<1>4. CASE ProcessUndelegations
  <2>1. /\ actual_state_defined(state, pending)
        /\ check_for_unstake_batch_epoch_completion(current_batch, checked_state)
        /\ state' = completed_state(current_batch, checked_state)
        /\ UNCHANGED <<height, time, epoch_start, hub_balance, delegated,
                       active, unbonding, lost, disturbances, params,
                       wait_list, total_supply, token_balance>>
    BY <1>4 DEF ProcessUndelegations
  <2>2. state' \in State
    <3>1. /\ checked_state \in State
          /\ checked_state.unclaimed_unstaked_balance
                = state.unclaimed_unstaked_balance
          /\ checked_state.last_processed_batch = state.last_processed_batch
      BY <1>1, <2>1, CheckedState
    <3>2. UNCHANGED <<height, time, epoch_start>>
      BY <2>1
    <3> QED
      BY <1>2, <2>1, <3>1, <3>2, BatchStep
  <2>3. /\ wait_list' = wait_list /\ total_supply' = total_supply
        /\ token_balance' = token_balance
        /\ UNCHANGED <<height, time, epoch_start, hub_balance, delegated,
                       active, unbonding, lost, disturbances, params>>
    BY <2>1
  <2>4. wait_list' \in [DOMAIN wait_list' -> Nat]
        /\ DOMAIN wait_list' \subseteq Users \X (1 .. current_batch.id)
    BY <1>2, <2>3
  <2>5. total_supply' \in Nat /\ token_balance' \in [Users -> Nat]
    BY <1>2, <2>3
  <2> QED
    BY <1>2, <1>3, <2>1, <2>2, <2>3, <2>4, <2>5
<1>5. CASE \E user \in Users : Unstake(user)
  <2>1. PICK user \in Users, amount \in UNSTAKE_AMOUNTS :
          LET batch == [current_batch EXCEPT !.requested = @ + amount]
              st == completed_state(batch, checked_state)
          IN
          /\ actual_state_defined(state, pending)
          /\ wait_list' = updated_wait_list(user, amount)
          /\ check_for_unstake_batch_epoch_completion(batch, checked_state)
          /\ burn(user, amount)
          /\ actual_state_defined(st, pending')
          /\ state' = query_actual_state(st, pending', total_supply',
                                         current_batch'.requested)
          /\ UNCHANGED <<height, time, epoch_start, hub_balance, delegated,
                         active, unbonding, lost, disturbances, params>>
    BY <1>5 DEF Unstake
  <2> DEFINE batch == [current_batch EXCEPT !.requested = @ + amount]
             st == completed_state(batch, checked_state)
  <2>2. amount \in Nat
    BY HubAssumption
  <2>3. batch \in [id : Nat \ {0}, requested : Nat] /\ batch.id = current_batch.id
    BY <1>2, <2>2
  <2> HIDE DEF batch
  <2>4. total_supply' \in Nat /\ token_balance' \in [Users -> Nat]
    BY <1>2, <2>1, <2>2 DEF burn
  <2>5. /\ st \in State /\ pending' \in PendingDelegation
        /\ current_batch'.requested \in Nat
    <3>1. /\ checked_state \in State
          /\ checked_state.unclaimed_unstaked_balance
                = state.unclaimed_unstaked_balance
          /\ checked_state.last_processed_batch = state.last_processed_batch
      BY <1>1, <2>1, CheckedState
    <3>2. UNCHANGED <<height, time, epoch_start>>
      BY <2>1
    <3>3. check_for_unstake_batch_epoch_completion(batch, checked_state)
      BY <2>1 DEF batch
    <3> QED
      BY <2>3, <3>1, <3>2, <3>3, BatchStep
  <2> HIDE DEF st
  <2>6. /\ state' \in State
        /\ state'.unclaimed_unstaked_balance = st.unclaimed_unstaked_balance
        /\ state'.last_processed_batch = st.last_processed_batch
    <3>1. /\ actual_state_defined(st, pending')
          /\ state' = query_actual_state(st, pending', total_supply',
                                         current_batch'.requested)
      BY <2>1 DEF st, batch
    <3> QED
      BY <1>1, <2>4, <2>5, <3>1, ActualState
  <2>7. /\ wait_list' \in [DOMAIN wait_list' -> Nat]
        /\ DOMAIN wait_list' \subseteq Users \X (1 .. current_batch.id)
    <3> DEFINE key == <<user, current_batch.id>>
    <3>1. key \in Users \X (1 .. current_batch.id)
      BY <1>2
    <3>2. wait_list' = [k \in DOMAIN wait_list \cup {key} |->
              IF k # key THEN wait_list[k]
              ELSE IF k \in DOMAIN wait_list THEN wait_list[k] + amount
                   ELSE amount]
      BY <2>1 DEF updated_wait_list
    <3> HIDE DEF key
    <3>3. DOMAIN wait_list' = DOMAIN wait_list \cup {key}
      BY <3>2
    <3>4. \A k \in DOMAIN wait_list : wait_list[k] \in Nat
      BY <1>2
    <3>5. \A k \in DOMAIN wait_list' : wait_list'[k] \in Nat
      BY <2>2, <3>2, <3>3, <3>4
    <3>6. wait_list' \in [DOMAIN wait_list' -> Nat]
      BY <3>2, <3>3, <3>5
    <3> QED
      BY <1>2, <3>1, <3>3, <3>6
  <2>8. UNCHANGED <<height, time, epoch_start, hub_balance, delegated, active,
                    unbonding, lost, disturbances, params>>
    BY <2>1
  <2> QED
    BY <1>3, <2>1, <2>3, <2>4, <2>6, <2>7, <2>8 DEF batch, st
<1> QED
  BY <1>4, <1>5

\* Releasing batches and paying their entries.
LEMMA WithdrawActions ==
    ASSUME IInv,
           \/ ProcessWithdrawRequests
           \/ \E user \in Users :
                 WithdrawUnstaked(user) \/ WithdrawUnstakedForBatches(user)
    PROVE  IInv'
<1>1. TypeOK /\ EpochAligned /\ PendingMatchesQueue /\ BalanceCoversCommitments
      /\ ReleasedIsPrefix
  BY DEF IInv
<1>2. /\ state \in State /\ ChainTypeOK
      /\ hub_balance \in Nat /\ queue.delegate \in Nat
      /\ wait_list \in [DOMAIN wait_list -> Nat]
      /\ DOMAIN wait_list \subseteq Users \X (1 .. current_batch.id)
  BY <1>1 DEF TypeOK, ChainTypeOK
\* Both pay `paid` out of the free balance and keep `left` of it unreserved.
<1>3. ASSUME NEW last \in state.last_processed_batch .. current_batch.id - 1,
             NEW left \in Nat, NEW paid \in Nat,
             process_withdraw_rate(last, left),
             history' = released_history(last),
             paid + left <= actual_free_balance,
             state' = released_state(last, actual_free_balance - paid - left),
             hub_balance' = hub_balance - paid,
             wait_list' \in [DOMAIN wait_list' -> Nat],
             DOMAIN wait_list' \subseteq DOMAIN wait_list,
             UNCHANGED <<height, time, epoch_start, delegated, active, queue,
                         unbonding, lost, disturbances, params, current_batch,
                         pending, total_supply, token_balance, closed_at>>
      PROVE  IInv'
  <2>1. /\ history' \in [1 .. current_batch.id - 1 -> History]
        /\ last \in Nat /\ last < current_batch.id
        /\ \A b \in DOMAIN history' : history'[b].released <=> b <= last
        /\ actual_free_balance = hub_balance - queue.delegate
        /\ actual_free_balance \in Nat
    BY <1>3, ReleaseStep
  <2> DEFINE unclaimed == actual_free_balance - paid - left
  <2>2. unclaimed \in Nat /\ unclaimed <= actual_free_balance - paid
    BY <1>3, <2>1
  <2>3. hub_balance' \in Nat /\ queue.delegate + unclaimed <= hub_balance'
    BY <1>2, <1>3, <2>1
  <2> HIDE DEF unclaimed
  <2>4. /\ state' \in State
        /\ state'.last_processed_batch = last
        /\ state'.unclaimed_unstaked_balance = unclaimed
    BY <1>2, <1>3, <2>1, <2>2 DEF State, released_state, unclaimed
  <2>5. TypeOK'
    <3>1. ChainTypeOK'
      BY <1>2, <1>3, <2>3 DEF ChainTypeOK
    <3>2. DOMAIN wait_list' \subseteq Users \X (1 .. current_batch'.id)
      BY <1>2, <1>3
    <3> QED
      BY <1>1, <1>3, <2>1, <2>4, <3>1, <3>2 DEF TypeOK
  <2>6. UNCHANGED <<height, epoch_start, pending, queue>>
    BY <1>3
  <2>7. EpochAligned' /\ PendingMatchesQueue'
    BY <1>1, <2>6, UnrecordedStep
  <2>8. BalanceCoversCommitments' /\ ReleasedIsPrefix'
    BY <1>3, <2>1, <2>3, <2>4 DEF BalanceCoversCommitments, ReleasedIsPrefix
  <2> QED
    BY <2>5, <2>7, <2>8 DEF IInv
<1>4. CASE ProcessWithdrawRequests
  <2>1. PICK last \in state.last_processed_batch .. current_batch.id - 1,
             left \in 0 .. hub_balance :
          /\ process_withdraw_rate(last, left)
          /\ left <= actual_free_balance
          /\ history' = released_history(last)
          /\ state' = released_state(last, actual_free_balance - left)
    BY <1>4 DEF ProcessWithdrawRequests
  <2>2. UNCHANGED <<height, time, epoch_start, hub_balance, delegated, active,
                    queue, unbonding, lost, disturbances, params,
                    current_batch, wait_list, pending, total_supply,
                    token_balance, closed_at>>
    BY <1>4 DEF ProcessWithdrawRequests, chainVars
  <2>3. left \in Nat /\ actual_free_balance \in Nat
    BY <1>2, <2>1, ReleaseStep
  <2>4. /\ 0 + left <= actual_free_balance
        /\ actual_free_balance - left = actual_free_balance - 0 - left
        /\ hub_balance' = hub_balance - 0
    BY <1>2, <2>1, <2>2, <2>3
  <2>5. /\ wait_list' \in [DOMAIN wait_list' -> Nat]
        /\ DOMAIN wait_list' \subseteq DOMAIN wait_list
    BY <1>2, <2>2
  <2> QED
    BY <1>3, <2>1, <2>2, <2>3, <2>4, <2>5
<1>5. ASSUME NEW user \in Users, NEW selection,
             execute_withdraw_unstaked_impl(user, selection)
      PROVE  IInv'
  <2> DEFINE paid == finished_amount(user, selection, history')
             gone == {selection[i] : i \in finished(user, selection, history')}
  <2>1. PICK last \in state.last_processed_batch .. current_batch.id - 1,
             left \in 0 .. hub_balance :
          /\ process_withdraw_rate(last, left)
          /\ history' = released_history(last)
          /\ paid \in 1 .. actual_free_balance - left
          /\ wait_list' = remove_unstake_wait_list(user, gone)
          /\ state' = released_state(last, actual_free_balance - paid - left)
          /\ hub_balance' = hub_balance - paid
    BY <1>5 DEF execute_withdraw_unstaked_impl, withdraw_succeeds
  <2>2. UNCHANGED <<height, time, epoch_start, delegated, active, queue,
                    unbonding, lost, disturbances, params, current_batch,
                    pending, total_supply, token_balance, closed_at>>
    BY <1>5 DEF execute_withdraw_unstaked_impl
  <2> HIDE DEF paid, gone
  <2>3. left \in Nat /\ actual_free_balance \in Nat
    BY <1>2, <2>1, ReleaseStep
  <2>4. paid \in Nat /\ paid + left <= actual_free_balance
    BY <2>1, <2>3
  <2>5. /\ wait_list' \in [DOMAIN wait_list' -> Nat]
        /\ DOMAIN wait_list' \subseteq DOMAIN wait_list
    BY <1>2, <2>1 DEF remove_unstake_wait_list
  <2> QED
    BY <1>3, <2>1, <2>2, <2>3, <2>4, <2>5
<1>6. CASE \E user \in Users :
              WithdrawUnstaked(user) \/ WithdrawUnstakedForBatches(user)
  BY <1>5, <1>6 DEF WithdrawUnstaked, WithdrawUnstakedForBatches
<1> QED
  BY <1>4, <1>6

\* The invariant is inductive: one case per kind of step.
LEMMA NextIInv == IInv /\ [Next]_vars => IInv'
<1> SUFFICES ASSUME IInv, [Next]_vars PROVE IInv'
  OBVIOUS
<1>1. CASE HubNext
  BY <1>1, QuietActions, StakeActions, UnstakeActions, WithdrawActions
  DEF HubNext
<1>2. CASE ChainStep
  BY <1>2, ChainStepIInv
<1>3. CASE UNCHANGED vars
  <2>1. UNCHANGED <<chainVars, state, params, current_batch, wait_list,
                    history, pending, total_supply, token_balance, closed_at>>
    BY <1>3 DEF vars, hubVars
  <2>2. /\ state \in State
        /\ params \in [epoch_length : Nat, unstaking_period : Nat,
                       paused : BOOLEAN]
        /\ total_supply \in Nat /\ token_balance \in [Users -> Nat]
    BY DEF IInv, TypeOK
  <2> QED
    BY <2>1, <2>2, QuietStep
<1> QED
  BY <1>1, <1>2, <1>3 DEF Next

\* The inductive invariant holds throughout.
THEOREM Invariance == Spec => []IInv
<1> QED
  BY InitIInv, NextIInv, PTL DEF Spec

-----------------------------------------------------------------------------
(* The theorems.                                                           *)

\* Every value keeps its Rust type: no subtraction of a handler that commits
\* goes below zero, and the stored history is exactly that of the batches
\* before the open one (the checked_sub calls of unstake.rs and state.rs).
THEOREM TypeCorrect == Spec => []TypeOK
<1>1. IInv => TypeOK
  BY DEF IInv
<1> QED
  BY <1>1, Invariance, PTL

\* The hub's record of its pending messages is the epoching module's queue at
\* every block, for every epoch length (state.rs:146-190).
THEOREM PendingIsQueue == Spec => []PendingMatchesQueue
<1>1. IInv => PendingMatchesQueue
  BY DEF IInv
<1> QED
  BY <1>1, Invariance, PTL

\* Withdrawals and releases never spend coins of queued delegations or of
\* batches released before (unstake.rs:298-368, 438-503).
THEOREM CommitmentsCovered == Spec => []BalanceCoversCommitments
<1>1. IInv => BalanceCoversCommitments
  BY DEF IInv
<1> QED
  BY <1>1, Invariance, PTL

\* Batches are released strictly in order (unstake.rs:373-412).
THEOREM ReleasedInOrder == Spec => []ReleasedIsPrefix
<1>1. IInv => ReleasedIsPrefix
  BY DEF IInv
<1> QED
  BY <1>1, Invariance, PTL

\* The action of HistoryIsFinal.
HistoryStep ==
    \A b \in DOMAIN history :
        /\ b \in DOMAIN history'
        /\ \/ history'[b] = history[b]
           \/ history'[b] = [history[b] EXCEPT !.released = TRUE]

\* Every step of Next is a step HistoryIsFinal allows.
LEMMA NextHistoryStep == IInv /\ [Next]_vars => HistoryStep
<1> SUFFICES ASSUME IInv, [Next]_vars PROVE HistoryStep
  OBVIOUS
<1>1. TypeOK
  BY DEF IInv
<1>2. /\ current_batch \in [id : Nat \ {0}, requested : Nat]
      /\ history \in [1 .. current_batch.id - 1 -> History]
  BY <1>1 DEF TypeOK
<1>3. ASSUME history' = history
      PROVE  HistoryStep
  BY <1>3 DEF HistoryStep
<1>4. CASE UNCHANGED vars \/ ChainStep \/ CheckSlashing \/ UpdateGlobalIndex
           \/ UpdateParams
  BY <1>3, <1>4
  DEF vars, hubVars, ChainStep, CheckSlashing, UpdateGlobalIndex,
      execute_stake, UpdateParams
<1>5. CASE \E user \in Users : Stake(user) \/ TokenBurn(user)
  BY <1>3, <1>5 DEF Stake, execute_stake, TokenBurn
\* Closing a batch appends it.
<1>6. ASSUME NEW batch \in [id : Nat \ {0}, requested : Nat],
             batch.id = current_batch.id,
             actual_state_defined(state, pending),
             check_for_unstake_batch_epoch_completion(batch, checked_state),
             UNCHANGED <<height, time, epoch_start>>
      PROVE  HistoryStep
  <2>1. /\ checked_state \in State
        /\ checked_state.unclaimed_unstaked_balance
              = state.unclaimed_unstaked_balance
        /\ checked_state.last_processed_batch = state.last_processed_batch
    BY <1>1, <1>6, CheckedState
  <2>2. \A b \in DOMAIN history :
           b \in DOMAIN history' /\ history'[b] = history[b]
    BY <1>6, <2>1, BatchStep
  <2> QED
    BY <2>2 DEF HistoryStep
<1>7. CASE ProcessUndelegations
  BY <1>2, <1>6, <1>7 DEF ProcessUndelegations
<1>8. ASSUME NEW user \in Users, Unstake(user)
      PROVE  HistoryStep
  <2>1. PICK amount \in UNSTAKE_AMOUNTS :
          /\ actual_state_defined(state, pending)
          /\ check_for_unstake_batch_epoch_completion(
                [current_batch EXCEPT !.requested = @ + amount], checked_state)
          /\ UNCHANGED <<height, time, epoch_start>>
    BY <1>8 DEF Unstake
  <2> DEFINE batch == [current_batch EXCEPT !.requested = @ + amount]
  <2>2. batch \in [id : Nat \ {0}, requested : Nat] /\ batch.id = current_batch.id
    BY <1>2, HubAssumption
  <2> HIDE DEF batch
  <2> QED
    BY <1>6, <2>1, <2>2 DEF batch
\* Releasing batches marks them and changes nothing else.
<1>9. ASSUME NEW last \in state.last_processed_batch .. current_batch.id - 1,
             NEW left, process_withdraw_rate(last, left),
             history' = released_history(last)
      PROVE  HistoryStep
  <2>1. DOMAIN history' = DOMAIN history
    BY <1>2, <1>9, ReleaseStep
  <2>2. \A b \in DOMAIN history :
           \/ history'[b] = history[b]
           \/ history'[b] = [history[b] EXCEPT !.released = TRUE]
    BY <1>9, ReleaseStep
  <2> QED
    BY <2>1, <2>2 DEF HistoryStep
<1>10. CASE ProcessWithdrawRequests
  BY <1>9, <1>10 DEF ProcessWithdrawRequests
<1>11. ASSUME NEW user \in Users, NEW selection,
              execute_withdraw_unstaked_impl(user, selection)
       PROVE  HistoryStep
  BY <1>9, <1>11 DEF execute_withdraw_unstaked_impl, withdraw_succeeds
<1> QED
  BY <1>4, <1>5, <1>7, <1>8, <1>10, <1>11
  DEF Next, HubNext, WithdrawUnstaked, WithdrawUnstakedForBatches

\* Nothing rewrites the record of a closed batch: only the release marks it,
\* for good (unstake.rs:238, 359-364).
THEOREM HistoryFinal == Spec => HistoryIsFinal
<1>1. IInv /\ [Next]_vars => [HistoryStep]_vars
  BY NextHistoryStep
<1> QED
  BY <1>1, Invariance, PTL DEF Spec, HistoryIsFinal, HistoryStep

-----------------------------------------------------------------------------
(* The stored rate is backed by the staked total.                          *)

\* RateBacked of a state record, a supply and an amount in the open batch.
Backed(st, supply, requested) ==
    st.total_staked_amount # 0 =>
        (supply + requested) * st.lst_exchange_rate
            <= st.total_staked_amount * One

\* A recomputed rate is backed, because it is rounded down.
LEMMA UpdatedRateBacked ==
    ASSUME NEW t \in Nat \ {0}, NEW s \in Nat, NEW r \in Nat
    PROVE  (s + r) * updated_exchange_rate(t, s, r) <= t * One
<1>1. One \in Nat \ {0}
  BY MathTypes
<1>2. CASE s + r = 0
  BY <1>1, <1>2, MathTypes
<1>3. CASE s + r # 0
  <2> DEFINE n == s + r
             a == t * One
  <2>1. n \in Nat \ {0} /\ a \in Nat
    BY <1>1, <1>3
  <2>2. updated_exchange_rate(t, s, r) = a \div n
    BY <1>3 DEF updated_exchange_rate, from_ratio, One
  <2> HIDE DEF n, a
  <2>3. a \div n \in Nat /\ (a \div n) * n <= a
    BY <2>1, DivBounds
  <2>4. n * (a \div n) <= a
    BY <2>1, <2>3
  <2> QED
    BY <2>2, <2>4 DEF n, a
<1> QED
  BY <1>2, <1>3

\* The slashing check leaves a backed rate backed.
LEMMA CheckKeepsBacked ==
    ASSUME TypeOK, NEW st \in State, NEW p \in PendingDelegation,
           NEW supply \in Nat, NEW requested \in Nat,
           actual_state_defined(st, p), Backed(st, supply, requested)
    PROVE  Backed(query_actual_state(st, p, supply, requested),
                  supply, requested)
<1> DEFINE r == query_actual_state(st, p, supply, requested)
<1>1. CASE delegated = 0 \/ state_total_staked(st, p) = 0
  BY <1>1 DEF query_actual_state
<1>2. CASE ~(delegated = 0 \/ state_total_staked(st, p) = 0)
  <2> DEFINE t == slashed_total(st, p)
  <2>1. /\ r \in State /\ r.total_staked_amount = t
        /\ r.lst_exchange_rate = updated_exchange_rate(t, supply, requested)
    <3>1. r \in State
      BY ActualState
    <3> QED
      BY <1>2, <3>1 DEF query_actual_state, State
  <2>2. t \in Nat
    BY <2>1 DEF State
  <2> HIDE DEF r, t
  <2> QED
    BY <2>1, <2>2, UpdatedRateBacked DEF Backed, r
<1> QED
  BY <1>1, <1>2

\* Closing a batch at the stored rate, rounded down, leaves enough for the
\* remaining tokens.
LEMMA CloseKeepsBacked ==
    ASSUME NEW batch \in [id : Nat \ {0}, requested : Nat],
           NEW st \in State, NEW supply \in Nat,
           Backed(st, supply, batch.requested),
           unstaked_amount_in_batch(batch, st) <= st.total_staked_amount
    PROVE  Backed(undelegated_state(batch, st), supply, 0)
<1> DEFINE rate == st.lst_exchange_rate
           t == st.total_staked_amount
           r == batch.requested
           claim == unstaked_amount_in_batch(batch, st)
<1>1. rate \in Nat /\ t \in Nat /\ r \in Nat /\ One \in Nat \ {0}
  BY MathTypes DEF State
<1>2. claim \in Nat /\ claim * One <= r * rate
  <2>1. r * rate \in Nat
    BY <1>1
  <2>2. claim = (r * rate) \div One
    BY DEF unstaked_amount_in_batch, decimal_multiplication, One
  <2> HIDE DEF claim, r, rate
  <2> QED
    BY <1>1, <2>1, <2>2, DivBounds
<1>3. /\ undelegated_state(batch, st).total_staked_amount = t - claim
      /\ undelegated_state(batch, st).lst_exchange_rate = rate
  BY DEF undelegated_state, State
<1>4. t # 0 => (supply + r) * rate <= t * One
  BY DEF Backed
<1>5. claim <= t
  OBVIOUS
<1> HIDE DEF rate, t, r, claim
<1>6. t - claim # 0 => (supply + 0) * rate <= (t - claim) * One
  <2> SUFFICES ASSUME t - claim # 0
               PROVE  (supply + 0) * rate <= (t - claim) * One
    OBVIOUS
  <2>1. supply * rate + r * rate <= t * One
    BY <1>1, <1>2, <1>4, <1>5
  <2>2. (t - claim) * One = t * One - claim * One
    BY <1>1, <1>2
  <2> QED
    BY <1>1, <1>2, <2>1, <2>2
<1> QED
  BY <1>3, <1>6 DEF Backed

\* The batch with the state that goes with it, closed or stored.
LEMMA BatchKeepsBacked ==
    ASSUME IInv, NEW batch \in [id : Nat \ {0}, requested : Nat],
           NEW st \in State, NEW supply \in Nat,
           Backed(st, supply, batch.requested),
           check_for_unstake_batch_epoch_completion(batch, st)
    PROVE  Backed(completed_state(batch, st), supply, current_batch'.requested)
<1>1. CASE epoch_completed
  <2>1. process_undelegations_for_batch(batch, st)
    BY <1>1 DEF check_for_unstake_batch_epoch_completion
  <2>2. /\ unstaked_amount_in_batch(batch, st) <= st.total_staked_amount
        /\ current_batch'.requested = 0
    BY <2>1 DEF process_undelegations_for_batch, next_batch
  <2> QED
    BY <1>1, <2>2, CloseKeepsBacked DEF completed_state
<1>2. CASE ~epoch_completed
  BY <1>2 DEF check_for_unstake_batch_epoch_completion, completed_state
<1> QED
  BY <1>1, <1>2

\* Staking recomputes the rate.
LEMMA StakeBacked ==
    ASSUME IInv, NEW payment \in Nat \ {0}, NEW mint \in Nat,
           execute_stake(payment, mint)
    PROVE  RateBacked'
<1>1. TypeOK /\ total_supply \in Nat /\ current_batch.requested \in Nat
  BY DEF IInv, TypeOK
<1>2. /\ checked_state \in State
      /\ checked_state.total_staked_amount \in Nat
  BY <1>1, CheckedState DEF execute_stake, State
<1> DEFINE t == checked_state.total_staked_amount + payment
           s == total_supply + mint
           r == current_batch.requested
<1>3. t \in Nat \ {0} /\ s \in Nat /\ r \in Nat
  BY <1>1, <1>2
<1>4. /\ state'.total_staked_amount = t
      /\ state'.lst_exchange_rate = updated_exchange_rate(t, s, r)
      /\ total_supply' = s /\ current_batch'.requested = r
  BY <1>2 DEF execute_stake, staked_state, State
<1> HIDE DEF t, s, r
<1> QED
  BY <1>3, <1>4, UpdatedRateBacked DEF RateBacked, SharingSupply

\* Every step of Next keeps the rate backed.
LEMMA NextRateBacked == IInv /\ RateBacked /\ [Next]_vars => RateBacked'
<1> SUFFICES ASSUME IInv, RateBacked, [Next]_vars PROVE RateBacked'
  OBVIOUS
<1> DEFINE requested == current_batch.requested
<1>1. TypeOK /\ Backed(state, total_supply, requested)
  BY DEF IInv, RateBacked, SharingSupply, Backed
<1>2. /\ state \in State /\ pending \in PendingDelegation
      /\ current_batch \in [id : Nat \ {0}, requested : Nat]
      /\ total_supply \in Nat /\ requested \in Nat
  BY <1>1 DEF TypeOK
<1>3. actual_state_defined(state, pending) =>
         Backed(checked_state, total_supply, requested)
  BY <1>1, <1>2, CheckKeepsBacked DEF checked_state
<1>4. ASSUME Backed(state', total_supply', current_batch'.requested)
      PROVE  RateBacked'
  BY <1>4 DEF Backed, RateBacked, SharingSupply
<1>5. CASE CheckSlashing
  BY <1>3, <1>4, <1>5 DEF CheckSlashing
<1>6. CASE UpdateGlobalIndex
  <2>1. PICK reward \in REWARDS :
          /\ reward - compute_fee(reward, FEE_RATE) > 0
          /\ execute_stake(reward - compute_fee(reward, FEE_RATE), 0)
    BY <1>6 DEF UpdateGlobalIndex
  <2> DEFINE rest == reward - compute_fee(reward, FEE_RATE)
  <2>2. reward \in Nat /\ FEE_RATE \in Nat
    BY HubAssumption, ScaleAssumption
  <2>3. compute_fee(reward, FEE_RATE) \in Nat
    BY <2>2, MathTypes
  <2>4. rest \in Nat \ {0}
    BY <2>1, <2>2, <2>3
  <2> HIDE DEF rest
  <2> QED
    BY <2>1, <2>4, StakeBacked DEF rest
<1>7. CASE ProcessUndelegations
  <2>1. /\ actual_state_defined(state, pending)
        /\ check_for_unstake_batch_epoch_completion(current_batch, checked_state)
        /\ state' = completed_state(current_batch, checked_state)
        /\ total_supply' = total_supply
    BY <1>7 DEF ProcessUndelegations
  <2>2. checked_state \in State
    BY <1>1, <2>1, CheckedState
  <2>3. Backed(completed_state(current_batch, checked_state), total_supply,
               current_batch'.requested)
    BY <1>2, <1>3, <2>1, <2>2, BatchKeepsBacked
  <2> QED
    BY <1>4, <2>1, <2>3
<1>8. ASSUME NEW user \in Users, Stake(user)
      PROVE  RateBacked'
  <2>1. PICK payment \in STAKE_AMOUNTS :
          /\ checked_state.lst_exchange_rate # 0
          /\ execute_stake(payment, mint_amount(payment))
    BY <1>8 DEF Stake
  <2>2. payment \in Nat \ {0}
    BY HubAssumption
  <2>3. mint_amount(payment) \in Nat
    <3>1. checked_state \in State
      BY <1>1, <2>1, CheckedState DEF execute_stake
    <3>2. checked_state.lst_exchange_rate \in Nat \ {0}
      BY <2>1, <3>1 DEF State
    <3> QED
      BY <2>2, <3>2, MathTypes DEF mint_amount
  <2> QED
    BY <2>1, <2>2, <2>3, StakeBacked
<1>9. ASSUME NEW user \in Users, Unstake(user)
      PROVE  RateBacked'
  <2>1. PICK amount \in UNSTAKE_AMOUNTS :
          LET batch == [current_batch EXCEPT !.requested = @ + amount]
              st == completed_state(batch, checked_state)
          IN
          /\ actual_state_defined(state, pending)
          /\ check_for_unstake_batch_epoch_completion(batch, checked_state)
          /\ burn(user, amount)
          /\ actual_state_defined(st, pending')
          /\ state' = query_actual_state(st, pending', total_supply',
                                         current_batch'.requested)
          /\ UNCHANGED <<height, time, epoch_start>>
    BY <1>9 DEF Unstake
  <2> DEFINE batch == [current_batch EXCEPT !.requested = @ + amount]
             st == completed_state(batch, checked_state)
  <2>2. amount \in Nat
    BY HubAssumption
  <2>3. /\ batch \in [id : Nat \ {0}, requested : Nat]
        /\ batch.id = current_batch.id /\ batch.requested = requested + amount
    BY <1>2, <2>2
  <2>4. /\ check_for_unstake_batch_epoch_completion(batch, checked_state)
        /\ actual_state_defined(st, pending')
        /\ state' = query_actual_state(st, pending', total_supply',
                                       current_batch'.requested)
    BY <2>1
  <2> HIDE DEF batch
  <2>5. /\ total_supply' \in Nat
        /\ total_supply' + batch.requested = total_supply + requested
    BY <1>2, <2>1, <2>2, <2>3 DEF burn
  <2>6. /\ checked_state \in State
        /\ checked_state.unclaimed_unstaked_balance
              = state.unclaimed_unstaked_balance
        /\ checked_state.last_processed_batch = state.last_processed_batch
    BY <1>1, <2>1, CheckedState
  <2>7. Backed(checked_state, total_supply', batch.requested)
    BY <1>3, <2>1, <2>5 DEF Backed
  <2>8. /\ st \in State /\ pending' \in PendingDelegation
        /\ current_batch'.requested \in Nat
    BY <2>1, <2>3, <2>4, <2>6, BatchStep
  <2>9. Backed(st, total_supply', current_batch'.requested)
    BY <2>3, <2>4, <2>5, <2>6, <2>7, BatchKeepsBacked
  <2> HIDE DEF st
  <2>10. Backed(state', total_supply', current_batch'.requested)
    BY <1>1, <2>4, <2>5, <2>8, <2>9, CheckKeepsBacked
  <2> QED
    BY <1>4, <2>10
<1>10. ASSUME NEW user \in Users, TokenBurn(user)
       PROVE  RateBacked'
  <2>1. PICK amount \in BURN_AMOUNTS :
          /\ burn(user, amount)
          /\ actual_state_defined(state, pending)
          /\ state' = query_actual_state(state, pending, total_supply',
                                         requested)
          /\ current_batch' = current_batch
    BY <1>10 DEF TokenBurn
  <2>2. total_supply' \in Nat /\ total_supply' <= total_supply
    BY <1>2, <2>1, HubAssumption DEF burn
  <2>3. Backed(state, total_supply', requested)
    <3>1. /\ state.lst_exchange_rate \in Nat /\ One \in Nat
          /\ state.total_staked_amount \in Nat
      BY <1>2, MathTypes DEF State
    <3>2. (total_supply' + requested) * state.lst_exchange_rate
             <= (total_supply + requested) * state.lst_exchange_rate
      BY <1>2, <2>2, <3>1
    <3> HIDE DEF requested
    <3> QED
      BY <1>1, <1>2, <2>2, <3>1, <3>2 DEF Backed
  <2>4. Backed(state', total_supply', requested)
    BY <1>1, <1>2, <2>1, <2>2, <2>3, CheckKeepsBacked
  <2> QED
    BY <1>4, <2>1, <2>4
\* The other steps leave the total, the rate and the tokens alone.
<1>11. ASSUME /\ state'.total_staked_amount = state.total_staked_amount
              /\ state'.lst_exchange_rate = state.lst_exchange_rate
              /\ UNCHANGED <<total_supply, current_batch>>
       PROVE  RateBacked'
  BY <1>11 DEF RateBacked, SharingSupply
<1>12. CASE UpdateParams \/ ChainStep \/ UNCHANGED vars
  BY <1>11, <1>12 DEF UpdateParams, ChainStep, hubVars, vars
<1>13. ASSUME NEW last, NEW unclaimed, state' = released_state(last, unclaimed),
              UNCHANGED <<total_supply, current_batch>>
       PROVE  RateBacked'
  BY <1>2, <1>11, <1>13 DEF released_state, State
<1>14. CASE ProcessWithdrawRequests
  BY <1>13, <1>14 DEF ProcessWithdrawRequests
<1>15. ASSUME NEW user \in Users, NEW selection,
              execute_withdraw_unstaked_impl(user, selection)
       PROVE  RateBacked'
  BY <1>13, <1>15 DEF execute_withdraw_unstaked_impl
<1> QED
  BY <1>5, <1>6, <1>7, <1>8, <1>9, <1>10, <1>12, <1>14, <1>15
  DEF Next, HubNext, WithdrawUnstaked, WithdrawUnstakedForBatches

\* The exchange rate never promises more than is staked, whatever the scale of
\* the decimals and whatever is staked, unstaked, burnt or slashed, in any
\* order (hub.rs:178-192, unstake.rs:206-248).
THEOREM RateIsBacked == Spec => []RateBacked
<1>1. Init => RateBacked
  BY DEF Init, HubInit, RateBacked
<1>2. Init => IInv /\ RateBacked
  BY <1>1, InitIInv
<1>3. (IInv /\ RateBacked) /\ [Next]_vars => (IInv /\ RateBacked)'
  BY NextIInv, NextRateBacked
<1> QED
  BY <1>2, <1>3, PTL DEF Spec

-----------------------------------------------------------------------------
(* The rate does not drop without a slash.                                 *)

\* A quotient rounded down is at least every bound that the exact one meets.
LEMMA FloorAbove ==
    ASSUME NEW a \in Nat, NEW n \in Nat \ {0}, NEW q \in Nat, n * q <= a
    PROVE  q <= a \div n
<1> DEFINE d == a \div n
<1>1. d \in Nat /\ a < d * n + n
  BY DivBounds
<1> HIDE DEF d
<1>2. ASSUME d < q PROVE FALSE
  <2>1. d + 1 <= q
    BY <1>1, <1>2
  <2>2. n * (d + 1) <= n * q
    BY <1>1, <2>1
  <2> QED
    BY <1>1, <2>2
<1> QED
  BY <1>1, <1>2 DEF d

\* A rate that is backed is at most the recomputed one.
LEMMA UpdatedRateAbove ==
    ASSUME NEW t \in Nat \ {0}, NEW s \in Nat, NEW r \in Nat, s + r # 0,
           NEW rate \in Nat, (s + r) * rate <= t * One
    PROVE  rate <= updated_exchange_rate(t, s, r)
<1> DEFINE n == s + r
           a == t * One
<1>1. n \in Nat \ {0} /\ a \in Nat
  BY MathTypes
<1>2. updated_exchange_rate(t, s, r) = a \div n
  BY DEF updated_exchange_rate, from_ratio, One
<1> HIDE DEF n, a
<1>3. n * rate <= a
  BY DEF n, a
<1> QED
  BY <1>1, <1>2, <1>3, FloorAbove

\* A slashing check that finds no loss keeps the total and never lowers the
\* rate.
LEMMA CheckNeverLowers ==
    ASSUME TypeOK, NEW st \in State, NEW p \in PendingDelegation,
           NEW supply \in Nat, NEW requested \in Nat,
           actual_state_defined(st, p), Backed(st, supply, requested),
           st.total_staked_amount # 0, supply + requested # 0,
           delegated # 0 => ~(state_total_staked(st, p) > delegated)
    PROVE  LET r == query_actual_state(st, p, supply, requested) IN
           /\ r.total_staked_amount = st.total_staked_amount
           /\ r.lst_exchange_rate >= st.lst_exchange_rate
<1> DEFINE r == query_actual_state(st, p, supply, requested)
           t == st.total_staked_amount
           rate == st.lst_exchange_rate
<1>1. t \in Nat \ {0} /\ rate \in Nat
  BY DEF State
<1>2. CASE delegated = 0 \/ state_total_staked(st, p) = 0
  BY <1>1, <1>2 DEF query_actual_state
<1>3. CASE ~(delegated = 0 \/ state_total_staked(st, p) = 0)
  <2>1. slashed_total(st, p) = t
    BY <1>3 DEF slashed_total
  <2>2. /\ r.total_staked_amount = t
        /\ r.lst_exchange_rate = updated_exchange_rate(t, supply, requested)
    BY <1>3, <2>1 DEF query_actual_state, State
  <2>3. (supply + requested) * rate <= t * One
    BY DEF Backed
  <2>4. updated_exchange_rate(t, supply, requested) \in Nat
    BY <1>1, MathTypes
  <2> HIDE DEF r, t, rate
  <2>5. rate <= updated_exchange_rate(t, supply, requested)
    BY <1>1, <2>3, UpdatedRateAbove
  <2>6. r.lst_exchange_rate >= rate
    BY <1>1, <2>2, <2>4, <2>5
  <2> QED
    BY <2>2, <2>6 DEF r, t, rate
<1> QED
  BY <1>2, <1>3

\* The action of RateNeverDropsWithoutSlash.
RateStep ==
    (/\ ~Shortfall
     /\ state.total_staked_amount # 0
     /\ SharingSupply # 0 /\ SharingSupply' # 0)
    => state'.lst_exchange_rate >= state.lst_exchange_rate

\* Staking for at most the tokens a payment is worth never lowers the rate.
LEMMA StakeNeverLowers ==
    ASSUME IInv, NEW payment \in Nat \ {0}, NEW mint \in Nat,
           execute_stake(payment, mint),
           checked_state \in State,
           Backed(checked_state, total_supply, current_batch.requested),
           checked_state.total_staked_amount # 0,
           total_supply + current_batch.requested # 0,
           checked_state.lst_exchange_rate * mint <= payment * One
    PROVE  state'.lst_exchange_rate >= checked_state.lst_exchange_rate
<1> DEFINE t == checked_state.total_staked_amount
           rate == checked_state.lst_exchange_rate
           s == total_supply
           r == current_batch.requested
<1>1. /\ t \in Nat \ {0} /\ rate \in Nat /\ s \in Nat /\ r \in Nat
      /\ One \in Nat \ {0}
  BY MathTypes DEF State, IInv, TypeOK
<1>2. state'.lst_exchange_rate = updated_exchange_rate(t + payment, s + mint, r)
  BY DEF execute_stake, staked_state, State
<1>3. (s + r) * rate <= t * One /\ rate * mint <= payment * One /\ s + r # 0
  BY DEF Backed
<1> HIDE DEF t, rate, s, r
<1>4. (s + mint + r) * rate <= (t + payment) * One
  <2>1. (s + mint + r) * rate = (s + r) * rate + rate * mint
    BY <1>1
  <2>2. (t + payment) * One = t * One + payment * One
    BY <1>1
  <2> QED
    BY <1>1, <1>3, <2>1, <2>2
<1>5. /\ t + payment \in Nat \ {0} /\ s + mint \in Nat
      /\ (s + mint) + r # 0
  BY <1>1, <1>3
<1>6. rate <= updated_exchange_rate(t + payment, s + mint, r)
  BY <1>1, <1>4, <1>5, UpdatedRateAbove
<1>7. updated_exchange_rate(t + payment, s + mint, r) \in Nat
  BY <1>1, <1>5, MathTypes
<1> QED
  BY <1>1, <1>2, <1>6, <1>7 DEF rate

\* A batch that takes the whole stake leaves tokens behind only at rate zero.
LEMMA EmptiedAtRateZero ==
    ASSUME NEW batch \in [id : Nat \ {0}, requested : Nat],
           NEW st \in State, NEW supply \in Nat \ {0},
           Backed(st, supply, batch.requested),
           st.total_staked_amount # 0,
           unstaked_amount_in_batch(batch, st) = st.total_staked_amount
    PROVE  st.lst_exchange_rate = 0
<1> DEFINE rate == st.lst_exchange_rate
           t == st.total_staked_amount
           r == batch.requested
<1>1. rate \in Nat /\ t \in Nat /\ r \in Nat /\ One \in Nat \ {0}
  BY MathTypes DEF State
<1>2. t = (r * rate) \div One
  BY DEF unstaked_amount_in_batch, decimal_multiplication, One
<1>3. (supply + r) * rate <= t * One
  BY DEF Backed
<1> HIDE DEF rate, t, r
<1>4. t * One <= r * rate
  <2>1. r * rate \in Nat
    BY <1>1
  <2> QED
    BY <1>1, <1>2, <2>1, DivBounds
<1>5. supply * rate <= 0
  BY <1>1, <1>3, <1>4
<1>6. rate = 0
  BY <1>1, <1>5
<1> QED
  BY <1>6 DEF rate

\* Closing a batch does not change what the hub believes is on the chain.
LEMMA BatchKeepsChainTotal ==
    ASSUME IInv, NEW batch \in [id : Nat \ {0}, requested : Nat],
           NEW st \in State,
           check_for_unstake_batch_epoch_completion(batch, st)
    PROVE  state_total_staked(completed_state(batch, st), pending')
              = state_total_staked(st, pending)
<1>1. TypeOK /\ EpochAligned /\ PendingMatchesQueue
  BY DEF IInv
<1>2. /\ height \in Nat /\ epoch_start \in Nat /\ EPOCH_BLOCKS \in Nat \ {0}
      /\ queue.delegate \in Nat /\ queue.undelegate \in Nat
      /\ st.total_staked_amount \in Nat
      /\ active \in Nat
  BY <1>1, ChainAssumption DEF TypeOK, ChainTypeOK, State
<1>3. CASE epoch_completed
  <2> DEFINE claim == unstaked_amount_in_batch(batch, st)
  <2>1. process_undelegations_for_batch(batch, st)
    BY <1>3 DEF check_for_unstake_batch_epoch_completion
  <2>2. claim \in Nat /\ pending' = update_pending_delegation_amount(0, claim)
    BY <1>2, <2>1
    DEF process_undelegations_for_batch, pick_validator_for_undelegation
  <2>3. completed_state(batch, st).total_staked_amount
           = st.total_staked_amount - claim
    BY <1>3 DEF completed_state, undelegated_state, State
  <2> HIDE DEF claim
  <2>4. pending' = [start |-> epoch_start, staking |-> queue.delegate + 0,
                    unstaking |-> queue.undelegate + claim]
    BY <1>1, <2>2, UpdatedPending
  <2>5. ~epoch_over(pending')
    BY <1>1, <1>2, <2>4 DEF EpochAligned, epoch_over
  <2>6. get_pending_delegation_amount(pending')
           = [staking |-> queue.delegate,
              unstaking |-> queue.undelegate + claim]
    BY <1>2, <2>4, <2>5 DEF get_pending_delegation_amount
  <2>7. get_pending_delegation_amount(pending)
           = [staking |-> queue.delegate, unstaking |-> queue.undelegate]
    BY <1>1 DEF PendingMatchesQueue
  <2> QED
    BY <1>2, <2>2, <2>3, <2>6, <2>7 DEF state_total_staked
<1>4. CASE ~epoch_completed
  BY <1>4 DEF check_for_unstake_batch_epoch_completion, completed_state
<1> QED
  BY <1>3, <1>4

\* Every step of Next is a step RateNeverDropsWithoutSlash allows.
LEMMA NextRateStep == IInv /\ RateBacked /\ [Next]_vars => RateStep
<1> SUFFICES ASSUME IInv, RateBacked, [Next]_vars, ~Shortfall,
                    state.total_staked_amount # 0,
                    SharingSupply # 0, SharingSupply' # 0
             PROVE  state'.lst_exchange_rate >= state.lst_exchange_rate
  BY DEF RateStep
<1> DEFINE requested == current_batch.requested
           old == state.lst_exchange_rate
<1>1. TypeOK /\ Backed(state, total_supply, requested)
  BY DEF IInv, RateBacked, SharingSupply, Backed
<1>2. /\ state \in State /\ pending \in PendingDelegation
      /\ current_batch \in [id : Nat \ {0}, requested : Nat]
      /\ total_supply \in Nat /\ requested \in Nat /\ old \in Nat
      /\ total_supply + requested # 0
  BY <1>1 DEF TypeOK, State, SharingSupply
<1>3. delegated # 0 => ~(state_total_staked(state, pending) > delegated)
  BY DEF Shortfall
\* The slashing check at the start of a handler.
<1>4. ASSUME actual_state_defined(state, pending)
      PROVE  /\ checked_state \in State
             /\ checked_state.total_staked_amount = state.total_staked_amount
             /\ checked_state.lst_exchange_rate >= old
             /\ Backed(checked_state, total_supply, requested)
  <2>1. checked_state \in State
    BY <1>1, <1>4, CheckedState
  <2>2. Backed(checked_state, total_supply, requested)
    BY <1>1, <1>2, <1>4, CheckKeepsBacked DEF checked_state
  <2>3. /\ checked_state.total_staked_amount = state.total_staked_amount
        /\ checked_state.lst_exchange_rate >= old
    BY <1>1, <1>2, <1>3, <1>4, CheckNeverLowers DEF checked_state
  <2> QED
    BY <2>1, <2>2, <2>3
\* Staking after it.
<1>5. ASSUME NEW payment \in Nat \ {0}, NEW mint \in Nat,
             execute_stake(payment, mint),
             checked_state.lst_exchange_rate * mint <= payment * One
      PROVE  state'.lst_exchange_rate >= old
  <2>1. actual_state_defined(state, pending) /\ state' = staked_state(payment, mint)
    BY <1>5 DEF execute_stake
  <2>2. state'.lst_exchange_rate >= checked_state.lst_exchange_rate
    BY <1>2, <1>4, <1>5, <2>1, StakeNeverLowers
  <2>3. /\ checked_state.lst_exchange_rate \in Nat
        /\ checked_state.lst_exchange_rate >= old
        /\ checked_state.total_staked_amount \in Nat
    BY <1>4, <2>1 DEF State
  <2>4. state'.lst_exchange_rate \in Nat
    <3> DEFINE total == checked_state.total_staked_amount + payment
    <3>1. total \in Nat /\ total_supply + mint \in Nat
      BY <1>2, <2>3
    <3>2. updated_exchange_rate(total, total_supply + mint, requested) \in Nat
      BY <1>2, <3>1, MathTypes
    <3> QED
      BY <1>4, <2>1, <3>2 DEF staked_state, State
  <2> QED
    BY <1>2, <2>2, <2>3, <2>4
<1>6. CASE CheckSlashing
  BY <1>4, <1>6 DEF CheckSlashing
<1>7. CASE UpdateGlobalIndex
  <2>1. PICK reward \in REWARDS :
          /\ reward - compute_fee(reward, FEE_RATE) > 0
          /\ execute_stake(reward - compute_fee(reward, FEE_RATE), 0)
    BY <1>7 DEF UpdateGlobalIndex
  <2> DEFINE rest == reward - compute_fee(reward, FEE_RATE)
  <2>2. reward \in Nat /\ FEE_RATE \in Nat
    BY HubAssumption, ScaleAssumption
  <2>3. compute_fee(reward, FEE_RATE) \in Nat
    BY <2>2, MathTypes
  <2>4. rest \in Nat \ {0}
    BY <2>1, <2>2, <2>3
  <2>5. checked_state.lst_exchange_rate \in Nat
    BY <1>4, <2>1 DEF execute_stake, State
  <2> HIDE DEF rest
  <2>6. checked_state.lst_exchange_rate * 0 <= rest * One
    <3>1. checked_state.lst_exchange_rate * 0 = 0
      BY <2>5
    <3>2. One \in Nat
      BY MathTypes
    <3>3. rest * One \in Nat
      BY <2>4, <3>2
    <3> QED
      BY <3>1, <3>3
  <2> QED
    BY <1>5, <2>1, <2>4, <2>6 DEF rest
<1>8. ASSUME NEW user \in Users, Stake(user)
      PROVE  state'.lst_exchange_rate >= old
  <2>1. PICK payment \in STAKE_AMOUNTS :
          /\ checked_state.lst_exchange_rate # 0
          /\ execute_stake(payment, mint_amount(payment))
    BY <1>8 DEF Stake
  <2> DEFINE r == checked_state.lst_exchange_rate
             mint == mint_amount(payment)
             a == payment * One
  <2>2. payment \in Nat \ {0} /\ a \in Nat
    BY HubAssumption, MathTypes
  <2>3. r \in Nat \ {0}
    BY <1>4, <2>1 DEF execute_stake, State
  <2>4. mint = a \div r
    BY DEF mint_amount, decimal_division, One
  <2> HIDE DEF r, a, mint
  <2>5. mint \in Nat /\ mint * r <= a
    BY <2>2, <2>3, <2>4, DivBounds
  <2>6. r * mint <= a
    BY <2>3, <2>5
  <2> QED
    BY <1>5, <2>1, <2>2, <2>5, <2>6 DEF r, a, mint
<1>9. CASE ProcessUndelegations
  <2>1. /\ actual_state_defined(state, pending)
        /\ state' = completed_state(current_batch, checked_state)
    BY <1>9 DEF ProcessUndelegations
  <2>2. state'.lst_exchange_rate = checked_state.lst_exchange_rate
    BY <1>4, <2>1 DEF completed_state, undelegated_state, State
  <2> QED
    BY <1>4, <2>1, <2>2
<1>10. ASSUME NEW user \in Users, Unstake(user)
       PROVE  state'.lst_exchange_rate >= old
  <2>1. PICK amount \in UNSTAKE_AMOUNTS :
          LET batch == [current_batch EXCEPT !.requested = @ + amount]
              st == completed_state(batch, checked_state)
          IN
          /\ actual_state_defined(state, pending)
          /\ check_for_unstake_batch_epoch_completion(batch, checked_state)
          /\ burn(user, amount)
          /\ actual_state_defined(st, pending')
          /\ state' = query_actual_state(st, pending', total_supply',
                                         current_batch'.requested)
          /\ UNCHANGED <<height, time, epoch_start>>
    BY <1>10 DEF Unstake
  <2> DEFINE batch == [current_batch EXCEPT !.requested = @ + amount]
             st == completed_state(batch, checked_state)
             rate == checked_state.lst_exchange_rate
  <2>2. amount \in Nat
    BY HubAssumption
  <2>3. /\ batch \in [id : Nat \ {0}, requested : Nat]
        /\ batch.id = current_batch.id /\ batch.requested = requested + amount
    BY <1>2, <2>2
  <2>4. /\ check_for_unstake_batch_epoch_completion(batch, checked_state)
        /\ actual_state_defined(st, pending')
        /\ state' = query_actual_state(st, pending', total_supply',
                                       current_batch'.requested)
    BY <2>1
  <2> HIDE DEF batch
  <2>5. /\ total_supply' \in Nat
        /\ total_supply' + batch.requested = total_supply + requested
    BY <1>2, <2>1, <2>2, <2>3 DEF burn
  <2>6. /\ checked_state \in State
        /\ checked_state.unclaimed_unstaked_balance
              = state.unclaimed_unstaked_balance
        /\ checked_state.last_processed_batch = state.last_processed_batch
    BY <1>1, <2>1, CheckedState
  <2>7. /\ Backed(checked_state, total_supply', batch.requested)
        /\ checked_state.total_staked_amount = state.total_staked_amount
        /\ rate >= old /\ rate \in Nat
    BY <1>4, <2>1, <2>5, <2>6 DEF Backed, State
  <2>8. /\ st \in State /\ pending' \in PendingDelegation
        /\ current_batch'.requested \in Nat
    BY <2>1, <2>3, <2>4, <2>6, BatchStep
  <2>9. Backed(st, total_supply', current_batch'.requested)
    BY <2>3, <2>4, <2>5, <2>6, <2>7, BatchKeepsBacked
  <2>10. st.lst_exchange_rate = rate
    BY <2>6 DEF completed_state, undelegated_state, State
  <2>11. state_total_staked(st, pending') = state_total_staked(state, pending)
    <3>1. state_total_staked(st, pending')
             = state_total_staked(checked_state, pending)
      BY <2>3, <2>4, <2>6, BatchKeepsChainTotal
    <3> QED
      BY <2>7, <3>1 DEF state_total_staked
  <2>12. state' \in State
    <3> HIDE DEF st
    <3> QED
      BY <1>1, <2>4, <2>5, <2>8, ActualState
  <2>13. CASE st.total_staked_amount # 0
    <3> HIDE DEF st
    <3>1. total_supply' + current_batch'.requested # 0
      BY DEF SharingSupply
    <3>2. delegated # 0 => ~(state_total_staked(st, pending') > delegated)
      BY <1>3, <2>11
    <3>3. state'.lst_exchange_rate >= st.lst_exchange_rate
      BY <1>1, <2>4, <2>5, <2>8, <2>9, <2>13, <3>1, <3>2, CheckNeverLowers
    <3>4. state'.lst_exchange_rate \in Nat
      BY <2>12 DEF State
    <3> QED
      BY <1>2, <2>7, <2>10, <3>3, <3>4
  <2>14. CASE st.total_staked_amount = 0
    <3>1. epoch_completed
      BY <2>7, <2>14 DEF completed_state
    <3>2. process_undelegations_for_batch(batch, checked_state)
      BY <2>4, <3>1 DEF check_for_unstake_batch_epoch_completion
    <3>3. current_batch'.requested = 0
      BY <3>2 DEF process_undelegations_for_batch, next_batch
    <3>4. total_supply' \in Nat \ {0}
      <4>1. total_supply' + current_batch'.requested # 0
        BY DEF SharingSupply
      <4>2. total_supply' + 0 # 0
        BY <3>3, <4>1
      <4>3. total_supply' \in Nat
        BY <2>5
      <4>4. \A n \in Nat : n + 0 # 0 => n \in Nat \ {0}
        OBVIOUS
      <4> QED
        BY <4>2, <4>3, <4>4, Zenon
    <3>5. /\ unstaked_amount_in_batch(batch, checked_state) \in Nat
          /\ unstaked_amount_in_batch(batch, checked_state)
                <= checked_state.total_staked_amount
      BY <1>1, <3>2
      DEF process_undelegations_for_batch, pick_validator_for_undelegation,
          TypeOK, ChainTypeOK
    <3>6. st.total_staked_amount
             = checked_state.total_staked_amount
                 - unstaked_amount_in_batch(batch, checked_state)
      BY <2>6, <3>1 DEF completed_state, undelegated_state, State
    <3>7. /\ checked_state.total_staked_amount \in Nat
          /\ checked_state.total_staked_amount # 0
      BY <2>6, <2>7 DEF State
    <3>8. unstaked_amount_in_batch(batch, checked_state)
             = checked_state.total_staked_amount
      BY <2>14, <3>5, <3>6, <3>7
    <3>9. rate = 0
      BY <2>3, <2>6, <2>7, <3>4, <3>7, <3>8, EmptiedAtRateZero
    <3>10. state'.lst_exchange_rate \in Nat
      BY <2>12 DEF State
    <3> QED
      BY <1>2, <2>7, <3>9, <3>10
  <2> QED
    BY <2>13, <2>14
<1>11. ASSUME NEW user \in Users, TokenBurn(user)
       PROVE  state'.lst_exchange_rate >= old
  <2>1. PICK amount \in BURN_AMOUNTS :
          /\ burn(user, amount)
          /\ actual_state_defined(state, pending)
          /\ state' = query_actual_state(state, pending, total_supply',
                                         requested)
          /\ current_batch' = current_batch
    BY <1>11 DEF TokenBurn
  <2>2. total_supply' \in Nat /\ total_supply' <= total_supply
    BY <1>2, <2>1, HubAssumption DEF burn
  <2>3. Backed(state, total_supply', requested)
    <3>1. /\ state.lst_exchange_rate \in Nat /\ One \in Nat
          /\ state.total_staked_amount \in Nat
      BY <1>2, MathTypes DEF State
    <3>2. (total_supply' + requested) * state.lst_exchange_rate
             <= (total_supply + requested) * state.lst_exchange_rate
      BY <1>2, <2>2, <3>1
    <3> HIDE DEF requested
    <3> QED
      BY <1>1, <1>2, <2>2, <3>1, <3>2 DEF Backed
  <2>4. total_supply' + requested # 0
    BY <2>1 DEF SharingSupply
  <2> QED
    BY <1>1, <1>2, <1>3, <2>1, <2>2, <2>3, <2>4, CheckNeverLowers
\* The other steps leave the rate alone.
<1>12. CASE UpdateParams \/ ChainStep \/ UNCHANGED vars
  <2>1. state' = state
    BY <1>12 DEF UpdateParams, ChainStep, hubVars, vars
  <2> QED
    BY <1>2, <2>1
<1>13. ASSUME NEW last, NEW unclaimed, state' = released_state(last, unclaimed)
       PROVE  state'.lst_exchange_rate >= old
  BY <1>2, <1>13 DEF released_state, State
<1>14. CASE ProcessWithdrawRequests
  BY <1>13, <1>14 DEF ProcessWithdrawRequests
<1>15. ASSUME NEW user \in Users, NEW selection,
              execute_withdraw_unstaked_impl(user, selection)
       PROVE  state'.lst_exchange_rate >= old
  BY <1>13, <1>15 DEF execute_withdraw_unstaked_impl
<1> QED
  BY <1>6, <1>7, <1>8, <1>9, <1>10, <1>11, <1>12, <1>14, <1>15
  DEF Next, HubNext, WithdrawUnstaked, WithdrawUnstakedForBatches

\* As long as no loss is being taken into account, nothing anybody does lowers
\* the exchange rate: every rounding favours the remaining holders
\* (math.rs:7-18, stake.rs:70-87, unstake.rs:213-225).
THEOREM RateNeverDrops == Spec => RateNeverDropsWithoutSlash
<1>1. IInv /\ RateBacked /\ [Next]_vars => [RateStep]_vars
  BY NextRateStep
<1> QED
  BY <1>1, Invariance, RateIsBacked, PTL
  DEF Spec, RateNeverDropsWithoutSlash, RateStep
-----------------------------------------------------------------------------
(* What a staker gets.                                                     *)

\* The action of StakeKeepsValue.
ValueStep ==
    (/\ total_supply' > total_supply
     /\ checked_state.total_staked_amount # 0 \/ SharingSupply = 0)
    => (total_supply' - total_supply) * state'.lst_exchange_rate
          > (hub_balance' - hub_balance) * One
               - checked_state.lst_exchange_rate

\* The first stake into an empty pool leaves a rate no lower than its price.
LEMMA FirstStakeNeverLowers ==
    ASSUME IInv, NEW payment \in Nat \ {0}, NEW mint \in Nat \ {0},
           execute_stake(payment, mint),
           checked_state \in State,
           total_supply + current_batch.requested = 0,
           checked_state.lst_exchange_rate * mint <= payment * One
    PROVE  state'.lst_exchange_rate >= checked_state.lst_exchange_rate
<1> DEFINE t == checked_state.total_staked_amount
           rate == checked_state.lst_exchange_rate
           s == total_supply
           r == current_batch.requested
<1>1. /\ t \in Nat /\ rate \in Nat /\ s \in Nat /\ r \in Nat
      /\ One \in Nat \ {0}
  BY MathTypes DEF State, IInv, TypeOK
<1>2. state'.lst_exchange_rate = updated_exchange_rate(t + payment, s + mint, r)
  BY DEF execute_stake, staked_state, State
<1>3. rate * mint <= payment * One /\ s + r = 0
  OBVIOUS
<1> HIDE DEF t, rate, s, r
<1>4. s = 0 /\ r = 0
  BY <1>1, <1>3
<1>5. (s + mint + r) * rate <= (t + payment) * One
  <2>1. (s + mint + r) * rate = rate * mint
    BY <1>1, <1>4
  <2>2. (t + payment) * One = t * One + payment * One
    BY <1>1
  <2>3. t * One \in Nat /\ payment * One \in Nat /\ rate * mint \in Nat
    BY <1>1
  <2> QED
    BY <1>3, <2>1, <2>2, <2>3
<1>6. /\ t + payment \in Nat \ {0} /\ s + mint \in Nat
      /\ (s + mint) + r # 0
  BY <1>1, <1>4
<1>7. rate <= updated_exchange_rate(t + payment, s + mint, r)
  BY <1>1, <1>5, <1>6, UpdatedRateAbove
<1>8. updated_exchange_rate(t + payment, s + mint, r) \in Nat
  BY <1>1, <1>6, MathTypes
<1> QED
  BY <1>1, <1>2, <1>7, <1>8 DEF rate

\* A stake at the rate of after the slashing check is worth its payment, but
\* for the rounding of one token.
LEMMA StakeValueStep ==
    ASSUME IInv, RateBacked, NEW user \in Users, Stake(user)
    PROVE  ValueStep
<1> SUFFICES ASSUME total_supply' > total_supply,
                    checked_state.total_staked_amount # 0 \/ SharingSupply = 0
             PROVE  (total_supply' - total_supply) * state'.lst_exchange_rate
                       > (hub_balance' - hub_balance) * One
                            - checked_state.lst_exchange_rate
  BY DEF ValueStep
<1>1. PICK payment \in STAKE_AMOUNTS :
        /\ checked_state.lst_exchange_rate # 0
        /\ execute_stake(payment, mint_amount(payment))
  BY DEF Stake
<1> DEFINE rate == checked_state.lst_exchange_rate
           mint == mint_amount(payment)
           a == payment * One
           new == state'.lst_exchange_rate
<1>2. /\ TypeOK /\ actual_state_defined(state, pending)
      /\ state \in State /\ pending \in PendingDelegation
      /\ current_batch \in [id : Nat \ {0}, requested : Nat]
      /\ total_supply \in Nat /\ hub_balance \in Nat
  BY <1>1 DEF IInv, execute_stake, TypeOK, ChainTypeOK
<1>3. checked_state \in State
  BY <1>2, CheckedState
<1>4. payment \in Nat \ {0} /\ a \in Nat
  BY HubAssumption, MathTypes
<1>5. rate \in Nat \ {0}
  BY <1>1, <1>3 DEF State
<1>6. mint = a \div rate
  BY DEF mint_amount, decimal_division, One
<1>7. /\ total_supply' = total_supply + mint
      /\ hub_balance' = hub_balance + payment
      /\ state' = staked_state(payment, mint)
  BY <1>1 DEF execute_stake
<1>8. Backed(checked_state, total_supply, current_batch.requested)
  <2>1. Backed(state, total_supply, current_batch.requested)
    BY DEF RateBacked, SharingSupply, Backed
  <2> QED
    BY <1>2, <2>1, CheckKeepsBacked DEF checked_state
<1> HIDE DEF rate, a, mint, new
<1>9. mint \in Nat /\ mint * rate <= a /\ a < mint * rate + rate
  BY <1>4, <1>5, <1>6, DivBounds
<1>10. mint \in Nat \ {0}
  BY <1>2, <1>7, <1>9
<1>11. rate * mint <= payment * One
  BY <1>5, <1>9 DEF a
<1>12. new >= rate
  <2>1. execute_stake(payment, mint)
    BY <1>1 DEF mint
  <2>2. CASE total_supply + current_batch.requested = 0
    BY <1>3, <1>4, <1>10, <1>11, <2>1, <2>2, FirstStakeNeverLowers
    DEF rate, new
  <2>3. CASE total_supply + current_batch.requested # 0
    <3>1. checked_state.total_staked_amount # 0
      BY <2>3 DEF SharingSupply
    <3> QED
      BY <1>3, <1>4, <1>8, <1>9, <1>11, <2>1, <2>3, <3>1, StakeNeverLowers
      DEF rate, new
  <2> QED
    BY <2>2, <2>3
<1>13. new \in Nat
  <2>1. checked_state.total_staked_amount + payment \in Nat
    BY <1>3, <1>4 DEF State
  <2>2. total_supply + mint \in Nat /\ current_batch.requested \in Nat
    BY <1>2, <1>9
  <2>3. updated_exchange_rate(checked_state.total_staked_amount + payment,
                              total_supply + mint,
                              current_batch.requested) \in Nat
    BY <2>1, <2>2, MathTypes
  <2> QED
    BY <1>3, <1>7, <2>3 DEF staked_state, State, new
<1>14. mint * new >= mint * rate
  BY <1>5, <1>9, <1>12, <1>13
<1>15. mint * new \in Nat /\ mint * rate \in Nat
  BY <1>5, <1>9, <1>13
<1>16. mint * new > a - rate
  BY <1>4, <1>5, <1>9, <1>14, <1>15
<1>17. total_supply' - total_supply = mint /\ hub_balance' - hub_balance = payment
  BY <1>2, <1>4, <1>7, <1>9
<1> QED
  BY <1>16, <1>17 DEF a, rate, new

\* Only Stake makes tokens.
LEMMA NextValueStep == IInv /\ RateBacked /\ [Next]_vars => ValueStep
<1> SUFFICES ASSUME IInv, RateBacked, [Next]_vars
             PROVE  ValueStep
  OBVIOUS
<1>1. total_supply \in Nat
  BY DEF IInv, TypeOK
<1>2. ASSUME total_supply' = total_supply
      PROVE  ValueStep
  BY <1>1, <1>2 DEF ValueStep
<1>3. ASSUME NEW user \in Users, NEW amount \in Nat, burn(user, amount)
      PROVE  ValueStep
  BY <1>1, <1>3 DEF burn, ValueStep
<1>4. ASSUME NEW user \in Users, Stake(user)
      PROVE  ValueStep
  BY <1>4, StakeValueStep
<1>5. CASE UpdateGlobalIndex
  <2>1. total_supply' = total_supply
    BY <1>1, <1>5 DEF UpdateGlobalIndex, execute_stake
  <2> QED
    BY <1>2, <2>1
<1>6. ASSUME NEW user \in Users, Unstake(user)
      PROVE  ValueStep
  <2>1. PICK amount \in UNSTAKE_AMOUNTS : burn(user, amount)
    BY <1>6 DEF Unstake
  <2> QED
    BY <1>3, <2>1, HubAssumption
<1>7. ASSUME NEW user \in Users, TokenBurn(user)
      PROVE  ValueStep
  <2>1. PICK amount \in BURN_AMOUNTS : burn(user, amount)
    BY <1>7 DEF TokenBurn
  <2> QED
    BY <1>3, <2>1, HubAssumption
<1>8. CASE CheckSlashing \/ ProcessUndelegations \/ ProcessWithdrawRequests
  <2>1. total_supply' = total_supply
    BY <1>8 DEF CheckSlashing, ProcessUndelegations, ProcessWithdrawRequests
  <2> QED
    BY <1>2, <2>1
<1>9. CASE UpdateParams \/ ChainStep \/ UNCHANGED vars
  <2>1. total_supply' = total_supply
    BY <1>9 DEF UpdateParams, ChainStep, hubVars, vars
  <2> QED
    BY <1>2, <2>1
<1>10. ASSUME NEW user \in Users, NEW selection,
              execute_withdraw_unstaked_impl(user, selection)
       PROVE  ValueStep
  <2>1. total_supply' = total_supply
    BY <1>10 DEF execute_withdraw_unstaked_impl
  <2> QED
    BY <1>2, <2>1
<1> QED
  BY <1>4, <1>5, <1>6, <1>7, <1>8, <1>9, <1>10
  DEF Next, HubNext, WithdrawUnstaked, WithdrawUnstakedForBatches

\* A staker loses less than the worth of one token, whatever the stake, the
\* supply and the slashes before it: the payment is priced at the rate of
\* after the slashing check, and both roundings together cost less than that
\* rate (stake.rs:61-87).
THEOREM StakersKeepValue == Spec => StakeKeepsValue
<1>1. IInv /\ RateBacked /\ [Next]_vars => [ValueStep]_vars
  BY NextValueStep
<1> QED
  BY <1>1, Invariance, RateIsBacked, PTL
  DEF Spec, StakeKeepsValue, ValueStep

-----------------------------------------------------------------------------
(* Unstake batches and staking epochs.                                     *)

(***************************************************************************)
(* What instantiate checks of epoch_length (contract.rs:60-63), asked of   *)
(* every value the owner sets later; and AVERAGE_BLOCK_TIME is the upper   *)
(* bound on block times that constants.rs takes it for.                    *)
(***************************************************************************)
ParamsRespectEpoch ==
    /\ \A e \in EPOCH_LENGTHS : e >= EPOCH_BLOCKS * AVERAGE_BLOCK_TIME
    /\ BLOCK_TIMES \subseteq 1 .. AVERAGE_BLOCK_TIME

(***************************************************************************)
(* The inductive invariant: after a batch is closed in the current epoch,  *)
(* too little time has passed in it for another one to be due; and what is *)
(* queued for undelegation is the claim of that one batch.                 *)
(***************************************************************************)
BatchSpacing ==
    /\ params.epoch_length >= EPOCH_BLOCKS * AVERAGE_BLOCK_TIME
    /\ \A b \in DOMAIN closed_at :
          /\ closed_at[b] <= epoch_start
          /\ closed_at[b] = epoch_start =>
                time - state.last_unbonded_time
                    <= (height - epoch_start) * AVERAGE_BLOCK_TIME
    /\ queue.undelegate # 0 =>
          \E b \in DOMAIN closed_at : closed_at[b] = epoch_start

\* What is queued for undelegation is covered, until a disturbance.
UndelegationCovered == disturbances = 0 => queue.undelegate <= delegated

EInv ==
    /\ BatchSpacing
    /\ OneBatchPerStakingEpoch
    /\ UndelegationCovered
    /\ StakeMatchesChain

\* The epoch invariant holds after instantiate.
LEMMA InitEInv == Init => EInv
  BY HubAssumption
  DEF Init, ChainInit, HubInit, EInv, BatchSpacing, OneBatchPerStakingEpoch,
      UndelegationCovered, StakeMatchesChain

-----------------------------------------------------------------------------
\* A batch that is due is the first of its staking epoch.
LEMMA DueBatchIsFirst ==
    ASSUME IInv, EInv, epoch_completed
    PROVE  /\ \A b \in DOMAIN closed_at : closed_at[b] < epoch_start
           /\ queue.undelegate = 0
<1>1. /\ time \in Nat /\ height \in Nat /\ epoch_start \in Nat
      /\ state.last_unbonded_time \in Nat /\ params.epoch_length \in Nat
      /\ AVERAGE_BLOCK_TIME \in Nat \ {0} /\ EPOCH_BLOCKS \in Nat \ {0}
      /\ \A b \in DOMAIN closed_at : closed_at[b] \in Nat
      /\ epoch_start <= height /\ height < epoch_start + EPOCH_BLOCKS
  BY HubAssumption, ChainAssumption
  DEF IInv, TypeOK, ChainTypeOK, State, EpochAligned
<1>2. (height - epoch_start) * AVERAGE_BLOCK_TIME
         <= EPOCH_BLOCKS * AVERAGE_BLOCK_TIME
  BY <1>1
<1>3. (height - epoch_start) * AVERAGE_BLOCK_TIME \in Nat
      /\ EPOCH_BLOCKS * AVERAGE_BLOCK_TIME \in Nat
  BY <1>1
<1>4. time - state.last_unbonded_time
         > (height - epoch_start) * AVERAGE_BLOCK_TIME
  BY <1>1, <1>2, <1>3 DEF EInv, BatchSpacing, epoch_completed
<1>5. \A b \in DOMAIN closed_at : closed_at[b] < epoch_start
  BY <1>1, <1>3, <1>4 DEF EInv, BatchSpacing
<1>6. queue.undelegate = 0
  BY <1>1, <1>5 DEF EInv, BatchSpacing
<1> QED
  BY <1>5, <1>6

\* A step that closes no batch and leaves the epoch and the clock alone.
LEMMA NoBatchStep ==
    ASSUME EInv,
           params'.epoch_length >= EPOCH_BLOCKS * AVERAGE_BLOCK_TIME,
           state'.last_unbonded_time = state.last_unbonded_time,
           queue'.undelegate = queue.undelegate,
           UNCHANGED <<height, time, epoch_start, closed_at>>
    PROVE  BatchSpacing' /\ OneBatchPerStakingEpoch'
  BY DEF EInv, BatchSpacing, OneBatchPerStakingEpoch

\* Until a disturbance the slashing check finds no loss.
LEMMA CheckKeepsTotal ==
    ASSUME IInv, EInv, disturbances = 0, actual_state_defined(state, pending)
    PROVE  /\ checked_state.total_staked_amount = state.total_staked_amount
           /\ state_total_staked(checked_state, pending) = delegated
<1>1. /\ state.total_staked_amount \in Nat /\ delegated \in Nat
      /\ queue.delegate \in Nat /\ queue.undelegate \in Nat
      /\ state.total_staked_amount
            = delegated + queue.delegate - queue.undelegate
      /\ state \in State /\ TypeOK /\ checked_state \in State
  BY CheckedState
  DEF IInv, TypeOK, ChainTypeOK, State, EInv, StakeMatchesChain
<1>2. state_total_staked(state, pending) = delegated
  BY <1>1 DEF state_total_staked, IInv, PendingMatchesQueue
<1>3. checked_state.total_staked_amount = state.total_staked_amount
  <2>1. CASE delegated = 0
    BY <2>1 DEF checked_state, query_actual_state
  <2>2. CASE delegated # 0
    <3>1. slashed_total(state, pending) = state.total_staked_amount
      BY <1>1, <1>2 DEF slashed_total
    <3> QED
      BY <1>1, <1>2, <2>2, <3>1 DEF checked_state, query_actual_state, State
  <2> QED
    BY <2>1, <2>2
<1> QED
  BY <1>2, <1>3 DEF state_total_staked

\* Closing a batch, or storing it.
LEMMA BatchStepEInv ==
    ASSUME IInv, EInv, NEW batch \in [id : Nat \ {0}, requested : Nat],
           batch.id = current_batch.id,
           actual_state_defined(state, pending),
           check_for_unstake_batch_epoch_completion(batch, checked_state),
           state'.last_unbonded_time
              = completed_state(batch, checked_state).last_unbonded_time,
           disturbances = 0 => state'.total_staked_amount
              = completed_state(batch, checked_state).total_staked_amount,
           UNCHANGED <<height, time, epoch_start, delegated, disturbances,
                       params>>
    PROVE  EInv'
<1>1. TypeOK
  BY DEF IInv
<1>2. /\ height \in Nat /\ time \in Nat /\ epoch_start \in Nat
      /\ delegated \in Nat /\ active \in 0 .. delegated
      /\ queue \in [delegate : Nat, undelegate : Nat]
      /\ current_batch.id \in Nat \ {0}
      /\ closed_at \in [1 .. current_batch.id - 1 -> Nat]
      /\ AVERAGE_BLOCK_TIME \in Nat \ {0}
      /\ epoch_start <= height
  BY <1>1, HubAssumption DEF TypeOK, ChainTypeOK, IInv, EpochAligned
<1>3. /\ checked_state \in State
      /\ checked_state.last_unbonded_time = state.last_unbonded_time
  BY <1>1, CheckedState
<1>4. CASE epoch_completed
  <2> DEFINE claim == unstaked_amount_in_batch(batch, checked_state)
             n == batch.id
  <2>1. process_undelegations_for_batch(batch, checked_state)
    BY <1>4 DEF check_for_unstake_batch_epoch_completion
  <2>2. /\ claim \in 1 .. active
        /\ queue' = [queue EXCEPT !.undelegate = @ + claim]
        /\ closed_at' = [b \in 1 .. n |->
              IF b = n THEN epoch_start ELSE closed_at[b]]
    BY <2>1 DEF process_undelegations_for_batch, push_undelegate, appended,
                pick_validator_for_undelegation
  <2>3. /\ state'.last_unbonded_time = time
        /\ disturbances = 0 => state'.total_staked_amount
              = checked_state.total_staked_amount - claim
    BY <1>3, <1>4 DEF completed_state, undelegated_state, State
  <2> HIDE DEF claim
  <2>4. /\ \A b \in DOMAIN closed_at : closed_at[b] < epoch_start
        /\ queue.undelegate = 0
    BY <1>4, DueBatchIsFirst
  <2>5. queue'.delegate = queue.delegate /\ queue'.undelegate = claim
    BY <1>2, <2>2, <2>4
  <2>6. /\ \A b \in 1 .. n : closed_at'[b] <= epoch_start
        /\ n \in DOMAIN closed_at' /\ closed_at'[n] = epoch_start
        /\ DOMAIN closed_at' = 1 .. n
        /\ \A b \in 1 .. n : b # n => closed_at'[b] = closed_at[b]
                                      /\ closed_at'[b] < epoch_start
    BY <1>2, <2>2, <2>4
  <2>7. BatchSpacing'
    <3>1. time' - state'.last_unbonded_time
             <= (height' - epoch_start') * AVERAGE_BLOCK_TIME
      <4>1. (height - epoch_start) * AVERAGE_BLOCK_TIME >= 0
        BY <1>2
      <4> QED
        BY <1>2, <2>3, <4>1
    <3> QED
      BY <2>6, <3>1 DEF EInv, BatchSpacing
  <2>8. OneBatchPerStakingEpoch'
    BY <1>2, <2>6 DEF EInv, OneBatchPerStakingEpoch
  <2>9. UndelegationCovered'
    BY <1>2, <2>2, <2>5 DEF UndelegationCovered
  <2>10. StakeMatchesChain'
    <3> SUFFICES ASSUME disturbances = 0
                 PROVE  state'.total_staked_amount
                          = delegated + queue'.delegate - queue'.undelegate
      BY DEF StakeMatchesChain
    <3>1. checked_state.total_staked_amount
             = delegated + queue.delegate - queue.undelegate
      BY CheckKeepsTotal DEF EInv, StakeMatchesChain
    <3> QED
      BY <1>2, <2>2, <2>3, <2>4, <2>5, <3>1
  <2> QED
    BY <2>7, <2>8, <2>9, <2>10 DEF EInv
<1>5. CASE ~epoch_completed
  <2>1. /\ UNCHANGED <<queue, closed_at>>
        /\ completed_state(batch, checked_state) = checked_state
    BY <1>5 DEF check_for_unstake_batch_epoch_completion, completed_state
  <2>2. BatchSpacing' /\ OneBatchPerStakingEpoch'
    BY <1>3, <2>1, NoBatchStep DEF EInv, BatchSpacing
  <2>3. UndelegationCovered'
    BY <2>1 DEF EInv, UndelegationCovered
  <2>4. StakeMatchesChain'
    BY <2>1, CheckKeepsTotal DEF EInv, StakeMatchesChain
  <2> QED
    BY <2>2, <2>3, <2>4 DEF EInv
<1> QED
  BY <1>4, <1>5

\* Staking: the queue and the staked total grow alike.
LEMMA StakeEInv ==
    ASSUME IInv, EInv, NEW payment \in Nat, NEW mint \in Nat,
           execute_stake(payment, mint)
    PROVE  EInv'
<1>1. TypeOK
  BY DEF IInv
<1>2. /\ actual_state_defined(state, pending)
      /\ state' = staked_state(payment, mint)
      /\ queue' = [queue EXCEPT !.delegate = @ + payment]
      /\ UNCHANGED <<height, time, epoch_start, delegated, disturbances, params,
                     closed_at>>
  BY DEF execute_stake, push_delegate
<1>3. queue \in [delegate : Nat, undelegate : Nat] /\ delegated \in Nat
  BY <1>1 DEF TypeOK, ChainTypeOK
<1>4. /\ queue'.delegate = queue.delegate + payment
      /\ queue'.undelegate = queue.undelegate
  BY <1>2, <1>3
<1>5. /\ checked_state \in State
      /\ checked_state.last_unbonded_time = state.last_unbonded_time
  BY <1>1, <1>2, CheckedState
<1>6. /\ state'.last_unbonded_time = state.last_unbonded_time
      /\ state'.total_staked_amount
            = checked_state.total_staked_amount + payment
  BY <1>2, <1>5 DEF staked_state, State
<1>7. BatchSpacing' /\ OneBatchPerStakingEpoch'
  BY <1>2, <1>4, <1>6, NoBatchStep DEF EInv, BatchSpacing
<1>8. UndelegationCovered'
  BY <1>2, <1>4 DEF EInv, UndelegationCovered
<1>9. StakeMatchesChain'
  <2> SUFFICES ASSUME disturbances = 0
               PROVE  state'.total_staked_amount
                        = delegated + queue'.delegate - queue'.undelegate
    BY <1>2 DEF StakeMatchesChain
  <2>1. checked_state.total_staked_amount
           = delegated + queue.delegate - queue.undelegate
    BY <1>2, CheckKeepsTotal DEF EInv, StakeMatchesChain
  <2> QED
    BY <1>3, <1>4, <1>6, <2>1
<1> QED
  BY <1>7, <1>8, <1>9 DEF EInv

\* Steps that touch neither the stake nor a batch.
LEMMA QuietEInv ==
    ASSUME EInv,
           params'.epoch_length >= EPOCH_BLOCKS * AVERAGE_BLOCK_TIME,
           state'.last_unbonded_time = state.last_unbonded_time,
           disturbances = 0 =>
              state'.total_staked_amount = state.total_staked_amount,
           UNCHANGED <<height, time, epoch_start, closed_at, queue, delegated,
                       disturbances>>
    PROVE  EInv'
<1>1. BatchSpacing' /\ OneBatchPerStakingEpoch'
  BY NoBatchStep
<1> QED
  BY <1>1 DEF EInv, UndelegationCovered, StakeMatchesChain

\* Steps of the chain.
LEMMA ChainStepEInv ==
    ASSUME ParamsRespectEpoch, IInv, EInv, ChainStep
    PROVE  EInv'
<1>1. TypeOK /\ ChainTypeOK /\ EpochAligned
  BY DEF IInv, TypeOK
<1>2. /\ height \in Nat /\ time \in Nat /\ epoch_start \in Nat
      /\ delegated \in Nat /\ unbonding \in Nat /\ disturbances \in Nat
      /\ queue.delegate \in Nat /\ queue.undelegate \in Nat
      /\ AVERAGE_BLOCK_TIME \in Nat \ {0} /\ EPOCH_BLOCKS \in Nat \ {0}
      /\ epoch_start <= height
      /\ state.last_unbonded_time \in Nat
      /\ \A b \in DOMAIN closed_at : closed_at[b] \in Nat
  BY <1>1, HubAssumption, ChainAssumption
  DEF ChainTypeOK, EpochAligned, TypeOK, State
<1>3. UNCHANGED <<state, params, current_batch, wait_list, history, pending,
                  total_supply, token_balance, closed_at>>
  BY DEF ChainStep, hubVars
<1>4. params'.epoch_length >= EPOCH_BLOCKS * AVERAGE_BLOCK_TIME
  BY <1>3 DEF EInv, BatchSpacing
<1>5. OneBatchPerStakingEpoch'
  BY <1>3 DEF EInv, OneBatchPerStakingEpoch
<1>6. CASE NextBlock
  <2>1. PICK dt \in BLOCK_TIMES : time' = time + dt
    BY <1>6 DEF NextBlock
  <2>2. dt \in Nat /\ dt <= AVERAGE_BLOCK_TIME
    BY <1>2 DEF ParamsRespectEpoch
  <2>3. height' = height + 1
    BY <1>6 DEF NextBlock
  <2>4. CASE height + 1 = epoch_start + EPOCH_BLOCKS
    <3>1. on_epoch_end
      BY <1>6, <2>4 DEF NextBlock
    <3>2. /\ queue' = [delegate |-> 0, undelegate |-> 0]
          /\ epoch_start' = height + 1
      BY <3>1 DEF on_epoch_end
    <3>3. disturbances' = 0 =>
             /\ disturbances = 0
             /\ delegated' = delegated + queue.delegate - queue.undelegate
      BY <1>2, <3>1 DEF on_epoch_end, EInv, UndelegationCovered
    <3>4. \A b \in DOMAIN closed_at' :
             closed_at'[b] <= epoch_start' /\ closed_at'[b] # epoch_start'
      BY <1>2, <1>3, <3>2 DEF EInv, BatchSpacing
    <3>5. BatchSpacing'
      BY <1>4, <3>2, <3>4 DEF BatchSpacing
    <3>6. delegated' \in Nat
      BY <1>2, <3>1 DEF on_epoch_end
    <3>7. UndelegationCovered'
      BY <3>2, <3>6 DEF UndelegationCovered
    <3>8. StakeMatchesChain'
      BY <1>2, <1>3, <3>2, <3>3, <3>6 DEF EInv, StakeMatchesChain
    <3> QED
      BY <1>5, <3>5, <3>7, <3>8 DEF EInv
  <2>5. CASE height + 1 # epoch_start + EPOCH_BLOCKS
    <3>1. UNCHANGED <<epoch_start, delegated, queue, disturbances>>
      BY <1>6, <2>5 DEF NextBlock
    <3>2. (height + 1 - epoch_start) * AVERAGE_BLOCK_TIME
             = (height - epoch_start) * AVERAGE_BLOCK_TIME + AVERAGE_BLOCK_TIME
      BY <1>2
    <3>3. (height - epoch_start) * AVERAGE_BLOCK_TIME \in Nat
      BY <1>2
    <3>4. time - state.last_unbonded_time
             <= (height - epoch_start) * AVERAGE_BLOCK_TIME
          => time' - state'.last_unbonded_time
             <= (height' - epoch_start') * AVERAGE_BLOCK_TIME
      BY <1>2, <1>3, <2>1, <2>2, <2>3, <3>1, <3>2, <3>3
    <3>5. BatchSpacing'
      BY <1>3, <1>4, <3>1, <3>4, Zenon DEF EInv, BatchSpacing
    <3>6. UndelegationCovered' /\ StakeMatchesChain'
      BY <1>3, <3>1 DEF EInv, UndelegationCovered, StakeMatchesChain
    <3> QED
      BY <1>5, <3>5, <3>6 DEF EInv
  <2> QED
    BY <2>4, <2>5
<1>7. CASE Slash \/ SlashUnbonding
  <2>1. disturbances' # 0
    BY <1>2, <1>7 DEF Slash, SlashUnbonding
  <2>2. UNCHANGED <<height, time, epoch_start, queue>>
    BY <1>7 DEF Slash, SlashUnbonding
  <2>3. BatchSpacing'
    BY <1>3, <2>2 DEF EInv, BatchSpacing
  <2> QED
    BY <1>5, <2>1, <2>3 DEF EInv, UndelegationCovered, StakeMatchesChain
<1>8. CASE ChangeValidators \/ CompleteUnbonding \/ Donate
  <2>1. UNCHANGED <<height, time, epoch_start, queue, delegated, disturbances>>
    BY <1>8 DEF ChangeValidators, CompleteUnbonding, Donate
  <2> QED
    BY <1>3, <1>4, <2>1, QuietEInv
<1> QED
  BY <1>6, <1>7, <1>8 DEF ChainStep, ChainNext

\* Every step keeps the epoch invariant.
LEMMA NextEInv ==
    ASSUME ParamsRespectEpoch
    PROVE  IInv /\ EInv /\ [Next]_vars => EInv'
<1> SUFFICES ASSUME IInv, EInv, [Next]_vars PROVE EInv'
  OBVIOUS
<1>1. TypeOK
  BY DEF IInv
<1>2. /\ state \in State /\ pending \in PendingDelegation
      /\ current_batch \in [id : Nat \ {0}, requested : Nat]
      /\ total_supply \in Nat /\ current_batch.requested \in Nat
      /\ params.epoch_length >= EPOCH_BLOCKS * AVERAGE_BLOCK_TIME
  BY <1>1 DEF TypeOK, EInv, BatchSpacing
<1>3. CASE CheckSlashing
  <2>1. /\ actual_state_defined(state, pending) /\ state' = checked_state
        /\ UNCHANGED <<chainVars, params, closed_at>>
    BY <1>3 DEF CheckSlashing
  <2>2. UNCHANGED <<height, time, epoch_start, closed_at, queue, delegated,
                    disturbances>>
    BY <2>1 DEF chainVars
  <2>3. state'.last_unbonded_time = state.last_unbonded_time
    BY <1>1, <2>1, CheckedState
  <2>4. disturbances = 0 =>
          state'.total_staked_amount = state.total_staked_amount
    BY <2>1, CheckKeepsTotal
  <2> QED
    BY <1>2, <2>1, <2>2, <2>3, <2>4, QuietEInv
<1>4. CASE UpdateGlobalIndex
  <2>1. PICK reward \in REWARDS :
          /\ reward - compute_fee(reward, FEE_RATE) > 0
          /\ execute_stake(reward - compute_fee(reward, FEE_RATE), 0)
    BY <1>4 DEF UpdateGlobalIndex
  <2> DEFINE rest == reward - compute_fee(reward, FEE_RATE)
  <2>2. reward \in Nat /\ FEE_RATE \in Nat
    BY HubAssumption, ScaleAssumption
  <2>3. compute_fee(reward, FEE_RATE) \in Nat
    BY <2>2, MathTypes
  <2>4. rest \in Nat
    BY <2>1, <2>2, <2>3
  <2> HIDE DEF rest
  <2> QED
    BY <2>1, <2>4, StakeEInv DEF rest
<1>5. ASSUME NEW user \in Users, Stake(user)
      PROVE  EInv'
  <2>1. PICK payment \in STAKE_AMOUNTS :
          /\ checked_state.lst_exchange_rate # 0
          /\ execute_stake(payment, mint_amount(payment))
    BY <1>5 DEF Stake
  <2>2. payment \in Nat
    BY HubAssumption
  <2>3. mint_amount(payment) \in Nat
    <3>1. checked_state \in State
      BY <1>1, <2>1, CheckedState DEF execute_stake
    <3>2. checked_state.lst_exchange_rate \in Nat \ {0}
      BY <2>1, <3>1 DEF State
    <3> QED
      BY <2>2, <3>2, MathTypes DEF mint_amount
  <2> QED
    BY <2>1, <2>2, <2>3, StakeEInv
<1>6. CASE ProcessUndelegations
  <2>1. /\ actual_state_defined(state, pending)
        /\ check_for_unstake_batch_epoch_completion(current_batch, checked_state)
        /\ state' = completed_state(current_batch, checked_state)
        /\ UNCHANGED <<height, time, epoch_start, delegated, disturbances,
                       params>>
    BY <1>6 DEF ProcessUndelegations
  <2> QED
    BY <1>2, <2>1, BatchStepEInv
<1>7. ASSUME NEW user \in Users, Unstake(user)
      PROVE  EInv'
  <2>1. PICK amount \in UNSTAKE_AMOUNTS :
          LET batch == [current_batch EXCEPT !.requested = @ + amount]
              st == completed_state(batch, checked_state)
          IN
          /\ actual_state_defined(state, pending)
          /\ check_for_unstake_batch_epoch_completion(batch, checked_state)
          /\ burn(user, amount)
          /\ actual_state_defined(st, pending')
          /\ state' = query_actual_state(st, pending', total_supply',
                                         current_batch'.requested)
          /\ UNCHANGED <<height, time, epoch_start, delegated, disturbances,
                         params>>
    BY <1>7 DEF Unstake
  <2> DEFINE batch == [current_batch EXCEPT !.requested = @ + amount]
             st == completed_state(batch, checked_state)
  <2>2. amount \in Nat
    BY HubAssumption
  <2>3. batch \in [id : Nat \ {0}, requested : Nat] /\ batch.id = current_batch.id
    BY <1>2, <2>2
  <2>4. /\ check_for_unstake_batch_epoch_completion(batch, checked_state)
        /\ actual_state_defined(st, pending')
        /\ state' = query_actual_state(st, pending', total_supply',
                                       current_batch'.requested)
        /\ actual_state_defined(state, pending)
        /\ UNCHANGED <<height, time, epoch_start, delegated, disturbances,
                       params>>
    BY <2>1
  <2>5. total_supply' \in Nat
    BY <1>2, <2>1, <2>2 DEF burn
  <2> HIDE DEF batch
  <2>6. /\ checked_state \in State
        /\ checked_state.unclaimed_unstaked_balance
              = state.unclaimed_unstaked_balance
        /\ checked_state.last_processed_batch = state.last_processed_batch
    BY <1>1, <2>4, CheckedState
  <2>7. /\ st \in State /\ pending' \in PendingDelegation
        /\ current_batch'.requested \in Nat
    BY <2>3, <2>4, <2>6, BatchStep
  <2>8. disturbances = 0 => state_total_staked(st, pending') = delegated
    BY <2>3, <2>4, <2>6, CheckKeepsTotal, BatchKeepsChainTotal
  <2> HIDE DEF st
  <2>9. state' \in State /\ state'.last_unbonded_time = st.last_unbonded_time
    BY <1>1, <2>4, <2>5, <2>7, ActualState
  <2>10. disturbances = 0 => state'.total_staked_amount = st.total_staked_amount
    <3> SUFFICES ASSUME disturbances = 0
                 PROVE  state'.total_staked_amount = st.total_staked_amount
      OBVIOUS
    <3>1. delegated \in Nat
      BY <1>1 DEF TypeOK, ChainTypeOK
    <3>2. slashed_total(st, pending') = st.total_staked_amount
      BY <2>8, <3>1 DEF slashed_total
    <3> QED
      BY <2>4, <2>7, <3>2 DEF query_actual_state, State
  <2> QED
    BY <2>3, <2>4, <2>9, <2>10, BatchStepEInv DEF st
<1>8. ASSUME NEW user \in Users, TokenBurn(user)
      PROVE  EInv'
  <2>1. PICK amount \in BURN_AMOUNTS :
          /\ burn(user, amount)
          /\ actual_state_defined(state, pending)
          /\ state' = query_actual_state(state, pending, total_supply',
                                         current_batch.requested)
          /\ UNCHANGED <<chainVars, params, closed_at>>
    BY <1>8 DEF TokenBurn
  <2>2. total_supply' \in Nat
    BY <1>2, <2>1, HubAssumption DEF burn
  <2>3. UNCHANGED <<height, time, epoch_start, closed_at, queue, delegated,
                    disturbances>>
    BY <2>1 DEF chainVars
  <2>4. state'.last_unbonded_time = state.last_unbonded_time
    BY <1>1, <1>2, <2>1, <2>2, ActualState
  <2>5. disturbances = 0 =>
          state'.total_staked_amount = state.total_staked_amount
    <3> SUFFICES ASSUME disturbances = 0
                 PROVE  state'.total_staked_amount = state.total_staked_amount
      OBVIOUS
    <3>1. delegated \in Nat
      BY <1>1 DEF TypeOK, ChainTypeOK
    <3>2. state_total_staked(state, pending) = delegated
      BY <2>1, CheckKeepsTotal DEF state_total_staked
    <3>3. slashed_total(state, pending) = state.total_staked_amount
      BY <3>1, <3>2 DEF slashed_total
    <3> QED
      BY <1>2, <2>1, <3>3 DEF query_actual_state, State
  <2> QED
    BY <1>2, <2>1, <2>3, <2>4, <2>5, QuietEInv
<1>9. CASE UpdateParams
  <2>1. PICK epoch_length \in EPOCH_LENGTHS \cup {params.epoch_length} :
          /\ params'.epoch_length = epoch_length
          /\ UNCHANGED <<chainVars, state, closed_at>>
    BY <1>9 DEF UpdateParams
  <2>2. params'.epoch_length >= EPOCH_BLOCKS * AVERAGE_BLOCK_TIME
    BY <1>2, <2>1 DEF ParamsRespectEpoch
  <2>3. UNCHANGED <<height, time, epoch_start, closed_at, queue, delegated,
                    disturbances>>
    BY <2>1 DEF chainVars
  <2> QED
    BY <2>1, <2>2, <2>3, QuietEInv
<1>10. ASSUME NEW last, NEW unclaimed, state' = released_state(last, unclaimed),
              UNCHANGED <<height, time, epoch_start, closed_at, queue,
                          delegated, disturbances, params>>
       PROVE  EInv'
  <2>1. /\ state'.last_unbonded_time = state.last_unbonded_time
        /\ state'.total_staked_amount = state.total_staked_amount
    BY <1>2, <1>10 DEF released_state, State
  <2> QED
    BY <1>2, <1>10, <2>1, QuietEInv
<1>11. CASE ProcessWithdrawRequests
  BY <1>10, <1>11 DEF ProcessWithdrawRequests, chainVars
<1>12. ASSUME NEW user \in Users, NEW selection,
              execute_withdraw_unstaked_impl(user, selection)
       PROVE  EInv'
  BY <1>10, <1>12 DEF execute_withdraw_unstaked_impl
<1>13. CASE UNCHANGED vars
  <2>1. UNCHANGED <<state, params, height, time, epoch_start, closed_at, queue,
                    delegated, disturbances>>
    BY <1>13 DEF vars, chainVars, hubVars
  <2> QED
    BY <1>2, <2>1, QuietEInv
<1>14. CASE ChainStep
  BY <1>14, ChainStepEInv
<1> QED
  BY <1>3, <1>4, <1>5, <1>6, <1>7, <1>8, <1>9, <1>11, <1>12, <1>13, <1>14
  DEF Next, HubNext, WithdrawUnstaked, WithdrawUnstakedForBatches

-----------------------------------------------------------------------------
\* The epoch invariant holds in every reachable state.
LEMMA EpochInvariance ==
    ASSUME ParamsRespectEpoch
    PROVE  Spec => []EInv
<1>1. Init => IInv /\ EInv
  BY InitIInv, InitEInv
<1>2. (IInv /\ EInv) /\ [Next]_vars => (IInv /\ EInv)'
  BY NextIInv, NextEInv
<1> QED
  BY <1>1, <1>2, PTL DEF Spec

\* With parameters that respect the check of instantiate (contract.rs:60-63),
\* no two batches are closed in one staking epoch, for all numbers and lengths
\* of blocks.
THEOREM OneBatchPerEpoch ==
    ASSUME ParamsRespectEpoch
    PROVE  Spec => []OneBatchPerStakingEpoch
<1>1. EInv => OneBatchPerStakingEpoch
  BY DEF EInv
<1> QED
  BY <1>1, EpochInvariance, PTL

\* Under the same assumption the staked total is that of the chain until a
\* validator is slashed or an undelegation refused: every queued undelegation
\* is covered, and no handler makes check_slashing report a loss (contract.rs:268-312).
THEOREM StakeIsChains ==
    ASSUME ParamsRespectEpoch
    PROVE  Spec => []StakeMatchesChain
<1>1. EInv => StakeMatchesChain
  BY DEF EInv
<1> QED
  BY <1>1, EpochInvariance, PTL
-----------------------------------------------------------------------------
(* Until a disturbance (a slash, or an undelegation that is refused) no    *)
(* coin is lost on the chain, and tokens always share a stake: the reset   *)
(* of the rate to one (hub.rs:185) finds nobody's tokens.                  *)

TokensHaveStake ==
    disturbances = 0 /\ state.total_staked_amount = 0 => SharingSupply = 0

NothingLost == disturbances = 0 => lost = 0

\* Undisturbed, the stored total is the one the batch's completion returns.
LEMMA BatchTotal ==
    ASSUME IInv, EInv, EInv', disturbances = 0, disturbances' = 0,
           delegated' = delegated,
           NEW batch \in [id : Nat \ {0}, requested : Nat],
           actual_state_defined(state, pending),
           check_for_unstake_batch_epoch_completion(batch, checked_state)
    PROVE  state'.total_staked_amount
              = completed_state(batch, checked_state).total_staked_amount
<1>1. TypeOK /\ checked_state \in State
  BY CheckedState DEF IInv
<1>2. /\ queue \in [delegate : Nat, undelegate : Nat] /\ delegated \in Nat
      /\ active \in Nat
  BY <1>1 DEF TypeOK, ChainTypeOK
<1>3. /\ checked_state.total_staked_amount
            = delegated + queue.delegate - queue.undelegate
      /\ state'.total_staked_amount
            = delegated + queue'.delegate - queue'.undelegate
  BY CheckKeepsTotal DEF EInv, StakeMatchesChain
<1>4. CASE epoch_completed
  <2> DEFINE claim == unstaked_amount_in_batch(batch, checked_state)
  <2>1. claim \in Nat /\ queue' = push_undelegate(claim)
    BY <1>2, <1>4 DEF check_for_unstake_batch_epoch_completion,
                process_undelegations_for_batch,
                pick_validator_for_undelegation
  <2>2. completed_state(batch, checked_state).total_staked_amount
          = checked_state.total_staked_amount - claim
    BY <1>1, <1>4 DEF completed_state, undelegated_state, State
  <2> HIDE DEF claim
  <2>3. queue'.delegate = queue.delegate
        /\ queue'.undelegate = queue.undelegate + claim
    BY <1>2, <2>1 DEF push_undelegate
  <2> QED
    BY <1>2, <1>3, <2>1, <2>2, <2>3
<1>5. CASE ~epoch_completed
  BY <1>3, <1>5 DEF check_for_unstake_batch_epoch_completion, completed_state
<1> QED
  BY <1>4, <1>5

\* A batch that takes the whole stake takes all tokens with it.
LEMMA BatchTakesTokens ==
    ASSUME IInv, EInv, RateBacked, TokensHaveStake, disturbances = 0,
           NEW batch \in [id : Nat \ {0}, requested : Nat], NEW supply \in Nat,
           supply + batch.requested = SharingSupply,
           actual_state_defined(state, pending),
           check_for_unstake_batch_epoch_completion(batch, checked_state),
           completed_state(batch, checked_state).total_staked_amount = 0
    PROVE  supply + current_batch'.requested = 0
<1>1. TypeOK /\ checked_state \in State
  BY CheckedState DEF IInv
<1>2. /\ total_supply \in Nat /\ current_batch.requested \in Nat
      /\ state \in State /\ pending \in PendingDelegation
      /\ checked_state.total_staked_amount \in Nat /\ active \in Nat
  BY <1>1 DEF TypeOK, ChainTypeOK, State
<1>3. checked_state.total_staked_amount = state.total_staked_amount
  BY CheckKeepsTotal
<1>4. Backed(checked_state, supply, batch.requested)
  <2>1. Backed(state, total_supply, current_batch.requested)
    BY DEF RateBacked, Backed, SharingSupply
  <2>2. Backed(checked_state, total_supply, current_batch.requested)
    BY <1>1, <1>2, <2>1, CheckKeepsBacked DEF checked_state
  <2> QED
    BY <2>2 DEF Backed, SharingSupply
<1>5. CASE epoch_completed
  <2> DEFINE claim == unstaked_amount_in_batch(batch, checked_state)
  <2>1. /\ claim \in 1 .. active
        /\ current_batch' = next_batch(batch)
    BY <1>5 DEF check_for_unstake_batch_epoch_completion,
                process_undelegations_for_batch,
                pick_validator_for_undelegation
  <2>2. claim \in Nat \ {0}
    BY <1>2, <2>1
  <2>3. 0 = checked_state.total_staked_amount - claim
    BY <1>1, <1>5 DEF completed_state, undelegated_state, State
  <2>4. claim = checked_state.total_staked_amount
    <3> HIDE DEF claim
    <3> QED
      BY <1>2, <2>2, <2>3
  <2>5. checked_state.lst_exchange_rate # 0
    <3>1. SUFFICES ASSUME checked_state.lst_exchange_rate = 0 PROVE FALSE
      OBVIOUS
    <3>2. claim = (batch.requested * 0) \div DECIMAL_FRACTIONAL
      BY <3>1 DEF unstaked_amount_in_batch, decimal_multiplication
    <3>3. batch.requested * 0 = 0 /\ DECIMAL_FRACTIONAL \in Nat \ {0}
      BY ScaleAssumption
    <3>4. 0 \div DECIMAL_FRACTIONAL = 0
      BY <3>3
    <3> QED
      BY <2>2, <3>2, <3>3, <3>4
  <2>6. supply = 0
    BY <1>1, <1>4, <2>2, <2>4, <2>5, EmptiedAtRateZero
  <2> QED
    BY <2>1, <2>6 DEF next_batch
<1>6. CASE ~epoch_completed
  <2>1. /\ completed_state(batch, checked_state) = checked_state
        /\ current_batch' = batch
    BY <1>6 DEF check_for_unstake_batch_epoch_completion, completed_state
  <2>2. SharingSupply = 0
    BY <1>3, <2>1 DEF TokensHaveStake
  <2> QED
    BY <2>1, <2>2
<1> QED
  BY <1>5, <1>6

\* Both facts are inductive relative to the other invariants.
LEMMA NextSolvent ==
    IInv /\ EInv /\ EInv' /\ RateBacked /\ TokensHaveStake /\ NothingLost
        /\ [Next]_vars => TokensHaveStake' /\ NothingLost'
<1> SUFFICES ASSUME IInv, EInv, EInv', RateBacked, TokensHaveStake, NothingLost,
                    [Next]_vars
             PROVE  TokensHaveStake' /\ NothingLost'
  OBVIOUS
<1>1. TypeOK /\ UndelegationCovered
  BY DEF IInv, EInv
<1>2. /\ queue \in [delegate : Nat, undelegate : Nat] /\ delegated \in Nat
      /\ total_supply \in Nat /\ current_batch.requested \in Nat
      /\ current_batch \in [id : Nat \ {0}, requested : Nat]
      /\ disturbances \in Nat /\ lost \in Nat
      /\ state.total_staked_amount \in Nat
  BY <1>1 DEF TypeOK, ChainTypeOK, State
\* Steps that queue nothing and add no tokens.
<1>3. ASSUME UNCHANGED <<queue, delegated, lost, disturbances>>,
             total_supply' \in Nat, total_supply' <= total_supply,
             current_batch' = current_batch
      PROVE  TokensHaveStake' /\ NothingLost'
  <2>1. disturbances = 0 =>
           state'.total_staked_amount = state.total_staked_amount
    BY <1>3 DEF EInv, StakeMatchesChain
  <2> QED
    BY <1>2, <1>3, <2>1 DEF TokensHaveStake, NothingLost, SharingSupply
<1>4. CASE \/ CheckSlashing \/ ProcessWithdrawRequests \/ UpdateParams
           \/ UNCHANGED vars
  BY <1>2, <1>3, <1>4
  DEF CheckSlashing, ProcessWithdrawRequests, UpdateParams, vars, hubVars,
      chainVars
<1>5. ASSUME NEW user \in Users, NEW selection,
             execute_withdraw_unstaked_impl(user, selection)
      PROVE  TokensHaveStake' /\ NothingLost'
  BY <1>2, <1>3, <1>5 DEF execute_withdraw_unstaked_impl
<1>6. ASSUME NEW user \in Users, TokenBurn(user)
      PROVE  TokensHaveStake' /\ NothingLost'
  <2>1. PICK amount \in BURN_AMOUNTS : burn(user, amount)
    BY <1>6 DEF TokenBurn
  <2>2. UNCHANGED <<queue, delegated, lost, disturbances, current_batch>>
    BY <1>6 DEF TokenBurn, chainVars
  <2>3. total_supply' \in Nat /\ total_supply' <= total_supply
    BY <1>2, <2>1, HubAssumption DEF burn
  <2> QED
    BY <1>3, <2>2, <2>3
\* Staking leaves a stake behind.
<1>7. ASSUME NEW payment \in Nat \ {0}, NEW mint, execute_stake(payment, mint)
      PROVE  TokensHaveStake' /\ NothingLost'
  <2>1. /\ queue'.delegate = queue.delegate + payment
        /\ queue'.undelegate = queue.undelegate
        /\ UNCHANGED <<delegated, lost, disturbances>>
    BY <1>2, <1>7 DEF execute_stake, push_delegate
  <2>2. disturbances = 0 =>
           state'.total_staked_amount = state.total_staked_amount + payment
    BY <1>2, <2>1 DEF EInv, StakeMatchesChain
  <2> QED
    BY <1>2, <2>1, <2>2 DEF TokensHaveStake, NothingLost
<1>8. CASE UpdateGlobalIndex
  <2>1. PICK reward \in REWARDS :
          /\ reward - compute_fee(reward, FEE_RATE) > 0
          /\ execute_stake(reward - compute_fee(reward, FEE_RATE), 0)
    BY <1>8 DEF UpdateGlobalIndex
  <2> DEFINE rest == reward - compute_fee(reward, FEE_RATE)
  <2>2. reward \in Nat /\ FEE_RATE \in Nat
    BY HubAssumption, ScaleAssumption
  <2>3. compute_fee(reward, FEE_RATE) \in Nat
    BY <2>2, MathTypes
  <2>4. rest \in Nat \ {0}
    BY <2>1, <2>2, <2>3
  <2> HIDE DEF rest
  <2> QED
    BY <1>7, <2>1, <2>4 DEF rest
<1>9. ASSUME NEW user \in Users, Stake(user)
      PROVE  TokensHaveStake' /\ NothingLost'
  BY <1>7, <1>9, HubAssumption DEF Stake
\* Closing a batch, or storing it.
<1>10. ASSUME NEW batch \in [id : Nat \ {0}, requested : Nat],
              total_supply' \in Nat,
              total_supply' + batch.requested = SharingSupply,
              actual_state_defined(state, pending),
              check_for_unstake_batch_epoch_completion(batch, checked_state),
              UNCHANGED <<delegated, lost, disturbances>>
       PROVE  TokensHaveStake' /\ NothingLost'
  <2>1. disturbances = 0 /\ state'.total_staked_amount = 0 =>
           total_supply' + current_batch'.requested = 0
    BY <1>10, BatchTotal, BatchTakesTokens
  <2> QED
    BY <1>10, <2>1 DEF TokensHaveStake, NothingLost, SharingSupply
<1>11. CASE ProcessUndelegations
  BY <1>2, <1>10, <1>11 DEF ProcessUndelegations, SharingSupply
<1>12. ASSUME NEW user \in Users, Unstake(user)
       PROVE  TokensHaveStake' /\ NothingLost'
  <2>1. PICK amount \in UNSTAKE_AMOUNTS :
          /\ actual_state_defined(state, pending)
          /\ check_for_unstake_batch_epoch_completion(
                [current_batch EXCEPT !.requested = @ + amount], checked_state)
          /\ burn(user, amount)
          /\ UNCHANGED <<delegated, lost, disturbances>>
    BY <1>12 DEF Unstake
  <2> DEFINE batch == [current_batch EXCEPT !.requested = @ + amount]
  <2>2. amount \in Nat
    BY HubAssumption
  <2>3. /\ batch \in [id : Nat \ {0}, requested : Nat]
        /\ batch.requested = current_batch.requested + amount
    BY <1>2, <2>2
  <2>4. check_for_unstake_batch_epoch_completion(batch, checked_state)
    BY <2>1
  <2> HIDE DEF batch
  <2>5. total_supply' \in Nat /\ total_supply' + batch.requested = SharingSupply
    BY <1>2, <2>1, <2>2, <2>3 DEF burn, SharingSupply
  <2> QED
    BY <1>10, <2>1, <2>3, <2>4, <2>5
\* Steps of the chain: undisturbed, the undelegations of an epoch succeed.
<1>13. CASE ChainStep
  <2>1. TokensHaveStake'
    <3>1. disturbances' = 0 => disturbances = 0
      BY <1>2, <1>13 DEF ChainStep, ChainNext, NextBlock, on_epoch_end,
           ChangeValidators, Slash, SlashUnbonding, CompleteUnbonding, Donate
    <3>2. UNCHANGED <<state, total_supply, current_batch>>
      BY <1>13 DEF ChainStep, hubVars
    <3> QED
      BY <3>1, <3>2 DEF TokensHaveStake, SharingSupply
  <2>2. CASE NextBlock
    <3>1. CASE on_epoch_end
      <4>1. disturbances' = 0 =>
               /\ disturbances = 0
               /\ lost' = lost + queue.undelegate - queue.undelegate
        BY <1>1, <1>2, <3>1 DEF on_epoch_end, UndelegationCovered
      <4> QED
        BY <1>2, <2>1, <4>1 DEF NothingLost
    <3>2. CASE ~on_epoch_end
      <4>1. lost' = lost /\ disturbances' = disturbances
        BY <2>2, <3>2 DEF NextBlock
      <4> QED
        BY <2>1, <4>1 DEF NothingLost
    <3> QED
      BY <3>1, <3>2
  <2>3. CASE Slash \/ SlashUnbonding
    <3>1. disturbances' # 0
      BY <1>2, <2>3 DEF Slash, SlashUnbonding
    <3> QED
      BY <2>1, <3>1 DEF NothingLost
  <2>4. CASE ChangeValidators \/ CompleteUnbonding \/ Donate
    <3>1. lost' = lost /\ disturbances' = disturbances
      BY <2>4 DEF ChangeValidators, CompleteUnbonding, Donate
    <3> QED
      BY <2>1, <3>1 DEF NothingLost
  <2> QED
    BY <1>13, <2>2, <2>3, <2>4 DEF ChainStep, ChainNext
<1> QED
  BY <1>4, <1>5, <1>6, <1>8, <1>9, <1>11, <1>12, <1>13
  DEF Next, HubNext, WithdrawUnstaked, WithdrawUnstakedForBatches

\* Until a disturbance no coin is lost and no token is without a stake.
LEMMA SolventInvariance ==
    ASSUME ParamsRespectEpoch
    PROVE  Spec => [](TokensHaveStake /\ NothingLost)
<1>1. Init => TokensHaveStake /\ NothingLost
  BY DEF Init, HubInit, ChainInit, TokensHaveStake, NothingLost, SharingSupply
<1>2. Spec => []EInv
  BY EpochInvariance
<1> QED
  BY <1>1, <1>2, NextSolvent, Invariance, RateIsBacked, PTL DEF Spec

-----------------------------------------------------------------------------
(* Until a disturbance a token is worth at least one coin.                 *)

\* A slashing check that finds no loss leaves a rate of at least one.
LEMMA CheckKeepsWorth ==
    ASSUME TypeOK, NEW st \in State, NEW p \in PendingDelegation,
           NEW supply \in Nat, NEW requested \in Nat,
           actual_state_defined(st, p), Backed(st, supply, requested),
           st.lst_exchange_rate >= One,
           st.total_staked_amount = 0 => supply + requested = 0,
           delegated # 0 => ~(state_total_staked(st, p) > delegated)
    PROVE  query_actual_state(st, p, supply, requested).lst_exchange_rate >= One
<1> DEFINE r == query_actual_state(st, p, supply, requested)
<1>1. One \in Nat /\ st.lst_exchange_rate \in Nat /\ r.lst_exchange_rate \in Nat
  <2>1. r \in State
    BY ActualState
  <2> QED
    BY <2>1, MathTypes DEF State
<1>2. CASE supply + requested = 0
  <2>1. r.lst_exchange_rate \in {st.lst_exchange_rate, One}
    BY <1>2 DEF query_actual_state, updated_exchange_rate, State
  <2> QED
    BY <1>1, <2>1
<1>3. CASE supply + requested # 0
  <2>1. r.lst_exchange_rate >= st.lst_exchange_rate
    BY <1>3, CheckNeverLowers
  <2> HIDE DEF r
  <2> QED
    BY <1>1, <2>1 DEF r
<1> QED
  BY <1>2, <1>3

\* What the slashing check finds until a disturbance.
LEMMA CheckedWorth ==
    ASSUME IInv, EInv, RateBacked, TokensHaveStake, TokenWorthACoin,
           disturbances = 0,
           actual_state_defined(state, pending)
    PROVE  /\ checked_state \in State
           /\ checked_state.lst_exchange_rate >= One
           /\ Backed(checked_state, total_supply, current_batch.requested)
           /\ state_total_staked(state, pending) = delegated
<1>1. /\ TypeOK /\ state \in State /\ pending \in PendingDelegation
      /\ total_supply \in Nat /\ current_batch.requested \in Nat
      /\ delegated \in Nat
  BY DEF IInv, TypeOK, ChainTypeOK
<1>2. Backed(state, total_supply, current_batch.requested)
  BY DEF RateBacked, Backed, SharingSupply
<1>3. Backed(checked_state, total_supply, current_batch.requested)
  BY <1>1, <1>2, CheckKeepsBacked DEF checked_state
<1>4. state_total_staked(state, pending) = delegated
  BY CheckKeepsTotal DEF state_total_staked
<1>5. checked_state.lst_exchange_rate >= One
  BY <1>1, <1>2, <1>4, CheckKeepsWorth
  DEF checked_state, TokensHaveStake, SharingSupply, TokenWorthACoin
<1> QED
  BY <1>1, <1>3, <1>4, <1>5, CheckedState

\* Staking, for tokens that are worth no more than the payment.
LEMMA StakeKeepsWorth ==
    ASSUME IInv, EInv, RateBacked, TokensHaveStake, TokenWorthACoin,
           disturbances = 0,
           NEW payment \in Nat \ {0}, NEW mint \in Nat,
           execute_stake(payment, mint),
           checked_state.lst_exchange_rate * mint <= payment * One
    PROVE  state'.lst_exchange_rate >= One
<1>1. actual_state_defined(state, pending) /\ state' = staked_state(payment, mint)
  BY DEF execute_stake
<1>2. /\ checked_state \in State
      /\ checked_state.lst_exchange_rate >= One
      /\ Backed(checked_state, total_supply, current_batch.requested)
  BY <1>1, CheckedWorth
<1>3. /\ total_supply \in Nat /\ current_batch.requested \in Nat
      /\ One \in Nat /\ checked_state.lst_exchange_rate \in Nat
      /\ checked_state.total_staked_amount \in Nat
  BY <1>2, MathTypes DEF IInv, TypeOK, State
<1>4. state'.lst_exchange_rate
        = updated_exchange_rate(checked_state.total_staked_amount + payment,
                                total_supply + mint, current_batch.requested)
  BY <1>1, <1>2 DEF staked_state, State
<1>5. state'.lst_exchange_rate \in Nat
  <2> DEFINE t == checked_state.total_staked_amount + payment
             s == total_supply + mint
             r == current_batch.requested
  <2>1. t \in Nat /\ s \in Nat /\ r \in Nat
    BY <1>3
  <2>2. state'.lst_exchange_rate = updated_exchange_rate(t, s, r)
    BY <1>4
  <2> HIDE DEF t, s, r
  <2>3. updated_exchange_rate(t, s, r) \in Nat
    BY <2>1, MathTypes
  <2> QED
    BY <2>2, <2>3
<1>6. CASE total_supply + current_batch.requested # 0
  <2>1. checked_state.total_staked_amount # 0
    BY <1>1, <1>6, CheckKeepsTotal DEF TokensHaveStake, SharingSupply
  <2>2. state'.lst_exchange_rate >= checked_state.lst_exchange_rate
    BY <1>2, <1>6, <2>1, StakeNeverLowers
  <2> QED
    BY <1>2, <1>3, <1>5, <2>2
<1>7. CASE total_supply + current_batch.requested = 0 /\ mint # 0
  <2>1. state'.lst_exchange_rate >= checked_state.lst_exchange_rate
    BY <1>2, <1>7, FirstStakeNeverLowers
  <2> QED
    BY <1>2, <1>3, <1>5, <2>1
<1>8. CASE total_supply + current_batch.requested = 0 /\ mint = 0
  <2>1. (total_supply + mint) + current_batch.requested = 0
    BY <1>3, <1>8
  <2>2. state'.lst_exchange_rate = One
    BY <1>4, <2>1 DEF updated_exchange_rate
  <2> QED
    BY <1>3, <2>2
<1> QED
  BY <1>6, <1>7, <1>8

\* The batch, stored or closed, and the slashing check that the burn causes.
LEMMA UnstakeKeepsWorth ==
    ASSUME IInv, EInv, RateBacked, TokensHaveStake, TokenWorthACoin,
           disturbances = 0,
           NEW user \in Users, Unstake(user)
    PROVE  state'.lst_exchange_rate >= One
<1>1. PICK amount \in UNSTAKE_AMOUNTS :
        LET batch == [current_batch EXCEPT !.requested = @ + amount]
            st == completed_state(batch, checked_state)
        IN
        /\ actual_state_defined(state, pending)
        /\ check_for_unstake_batch_epoch_completion(batch, checked_state)
        /\ burn(user, amount)
        /\ actual_state_defined(st, pending')
        /\ state' = query_actual_state(st, pending', total_supply',
                                       current_batch'.requested)
        /\ UNCHANGED <<height, time, epoch_start>>
  BY DEF Unstake
<1> DEFINE batch == [current_batch EXCEPT !.requested = @ + amount]
           st == completed_state(batch, checked_state)
<1>2. /\ TypeOK /\ total_supply \in Nat
      /\ current_batch \in [id : Nat \ {0}, requested : Nat]
      /\ amount \in Nat
  BY HubAssumption DEF IInv, TypeOK
<1>3. /\ batch \in [id : Nat \ {0}, requested : Nat]
      /\ batch.id = current_batch.id
      /\ batch.requested = current_batch.requested + amount
  BY <1>2
<1>4. /\ check_for_unstake_batch_epoch_completion(batch, checked_state)
      /\ actual_state_defined(st, pending')
      /\ actual_state_defined(state, pending)
      /\ state' = query_actual_state(st, pending', total_supply',
                                     current_batch'.requested)
  BY <1>1
<1> HIDE DEF batch
<1>5. /\ total_supply' \in Nat
      /\ total_supply' + batch.requested = SharingSupply
  BY <1>1, <1>2, <1>3 DEF burn, SharingSupply
<1>6. /\ checked_state \in State
      /\ checked_state.lst_exchange_rate >= One
      /\ Backed(checked_state, total_supply, current_batch.requested)
  BY <1>4, CheckedWorth
<1>7. Backed(checked_state, total_supply', batch.requested)
  BY <1>5, <1>6 DEF Backed, SharingSupply
<1>8. /\ checked_state.unclaimed_unstaked_balance
            = state.unclaimed_unstaked_balance
      /\ checked_state.last_processed_batch = state.last_processed_batch
  BY <1>2, <1>4, CheckedState
<1>9. /\ st \in State /\ pending' \in PendingDelegation
      /\ current_batch'.requested \in Nat
  BY <1>1, <1>3, <1>4, <1>6, <1>8, BatchStep
<1>10. Backed(st, total_supply', current_batch'.requested)
  BY <1>3, <1>4, <1>5, <1>6, <1>7, BatchKeepsBacked
<1>11. st.lst_exchange_rate >= One
  BY <1>6 DEF completed_state, undelegated_state, State
<1>12. st.total_staked_amount = 0 =>
          total_supply' + current_batch'.requested = 0
  BY <1>3, <1>4, <1>5, BatchTakesTokens
<1>13. state_total_staked(st, pending') = delegated
  BY <1>3, <1>4, <1>6, CheckKeepsTotal, BatchKeepsChainTotal
<1>14. delegated \in Nat
  BY <1>2 DEF TypeOK, ChainTypeOK
<1> HIDE DEF st
<1>15. delegated # 0 => ~(state_total_staked(st, pending') > delegated)
  BY <1>13, <1>14
<1> QED
  BY <1>2, <1>4, <1>5, <1>9, <1>10, <1>11, <1>12, <1>15, CheckKeepsWorth

\* Every step keeps the worth of a token above one coin.
LEMMA NextWorth ==
    IInv /\ EInv /\ RateBacked /\ TokensHaveStake /\ TokenWorthACoin
        /\ [Next]_vars => TokenWorthACoin'
<1> SUFFICES ASSUME IInv, EInv, RateBacked, TokensHaveStake, TokenWorthACoin,
                    [Next]_vars, disturbances' = 0
             PROVE  state'.lst_exchange_rate >= One
  BY DEF TokenWorthACoin
<1>1. /\ TypeOK /\ state \in State /\ pending \in PendingDelegation
      /\ current_batch \in [id : Nat \ {0}, requested : Nat]
      /\ total_supply \in Nat /\ disturbances \in Nat /\ delegated \in Nat
  BY DEF IInv, TypeOK, ChainTypeOK
<1>2. CASE disturbances # 0
  <2>1. CASE ChainStep
    BY <1>1, <1>2, <2>1 DEF ChainStep, ChainNext, NextBlock, on_epoch_end,
         ChangeValidators, Slash, SlashUnbonding, CompleteUnbonding, Donate
  <2>2. ASSUME NEW user \in Users,
               \/ Stake(user) \/ Unstake(user) \/ TokenBurn(user)
               \/ WithdrawUnstaked(user) \/ WithdrawUnstakedForBatches(user)
        PROVE  disturbances' = disturbances
    BY <2>2 DEF Stake, execute_stake, Unstake, TokenBurn, WithdrawUnstaked,
         WithdrawUnstakedForBatches, execute_withdraw_unstaked_impl, chainVars
  <2>3. CASE \/ CheckSlashing \/ UpdateGlobalIndex \/ ProcessUndelegations
             \/ ProcessWithdrawRequests \/ UpdateParams \/ UNCHANGED vars
    BY <1>2, <2>3 DEF CheckSlashing, UpdateGlobalIndex, execute_stake,
         ProcessUndelegations, ProcessWithdrawRequests, UpdateParams, vars,
         chainVars
  <2> QED
    BY <1>2, <2>1, <2>2, <2>3 DEF Next, HubNext
<1>3. CASE disturbances = 0
  <2>1. state.lst_exchange_rate >= One
    BY <1>3 DEF TokenWorthACoin
  <2>2. ASSUME state'.lst_exchange_rate = state.lst_exchange_rate
        PROVE  state'.lst_exchange_rate >= One
    BY <2>1, <2>2
  <2>3. CASE UpdateParams \/ ChainStep \/ UNCHANGED vars
    BY <2>2, <2>3 DEF UpdateParams, ChainStep, hubVars, vars
  <2>4. ASSUME NEW last, NEW unclaimed, state' = released_state(last, unclaimed)
        PROVE  state'.lst_exchange_rate >= One
    BY <1>1, <2>2, <2>4 DEF released_state, State
  <2>5. CASE ProcessWithdrawRequests
    BY <2>4, <2>5 DEF ProcessWithdrawRequests
  <2>6. ASSUME NEW user \in Users, NEW selection,
               execute_withdraw_unstaked_impl(user, selection)
        PROVE  state'.lst_exchange_rate >= One
    BY <2>4, <2>6 DEF execute_withdraw_unstaked_impl
  <2>7. CASE CheckSlashing
    BY <1>3, <2>7, CheckedWorth DEF CheckSlashing
  <2>8. CASE ProcessUndelegations
    <3>1. /\ actual_state_defined(state, pending)
          /\ state' = completed_state(current_batch, checked_state)
      BY <2>8 DEF ProcessUndelegations
    <3>2. checked_state \in State /\ checked_state.lst_exchange_rate >= One
      BY <1>3, <3>1, CheckedWorth
    <3> QED
      BY <3>1, <3>2 DEF completed_state, undelegated_state, State
  <2>9. ASSUME NEW user \in Users, Unstake(user)
        PROVE  state'.lst_exchange_rate >= One
    BY <1>3, <2>9, UnstakeKeepsWorth
  <2>10. ASSUME NEW user \in Users, TokenBurn(user)
         PROVE  state'.lst_exchange_rate >= One
    <3> DEFINE requested == current_batch.requested
    <3>1. PICK amount \in BURN_AMOUNTS :
            /\ burn(user, amount)
            /\ actual_state_defined(state, pending)
            /\ state' = query_actual_state(state, pending, total_supply',
                                           requested)
      BY <2>10 DEF TokenBurn
    <3>2. /\ total_supply' \in Nat /\ total_supply' <= total_supply
          /\ requested \in Nat
      BY <1>1, <3>1, HubAssumption DEF burn
    <3>3. Backed(state, total_supply', requested)
      <4>1. /\ state.lst_exchange_rate \in Nat /\ One \in Nat
            /\ state.total_staked_amount \in Nat
        BY <1>1, MathTypes DEF State
      <4>2. (total_supply' + requested) * state.lst_exchange_rate
               <= (total_supply + requested) * state.lst_exchange_rate
        BY <1>1, <3>2, <4>1
      <4>3. state.total_staked_amount # 0 =>
               (total_supply + requested) * state.lst_exchange_rate
                   <= state.total_staked_amount * One
        BY DEF RateBacked, SharingSupply
      <4> HIDE DEF requested
      <4> QED
        BY <1>1, <3>2, <4>1, <4>2, <4>3 DEF Backed
    <3>4. state_total_staked(state, pending) = delegated
      BY <1>3, <3>1, CheckedWorth
    <3>5. state.total_staked_amount = 0 => total_supply' + requested = 0
      <4>1. state.total_staked_amount = 0 => total_supply + requested = 0
        BY <1>3 DEF TokensHaveStake, SharingSupply
      <4>2. total_supply \in Nat
        BY <1>1
      <4>3. \A s, n, r \in Nat : n <= s /\ s + r = 0 => n + r = 0
        OBVIOUS
      <4> HIDE DEF requested
      <4> QED
        BY <3>2, <4>1, <4>2, <4>3
    <3>6. delegated # 0 => ~(state_total_staked(state, pending) > delegated)
      BY <1>1, <3>4
    <3> HIDE DEF requested
    <3> QED
      BY <1>1, <2>1, <3>1, <3>2, <3>3, <3>5, <3>6, CheckKeepsWorth
  <2>11. CASE UpdateGlobalIndex
    <3>1. PICK reward \in REWARDS :
            /\ reward - compute_fee(reward, FEE_RATE) > 0
            /\ execute_stake(reward - compute_fee(reward, FEE_RATE), 0)
      BY <2>11 DEF UpdateGlobalIndex
    <3> DEFINE rest == reward - compute_fee(reward, FEE_RATE)
    <3>2. reward \in Nat /\ FEE_RATE \in Nat
      BY HubAssumption, ScaleAssumption
    <3>3. compute_fee(reward, FEE_RATE) \in Nat
      BY <3>2, MathTypes
    <3>4. rest \in Nat \ {0}
      BY <3>1, <3>2, <3>3
    <3>5. checked_state.lst_exchange_rate * 0 <= rest * One
      <4>1. checked_state.lst_exchange_rate \in Nat
        BY <1>3, <3>1, CheckedWorth DEF execute_stake, State
      <4>2. checked_state.lst_exchange_rate * 0 = 0
        BY <4>1
      <4> HIDE DEF rest
      <4>3. rest * One \in Nat
        BY <3>4, MathTypes
      <4> QED
        BY <4>2, <4>3
    <3> HIDE DEF rest
    <3> QED
      BY <1>3, <3>1, <3>4, <3>5, StakeKeepsWorth DEF rest
  <2>12. ASSUME NEW user \in Users, Stake(user)
         PROVE  state'.lst_exchange_rate >= One
    <3>1. PICK payment \in STAKE_AMOUNTS :
            /\ checked_state.lst_exchange_rate # 0
            /\ execute_stake(payment, mint_amount(payment))
      BY <2>12 DEF Stake
    <3> DEFINE rate == checked_state.lst_exchange_rate
               mint == mint_amount(payment)
               a == payment * One
    <3>2. payment \in Nat \ {0} /\ a \in Nat
      BY HubAssumption, MathTypes
    <3>3. rate \in Nat \ {0}
      BY <1>3, <3>1, CheckedWorth DEF execute_stake, State
    <3>4. mint = a \div rate
      BY DEF mint_amount, decimal_division, One
    <3> HIDE DEF rate, a, mint
    <3>5. mint \in Nat /\ mint * rate <= a
      BY <3>2, <3>3, <3>4, DivBounds
    <3>6. rate * mint <= payment * One
      BY <3>3, <3>5 DEF a
    <3> QED
      BY <1>3, <3>1, <3>2, <3>5, <3>6, StakeKeepsWorth DEF rate, mint
  <2> QED
    BY <2>3, <2>5, <2>6, <2>7, <2>8, <2>9, <2>10, <2>11, <2>12
    DEF Next, HubNext, WithdrawUnstaked, WithdrawUnstakedForBatches
<1> QED
  BY <1>2, <1>3

\* Until a disturbance a token is worth at least one coin, for every scale of
\* the decimals, so that staking never divides by a rate of zero (math.rs:9,
\* hub.rs:179-191), if the owner keeps to the check of instantiate.
THEOREM TokensKeepWorth ==
    ASSUME ParamsRespectEpoch
    PROVE  Spec => []TokenWorthACoin
<1>1. Init => TokenWorthACoin
  <2>1. One \in Nat
    BY MathTypes
  <2> QED
    BY <2>1 DEF Init, HubInit, TokenWorthACoin
<1>2. Spec => []EInv
  BY EpochInvariance
<1>3. Spec => [](TokensHaveStake /\ NothingLost)
  BY SolventInvariance
<1> QED
  BY <1>1, <1>2, <1>3, NextWorth, Invariance, RateIsBacked, PTL DEF Spec

\* Until a disturbance a due batch is worth at least a coin and at most what
\* the hub has delegated or queued: only coins still queued or on validators
\* the registry leaves out keep it open (unstake.rs:206-222, 270-276,
\* delegation.rs:72-79), if the owner keeps to the check of instantiate.
THEOREM DueIsClosable ==
    ASSUME ParamsRespectEpoch
    PROVE  Spec => []DueBatchClosable
<1>1. ASSUME IInv, EInv, RateBacked, TokensHaveStake, TokenWorthACoin
      PROVE  DueBatchClosable
  <2> DEFINE claim == unstaked_amount_in_batch(current_batch, checked_state)
             rate == checked_state.lst_exchange_rate
             r == current_batch.requested
             t == checked_state.total_staked_amount
  <2> SUFFICES ASSUME disturbances = 0, epoch_completed, r # 0
               PROVE  /\ actual_state_defined(state, pending)
                      /\ claim \in 1 .. t
                      /\ claim <= delegated + queue.delegate
                      /\ queue.delegate = 0 /\ active = delegated
                            => pick_validator_for_undelegation(claim)
    BY DEF DueBatchClosable
  <2>1. /\ total_supply \in Nat /\ r \in Nat \ {0} /\ delegated \in Nat
        /\ state.total_staked_amount \in Nat
        /\ queue.delegate \in Nat /\ queue.undelegate \in Nat
        /\ One \in Nat \ {0}
    BY <1>1, MathTypes DEF IInv, TypeOK, ChainTypeOK, State
  <2>2. queue.undelegate = 0
    BY <1>1, DueBatchIsFirst
  <2>3. state.total_staked_amount = delegated + queue.delegate
    BY <1>1, <2>1, <2>2 DEF EInv, StakeMatchesChain
  <2>4. get_pending_delegation_amount(pending)
           = [staking |-> queue.delegate, unstaking |-> 0]
    BY <1>1, <2>2 DEF IInv, PendingMatchesQueue
  <2>5. actual_state_defined(state, pending)
    BY <2>1, <2>3, <2>4 DEF actual_state_defined, state_total_staked
  <2>6. /\ checked_state \in State /\ rate >= One
        /\ Backed(checked_state, total_supply, r)
        /\ t = delegated + queue.delegate
    BY <1>1, <2>3, <2>5, CheckedWorth, CheckKeepsTotal
  <2>7. t \in Nat \ {0} /\ rate \in Nat
    <3>1. state.total_staked_amount # 0
      BY <1>1, <2>1 DEF TokensHaveStake, SharingSupply
    <3> QED
      BY <2>1, <2>3, <2>6, <3>1 DEF State
  <2>8. (total_supply + r) * rate <= t * One
    BY <2>6, <2>7 DEF Backed
  <2>9. claim = (r * rate) \div One
    BY DEF unstaked_amount_in_batch, decimal_multiplication, One
  <2>10. pick_validator_for_undelegation(claim) <=> claim \in 1 .. active
    BY DEF pick_validator_for_undelegation
  <2>11. rate >= One /\ t = delegated + queue.delegate
    BY <2>6
  <2> HIDE DEF claim, rate, r, t
  <2>12. r * rate \in Nat
    BY <2>1, <2>7
  <2>13. claim \in Nat /\ claim * One <= r * rate
    BY <2>1, <2>9, <2>12, DivBounds
  <2>14. claim >= r
    <3>1. One * r <= r * rate
      BY <2>1, <2>7, <2>11
    <3> QED
      BY <2>1, <2>9, <2>12, <2>13, <3>1, FloorAbove
  <2>15. claim <= t
    <3>1. r * rate <= (total_supply + r) * rate
      BY <2>1, <2>7
    <3>2. claim * One <= t * One
      BY <2>1, <2>7, <2>8, <2>12, <2>13, <3>1
    <3>3. ASSUME t < claim PROVE FALSE
      <4>1. t + 1 <= claim
        BY <2>7, <2>13, <3>3
      <4>2. (t + 1) * One <= claim * One
        BY <2>1, <2>7, <2>13, <4>1
      <4>3. (t + 1) * One = t * One + One
        BY <2>1, <2>7
      <4>4. t * One \in Nat /\ claim * One \in Nat
        BY <2>1, <2>7, <2>13
      <4> QED
        BY <2>1, <3>2, <4>2, <4>3, <4>4
    <3> QED
      BY <2>7, <2>13, <3>3
  <2>16. claim \in 1 .. t
    BY <2>1, <2>7, <2>13, <2>14, <2>15
  <2> QED
    BY <2>1, <2>5, <2>10, <2>11, <2>13, <2>15, <2>16
<1>2. IInv /\ EInv /\ RateBacked /\ (TokensHaveStake /\ NothingLost)
         /\ TokenWorthACoin => DueBatchClosable
  BY <1>1
<1>3. Spec => []EInv
  BY EpochInvariance
<1>4. Spec => [](TokensHaveStake /\ NothingLost)
  BY SolventInvariance
<1>5. Spec => []TokenWorthACoin
  BY TokensKeepWorth
<1> QED
  BY <1>2, <1>3, <1>4, <1>5, Invariance, RateIsBacked, PTL
-----------------------------------------------------------------------------
(* The slashing check works again in every new staking epoch.              *)

\* With the queue empty the slashing check subtracts nothing.
LEMMA CheckDefinedOnEmptyQueue ==
    ASSUME IInv, queue.delegate = 0, queue.undelegate = 0
    PROVE  actual_state_defined(state, pending)
<1>1. state.total_staked_amount \in Nat /\ delegated \in Nat
  BY DEF IInv, TypeOK, ChainTypeOK, State
<1>2. get_pending_delegation_amount(pending) = [staking |-> 0, unstaking |-> 0]
  BY DEF IInv, PendingMatchesQueue
<1> QED
  BY <1>1, <1>2 DEF actual_state_defined

\* The step into a staking epoch leaves the slashing check defined, whatever
\* was slashed in the epoch before and however long the check has panicked
\* (contract.rs:292-302, state.rs:175-186).
EpochRestoresCheck ==
    [][epoch_start' # epoch_start => actual_state_defined(state, pending)']_vars

\* Only the end of an epoch starts one, and it executes the queue.
LEMMA EpochStartsEmpty ==
    ASSUME IInv, [Next]_vars, epoch_start' # epoch_start
    PROVE  queue'.delegate = 0 /\ queue'.undelegate = 0
<1>1. CASE ChainStep
  BY <1>1 DEF ChainStep, ChainNext, NextBlock, on_epoch_end,
       ChangeValidators, Slash, SlashUnbonding, CompleteUnbonding, Donate
<1>2. ASSUME NEW user \in Users,
             \/ Stake(user) \/ Unstake(user) \/ TokenBurn(user)
             \/ WithdrawUnstaked(user) \/ WithdrawUnstakedForBatches(user)
      PROVE  epoch_start' = epoch_start
  BY <1>2 DEF Stake, execute_stake, Unstake, TokenBurn, WithdrawUnstaked,
       WithdrawUnstakedForBatches, execute_withdraw_unstaked_impl, chainVars
<1>3. CASE \/ CheckSlashing \/ UpdateGlobalIndex \/ ProcessUndelegations
           \/ ProcessWithdrawRequests \/ UpdateParams \/ UNCHANGED vars
  BY <1>3 DEF CheckSlashing, UpdateGlobalIndex, execute_stake,
       ProcessUndelegations, ProcessWithdrawRequests, UpdateParams, chainVars, vars
<1> QED
  BY <1>1, <1>2, <1>3 DEF Next, HubNext

\* A slash may stop every handler, but only until the staking epoch ends
\* (the safety core of SlashingCheckRecovers, for every value of the constants).
THEOREM CheckRestored == Spec => EpochRestoresCheck
<1>1. IInv /\ IInv' /\ [Next]_vars =>
        [epoch_start' # epoch_start => actual_state_defined(state, pending)']_vars
  <2> SUFFICES ASSUME IInv, IInv', [Next]_vars, epoch_start' # epoch_start
               PROVE  actual_state_defined(state, pending)'
    OBVIOUS
  <2>1. (queue.delegate = 0 /\ queue.undelegate = 0)'
    BY EpochStartsEmpty
  <2>2. (IInv /\ queue.delegate = 0 /\ queue.undelegate = 0
          => actual_state_defined(state, pending))'
    BY CheckDefinedOnEmptyQueue, PTL
  <2> QED
    BY <2>1, <2>2
<1> QED
  BY <1>1, Invariance, PTL DEF Spec, EpochRestoresCheck

=============================================================================
