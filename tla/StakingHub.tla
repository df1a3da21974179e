----------------------------- MODULE StakingHub -----------------------------
(***************************************************************************)
(* The staking hub with the LST token it mints and burns, on top of the    *)
(* chain of BabylonChain.  One action is one transaction: the handler and  *)
(* the messages it sends, which run before anything else does; a handler   *)
(* that returns an error or panics reverts, so it takes no step.           *)
(*                                                                         *)
(* Users stake coins for LST tokens (Stake) and burn LST tokens into the   *)
(* open batch (Unstake).  Once epoch_length has passed the batch is closed *)
(* and undelegated; when unstaking_period has passed and the coins are     *)
(* back, the batch is released and its users withdraw.                     *)
(*                                                                         *)
(* Deployment is over: the token, the registry and the dispatcher are set. *)
(***************************************************************************)
EXTENDS LstMath, BabylonChain, FiniteSetsExt

CONSTANTS
    Users,
    AVERAGE_BLOCK_TIME,     \* constants.rs: a generous block time, in seconds
    MAX_EPOCH_LENGTH, MAX_UNSTAKING_PERIOD,
    EPOCH_LENGTH, UNSTAKING_PERIOD,     \* the instantiate message
    EPOCH_LENGTHS, UNSTAKING_PERIODS,   \* what the owner may change them to
    PAUSES,             \* the values the owner gives `paused`
    STAKE_AMOUNTS, UNSTAKE_AMOUNTS, BURN_AMOUNTS,
    REWARDS,            \* rewards withdrawn to the dispatcher by one update
    FEE_RATE,           \* the dispatcher's fee rate, a Decimal
    BATCH_ID_LISTS,     \* the batch_ids of WithdrawUnstakedForBatches
    MaxStaked,          \* bound: no stake beyond this total_staked_amount
    MaxStakeHeight,     \* bound: no stake after this block
    MaxBatches          \* bound: batches closed

\* contract.rs:55-73, and the amounts are Uint128 values.
ASSUME HubAssumption ==
    /\ AVERAGE_BLOCK_TIME \in Nat \ {0}
    /\ MAX_EPOCH_LENGTH \in Nat /\ MAX_UNSTAKING_PERIOD \in Nat
    /\ EPOCH_LENGTH \in Nat /\ UNSTAKING_PERIOD \in Nat
    /\ EPOCH_LENGTH <= MAX_EPOCH_LENGTH
    /\ EPOCH_LENGTH >= EPOCH_BLOCKS * AVERAGE_BLOCK_TIME
    /\ UNSTAKING_PERIOD <= MAX_UNSTAKING_PERIOD
    /\ EPOCH_LENGTH < UNSTAKING_PERIOD
    /\ EPOCH_LENGTHS \subseteq Nat /\ UNSTAKING_PERIODS \subseteq Nat
    /\ PAUSES \subseteq BOOLEAN
    /\ STAKE_AMOUNTS \subseteq Nat \ {0}
    /\ UNSTAKE_AMOUNTS \subseteq Nat /\ BURN_AMOUNTS \subseteq Nat
    /\ REWARDS \subseteq Nat /\ FEE_RATE \in 0 .. DECIMAL_FRACTIONAL
    /\ MaxStaked \in Nat /\ MaxStakeHeight \in Nat /\ MaxBatches \in Nat

\* Unix time is far past every unstaking period: the cutoff never underflows.
ASSUME GenesisAssumption == GENESIS_TIME >= MAX_UNSTAKING_PERIOD

VARIABLES
    state,          \* STATE
    params,         \* PARAMETERS
    current_batch,  \* CURRENT_BATCH
    wait_list,      \* UNSTAKE_WAIT_LIST: (user, batch) -> LST amount
    history,        \* UNSTAKE_HISTORY: batch -> record
    pending,        \* PENDING_DELEGATION
    total_supply,   \* of the LST token
    token_balance,  \* LST tokens of each user
    closed_at       \* history variable: batch -> epoch_start when it closed

hubVars == <<state, params, current_batch, wait_list, history, pending,
             total_supply, token_balance, closed_at>>
vars == <<chainVars, hubVars>>

History == [time : Nat, lst_token_amount : Nat,
            lst_applied_exchange_rate : Nat, lst_withdraw_rate : Nat,
            released : BOOLEAN]
State == [lst_exchange_rate : Nat, total_staked_amount : Nat,
          unclaimed_unstaked_balance : Nat, last_unbonded_time : Nat,
          last_processed_batch : Nat]
PendingDelegation == [start : Nat, staking : Nat, unstaking : Nat]

\* Every variable holds a value of its Rust type (an integer is never
\* negative: each subtraction in the handlers is safe), the stored history is
\* exactly that of the batches before the open one.
TypeOK ==
    /\ ChainTypeOK
    /\ state \in State
    /\ params \in [epoch_length : Nat, unstaking_period : Nat,
                   paused : BOOLEAN]
    /\ current_batch \in [id : Nat \ {0}, requested : Nat]
    /\ wait_list \in [DOMAIN wait_list -> Nat]
    /\ DOMAIN wait_list \subseteq Users \X (1 .. current_batch.id)
    /\ history \in [1 .. current_batch.id - 1 -> History]
    /\ pending \in PendingDelegation
    /\ total_supply \in Nat
    /\ token_balance \in [Users -> Nat]
    /\ closed_at \in [1 .. current_batch.id - 1 -> Nat]

\* instantiate
HubInit ==
    /\ state = [lst_exchange_rate |-> One, total_staked_amount |-> 0,
                unclaimed_unstaked_balance |-> 0,
                last_unbonded_time |-> time, last_processed_batch |-> 0]
    /\ params = [epoch_length |-> EPOCH_LENGTH,
                 unstaking_period |-> UNSTAKING_PERIOD, paused |-> FALSE]
    /\ current_batch = [id |-> 1, requested |-> 0]
    /\ wait_list = [k \in {} |-> 0]
    /\ history = [b \in 1 .. 0 |-> 0]
    /\ pending = [start |-> 0, staking |-> 0, unstaking |-> 0]
    /\ total_supply = 0
    /\ token_balance = [u \in Users |-> 0]
    /\ closed_at = [b \in 1 .. 0 |-> 0]

Init == ChainInit /\ HubInit

-----------------------------------------------------------------------------
(* Pending delegations (state.rs): what the hub has sent to the epoching   *)
(* module in the current staking epoch.                                    *)

\* Mutant: the epoch is taken to last one block longer.
Mut_epoch_over_late(p) == height - p.start > EPOCH_BLOCKS

epoch_over(p) == height - p.start >= EPOCH_BLOCKS

\* Mutant: it is not looked at whether the epoch has passed.
Mut_get_pending_delegation_amount(p) ==
    [staking |-> p.staking, unstaking |-> p.unstaking]

get_pending_delegation_amount(p) ==
    IF epoch_over(p)
    THEN [staking |-> 0, unstaking |-> 0]
    ELSE [staking |-> p.staking, unstaking |-> p.unstaking]

update_pending_delegation_amount(staking, unstaking) ==
    IF epoch_over(pending)
    THEN [start |-> pending.start
                      + ((height - pending.start) \div EPOCH_BLOCKS)
                            * EPOCH_BLOCKS,
          staking |-> staking, unstaking |-> unstaking]
    ELSE [pending EXCEPT !.staking = @ + staking,
                         !.unstaking = @ + unstaking]

-----------------------------------------------------------------------------
(* Slashing check (contract.rs): compare the staked total with the chain.  *)

\* What the hub believes is delegated on the chain.
state_total_staked(st, p) ==
    LET amounts == get_pending_delegation_amount(p)
    IN  st.total_staked_amount - amounts.staking + amounts.unstaking

\* The subtractions of query_actual_state do not underflow (they panic).
actual_state_defined(st, p) ==
    LET amounts == get_pending_delegation_amount(p) IN
    delegated # 0 =>
        /\ st.total_staked_amount >= amounts.staking
        /\ state_total_staked(st, p) > delegated
              => delegated + amounts.staking >= amounts.unstaking

\* The total after a shortfall on the chain, if there is one.
slashed_total(st, p) ==
    LET amounts == get_pending_delegation_amount(p) IN
    IF state_total_staked(st, p) > delegated
    THEN delegated + amounts.staking - amounts.unstaking
    ELSE st.total_staked_amount

\* Mutant: the tokens burnt into the open batch are forgotten.
Mut_query_actual_state(st, p, supply, requested) ==
    IF delegated = 0 \/ state_total_staked(st, p) = 0
    THEN st
    ELSE [st EXCEPT
            !.total_staked_amount = slashed_total(st, p),
            !.lst_exchange_rate =
                updated_exchange_rate(slashed_total(st, p), supply, 0)]

query_actual_state(st, p, supply, requested) ==
    IF delegated = 0 \/ state_total_staked(st, p) = 0
    THEN st
    ELSE [st EXCEPT
            !.total_staked_amount = slashed_total(st, p),
            !.lst_exchange_rate =
                updated_exchange_rate(slashed_total(st, p), supply, requested)]

\* The state as check_slashing leaves it at the start of a handler.
checked_state ==
    query_actual_state(state, pending, total_supply, current_batch.requested)

\* CheckSlashing: anyone may ask for it.
CheckSlashing ==
    /\ ~params.paused
    /\ actual_state_defined(state, pending)
    /\ state' = checked_state
    /\ UNCHANGED <<chainVars, params, current_batch, wait_list, history,
                   pending, total_supply, token_balance, closed_at>>

-----------------------------------------------------------------------------
(* Staking (stake.rs).                                                     *)

\* The state after `payment` more coins and `mint` more tokens.
staked_state(payment, mint) ==
    [checked_state EXCEPT
        !.total_staked_amount = @ + payment,
        !.lst_exchange_rate =
            updated_exchange_rate(checked_state.total_staked_amount + payment,
                                  total_supply + mint,
                                  current_batch.requested)]

\* What staking a payment and staking rewards have in common.
execute_stake(payment, mint) ==
    /\ ~params.paused
    /\ actual_state_defined(state, pending)
    /\ state' = staked_state(payment, mint)
    /\ pending' = update_pending_delegation_amount(payment, 0)
    /\ hub_balance' = hub_balance + payment
    /\ queue' = push_delegate(payment)
    /\ total_supply' = total_supply + mint
    /\ UNCHANGED <<height, time, epoch_start, delegated, active, unbonding,
                   lost, disturbances, params, current_batch, wait_list,
                   history, closed_at>>

\* Mutant: the tokens are bought at the rate of before the slashing check.
Mut_mint_amount(payment) == decimal_division(payment, state.lst_exchange_rate)

\* The tokens a payment buys, at the rate of after the slashing check.
mint_amount(payment) ==
    decimal_division(payment, checked_state.lst_exchange_rate)

\* Stake: a payment for newly minted LST tokens.
Stake(user) ==
    \E payment \in STAKE_AMOUNTS :
        /\ height <= MaxStakeHeight
        /\ state.total_staked_amount + payment <= MaxStaked
        /\ checked_state.lst_exchange_rate # 0
        /\ execute_stake(payment, mint_amount(payment))
        /\ token_balance' = [token_balance EXCEPT
                                 ![user] = @ + mint_amount(payment)]

(***************************************************************************)
(* UpdateGlobalIndex: the rewards go to the dispatcher, which keeps the    *)
(* fee and stakes the rest through StakeRewards, for no tokens.  Without a *)
(* rest nothing modelled here changes.                                     *)
(***************************************************************************)
UpdateGlobalIndex ==
    \E reward \in REWARDS :
        LET rest == reward - compute_fee(reward, FEE_RATE) IN
        /\ rest > 0
        /\ state.total_staked_amount + rest <= MaxStaked
        /\ execute_stake(rest, 0)
        /\ UNCHANGED token_balance

-----------------------------------------------------------------------------
(* Unstaking (unstake.rs).                                                 *)

\* Mutant: a batch may be closed at any time.
Mut_epoch_completed == TRUE

\* The unstake batch epoch has passed.
epoch_completed == time - state.last_unbonded_time > params.epoch_length

\* The coins a batch is worth.
unstaked_amount_in_batch(batch, st) ==
    decimal_multiplication(batch.requested, st.lst_exchange_rate)

\* Mutant: the withdraw rate is the rate of before the slashing check.
Mut_closed_history(batch, st) ==
    [time |-> time, lst_token_amount |-> batch.requested,
     lst_applied_exchange_rate |-> state.lst_exchange_rate,
     lst_withdraw_rate |-> state.lst_exchange_rate, released |-> FALSE]

\* Mutant: a batch is recorded as released when it is closed.
Mut_closed_history_released(batch, st) ==
    [time |-> time, lst_token_amount |-> batch.requested,
     lst_applied_exchange_rate |-> st.lst_exchange_rate,
     lst_withdraw_rate |-> st.lst_exchange_rate, released |-> TRUE]

closed_history(batch, st) ==
    [time |-> time, lst_token_amount |-> batch.requested,
     lst_applied_exchange_rate |-> st.lst_exchange_rate,
     lst_withdraw_rate |-> st.lst_exchange_rate, released |-> FALSE]

\* Function f with one more value at the end of its domain 1 .. n - 1.
appended(f, n, v) == [b \in 1 .. n |-> IF b = n THEN v ELSE f[b]]

\* Mutant: the new batch has the id of the closed one.
Mut_next_batch(batch) == [id |-> batch.id, requested |-> 0]

next_batch(batch) == [id |-> batch.id + 1, requested |-> 0]

\* Mutant: the undelegated coins stay in the staked total.
Mut_undelegated_state(batch, st) == [st EXCEPT !.last_unbonded_time = time]

\* The state that process_undelegations_for_batch returns.
undelegated_state(batch, st) ==
    [st EXCEPT !.total_staked_amount = @ - unstaked_amount_in_batch(batch, st),
               !.last_unbonded_time = time]

\* Mutant: a claim to all of the stake is refused.
Mut_pick_validator_for_undelegation(claim) == claim \in 1 .. active - 1

\* The claim can be split over the validators the registry returns:
\* calculate_undelegations fails exactly when it is zero (DistributionFailed),
\* when it exceeds what they hold (ExceedUndelegation) or there is none
\* (EmptyValidatorSet).
pick_validator_for_undelegation(claim) == claim \in 1 .. active

\* Close the batch; its claim is subtracted from the staked total.
process_undelegations_for_batch(batch, st) ==
    LET claim == unstaked_amount_in_batch(batch, st) IN
    /\ batch.id <= MaxBatches
    /\ pick_validator_for_undelegation(claim)
    /\ claim <= st.total_staked_amount
    /\ pending' = update_pending_delegation_amount(0, claim)
    /\ queue' = push_undelegate(claim)
    /\ history' = appended(history, batch.id, closed_history(batch, st))
    /\ closed_at' = appended(closed_at, batch.id, epoch_start)
    /\ current_batch' = next_batch(batch)

\* Close the batch if its epoch has passed, otherwise store it.
check_for_unstake_batch_epoch_completion(batch, st) ==
    \/ /\ epoch_completed
       /\ process_undelegations_for_batch(batch, st)
    \/ /\ ~epoch_completed
       /\ current_batch' = batch
       /\ UNCHANGED <<pending, queue, history, closed_at>>

completed_state(batch, st) ==
    IF epoch_completed THEN undelegated_state(batch, st) ELSE st

\* Mutant: a second request of the same user replaces the first.
Mut_update_wait_list(user, amount) ==
    [k \in DOMAIN wait_list \cup {<<user, current_batch.id>>} |->
        IF k = <<user, current_batch.id>> THEN amount ELSE wait_list[k]]

\* The wait list with `amount` added to the user's entry of the open batch.
updated_wait_list(user, amount) ==
    [k \in DOMAIN wait_list \cup {<<user, current_batch.id>>} |->
        IF k # <<user, current_batch.id>> THEN wait_list[k]
        ELSE IF k \in DOMAIN wait_list THEN wait_list[k] + amount ELSE amount]

\* The tokens of a user are burnt: cw20 checks the balance and the supply.
burn(user, amount) ==
    /\ amount <= token_balance[user]
    /\ amount <= total_supply
    /\ token_balance' = [token_balance EXCEPT ![user] = @ - amount]
    /\ total_supply' = total_supply - amount

(***************************************************************************)
(* Unstake (with an allowance, BurnFrom) and the cw20 hook Receive (the    *)
(* tokens sent along, Burn): the request is recorded, the batch possibly   *)
(* closed, the tokens burnt; the burn makes the token contract call        *)
(* CheckSlashing on the state and batch just stored.                       *)
(***************************************************************************)
Unstake(user) ==
    \E amount \in UNSTAKE_AMOUNTS :
        LET batch == [current_batch EXCEPT !.requested = @ + amount]
            st == completed_state(batch, checked_state)
        IN
        /\ ~params.paused
        /\ actual_state_defined(state, pending)
        /\ wait_list' = updated_wait_list(user, amount)
        /\ check_for_unstake_batch_epoch_completion(batch, checked_state)
        /\ burn(user, amount)
        /\ actual_state_defined(st, pending')
        /\ state' = query_actual_state(st, pending', total_supply',
                                       current_batch'.requested)
        /\ UNCHANGED <<height, time, epoch_start, hub_balance, delegated,
                       active, unbonding, lost, disturbances, params>>

\* ProcessUndelegations: anyone may close an overdue batch.
ProcessUndelegations ==
    /\ ~params.paused
    /\ current_batch.requested # 0
    /\ actual_state_defined(state, pending)
    /\ check_for_unstake_batch_epoch_completion(current_batch, checked_state)
    /\ state' = completed_state(current_batch, checked_state)
    /\ UNCHANGED <<height, time, epoch_start, hub_balance, delegated, active,
                   unbonding, lost, disturbances, params, wait_list,
                   total_supply, token_balance>>

\* A holder burns tokens directly: the others' tokens are worth more.
TokenBurn(user) ==
    \E amount \in BURN_AMOUNTS :
        /\ ~params.paused
        /\ burn(user, amount)
        /\ actual_state_defined(state, pending)
        /\ state' = query_actual_state(state, pending, total_supply',
                                       current_batch.requested)
        /\ UNCHANGED <<chainVars, params, current_batch, wait_list, history,
                       pending, closed_at>>

-----------------------------------------------------------------------------
(* Release and withdrawal (unstake.rs, state.rs).                          *)

\* Mutant: the queued delegations are counted as free.
Mut_actual_free_balance == hub_balance

\* The bank balance without the coins of queued delegations.
actual_free_balance ==
    hub_balance - get_pending_delegation_amount(pending).staking

\* What a batch needs to be released.
required_amount(b) ==
    decimal_multiplication(history[b].lst_token_amount,
                           history[b].lst_withdraw_rate)

\* What some batches need together.
required_total(batches) == SumFunction([b \in batches |-> required_amount(b)])

unstake_cutoff_time == time - params.unstaking_period

\* Batch b exists, is old enough and has not been released.
releasable(b) ==
    /\ b \in DOMAIN history
    /\ history[b].time <= unstake_cutoff_time
    /\ ~history[b].released

\* Mutant: a batch is released only if coins remain afterwards.
Mut_get_unprocessed_strict(last, balance, left) ==
    /\ \A b \in state.last_processed_batch + 1 .. last : releasable(b)
    /\ left = balance - required_total(state.last_processed_batch + 1 .. last)
    /\ last > state.last_processed_batch => left > 0
    /\ releasable(last + 1) => left <= required_amount(last + 1)

\* Mutant: batches are released without looking at the balance.
Mut_get_unprocessed_histories(last, balance, left) ==
    /\ \A b \in state.last_processed_batch + 1 .. last : releasable(b)
    /\ left = balance
    /\ ~releasable(last + 1)

(***************************************************************************)
(* The loop of get_unprocessed_histories: it takes the batches after the   *)
(* last processed one, in order and as long as the balance lasts; it stops *)
(* after batch `last` with `left` of the balance remaining.                *)
(***************************************************************************)
get_unprocessed_histories(last, balance, left) ==
    /\ \A b \in state.last_processed_batch + 1 .. last : releasable(b)
    /\ left = balance - required_total(state.last_processed_batch + 1 .. last)
    /\ releasable(last + 1) => left < required_amount(last + 1)

\* Mutant: a released batch is stamped with the time of the release.
Mut_released_history(last) ==
    [b \in DOMAIN history |->
        IF b \in state.last_processed_batch + 1 .. last
        THEN [history[b] EXCEPT !.released = TRUE, !.time = time]
        ELSE history[b]]

\* The history with the batches up to `last` released.
released_history(last) ==
    [b \in DOMAIN history |->
        IF b \in state.last_processed_batch + 1 .. last
        THEN [history[b] EXCEPT !.released = TRUE] ELSE history[b]]

(***************************************************************************)
(* process_withdraw_rate: every free coin that is not reserved for         *)
(* released batches may release further batches, here those up to `last`,  *)
(* which leaves `left`.                                                    *)
(***************************************************************************)
process_withdraw_rate(last, left) ==
    /\ actual_free_balance >= state.unclaimed_unstaked_balance
    /\ get_unprocessed_histories(
            last, actual_free_balance - state.unclaimed_unstaked_balance, left)

\* The state with the batches up to `last` processed.
released_state(last, unclaimed) ==
    [state EXCEPT !.last_processed_batch = last,
                  !.unclaimed_unstaked_balance = unclaimed]

\* ProcessWithdrawRequests: anyone may release what is due.
ProcessWithdrawRequests ==
    /\ ~params.paused
    /\ \E last \in state.last_processed_batch .. current_batch.id - 1,
          left \in 0 .. hub_balance :
          /\ process_withdraw_rate(last, left)
          /\ left <= actual_free_balance
          /\ history' = released_history(last)
          /\ state' = released_state(last, actual_free_balance - left)
    /\ UNCHANGED <<chainVars, params, current_batch, wait_list, pending,
                   total_supply, token_balance, closed_at>>

\* The batches in which the user has an entry, each selected once.
user_batches(user) ==
    [b \in {k[2] : k \in {k \in DOMAIN wait_list : k[1] = user}} |-> b]

\* The positions of a selection that name an entry of the user which is
\* released in the stored history h.
finished(user, selection, h) ==
    {i \in DOMAIN selection :
        /\ <<user, selection[i]>> \in DOMAIN wait_list
        /\ selection[i] \in DOMAIN h
        /\ h[selection[i]].released}

\* What a wait list entry of a closed batch is worth.
entry_amount(user, b) ==
    decimal_multiplication(wait_list[<<user, b>>],
                           history[b].lst_applied_exchange_rate)

\* process_finished_amount: the sum over the positions of the selection.
finished_amount(user, selection, h) ==
    SumFunction([i \in finished(user, selection, h) |->
                    entry_amount(user, selection[i])])

\* Mutant: all entries of the user up to the last paid batch are removed.
Mut_remove_unstake_wait_list(user, batches) ==
    [k \in {k \in DOMAIN wait_list :
              k[1] = user => \A b \in batches : k[2] > b} |-> wait_list[k]]

remove_unstake_wait_list(user, batches) ==
    [k \in DOMAIN wait_list \ {<<user, b>> : b \in batches} |-> wait_list[k]]

\* A withdrawal does not fail: the hub runs, the batches up to `last` are
\* released and the selected entries are then worth something, and no more
\* than is set aside.
withdraw_succeeds(user, selection, last, left) ==
    /\ ~params.paused
    /\ process_withdraw_rate(last, left)
    /\ finished_amount(user, selection, released_history(last))
          \in 1 .. actual_free_balance - left

(***************************************************************************)
(* execute_withdraw_unstaked_impl: release what is due, then pay the       *)
(* selected entries of the user that are released.  Fails when they are    *)
(* worth nothing or more than is free.                                     *)
(***************************************************************************)
execute_withdraw_unstaked_impl(user, selection) ==
    /\ \E last \in state.last_processed_batch .. current_batch.id - 1,
          left \in 0 .. hub_balance :
          LET h == released_history(last)
              withdraw_amount == finished_amount(user, selection, h)
          IN
          /\ withdraw_succeeds(user, selection, last, left)
          /\ history' = h
          /\ wait_list' = remove_unstake_wait_list(user,
                  {selection[i] : i \in finished(user, selection, h)})
          /\ state' = released_state(last,
                  actual_free_balance - withdraw_amount - left)
          /\ hub_balance' = hub_balance - withdraw_amount
    /\ UNCHANGED <<height, time, epoch_start, delegated, active, queue,
                   unbonding, lost, disturbances, params, current_batch,
                   pending, total_supply, token_balance, closed_at>>

WithdrawUnstaked(user) ==
    execute_withdraw_unstaked_impl(user, user_batches(user))

WithdrawUnstakedForBatches(user) ==
    \E batch_ids \in BATCH_ID_LISTS :
        execute_withdraw_unstaked_impl(user, batch_ids)

-----------------------------------------------------------------------------
(***************************************************************************)
(* UpdateParams, by the owner, also while the hub is paused.  A field that *)
(* is not given keeps its stored value, which is within the maximum        *)
(* already: the checks come to those below.                                *)
(***************************************************************************)
UpdateParams ==
    \E paused \in PAUSES \cup {params.paused},
       epoch_length \in EPOCH_LENGTHS \cup {params.epoch_length},
       unstaking_period \in UNSTAKING_PERIODS \cup {params.unstaking_period} :
        /\ epoch_length <= MAX_EPOCH_LENGTH
        /\ unstaking_period <= MAX_UNSTAKING_PERIOD
        /\ epoch_length < unstaking_period
        /\ params' = [epoch_length |-> epoch_length,
                      unstaking_period |-> unstaking_period, paused |-> paused]
        /\ UNCHANGED <<chainVars, state, current_batch, wait_list, history,
                       pending, total_supply, token_balance, closed_at>>

-----------------------------------------------------------------------------
HubNext ==
    \/ CheckSlashing
    \/ UpdateGlobalIndex
    \/ ProcessUndelegations
    \/ ProcessWithdrawRequests
    \/ UpdateParams
    \/ \E user \in Users :
          \/ Stake(user)
          \/ Unstake(user)
          \/ TokenBurn(user)
          \/ WithdrawUnstaked(user)
          \/ WithdrawUnstakedForBatches(user)

\* The chain moves on and no handler runs.
ChainStep == ChainNext /\ UNCHANGED hubVars

Next == HubNext \/ ChainStep

Spec == Init /\ [][Next]_vars

-----------------------------------------------------------------------------
(* Safety.                                                                 *)

\* The hub's own record of what is pending in this staking epoch agrees, at
\* every block, with the epoching module's queue: it is reset exactly when
\* the chain executes the queue (state.rs:152, 175-186).  Were it not, the
\* slashing check would see a slash that never happened, or miss one.
PendingMatchesQueue ==
    get_pending_delegation_amount(pending) =
        [staking |-> queue.delegate, unstaking |-> queue.undelegate]

\* As long as nothing is slashed or refused the hub's staked total is exactly what
\* the chain holds and has queued: no handler, batch or epoch change ever
\* makes check_slashing report a loss (contract.rs:292-302).
StakeMatchesChain ==
    disturbances = 0 =>
        state.total_staked_amount = delegated + queue.delegate - queue.undelegate

\* The bank balance always covers the delegations still queued and the coins
\* set aside for released batches: paying withdrawals and releasing batches
\* (unstake.rs:308, 342, 480) never spends coins already promised, and the
\* queue can be executed at the end of the epoch.
BalanceCoversCommitments ==
    queue.delegate + state.unclaimed_unstaked_balance <= hub_balance

\* Batches are released in order: the released ones are exactly those up to
\* last_processed_batch, so the loop of get_unprocessed_histories never
\* skips a batch nor meets a released one.
ReleasedIsPrefix ==
    /\ state.last_processed_batch < current_batch.id
    /\ \A b \in DOMAIN history :
          history[b].released <=> b <= state.last_processed_batch

\* LST tokens of all wait list entries of batch b.
EntryTotal(b) ==
    SumFunctionOnSet(wait_list, {k \in DOMAIN wait_list : k[2] = b})

\* The wait list accounts for every token burnt into a batch: its entries add
\* up to the batch's amount until it is released, and to no more afterwards
\* (unstake.rs:180-198, 229-242).
BatchMatchesWaitList ==
    /\ current_batch.requested = EntryTotal(current_batch.id)
    /\ \A b \in DOMAIN history :
          IF history[b].released
          THEN EntryTotal(b) <= history[b].lst_token_amount
          ELSE EntryTotal(b) = history[b].lst_token_amount

\* What wait list entries are worth together, each rounded down.
EntriesValue(keys) == SumFunction([k \in keys |-> entry_amount(k[1], k[2])])

\* unclaimed_unstaked_balance covers what the users can still withdraw from
\* released batches, whoever withdraws first and however amounts are rounded
\* (state.rs:94-105, unstake.rs:480-484).
ReleasedEntriesCovered ==
    EntriesValue({k \in DOMAIN wait_list :
                     k[2] \in DOMAIN history /\ history[k[2]].released})
        <= state.unclaimed_unstaked_balance

\* What closed batches still need is in the free balance, unbonding or queued
\* for undelegation, except for what slashing took or a failed undelegation
\* withheld: no coin of a closed batch is staked again, paid out to another
\* batch or forgotten.
ClosedBatchesFunded ==
    required_total({b \in DOMAIN history : ~history[b].released})
        <= hub_balance - queue.delegate - state.unclaimed_unstaked_balance
             + unbonding + queue.undelegate + lost

\* Tokens that share the staked total: those issued and those in the open
\* batch, already burnt.
SharingSupply == total_supply + current_batch.requested

\* The stored rate never promises more than is staked: all sharing tokens
\* together are worth at most the staked total (hub.rs:179-191).  With
\* nothing staked the code sets the rate to one, so that case is excluded.
RateBacked ==
    state.total_staked_amount # 0 =>
        SharingSupply * state.lst_exchange_rate
            <= state.total_staked_amount * One

\* Solvency: as long as nothing is slashed or refused, all claims on the hub, of
\* the tokens at the stored rate, of the closed batches and of released entries,
\* are backed by coins that are at hand, delegated or unbonding, in whatever
\* order users stake, burn, unstake and withdraw, and also when the last stake
\* leaves and the rate is reset to one (hub.rs:179-191, unstake.rs:206-242).
SolventUndisturbed ==
    LET closed == required_total({b \in DOMAIN history : ~history[b].released})
    IN
    disturbances = 0 =>
        SharingSupply * state.lst_exchange_rate
            + (closed + state.unclaimed_unstaked_balance) * One
              <= (hub_balance + delegated + unbonding) * One

\* Until a disturbance a token is worth at least the coin that bought the first
\* one, whatever is rounded, burnt, redeemed or reset on the way: nobody gets
\* more tokens than coins paid (math.rs:7-12, hub.rs:179-191).
TokenWorthACoin == disturbances = 0 => state.lst_exchange_rate >= One

\* Until a disturbance only two things keep a due batch with requests open:
\* coins of its claim that are still queued, as rewards or stakes of the same
\* epoch may raise it above what is delegated, or that are on validators the
\* registry leaves out.  The slashing check does not panic, the claim is not
\* zero, the staked total covers it, and it can be split once neither is the
\* case (unstake.rs:206-222, 270-276).
DueBatchClosable ==
    LET claim == unstaked_amount_in_batch(current_batch, checked_state) IN
    (/\ disturbances = 0
     /\ epoch_completed /\ current_batch.requested # 0)
    => /\ actual_state_defined(state, pending)
       /\ claim \in 1 .. checked_state.total_staked_amount
       /\ claim <= delegated + queue.delegate
       /\ queue.delegate = 0 /\ active = delegated
             => pick_validator_for_undelegation(claim)

\* At most one batch is closed per staking epoch (contract.rs:60).
OneBatchPerStakingEpoch ==
    \A b, c \in DOMAIN closed_at : b # c => closed_at[b] # closed_at[c]

-----------------------------------------------------------------------------
(* What a step may never do.                                               *)

\* A closed batch keeps its time, amount and rates; it may become released
\* and stays so (unstake.rs:238, 359-364).
HistoryIsFinal ==
    [][\A b \in DOMAIN history :
          /\ b \in DOMAIN history'
          /\ \/ history'[b] = history[b]
             \/ history'[b] = [history[b] EXCEPT !.released = TRUE]]_vars

\* Coins leave the hub when the queue is executed, or as the exact value of
\* wait list entries, each removed by the same step: an entry is paid once,
\* at its batch's rate (state.rs:62-109, unstake.rs:464-495).
EntriesPaidOnce ==
    [][LET paid == DOMAIN wait_list \ DOMAIN wait_list' IN
       hub_balance' < hub_balance \/ paid # {} =>
          IF queue' # queue
          THEN hub_balance - hub_balance' = queue.delegate /\ paid = {}
          ELSE hub_balance - hub_balance' = EntriesValue(paid)]_vars

\* A loss the hub has not noticed yet.
Shortfall == delegated # 0 /\ state_total_staked(state, pending) > delegated

\* Rounding always favours the remaining holders: as long as there are tokens
\* that share a stake, and unless a slash is being taken into account,
\* staking, unstaking, closing a batch, burning and rewards never lower the
\* exchange rate (stake.rs:70-87, unstake.rs:213-225).  Left out: the resets
\* to one when no token or no stake is left.
RateNeverDropsWithoutSlash ==
    [][(/\ ~Shortfall
        /\ state.total_staked_amount # 0
        /\ SharingSupply # 0 /\ SharingSupply' # 0)
       => state'.lst_exchange_rate >= state.lst_exchange_rate]_vars

\* A staker loses less than the worth of one token, also when the stake is
\* the first to see a slash: the payment is priced at the rate of after the
\* slashing check (stake.rs:61-73).  Left out: a stake that finds nothing
\* staked but tokens outstanding, which shares with their holders because the
\* rate is reset to one (hub.rs:185).
StakeKeepsValue ==
    [][/\ total_supply' > total_supply
       /\ checked_state.total_staked_amount # 0 \/ SharingSupply = 0
       => (total_supply' - total_supply) * state'.lst_exchange_rate
             > (hub_balance' - hub_balance) * One
                  - checked_state.lst_exchange_rate]_vars

-----------------------------------------------------------------------------
(* Liveness.                                                               *)

(***************************************************************************)
(* Blocks are produced and unbonding completes; and somebody, it may be    *)
(* anyone, calls ProcessWithdrawRequests when that has an effect.          *)
(***************************************************************************)
FairSpec ==
    /\ Spec
    /\ WF_vars(NextBlock /\ UNCHANGED hubVars)
    /\ WF_vars(CompleteUnbonding /\ UNCHANGED hubVars)
    /\ WF_vars(ProcessWithdrawRequests)

\* The unstaking period of closed batch b has passed.
Aged(b) == b \in DOMAIN history /\ history[b].time <= unstake_cutoff_time

\* Closed batch b is released.
Released(b) == b \in DOMAIN history /\ history[b].released

\* A closed batch whose unstaking period has passed is eventually released,
\* whatever the users withdraw, stake or unstake meanwhile (unstake.rs:298,
\* 331: the release also deals with slashing events).
AgedBatchesReleased ==
    \A b \in 1 .. MaxBatches : Aged(b) ~> Released(b)

\* Nothing but a loss of undelegated coins prevents that, of this batch or of
\* one before it: no reward, payment, refilled queue or slash of bonded stake
\* that is noticed in time (unstake.rs:308, 359-364, 383-395).
AgedReleasedUnlessLost ==
    \A b \in 1 .. MaxBatches : Aged(b) ~> Released(b) \/ lost # 0

\* Somebody also calls ProcessUndelegations when that closes a batch.
ClosingSpec == FairSpec /\ WF_vars(ProcessUndelegations)

\* The bound on blocks leaves the staking epoch time to end.
EpochToCome == height + EPOCH_BLOCKS <= MaxHeight

\* The hub is not paused, no delegation is queued and no stake is on a validator
\* that the registry leaves out.
Settled == ~params.paused /\ queue.delegate = 0 /\ active = delegated

\* The open batch is worth a coin or has no requests.
BatchWorthACoin ==
    current_batch.requested # 0 =>
        unstaked_amount_in_batch(current_batch, checked_state) # 0

\* Every batch that is due is closed at some time.
DueBatchesClosed ==
    \A b \in 1 .. MaxBatches :
        (current_batch.id = b /\ current_batch.requested # 0 /\ epoch_completed)
            ~> current_batch.id > b

\* Batches that are due are closed, even if nobody unstakes any more, in every
\* behaviour that settles, with rewards, burns and slashes before.  Rewards
\* staked in every epoch, an excluded validator that keeps its stake, a pause
\* or a batch worth less than a coin may keep one open for ever, and nothing
\* else does (unstake.rs:147, 206-222, 270-276).
OverdueBatchesClosed == <>[](Settled /\ BatchWorthACoin) => DueBatchesClosed

\* "Ensures that unstaking requests are processed even if not triggered by new
\* requests" (unstake.rs:147).  After a slash a batch may be worth less than a
\* coin, which cannot be split (delegation.rs:60-79).
RequestsProcessed == <>[]Settled => DueBatchesClosed

\* A slash may make the slashing check panic, and every handler with it, while
\* the staking epoch lasts (contract.rs:294-302); it does not stay so.
SlashingCheckRecovers ==
    (~actual_state_defined(state, pending) /\ EpochToCome)
        ~> actual_state_defined(state, pending)
=============================================================================
