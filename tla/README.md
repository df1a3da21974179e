# Verification of the BABY liquid staking contracts

TLA+ models of the CosmWasm contracts in this repository (Cube by SatLayer: BABY
LST on Babylon Genesis), TLC configurations that check them on small instances,
and TLAPS proofs for every instance. `PROJECT.json` maps each definition to the
source lines it translates. Paths below are relative to the repository root;
`hub/` stands for `contracts/lst_staking_hub/src/`, `common/` for
`packages/lst_common/src/`.

## 1. The system

| Component | State | Operations |
|---|---|---|
| Staking hub (`hub/`) | exchange rate, staked total, unclaimed balance, last processed batch; parameters; open batch; wait list (user, batch); batch history; pending delegation record | Stake, StakeRewards, Unstake / Receive, ProcessUndelegations, ProcessWithdrawRequests, WithdrawUnstaked(ForBatches), CheckSlashing, UpdateGlobalIndex, RedelegateProxy, UpdateParams, UpdateConfig |
| LST token (`contracts/lst_token`) | cw20 balances, supply, allowances | cw20; Burn and BurnFrom call CheckSlashing on the hub |
| Validators registry (`contracts/lst_validators_registry`) | validators, excluded validators | Add, Remove, ProcessRedelegations, UpdateConfig, query of delegations in ascending order |
| Reward dispatcher (`contracts/lst_reward_dispatcher`) | fee rate and addresses, reward balance | DispatchRewards: fee out, rest back as StakeRewards |
| Splits (`common/delegation.rs`) | none | calculate_delegations, calculate_undelegations |
| Babylon (external; test double in `common/babylon.rs`) | delegations, unbonding funds, bank, epoching queue | queues wrapped messages and executes them at the end of a staking epoch |

How they interact. A transaction is atomic: the handler, then its messages in
order, each with its own submessages; an error reverts all of it. So no two
handlers interleave in the middle. What makes the system hard is the distance
between a handler and its effect:

* a (un)delegation the hub sends is executed only when the staking epoch ends.
  Until then a queued delegation is still in the hub's bank balance and not in
  the delegation query. The hub keeps its own record of what is queued
  (`PENDING_DELEGATION`) and resets it by counting blocks;
* slashing happens between transactions and is discovered by comparing sums;
* unbonding funds arrive later, in portions, into the same bank balance that
  holds queued delegations and the coins reserved for released batches;
* an unstake closes a batch, queues messages, burns tokens and is called back
  (CheckSlashing) by the token on half-new state, in one transaction;
* the rate, the batch value, each user's payout and the fee are rounded
  separately;
* a removed validator keeps its stake until ProcessRedelegations, which may be
  called any number of times, has been executed by the chain, in the same queue
  as delegations and undelegations;
* each contract knows the others through its own configuration, set and
  changed by its own owner, in any order.

What must be right: the staked total follows the chain; the balance covers what
is promised; the rate is backed by stake and falls only when stake is lost; a
batch is funded, released in order, and every entry paid once; every aged batch
is eventually released; splits add up and never ask too much of a validator;
every request is backed by burnt tokens; rewards reach the stake. The complete
list of hazards, each with its line and its properties, is under `hazards` in
`PROJECT.json`.

## 2. The modules

* **LstMath** — fixed-point arithmetic. A Decimal is its number of atomics;
  the scale `DECIMAL_FRACTIONAL` is a constant (10^18 in the code).
* **BabylonChain** — the chain as the hub sees it, with sums over validators:
  height, time, epochs, queue, bank balance, delegation, unbonding funds.
  External: `NextBlock`, `ChangeValidators`, `Slash`, `SlashUnbonding`,
  `CompleteUnbonding`, `Donate`. `active` is the part of the delegation on
  validators the registry returns: a batch is split over those alone, and
  `ChangeValidators` (with every epoch end and slash) moves stake in and out of
  it. `on_epoch_end` executes the queue; undelegations that are not covered
  fail and the rest goes on (the test double, a transaction of cw-multi-test,
  aborts as a whole instead: `common/babylon.rs:76`). A covered one may be
  refused without a slash: its validator was registered again behind a queued
  redelegation (ValidatorsRegistry has that case), or has too many unbonding
  entries (a limit the integration tests set). `disturbances` counts the slashes
  and the first such refusal; after it any part of a queued sum may fail.
  `lost` is a history variable: what slashing took from unbonding funds, or a
  failed undelegation never added.
* **StakingHub** — the hub with the token's supply and balances. One action is
  one transaction, all its messages included. The operators carry the names of
  the functions they translate:

  | Action | Code |
  |---|---|
  | `CheckSlashing` | `execute_slashing`, `check_slashing`, `query_actual_state` |
  | `Stake` | `execute_stake` (LSTMint), the mint |
  | `UpdateGlobalIndex` | `execute_update_global_index`, the dispatcher, `execute_stake` (StakeRewards) |
  | `Unstake` | `execute_unstake` by message or cw20 hook, the burn, the token's CheckSlashing |
  | `ProcessUndelegations` | `execute_process_undelegations` |
  | `TokenBurn` | the token's burns, with CheckSlashing |
  | `ProcessWithdrawRequests` | `execute_process_withdraw_requests` |
  | `WithdrawUnstaked`, `WithdrawUnstakedForBatches` | `execute_withdraw_unstaked_impl` |
  | `UpdateParams` | `execute_update_params` |

  A handler that fails takes no step; its early returns, checked subtractions
  and panics are guards (`actual_state_defined` for the unchecked subtractions
  of `query_actual_state`). `closed_at` is a history variable: the staking
  epoch in which each batch was closed.
* **RedemptionQueue**, **StakingHubRefinement** — the promise to those who
  redeem, as a specification of its own: requests go into the open batch, a
  closed batch has a final rate, batches are released in order and only out of
  coins at hand, an entry is paid once, nothing else takes coins from the
  vault. StakingHub implements it, with the bank balance less the queued
  delegations as the vault.
* **HubQueries** — the queries (`hub/query.rs`) as operators on the state of
  StakingHub: the pending delegation as a client sees it, the withdrawable
  amount, the pages of requests and of the history (`query_state` returns
  `checked_state`). Lists are in ascending
  order of batch ids and so are sets.
* **MCStakingHub** — definitions the configurations use.
* **Delegation**, **ValidatorLedger** — the splits, and the stake validator by
  validator: what is executed and what is queued, with splits computed from
  the executed part only. It justifies the sums of StakingHub:
  with one batch per epoch and no slash every undelegation is covered, and
  the refusals of `calculate_undelegations` (a claim of zero, or above what the
  validators it is given hold together) are the guard of
  `process_undelegations_for_batch`: `pick_validator_for_undelegation`, a claim
  of at least one coin and at most `active`.
* **ValidatorsRegistry** — the registry with the hub's stake on each validator
  and the queue message by message.

  | Action | Code |
  |---|---|
  | `add_validator`, `remove_validator`, `update_config` | the registry's functions of these names |
  | `process_redelegations` | `process_redelegations`, with the hub's `execute_redelegate_proxy` for each excluded validator |
  | `Stake`, `CloseBatch` | the (un)delegation messages of `execute_stake` and `pick_validator_for_undelegation` |
  | `EpochEnd` | `on_epoch_end`: the queue in order; a message that is not covered fails alone; the chain may refuse a redelegation (external: redelegations cannot be chained) |
  | `SlashValidator` | external |

  An address is a validator and a prefix; `convert_addr_by_prefix` changes the
  prefix, and the chain knows operator addresses only. `disturbed` is a history
  variable: in this epoch there was a slash, or a validator with a queued
  redelegation was registered again. The owner's checks are not modelled:
  every owner operation is by the owner.
* **StakePool** — the stake as one sum, with one sum queued in each direction.
  ValidatorsRegistry implements it, which is why BabylonChain may use sums.
* **LstToken** — cw20 balances and allowances (external, as the token calls
  cw20-base), burns with the CheckSlashing submessage, and the two ways to
  unstake: `Send` / `SendFrom` with the hook (`receive_cw20`), and the hub's
  `Unstake`, which burns with an allowance. A foreign token may call the hook.
  `stray` is a history variable: tokens moved to the hub without the hook.
* **Deployment** — the configurations. The hub starts without the other
  contracts; `UpdateConfig` sets them in any order and sets the withdraw
  address with the dispatcher; every dispatcher has its own owner, hub and fee
  rate (`DispatcherUpdateConfig`). `UpdateGlobalIndex` withdraws the rewards
  and runs `execute_dispatch_rewards`; `Accrue` and `AutoWithdraw` are the
  chain's (a change of a delegation pays its rewards out).
* The proofs: **SumLemmas** and **DelegationProofs** (lemmas on sums and on the
  splits), **StakingHubProofs**, **StakingHubRedemptionProofs**,
  **ValidatorLedgerProofs**, **ValidatorsRegistryProofs**, **LstTokenProofs**,
  **DeploymentProofs** (the theorems, one module or two for each
  specification).

Abstractions. Users are model values; addresses, denominations, events and
attributes are left out (one denomination only). `last_index_modification` is
never read. The height is counted from the hub's first staking epoch.
In StakingHub deployment is over: the three other contracts are set
(Deployment shows that nothing is staked before that). Amounts are natural
numbers without an upper limit: the code uses Uint128 with overflow checks, and
no reachable token supply comes near its limit.

## 3. The runs

| Run | Instance | Shows |
|---|---|---|
| `accounting` | one user, epochs of 2 blocks, 6 blocks, stakes of 3, unstakes of 2, burns, rewards of 2 with a 30% fee, a coin on an excluded validator, one slash, refused undelegations, pausing | `TypeOK`, `PendingMatchesQueue`, `StakeMatchesChain`, `BalanceCoversCommitments`, `RateBacked`, `TokenWorthACoin`, `DueBatchClosable`, `OneBatchPerStakingEpoch`, `RateNeverDropsWithoutSlash`, `StakeKeepsValue`, `SlashingCheckRecovers`, `OverdueBatchesClosed` |
| `withdrawals` | two users, epochs of 1 block, 6 blocks, two batches, donation, one slash of bonded or unbonding funds, refused undelegations, changing unstaking periods, batch lists | `ReleasedIsPrefix`, `BatchMatchesWaitList`, `ReleasedEntriesCovered`, `ClosedBatchesFunded`, `HistoryIsFinal`, `EntriesPaidOnce` |
| `redemption` | two users who both stake 2 and unstake, epochs of 2 blocks, 7 blocks, two batches, rewards of 2, one slash, refused undelegations, funds coming back in portions, batch lists | `ImplementsRedemptionQueue`, `PendingQueryFollowsEpoch`, `NothingAfterShortPage`, `EstimateHonoured`, `ReleasedWithdrawable`, `SolventUndisturbed`, `AgedReleasedUnlessLost` |
| `ledger` | three validators, stakes of 1, 3, 4, batches of 1, 2, 5, slashes of 2, at most 9 staked by a new stake | `SplitsComplete`, `QueuedUndelegationsCovered`, `SplitsEvenOut` |
| `registry` | three validators, two registered at first, stakes of 2 and 3, batches of 2, two redelegation calls in an epoch, one slash or refused redelegation, `hub_contract` changed | `TypeOK`, `StakeAccountedFor`, `UndelegationsExecuted`, `ImplementsStakePool`, `ExcludedDrained` |
| `token` | two users, four tokens, allowances up to 2, a foreign token, pausing | `HubHoldsOnlyStray`, `RequestsBacked`, `PausedSupplyFrozen` |
| `deployment` | two owners, two tokens, two dispatchers, a second hub address, fee rates of 5, 30 and 50%, rewards of 1 and 3 | `NoRewardsAtHub`, `FeesBounded`, `RewardsConserved`, `RewardsStaked` |
| `short_epoch_length` | `epoch_length` changed to 1 with epochs of 3 blocks | `OneBatchPerStakingEpoch` is violated |
| `repeated_batch_ids` | the list <<1, 1>> | `EntriesPaidOnce` is violated |
| `slashed_unbonding` | one slash of unbonding funds | `AgedBatchesReleased` is violated |
| `tiny_batch` | one slash after a request for one token | `RequestsProcessed` is violated |
| `account_prefix` | validators added under account addresses too | `ReportedIsDelegated` is violated |

What they show, beyond the table in the modules' comments:

* The refinements. Stakes, rewards, slashes, pauses and epochs do not show in
  what redeemers see (`ImplementsRedemptionQueue`); changes of the validator
  set and redelegations do not show in the sum of the stake
  (`ImplementsStakePool`). Both hold for a reason that spans contracts:
  `ProcessRedelegations` only takes from excluded validators, which no split
  looks at, so repeated calls and batches of the same epoch cannot compete for
  a validator's coins - unless a validator is registered again behind its
  queued redelegation, which the model marks as a disturbance.
* The queries. A withdrawal pays at least what `WithdrawableUnstaked` says once
  every unbonded coin is back, and what the requests show as released at once;
  a client that pages through its requests misses none, although the limit is
  applied before the open batch is dropped.
  In `redemption` two users share the balance: one is paid out of a released
  batch while the other still waits, in the same batch or in the next.
* Until a disturbance (a slash or a refused undelegation). The runs also hold
  the behaviours before it: there the coins at hand, delegated and unbonding
  cover all claims (`SolventUndisturbed`), the rate never falls below one
  (`TokenWorthACoin`), and only two things keep a due batch open
  (`DueBatchClosable`): coins of its claim that are still queued for delegation,
  or that are on validators the registry has excluded and not yet emptied.
  After a slash none of the three has to hold: a batch closed before it keeps
  its rate (`slashed_unbonding`), and an open one may be worth nothing
  (`tiny_batch`).
* Closing without a new request. Before and after a slash, a due batch is closed
  in every behaviour that settles: from some time on the hub is not paused,
  nothing is queued for delegation, no stake is on an excluded validator, and
  the batch is worth a coin (`OverdueBatchesClosed`). The code promises no more:
  rewards that arrive in every epoch while nearly all tokens are in the batch
  keep its claim above what is delegated, and a removed validator that nobody
  empties keeps its coins out of reach.
* Releasing. `AgedReleasedUnlessLost` holds with rewards, slashes of bonded stake
  and payments to the other user in between: an aged batch waits only when
  undelegated coins were lost (`slashed_unbonding` shows that it then does).
* The token. Requests are backed by the tokens of the requester, or of an owner
  who allowed it; pausing the hub freezes the supply through the submessage.
* Deployment. No reward reaches the hub's own balance, in whatever order the
  contracts are set and replaced; fees stay within 30% plus the rounding of
  each dispatch.

Bounds. `MaxHeight` limits the blocks, `MaxStaked` and `MaxStakeHeight` the
stakes, `MaxBatches` the closed batches, `MaxDisturbances` the slashes,
`MaxBalance` the donations. `EXCLUDED_AMOUNTS` is what may be on excluded
validators at a time ({1} in `accounting`: a batch of 2 out of 3 staked can
then be closed or not, depending on rewards and burns), `REFUSALS` whether
undelegations may be refused (off where the question is another). Six blocks of
two are three epochs: enough for a stake in one, a batch in the next and its
undelegation executed before a second batch; six of one let two batches be
closed, age and be paid. Seven blocks of two (`redemption`) let a batch be
released while the next one is already closed; that two batches are released,
together or one by one, is in `withdrawals`. The scale is 10, so that amounts
of one digit already round. The hub's runs do not check deadlock: the model
stops at its bounds, where the chain would go on; the other modules' runs do
check it. In `registry` three coins are enough for a validator with more than
one coin to be emptied over two others, twice in an epoch, next to a batch. In
`deployment` rewards of up to 4 in all are dispatched in one part or several,
and the scale of 20 makes each fee round. `token` has four tokens: two users
with two, or one that allows half of its tokens. Users are symmetric; symmetry
is used in safety runs only.

Fairness. `FairSpec` of StakingHub: blocks are produced, unbonding funds come
back, and somebody calls `ProcessWithdrawRequests`. `ClosingSpec` adds that
somebody calls `ProcessUndelegations` (runs `accounting` and `tiny_batch`).
`FairSpec` of ValidatorsRegistry: epochs end and somebody calls
`ProcessRedelegations`; of Deployment: somebody calls `UpdateGlobalIndex`.
Blocks, epochs and unbonding are what a live chain does; the calls are open to
everybody and in the interest of those who wait. No fairness is assumed of
staking, unstaking, withdrawing or an owner. `RewardsStaked` speaks of
behaviours in which the contracts stay wired, `OverdueBatchesClosed` of those
that settle, `SlashingCheckRecovers` of states from which the bound on blocks
leaves time for the staking epoch to end.

### Where the code differs from its comments

* `short_epoch_length`: `hub/contract.rs:60` wants no two batches in one
  staking epoch and instantiate checks for it; `UpdateParams`
  (`hub/config.rs:114`) does not repeat the check.
* `repeated_batch_ids`: `get_finished_amount_for_batches`
  (`hub/state.rs:72`) adds an entry once per occurrence of its batch in the
  list; line 64 describes the user's requested amount.
* `slashed_unbonding`: `hub/unstake.rs:331` describes an update of withdraw
  rates after slashing; no rate is ever updated, so such a batch, and those
  behind it, wait for coins from elsewhere.
* `tiny_batch`: `hub/unstake.rs:147` says that requests are processed even
  without new ones. A batch that a slash has made worth less than one coin is
  refused by `calculate_undelegations` and stays open until a new request adds
  to it.
* `account_prefix`: `add_validator` converts the address to look the validator
  up and stores it as given (registry `contract.rs:107`; instantiate stores the
  operator address). A validator with stake that is added again under its
  account address is reported with none, against `common/validator.rs:43`, and
  no batch reaches that stake.

Smaller differences seen while modelling, which need no run:

* `errors.rs:49` says the last validator cannot be removed; the error is never
  raised, and `remove_validator` of the model removes it as the code does
  (`ExcludedDrained` has to exclude an empty registry).
* `errors.rs:36` says the fee rate must be less than 30%; exactly 30% is
  accepted.
* `common/hub.rs:112` says one can unstake by transferring tokens to the hub; a
  plain Transfer starts no request and the tokens stay there (`stray`).
* `query_withdrawable_unstaked` leaves out a batch exactly as old as the
  unstaking period, which a withdrawal releases and pays (`hub/query.rs:145`,
  `hub/unstake.rs:386`). `EstimateHonoured` therefore bounds it from above only.
* `contracts/lst_staking_hub/tests/integration_test.rs:539` calls it a
  bug that a request which finds the batch due goes into that batch and is paid
  earlier than others; the model follows the code.

## 4. The proofs

Every invariant, action property and refinement that a passing run checks is a
theorem of the module's `Spec`, for every value of its constants, except the
five liveness properties at the end of this section. The type invariants of
ledger, token and deployment have a theorem and no run. The runs bound heights, stakes and
calls; in the theorems those bounds are arbitrary naturals and limit nothing.

What is assumed of the constants, in the modules that declare them and
evaluated by TLC in every run: `ScaleAssumption`, `ChainAssumption`,
`HubAssumption` (the checks of instantiate; amounts are natural numbers),
`GenesisAssumption` (Unix time is past every unstaking period),
`LedgerAssumption` and `RegistryAssumption` (a positive number of validators),
`TokenAssumption` and `DeploymentAssumption` (finitely many users and
dispatchers, none of them the hub). Eleven theorems have a further hypothesis
on the callers, stated in the theorem; a run with a violation shows what happens
without it:

| Hypothesis | Theorems | Run without it |
|---|---|---|
| `ParamsRespectEpoch`: the owner keeps to the bound of instantiate, blocks take at most `AVERAGE_BLOCK_TIME` | `OneBatchPerEpoch`, `StakeIsChains`, `TokensKeepWorth`, `DueIsClosable`, `HubIsSolvent` | `short_epoch_length` |
| `BatchIdsDistinct`: no list of batches names one twice | `EntriesCovered`, `PaidOnce`, `HubImplementsQueue`, `ReleasedIsWithdrawable`, `EstimateIsHonoured` | `repeated_batch_ids` |
| `OperatorAddresses`: validators are added under operator addresses | `NoStakeForgotten` | `account_prefix` |

### Sums and loops

**SumLemmas.** The sums of the model are folds of the community modules, whose
order is a CHOOSE. The way in is to count: `SumOver(f, S)` is the number of
pairs of an element and one of its units, so that what is needed of sums
(disjoint parts, one changed term, monotonicity, zero, concatenation) follows
from theorems on cardinalities, and a smallest set on which fold and count
differ (`SubsetInduction`) shows that they never do. The same argument on an
interval (`RangeInduction`) gives what the loops need: a function defined by its
value at 0 and a step exists (`IterationExists`) and has the closed form one
claims for it.

**DelegationProofs.** After i validators the loop of `calculate_delegations`
and `calculate_undelegations` has `Left(amount, share, i)`: the amount less the
shares so far, or nothing. The shares are enough (`EvenSplit`: the targets add
up to the total), so a split distributes everything in one pass, and no
undelegation asks more of a validator than it has (`IsSplit`). The answer of
the registry lists every validator once (`PlaceBijection`, `InOrder`).

### The hub

**StakingHubProofs, accounts.** `IInv` = `TypeOK` /\ `EpochAligned` /\
`PendingMatchesQueue` /\ `BalanceCoversCommitments` /\ `ReleasedIsPrefix`.
`TypeOK` is not inductive alone: that the bank balance stays natural when the
queue is executed needs `BalanceCoversCommitments`; that withdrawals keep
*that* needs `PendingMatchesQueue` (the code subtracts its own record, not
the queue); and the record is reset together with the queue only because of
`EpochAligned`: the current block is in the current epoch, and the stored
start height is a whole number of epochs before it. Theorems: `TypeCorrect`,
`PendingIsQueue`, `CommitmentsCovered`, `ReleasedInOrder`, `HistoryFinal`.
The steps are grouped by what they share (`ExecuteStakeStep`, `BatchStep`,
`ReleaseStep`, `QuietStep`, `NextBlockStep`).

**StakingHubProofs, exchange rate.** `RateIsBacked`: floor division keeps
supply * rate <= stake * one, and closing a batch removes at least as many
tokens' worth as coins. `RateNeverDrops`: from a backed state each handler
divides a stake at least rate * supply by the supply (`FloorAbove`), unless
the chain holds less than the hub believes. `StakersKeepValue`: the tokens for
a payment are rounded down once at a rate that the same handler has just
computed. All need `IInv` and `RateBacked`.

**StakingHubProofs, epochs.** `EInv` adds to `IInv` that after a batch is closed
too little time can pass within the epoch for the next one to be due
(`BatchSpacing`), so all that is queued for undelegation is one claim, which is
covered (`UndelegationCovered`). Theorems: `OneBatchPerEpoch`, `StakeIsChains`.

**StakingHubProofs, until a disturbance.** The rate is reset to one when the staked
total is zero. `TokensHaveStake` says that this finds no token: as the stored
total is the chain's (`StakeMatchesChain`) the slashing check returns it
unchanged, and a batch whose tokens are worth all of a backed stake leaves none
to anybody else (`EmptiedAtRateZero`). With it each way of changing the rate keeps it
at least one (`NextWorth`): stakes and rewards do not lower it, closing a batch
leaves it alone, a burn or an unstake divides the same stake by no more tokens,
and the slashing check finds nothing missing (`CheckKeepsWorth`).
`DueIsClosable` follows in each state: the claim is at least one coin, as each
token is worth one, and at most the backed total, which is what is delegated or
queued; so it exceeds `active` only by coins that are queued or on excluded
validators. Theorems:
`TokensKeepWorth`, `DueIsClosable`.

**StakingHubProofs, after a slash.** The slashing check may panic while
(un)delegations are queued. `CheckRestored`: the step into the next staking
epoch executes the queue, the pending record is zero with it
(`PendingMatchesQueue`), and with nothing to subtract the check is defined.

**StakingHubRedemptionProofs.** `QInv` adds to `IInv` that entries and batches
match (`Matched`), that a batch has one rate (`OneRate`) and that
the unreleased batches together are worth at most what is at hand and not set
aside, unbonding, queued or lost (`Funded`). `Covered`, that the value of all entries of released
batches is at most what is set aside, needs that a payout removes exactly the
entries it sums, hence `BatchIdsDistinct`. Theorems: `WaitListMatches`,
`BatchesFunded`, `EntriesCovered`, `PaidOnce`. For `HubImplementsQueue` every
step of the hub is of one of the kinds the queue knows - a request, a closed
batch (with a request or without), a release, a payment after a release, or one
that changes neither requests nor batches (`QuietForQueue`) - and each kind is a
step of RedemptionQueue or a stutter; the release is the hard one: the handler
takes batches in order until one is not aged or not covered. The queries:
`PendingQueryRight` from `EpochAligned` and `PendingMatchesQueue`;
`EveryPageComplete` says of every start and limit what `PagesComplete` says of
those that the run enumerates.

*What a withdrawal pays.* Whether a withdrawal succeeds is a formula on the
state (`process_withdraw_rate`, `withdraw_succeeds`), so that the promises of
the queries are invariants. The loop of `process_withdraw_rate` always has a
result (`LoopStops`), every batch it takes is covered (`ReleasedWorth`), and a
payment out of released batches is covered by what is set aside plus what the
loop has just released (`WithdrawalSucceeds`): `ReleasedIsWithdrawable`. For
`EstimateIsHonoured` the loop must also reach every batch the query counts. It
does once all undelegated coins are back, as `Funded` then says that the hub
holds the worth of all closed batches, and as batches age in the order of their
ids (`TimesOrdered`, inductive with `IInv`; `LoopTakesAged`). The same argument
gives `AgedReleasable`, the safety core of `AgedReleasedUnlessLost`: one call
releases all that is due.

*Solvency.* `HubIsSolvent` puts the parts together: the tokens are backed by the
stored total (`RateBacked`, `TokensHaveStake`), the total is what is delegated
or queued (`StakeMatchesChain`), and the closed batches are backed by the rest
(`Funded`), of which nothing is lost (`NothingLost`).

### The other contracts

**ValidatorLedgerProofs.** `IInv` adds to `TypeOK` that queued undelegations are
covered. `EverySplitComplete` and `EverySplitEvensOut` are facts about each
state, from the lemmas on splits; `UndelegationsCovered` is inductive because a
split is computed from the executed part and only one batch is queued.

**ValidatorsRegistryProofs.** `IInv` adds to `TypeOK`:
`RegistryConsistent` (registered under its own number or excluded, never both),
`StakeKnown` (stake is on, and messages send it to, validators that are one or
the other), `OneBatch` (the undelegations of an epoch are of one batch, so of
different validators), and `Undisturbed`: before a queued undelegation nothing
takes from the same validator, because redelegations leave only validators that
are not registered and batches only those that are. The last part is the
inductive form of `UndelegationsExecuted`, which speaks of the ledger in the
middle of the queue. `NoStakeForgotten` needs that what the registry
reports is what is delegated, hence `OperatorAddresses`. In
`RegistryImplementsPool` the end of the epoch is the hard step: executing the
queue, in which any redelegation may be refused and only uncovered messages
fail, changes the sum by the delegations and undelegations queued, exactly if
undisturbed and otherwise within StakePool's bounds.

**LstTokenProofs.** `IInv` = `TypeOK` /\ `HubHoldsOnlyStray`: that a burn does
not underflow the supply is because all balances add up to it. Theorems:
`TypeCorrect`, `SupplyHeld`, `EveryRequestBacked`, `PausedFreezesSupply`.

**DeploymentProofs.** `IInv` = `TypeOK` /\ `FeeRatesValid` /\ `RewardsPath` /\
`FeesBounded`. `RewardsPath` is the reason for `HubGetsNoRewards`: before a
dispatcher is set nothing can be staked, and from then on the chain's withdraw
address is the dispatcher of the config, as one message sets both.
`FeesStayBounded` follows from `FeeBound` on `compute_fee`, `NoRewardLost` is an
action property about the sum over holders.

### Only model-checked

* Liveness, which is out of the prover's reach: `OverdueBatchesClosed`,
  `AgedReleasedUnlessLost`, `SlashingCheckRecovers`, `RewardsStaked`,
  `ExcludedDrained`. Of the first three the part that is about states and
  steps is proved: what is waited for can be done (`DueIsClosable`,
  `AgedReleasable`) or is brought about by the next epoch (`CheckRestored`).

## 5. Not modelled

* Expiring allowances, marketing data and UpdateMinter of the token. The hub is
  the minter and has no message that calls UpdateMinter.
* The fee address of a dispatcher (fees are one sink) and the reward
  denomination: it is the staking denomination.
* The queries that return a stored item as it is; migration, which checks and
  sets the contract version only.
* Bech32 decoding of malformed addresses (it panics), protobuf encoding,
  schemas and scripts, `signed_integer.rs`, which nothing uses.
* Slashing of a whole delegation (fraction 1) is excluded from the chain models.

`BabylonChain` keeps sums. Undisturbed, a queued sum that is covered is executed
completely, which `ValidatorLedger` establishes for one batch per epoch over a
fixed set of validators and `ImplementsStakePool` for a changing one; after a
slash or a refusal any part of it may fail, which includes what per-validator
figures would allow. Which validators are excluded is left to
ValidatorsRegistry: for the hub `active` changes at any time by any of
`EXCLUDED_AMOUNTS`. A stake that finds no registered validator fails in the code;
StakingHub lets it succeed, which adds behaviours and takes none away.

## 6. Plan

Done: all components of section 1, with their runs; the theorems of section 4.
Left to TLC: the five liveness properties. What could be added is the safety
core of the last two, that rewards can be dispatched whenever the contracts are
wired, and that a redelegation call takes something from every excluded
validator.
