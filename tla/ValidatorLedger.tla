--------------------------- MODULE ValidatorLedger --------------------------
(***************************************************************************)
(* The hub's stake validator by validator.  Stakes and closed batches are  *)
(* split with the delegations that the registry reports, which are those   *)
(* executed so far: what the hub has queued in this staking epoch is not   *)
(* in them, so several splits of one epoch start from the same figures.    *)
(***************************************************************************)
EXTENDS Delegation

CONSTANTS
    N,                  \* number of registered validators, keys 1 .. N
    STAKE_AMOUNTS, UNSTAKE_AMOUNTS,
    SLASH_AMOUNTS,      \* what one slash takes from one validator
    MaxStaked           \* bound: no stake beyond this sum

ASSUME LedgerAssumption ==
    /\ N \in Nat \ {0}
    /\ STAKE_AMOUNTS \subseteq Nat \ {0} /\ UNSTAKE_AMOUNTS \subseteq Nat
    /\ SLASH_AMOUNTS \subseteq Nat \ {0} /\ MaxStaked \in Nat

VARIABLES
    delegated,      \* executed delegations, by validator
    to_delegate,    \* queued wrapped delegations, by validator
    to_undelegate,  \* queued wrapped undelegations, by validator
    batch_closed,   \* a batch has been closed in this staking epoch
    slashed         \* history variable: a slash in this staking epoch

vars == <<delegated, to_delegate, to_undelegate, batch_closed, slashed>>

Validators == 1 .. N
Zero == [v \in Validators |-> 0]

Init ==
    /\ delegated = Zero
    /\ to_delegate = Zero
    /\ to_undelegate = Zero
    /\ batch_closed = FALSE
    /\ slashed = FALSE

\* A validator's position in the registry's answer, and the answer.
rank(v) == place(v, Validators, delegated)
query_validators == in_order(Validators, delegated)
reported == [i \in 1 .. N |-> delegated[query_validators[i]]]

\* A split of the answer, added up by validator.
by_validator(split) == [v \in Validators |-> split[rank(v)]]

add(f, g) == [v \in Validators |-> f[v] + g[v]]

\* The delegation messages of execute_stake.
Stake(amount) ==
    /\ Total(delegated) + Total(to_delegate) + amount <= MaxStaked
    /\ ~delegations_fail(amount, reported)
    /\ to_delegate' =
          add(to_delegate, by_validator(calculate_delegations(amount, reported)))
    /\ UNCHANGED <<delegated, to_undelegate, batch_closed, slashed>>

\* Mutant: batches may be closed without waiting for the staking epoch.
Mut_CloseBatch(claim) ==
    /\ ~undelegations_fail(claim, reported)
    /\ to_undelegate' =
          add(to_undelegate, by_validator(calculate_undelegations(claim, reported)))
    /\ batch_closed' = TRUE
    /\ UNCHANGED <<delegated, to_delegate, slashed>>

\* The undelegation messages of a closed batch, at most one in an epoch
\* (OneBatchPerStakingEpoch of StakingHub).
CloseBatch(claim) ==
    /\ ~batch_closed
    /\ ~undelegations_fail(claim, reported)
    /\ to_undelegate' =
          add(to_undelegate, by_validator(calculate_undelegations(claim, reported)))
    /\ batch_closed' = TRUE
    /\ UNCHANGED <<delegated, to_delegate, slashed>>

\* The staking epoch ends; an undelegation that is not covered is dropped.
EpochEnd ==
    /\ delegated' = [v \in Validators |->
          LET bonded == delegated[v] + to_delegate[v] IN
          IF to_undelegate[v] <= bonded THEN bonded - to_undelegate[v]
          ELSE bonded]
    /\ to_delegate' = Zero
    /\ to_undelegate' = Zero
    /\ batch_closed' = FALSE
    /\ slashed' = FALSE

\* A validator is slashed, also while messages are queued.
SlashValidator(v) ==
    /\ \E a \in SLASH_AMOUNTS :
          /\ a < delegated[v]
          /\ delegated' = [delegated EXCEPT ![v] = @ - a]
    /\ slashed' = TRUE
    /\ UNCHANGED <<to_delegate, to_undelegate, batch_closed>>

Next ==
    \/ \E amount \in STAKE_AMOUNTS : Stake(amount)
    \/ \E claim \in UNSTAKE_AMOUNTS : CloseBatch(claim)
    \/ EpochEnd
    \/ \E v \in Validators : SlashValidator(v)

Spec == Init /\ [][Next]_vars

-----------------------------------------------------------------------------
TypeOK ==
    /\ delegated \in [Validators -> Nat]
    /\ to_delegate \in [Validators -> Nat]
    /\ to_undelegate \in [Validators -> Nat]
    /\ batch_closed \in BOOLEAN /\ slashed \in BOOLEAN

\* Both splits are complete over any reachable delegations.  calculate_delegations
\* distributes every amount to the last coin in its single pass, so that Stake
\* and ProcessRedelegations, which unwraps the result, never meet
\* DistributionFailed (delegation.rs:49-53); the while loop of
\* calculate_undelegations ends in its first pass with everything distributed,
\* for every amount that is not refused (delegation.rs:72-115).
SplitsComplete ==
    /\ \A amount \in 1 .. MaxStaked :
          /\ ~delegations_fail(amount, reported)
          /\ Total(calculate_delegations(amount, reported)) = amount
    /\ \A amount \in 1 .. Total(reported) :
          undelegations_remaining(amount, reported)[N] = 0

\* Unless it is slashed meanwhile, no validator is asked for more than it
\* holds when the epoch ends, though the split ignores what is queued: no
\* undelegation is dropped, and the sums that StakingHub works with are those
\* of the validators (unstake.rs:270-291).
QueuedUndelegationsCovered ==
    ~slashed => \A v \in Validators : to_undelegate[v] <= delegated[v]

Spread(f) == Max({f[i] : i \in DOMAIN f}) - Min({f[i] : i \in DOMAIN f})

\* A split evens out: executed by itself, it leaves the validators no further
\* apart than they were, or one coin (delegation.rs:118-146).
SplitsEvenOut ==
    LET bound == Max({Spread(reported), 1})
        after(split, sign) == [i \in 1 .. N |-> reported[i] + sign * split[i]]
    IN
    /\ \A amount \in 1 .. MaxStaked :
          Spread(after(calculate_delegations(amount, reported), 1)) <= bound
    /\ \A amount \in 1 .. Total(reported) :
          Spread(after(calculate_undelegations(amount, reported), -1)) <= bound
=============================================================================
