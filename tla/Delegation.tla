----------------------------- MODULE Delegation -----------------------------
(***************************************************************************)
(* How an amount is split over the validators (lst_common/delegation.rs).  *)
(* `current` is the sequence of the validators' delegations in the order   *)
(* of the registry's answer; a split is a sequence of the same length.     *)
(***************************************************************************)
EXTENDS Integers, Sequences, FiniteSetsExt

(***************************************************************************)
(* The order of the registry's answer: ascending by `key`, the amount that *)
(* is reported for each validator of S; equal ones by number, because the  *)
(* sort is stable.                                                         *)
(***************************************************************************)
place(v, S, key) ==
    Cardinality({w \in S : \/ key[w] < key[v]
                           \/ key[w] = key[v] /\ w <= v})
in_order(S, key) ==
    [i \in 1 .. Cardinality(S) |-> CHOOSE v \in S : place(v, S, key) = i]

\* Sum of a sequence of amounts.
Total(amounts) == SumFunction(amounts)

\* Mutant: the first validator takes the whole remainder.
Mut_target_coins(coins, n) ==
    [i \in 1 .. n |-> coins \div n + (IF i = 1 THEN coins % n ELSE 0)]

(***************************************************************************)
(* distribute_coins and target_coins_per_validator: an even split of       *)
(* `coins`, the remainder going one coin each to the first validators.     *)
(***************************************************************************)
target_coins_per_validator(coins, n) ==
    [i \in 1 .. n |-> coins \div n + (IF i <= coins % n THEN 1 ELSE 0)]

\* What validator i lacks to its target, or has above it.
lacking(target, current, i) ==
    IF target[i] < current[i] THEN 0 ELSE target[i] - current[i]
exceeding(target, current, i) == lacking(current, target, i)

(***************************************************************************)
(* The loop both functions share: going through the validators in order,   *)
(* validator i takes its share as far as the amount lasts.  remaining[i]   *)
(* is what is left after validator i.                                      *)
(***************************************************************************)
remaining_after(amount, share, n) ==
    LET remaining[i \in 0 .. n] ==
            IF i = 0 THEN amount
            ELSE remaining[i - 1] - Min({share[i], remaining[i - 1]})
    IN  remaining

taken(remaining, n) == [i \in 1 .. n |-> remaining[i - 1] - remaining[i]]

\* Mutant: the target leaves out the amount to delegate.
Mut_delegation_target(amount, current) ==
    target_coins_per_validator(Total(current), Len(current))

delegation_target(amount, current) ==
    target_coins_per_validator(Total(current) + amount, Len(current))

delegations_remaining(amount, current) ==
    LET target == delegation_target(amount, current)
        share == [i \in 1 .. Len(current) |-> lacking(target, current, i)]
    IN  remaining_after(amount, share, Len(current))

\* calculate_delegations returns an error: no validators, or the loop ends
\* with coins left over (DistributionFailed).
delegations_fail(amount, current) ==
    \/ current = <<>>
    \/ delegations_remaining(amount, current)[Len(current)] # 0

calculate_delegations(amount, current) ==
    taken(delegations_remaining(amount, current), Len(current))

undelegation_target(amount, current) ==
    target_coins_per_validator(Total(current) - amount, Len(current))

undelegations_remaining(amount, current) ==
    LET target == undelegation_target(amount, current)
        share == [i \in 1 .. Len(current) |-> exceeding(target, current, i)]
    IN  remaining_after(amount, share, Len(current))

\* calculate_undelegations returns an error: no validators, more than is
\* delegated, or nothing to undelegate, in which case its loop never runs.
undelegations_fail(amount, current) ==
    \/ current = <<>>
    \/ amount > Total(current)
    \/ amount = 0

(***************************************************************************)
(* The first pass of the while loop.  The loop ends with it, because the   *)
(* pass leaves nothing over: ValidatorLedger checks SplitsComplete.        *)
(***************************************************************************)
calculate_undelegations(amount, current) ==
    taken(undelegations_remaining(amount, current), Len(current))
=============================================================================
