------------------------------ MODULE StakePool ------------------------------
(***************************************************************************)
(* What the hub may assume of its stake when it forgets about validators:  *)
(* a pool that grows by the delegations and shrinks by the undelegations   *)
(* queued for the end of a staking epoch, all of which take effect unless  *)
(* something disturbed the epoch.  StakingHub works with these sums, and   *)
(* ValidatorsRegistry, where stake sits on validators that come, go and    *)
(* are emptied by redelegations, is shown to implement this module.        *)
(***************************************************************************)
EXTENDS Integers

VARIABLES
    delegated,      \* sum of the delegations
    to_delegate,    \* sum of the queued delegations
    to_undelegate,  \* sum of the queued undelegations
    calm            \* nothing disturbed this epoch so far

poolVars == <<delegated, to_delegate, to_undelegate, calm>>

PoolInit ==
    /\ delegated = 0 /\ to_delegate = 0 /\ to_undelegate = 0
    /\ calm = TRUE

Delegate ==
    /\ to_delegate' > to_delegate
    /\ UNCHANGED <<delegated, to_undelegate, calm>>

Undelegate ==
    /\ to_undelegate' \in to_undelegate + 1 .. delegated
    /\ UNCHANGED <<delegated, to_delegate, calm>>

EpochEnd ==
    /\ \E out \in 0 .. to_undelegate :
          /\ calm => out = to_undelegate
          /\ delegated' = delegated + to_delegate - out
    /\ to_delegate' = 0 /\ to_undelegate' = 0
    /\ calm' = TRUE

\* A slash, or an owner's change of validators that gets in the way.
Disturb ==
    /\ delegated' \in 0 .. delegated
    /\ calm' = FALSE
    /\ UNCHANGED <<to_delegate, to_undelegate>>

PoolNext == Delegate \/ Undelegate \/ EpochEnd \/ Disturb

PoolSpec == PoolInit /\ [][PoolNext]_poolVars
=============================================================================
