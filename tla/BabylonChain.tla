---------------------------- MODULE BabylonChain ----------------------------
(***************************************************************************)
(* The chain as the hub sees it: block height and time, the hub's bank     *)
(* balance, its delegation, and Babylon's epoching module, which queues a  *)
(* wrapped (un)delegation and executes it only when the staking epoch      *)
(* ends.  A queued delegation therefore stays in the hub's bank balance    *)
(* until then.                                                             *)
(*                                                                         *)
(* The hub works with the sum over its validators; how a sum is split over *)
(* validators is the subject of module Delegation.  A batch is split over  *)
(* the validators the registry returns, so `active` keeps apart the sum    *)
(* over those: stake on an excluded validator is beyond its reach until it *)
(* is redelegated (ValidatorsRegistry).                                    *)
(*                                                                         *)
(* External behaviour, from how src/ uses it:                              *)
(*  - unbonding funds come back in any portions and after any delay (the   *)
(*    hub is written for "delay in fast unbonding", query.rs:69);          *)
(*  - a slash leaves part of the delegation (slashing fractions are < 1),  *)
(*    and can also hit funds that are unbonding;                           *)
(*  - an undelegation the delegation no longer covers fails alone: the     *)
(*    epoching module drops it and goes on;                                *)
(*  - a covered one may be refused without a slash: its validator was      *)
(*    registered again behind a queued redelegation (ValidatorsRegistry),  *)
(*    or has too many unbonding entries.  `disturbances` counts this with  *)
(*    the slashes: until the first, and only until then, what is covered   *)
(*    is executed (StakePool).                                             *)
(***************************************************************************)
EXTENDS Integers

CONSTANTS
    EPOCH_BLOCKS,       \* staking_epoch_length_blocks
    GENESIS_TIME,       \* block time, in seconds, when the hub is instantiated
    BLOCK_TIMES,        \* the possible distances of two blocks, in seconds
    SLASH_AMOUNTS,      \* what one slash takes from the delegation
    UNBONDING_PORTIONS, \* parts in which unbonding funds may come back
    UNBONDING_SLASHES,  \* what one slash takes from the unbonding funds
    EXCLUDED_AMOUNTS,   \* what may be on validators the registry leaves out
    REFUSALS,           \* whether covered undelegations may be refused
    DONATIONS,          \* coins sent to the hub without a message
    MaxHeight,          \* bound: blocks considered
    MaxDisturbances,    \* bound: no slash beyond this number of disturbances
    MaxBalance          \* bound: no donation beyond this hub balance

ASSUME ChainAssumption ==
    /\ EPOCH_BLOCKS \in Nat \ {0}
    /\ GENESIS_TIME \in Nat
    /\ BLOCK_TIMES \subseteq Nat \ {0}
    /\ SLASH_AMOUNTS \subseteq Nat \ {0}
    /\ UNBONDING_PORTIONS \subseteq Nat \ {0}
    /\ UNBONDING_SLASHES \subseteq Nat \ {0}
    /\ EXCLUDED_AMOUNTS \subseteq Nat \ {0}
    /\ REFUSALS \in BOOLEAN
    /\ DONATIONS \subseteq Nat \ {0}
    /\ MaxHeight \in Nat /\ MaxDisturbances \in Nat /\ MaxBalance \in Nat

VARIABLES
    height,         \* env.block.height, counted from the hub's first epoch
    time,           \* env.block.time.seconds()
    epoch_start,    \* first block of the current staking epoch
    hub_balance,    \* bank balance of the hub in the staking denom
    delegated,      \* what query_all_delegations(hub) sums up to
    active,         \* the part of it on validators the registry returns
    queue,          \* sums of the queued wrapped messages
    unbonding,      \* undelegated, not yet back in the bank balance
    lost,           \* history variable: taken from or never added to unbonding
    disturbances    \* slashes and refused undelegations so far

chainVars == <<height, time, epoch_start, hub_balance, delegated, active,
               queue, unbonding, lost, disturbances>>

ChainTypeOK ==
    /\ height \in Nat
    /\ time \in Nat
    /\ epoch_start \in Nat
    /\ hub_balance \in Nat
    /\ delegated \in Nat
    /\ active \in 0 .. delegated
    /\ queue \in [delegate : Nat, undelegate : Nat]
    /\ unbonding \in Nat
    /\ lost \in Nat
    /\ disturbances \in Nat

ChainInit ==
    /\ height = 0
    /\ time = GENESIS_TIME
    /\ epoch_start = 0
    /\ hub_balance = 0
    /\ delegated = 0
    /\ active = 0
    /\ queue = [delegate |-> 0, undelegate |-> 0]
    /\ unbonding = 0
    /\ lost = 0
    /\ disturbances = 0

-----------------------------------------------------------------------------
(* Messages the hub sends.                                                 *)

\* The queue after MsgWrappedDelegate messages of this sum.
push_delegate(amount) == [queue EXCEPT !.delegate = @ + amount]

\* The queue after MsgWrappedUndelegate messages of this sum.
push_undelegate(amount) == [queue EXCEPT !.undelegate = @ + amount]

-----------------------------------------------------------------------------
(* Steps of the chain itself.                                              *)

\* What the registry's answer may add up to when `total` is delegated.
answers(total) ==
    {total} \cup {total - x : x \in {y \in EXCLUDED_AMOUNTS : y <= total}}

\* The owner adds or removes a validator, or one that is excluded is emptied.
ChangeValidators ==
    /\ active' \in answers(delegated)
    /\ UNCHANGED <<height, time, epoch_start, hub_balance, delegated, queue,
                   unbonding, lost, disturbances>>

(***************************************************************************)
(* End of a staking epoch: the queue is executed message by message, `out` *)
(* is what the undelegations that succeed add up to, those queued behind a *)
(* delegation may count on it.  Once something was disturbed those of some *)
(* validators may fail; if the sum is covered the first failure counts as  *)
(* a disturbance itself.                                                   *)
(***************************************************************************)
on_epoch_end ==
    \E out \in 0 .. queue.undelegate :
        LET refused == /\ disturbances = 0 /\ queue.undelegate <= delegated
                       /\ out # queue.undelegate
        IN
        /\ refused => REFUSALS
        /\ disturbances' = IF refused THEN 1 ELSE disturbances
        /\ out <= delegated + queue.delegate
        /\ delegated' = delegated + queue.delegate - out
        /\ active' \in answers(delegated')
        /\ unbonding' = unbonding + out
        /\ lost' = lost + queue.undelegate - out
        /\ hub_balance' = hub_balance - queue.delegate
        /\ queue' = [delegate |-> 0, undelegate |-> 0]
        /\ epoch_start' = height + 1

NextBlock ==
    /\ height < MaxHeight
    /\ height' = height + 1
    /\ \E dt \in BLOCK_TIMES : time' = time + dt
    /\ IF height + 1 = epoch_start + EPOCH_BLOCKS
       THEN on_epoch_end
       ELSE UNCHANGED <<epoch_start, hub_balance, delegated, active, queue,
                        unbonding, lost, disturbances>>

\* A validator is slashed: the delegation shrinks and the hub is not told.
Slash ==
    /\ disturbances < MaxDisturbances
    /\ \E a \in SLASH_AMOUNTS :
          /\ a < delegated
          /\ delegated' = delegated - a
    /\ active' \in answers(delegated')
    /\ disturbances' = disturbances + 1
    /\ UNCHANGED <<height, time, epoch_start, hub_balance, queue, unbonding,
                   lost>>

\* The slash hits funds that are already unbonding.
SlashUnbonding ==
    /\ disturbances < MaxDisturbances
    /\ \E a \in UNBONDING_SLASHES :
          /\ a < unbonding
          /\ unbonding' = unbonding - a
          /\ lost' = lost + a
    /\ disturbances' = disturbances + 1
    /\ UNCHANGED <<height, time, epoch_start, hub_balance, delegated, active,
                   queue>>

\* Unbonding funds reach the hub's bank balance.
CompleteUnbonding ==
    /\ unbonding > 0
    /\ \E a \in UNBONDING_PORTIONS \cup {unbonding} :
          /\ a <= unbonding
          /\ unbonding' = unbonding - a
          /\ hub_balance' = hub_balance + a
    /\ UNCHANGED <<height, time, epoch_start, delegated, active, queue, lost,
                   disturbances>>

\* Somebody sends coins to the hub; no handler runs.
Donate ==
    /\ \E a \in DONATIONS :
          /\ hub_balance + a <= MaxBalance
          /\ hub_balance' = hub_balance + a
    /\ UNCHANGED <<height, time, epoch_start, delegated, active, queue,
                   unbonding, lost, disturbances>>

ChainNext ==
    \/ NextBlock
    \/ ChangeValidators
    \/ Slash
    \/ SlashUnbonding
    \/ CompleteUnbonding
    \/ Donate
=============================================================================
