------------------------ MODULE StakingHubRefinement ------------------------
(***************************************************************************)
(* StakingHub implements RedemptionQueue.  The vault is the bank balance   *)
(* without the coins of queued delegations, which are still in it.         *)
(***************************************************************************)
EXTENDS StakingHub

Redemption == INSTANCE RedemptionQueue WITH
    entry <- wait_list,
    open <- current_batch.id,
    rate <- [b \in DOMAIN history |-> history[b].lst_applied_exchange_rate],
    released <- state.last_processed_batch,
    reserve <- state.unclaimed_unstaked_balance,
    vault <- hub_balance - queue.delegate

\* Stakes, rewards, slashing, epochs, pausing and delayed unbonding do not
\* show in what redeemers see: every step of the hub and of the chain is a
\* step of the redemption queue or leaves it alone (unstake.rs, state.rs).
ImplementsRedemptionQueue == Redemption!QueueSpec
=============================================================================
