----------------------------- MODULE Deployment -----------------------------
(***************************************************************************)
(* How the contracts are wired, and the path of the staking rewards: from  *)
(* the chain to the hub's withdraw address, which is the reward            *)
(* dispatcher, to the fee address and back to the hub as new stake.        *)
(*                                                                         *)
(* The hub is instantiated without the other contracts; its owner sets     *)
(* them with UpdateConfig, in any order, and may replace the dispatcher    *)
(* and the registry.  Each dispatcher has a configuration of its own,      *)
(* which need not name this hub.  Of the hub's state there is what         *)
(* decides whether these calls succeed; amounts of stake are in            *)
(* StakingHub.                                                             *)
(***************************************************************************)
EXTENDS LstMath, FiniteSetsExt

CONSTANTS
    OWNERS,         \* accounts that may own a contract
    LST_TOKENS, REGISTRIES, DISPATCHERS,    \* deployed contracts
    HUBS,           \* addresses a dispatcher may take for its hub
    FEE_RATES,      \* fee rates an owner tries, Decimals
    MAX_FEE_RATE,   \* 30%
    REWARDS,        \* what the delegations earn in one step
    MaxEarned       \* bound: no more rewards in all

HUB == "hub"
NONE == "none"      \* Option::None, in a message and in the config

ASSUME DeploymentAssumption ==
    /\ IsFiniteSet(DISPATCHERS) /\ HUB \notin DISPATCHERS
    /\ HUB \in HUBS
    /\ NONE \notin LST_TOKENS \cup REGISTRIES \cup DISPATCHERS \cup HUBS \cup OWNERS
    /\ FEE_RATES \subseteq Nat /\ MAX_FEE_RATE \in 0 .. DECIMAL_FRACTIONAL
    /\ REWARDS \subseteq Nat \ {0} /\ MaxEarned \in Nat

VARIABLES
    config,         \* the hub's CONFIG
    paused,         \* the hub's PARAMETERS.paused
    staked,         \* the hub has delegations
    withdraw_addr,  \* where the chain sends the hub's rewards
    accrued,        \* rewards earned and not yet withdrawn
    dispatcher,     \* each dispatcher's CONFIG
    balance,        \* rewards held by each dispatcher and by the hub itself
    fees,           \* paid to the fee addresses
    restaked,       \* staked with StakeRewards
    dispatches      \* history variable: dispatches of a balance

hubVars == <<config, paused, staked, withdraw_addr>>
rewardVars == <<accrued, dispatcher, balance, fees, restaked, dispatches>>
vars == <<hubVars, rewardVars>>

Config == [owner : OWNERS, lst_token : LST_TOKENS \cup {NONE},
           registry : REGISTRIES \cup {NONE},
           reward_dispatcher : DISPATCHERS \cup {NONE}]
DispatcherConfig == [owner : OWNERS, hub_contract : HUBS, fee_rate : Nat]

\* Every variable holds a value of its type: no payment underflows.
TypeOK ==
    /\ config \in Config
    /\ paused \in BOOLEAN /\ staked \in BOOLEAN
    /\ withdraw_addr \in DISPATCHERS \cup {HUB}
    /\ accrued \in Nat
    /\ dispatcher \in [DISPATCHERS -> DispatcherConfig]
    /\ balance \in [DISPATCHERS \cup {HUB} -> Nat]
    /\ fees \in Nat /\ restaked \in Nat /\ dispatches \in Nat

-----------------------------------------------------------------------------
\* instantiate of a dispatcher, and the check of its UpdateConfig.
valid_fee_rate(rate) == rate <= MAX_FEE_RATE

Init ==
    /\ \E owner \in OWNERS :
          config = [owner |-> owner, lst_token |-> NONE, registry |-> NONE,
                    reward_dispatcher |-> NONE]
    /\ paused = FALSE
    /\ staked = FALSE
    /\ withdraw_addr = HUB
    /\ accrued = 0
    /\ dispatcher \in [DISPATCHERS ->
          [owner : OWNERS, hub_contract : {HUB},
           fee_rate : {rate \in FEE_RATES : valid_fee_rate(rate)}]]
    /\ balance = [a \in DISPATCHERS \cup {HUB} |-> 0]
    /\ fees = 0 /\ restaked = 0 /\ dispatches = 0

\* A field that is given, or the stored one.
given(field, stored) == IF field = NONE THEN stored ELSE field

\* The same in both contracts.
is_authorized_sender(caller, owner) == caller = owner

\* What the dispatcher asks the hub.
is_paused == paused

\* Mutant: the withdraw address is set only together with the first dispatcher.
Mut_set_withdraw_address(reward_dispatcher) ==
    withdraw_addr' = IF config.reward_dispatcher = NONE
                     THEN given(reward_dispatcher, withdraw_addr)
                     ELSE withdraw_addr

\* A new dispatcher becomes the withdraw address with the same message.
set_withdraw_address(reward_dispatcher) ==
    withdraw_addr' = given(reward_dispatcher, withdraw_addr)

\* The token can be set once.
lst_token_allowed(lst_token) ==
    lst_token # NONE /\ config.lst_token # NONE => lst_token = config.lst_token

\* The hub's UpdateConfig, by its owner.
UpdateConfig(caller) ==
    \E owner \in OWNERS \cup {NONE}, lst_token \in LST_TOKENS \cup {NONE},
       registry \in REGISTRIES \cup {NONE},
       reward_dispatcher \in DISPATCHERS \cup {NONE} :
        /\ ~paused
        /\ is_authorized_sender(caller, config.owner)
        /\ lst_token_allowed(lst_token)
        /\ config' = [owner |-> given(owner, config.owner),
                      lst_token |-> given(lst_token, config.lst_token),
                      registry |-> given(registry, config.registry),
                      reward_dispatcher |->
                          given(reward_dispatcher, config.reward_dispatcher)]
        /\ set_withdraw_address(reward_dispatcher)
        /\ UNCHANGED <<paused, staked, rewardVars>>

\* The hub's UpdateParams, by its owner, also while the hub is paused.
UpdateParams(caller) ==
    /\ is_authorized_sender(caller, config.owner)
    /\ paused' \in BOOLEAN
    /\ UNCHANGED <<config, staked, withdraw_addr, rewardVars>>

\* What a stake of either type needs; the token's supply is asked for.
stake_allowed ==
    /\ ~paused
    /\ config.reward_dispatcher # NONE
    /\ config.lst_token # NONE
    /\ config.registry # NONE

\* The hub's Stake, which delegates.
Stake ==
    /\ stake_allowed
    /\ staked' = TRUE
    /\ UNCHANGED <<config, paused, withdraw_addr, rewardVars>>

-----------------------------------------------------------------------------
(* The reward dispatcher.                                                  *)

\* Mutant: UpdateConfig takes any fee rate.
Mut_new_fee_rate(rate) == TRUE

new_fee_rate(rate) == valid_fee_rate(rate)

\* A dispatcher's UpdateConfig, by its owner; the fee address is left out.
DispatcherUpdateConfig(caller) ==
    \E d \in DISPATCHERS, owner \in OWNERS \cup {NONE},
       hub_contract \in HUBS \cup {NONE} :
    \E fee_rate \in FEE_RATES \cup {dispatcher[d].fee_rate} :
        /\ is_authorized_sender(caller, dispatcher[d].owner)
        /\ new_fee_rate(fee_rate)
        /\ dispatcher' = [dispatcher EXCEPT ![d] =
              [owner |-> given(owner, @.owner),
               hub_contract |-> given(hub_contract, @.hub_contract),
               fee_rate |-> fee_rate]]
        /\ UNCHANGED <<hubVars, accrued, balance, fees, restaked, dispatches>>

\* Mutant: the fee is not taken off what is staked.
Mut_execute_dispatch_rewards(d, caller, held) ==
    LET fee == compute_fee(held[d], dispatcher[d].fee_rate) IN
    /\ ~is_paused /\ dispatcher[d].hub_contract = caller
    /\ held[d] > 0 => stake_allowed
    /\ fees' = fees + fee
    /\ restaked' = restaked + held[d]
    /\ balance' = [held EXCEPT ![d] = 0]
    /\ dispatches' = dispatches + (IF held[d] > 0 THEN 1 ELSE 0)

(***************************************************************************)
(* DispatchRewards of d, with the balances `held` when it is called: the   *)
(* whole balance goes to the fee address and, if a part is left, through   *)
(* StakeRewards to the hub.                                                *)
(***************************************************************************)
execute_dispatch_rewards(d, caller, held) ==
    LET fee == compute_fee(held[d], dispatcher[d].fee_rate) IN
    /\ ~is_paused /\ dispatcher[d].hub_contract = caller
    /\ fee <= held[d]
    /\ held[d] - fee > 0 => stake_allowed
    /\ fees' = fees + fee
    /\ restaked' = restaked + (held[d] - fee)
    /\ balance' = [held EXCEPT ![d] = 0]
    /\ dispatches' = dispatches + (IF held[d] > 0 THEN 1 ELSE 0)

\* The balances after the chain has paid out all rewards.
withdrawn == [balance EXCEPT ![withdraw_addr] = @ + accrued]

\* Mutant: without rewards to withdraw nothing is dispatched.
Mut_UpdateGlobalIndex ==
    /\ ~paused
    /\ config.reward_dispatcher # NONE
    /\ accrued > 0
    /\ execute_dispatch_rewards(config.reward_dispatcher, HUB, withdrawn)
    /\ accrued' = 0
    /\ UNCHANGED <<hubVars, dispatcher>>

\* The hub's UpdateGlobalIndex: withdraw all rewards, then dispatch them.
UpdateGlobalIndex ==
    /\ ~paused
    /\ config.reward_dispatcher # NONE
    /\ execute_dispatch_rewards(config.reward_dispatcher, HUB, withdrawn)
    /\ accrued' = 0
    /\ UNCHANGED <<hubVars, dispatcher>>

-----------------------------------------------------------------------------
(* The chain.                                                              *)

\* The hub's delegations earn rewards.
Accrue ==
    \E reward \in REWARDS :
        /\ staked
        /\ accrued + reward + fees + restaked
             + SumFunctionOnSet(balance, DISPATCHERS \cup {HUB})
             <= MaxEarned
        /\ accrued' = accrued + reward
        /\ UNCHANGED <<hubVars, dispatcher, balance, fees, restaked, dispatches>>

\* A change of a delegation pays its rewards out at once, outside of any call.
AutoWithdraw ==
    /\ staked /\ accrued > 0
    /\ balance' = withdrawn
    /\ accrued' = 0
    /\ UNCHANGED <<hubVars, dispatcher, fees, restaked, dispatches>>

Next ==
    \/ Stake
    \/ UpdateGlobalIndex
    \/ Accrue
    \/ AutoWithdraw
    \/ \E caller \in OWNERS :
          \/ UpdateConfig(caller)
          \/ UpdateParams(caller)
          \/ DispatcherUpdateConfig(caller)

Spec == Init /\ [][Next]_vars

-----------------------------------------------------------------------------
\* No reward is ever paid to the hub itself, where it would count as unbonded
\* coins and release batches: in whatever order the owner sets the contracts,
\* nothing is delegated before a withdraw address is set, and it follows every
\* change of the dispatcher (config.rs:52-61, stake.rs:41-43).
NoRewardsAtHub ==
    /\ balance[HUB] = 0
    /\ staked => withdraw_addr = config.reward_dispatcher

\* Over any number of dispatches, owners and changes of the rate the fees stay
\* within 30% of what was dispatched, plus less than one coin of rounding for
\* each dispatch (dispatcher contract.rs:76-83, 125-150).
FeesBounded ==
    fees * One <= MAX_FEE_RATE * (fees + restaked) + dispatches * (One - 1)

\* All rewards: on the chain, held, paid as fees and staked.
Earned == accrued + fees + restaked
            + SumFunctionOnSet(balance, DISPATCHERS \cup {HUB})

\* Only the chain adds rewards: whatever is withdrawn early, left behind in a
\* dispatcher or dispatched in parts, no coin is lost, paid twice or staked
\* without being there (dispatcher contract.rs:121-155).
RewardsConserved == [][Earned' # Earned => accrued' > accrued]_vars

-----------------------------------------------------------------------------
\* The contracts name each other and the hub is not paused.
Wired ==
    /\ stake_allowed
    /\ dispatcher[config.reward_dispatcher].hub_contract = HUB

\* Anyone may call UpdateGlobalIndex, and somebody does.
FairSpec == Spec /\ WF_vars(UpdateGlobalIndex)

\* Once the contracts stay wired, the rewards on the chain and with the
\* dispatcher in use, those left in it by an earlier change of the config
\* included, are staked again and again (contract.rs:378-407).
RewardsStaked ==
    <>[]Wired => []<>(accrued = 0 /\ (Wired => balance[config.reward_dispatcher] = 0))
=============================================================================
