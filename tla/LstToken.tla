------------------------------ MODULE LstToken ------------------------------
(***************************************************************************)
(* The LST token (lst_token, on top of cw20-base) and the two ways in      *)
(* which tokens become unstake requests at the hub: Send with the Unstake  *)
(* hook (BurnFlow) and the hub's own Unstake, which needs an allowance     *)
(* (BurnFromFlow).  One action is one transaction.                         *)
(*                                                                         *)
(* Of the hub there is the pause flag and, for each user, the tokens of    *)
(* its requests; batches, rates and coins are in StakingHub.  cw20-base is *)
(* modelled from how the contract calls it, without expiring allowances.   *)
(* UpdateMinter is the minter's alone, and the hub never calls it;         *)
(* UpdateMarketing and UploadLogo touch nothing modelled here.             *)
(***************************************************************************)
EXTENDS Integers, FiniteSetsExt

CONSTANTS
    Users,
    TOKENS,         \* cw20 contracts that may call the hub's Receive
    MINT_AMOUNTS,   \* tokens a stake buys
    AMOUNTS,        \* moved, allowed, burnt or unstaked by one call
    MaxMinted,      \* bound: no mint beyond this many held or requested
    MaxAllowance    \* bound: no allowance above this

HUB == "hub"                \* HUB_CONTRACT, the initial minter
LST_TOKEN == "lst_token"    \* the hub's config.lst_token
Accounts == Users \cup {HUB}

ASSUME TokenAssumption ==
    /\ IsFiniteSet(Users) /\ HUB \notin Users /\ LST_TOKEN \in TOKENS
    /\ MINT_AMOUNTS \subseteq Nat \ {0} /\ AMOUNTS \subseteq Nat \ {0}
    /\ MaxMinted \in Nat /\ MaxAllowance \in Nat

VARIABLES
    balances,       \* BALANCES
    allowances,     \* ALLOWANCES: owner, spender
    total_supply,   \* TOKEN_INFO.total_supply
    minter,         \* TOKEN_INFO.mint
    paused,         \* the hub's PARAMETERS.paused
    requested,      \* tokens of each account's unstake requests at the hub
    stray           \* history variable: tokens moved to the hub without a hook

vars == <<balances, allowances, total_supply, minter, paused, requested, stray>>

\* Amounts are Uint128 values: no subtraction underflows.
TypeOK ==
    /\ balances \in [Accounts -> Nat]
    /\ allowances \in [Users \X Accounts -> Nat]
    /\ total_supply \in Nat
    /\ minter \in Accounts
    /\ paused \in BOOLEAN
    /\ requested \in [Users -> Nat]
    /\ stray \in Nat

\* instantiate: no initial balances, the hub is the minter.
Init ==
    /\ balances = [a \in Accounts |-> 0]
    /\ allowances = [k \in Users \X Accounts |-> 0]
    /\ total_supply = 0
    /\ minter = HUB
    /\ paused = FALSE
    /\ requested = [u \in Users |-> 0]
    /\ stray = 0

-----------------------------------------------------------------------------
(* cw20-base.                                                              *)

\* balances after `amount` moves from one account to another.
moved(from, to, amount) ==
    [[balances EXCEPT ![from] = @ - amount] EXCEPT ![to] = @ + amount]

\* deduct_allowance
deduct_allowance(owner, spender, amount) ==
    /\ allowances[<<owner, spender>>] >= amount
    /\ allowances' = [allowances EXCEPT ![<<owner, spender>>] = @ - amount]

\* Tokens that reach the hub and start no request.
strayed(to, amount) == stray' = stray + (IF to = HUB THEN amount ELSE 0)

Transfer(user) ==
    \E to \in Accounts, amount \in AMOUNTS :
        /\ balances[user] >= amount
        /\ balances' = moved(user, to, amount)
        /\ strayed(to, amount)
        /\ UNCHANGED <<allowances, total_supply, minter, paused, requested>>

TransferFrom(spender) ==
    \E owner \in Users, to \in Accounts, amount \in AMOUNTS :
        /\ deduct_allowance(owner, spender, amount)
        /\ balances[owner] >= amount
        /\ balances' = moved(owner, to, amount)
        /\ strayed(to, amount)
        /\ UNCHANGED <<total_supply, minter, paused, requested>>

\* An account cannot be its own spender.
IncreaseAllowance(owner) ==
    \E spender \in Accounts \ {owner}, amount \in AMOUNTS :
        /\ allowances[<<owner, spender>>] + amount <= MaxAllowance
        /\ allowances' = [allowances EXCEPT ![<<owner, spender>>] = @ + amount]
        /\ UNCHANGED <<balances, total_supply, minter, paused, requested, stray>>

\* An allowance lowered by more than it is ends at zero.
DecreaseAllowance(owner) ==
    \E spender \in Accounts \ {owner}, amount \in AMOUNTS :
        /\ allowances[<<owner, spender>>] > 0
        /\ allowances' = [allowances EXCEPT ![<<owner, spender>>] =
                              IF amount < @ THEN @ - amount ELSE 0]
        /\ UNCHANGED <<balances, total_supply, minter, paused, requested, stray>>

\* Mint, which the minter alone may call.
execute_mint(caller, to, amount) ==
    /\ caller = minter
    /\ balances' = [balances EXCEPT ![to] = @ + amount]
    /\ total_supply' = total_supply + amount

-----------------------------------------------------------------------------
(* The token's own part: a burn ends with the hub's CheckSlashing, which   *)
(* fails while the hub is paused.                                          *)

\* Mutant: the slashing check is left out.
Mut_check_slashing_sub_msg == TRUE

check_slashing_sub_msg == ~paused

\* Burn: `held` are the balances when it is called.
execute_burn(held, caller, amount) ==
    /\ check_slashing_sub_msg
    /\ held[caller] >= amount
    /\ balances' = [held EXCEPT ![caller] = @ - amount]
    /\ total_supply' = total_supply - amount

\* BurnFrom
execute_burn_from(caller, owner, amount) ==
    /\ deduct_allowance(owner, caller, amount)
    /\ execute_burn(balances, owner, amount)

Burn(user) ==
    \E amount \in AMOUNTS :
        /\ execute_burn(balances, user, amount)
        /\ UNCHANGED <<allowances, minter, paused, requested, stray>>

BurnFrom(spender) ==
    \E owner \in Users, amount \in AMOUNTS :
        /\ execute_burn_from(spender, owner, amount)
        /\ UNCHANGED <<minter, paused, requested, stray>>

-----------------------------------------------------------------------------
(* The hub's part.                                                         *)

\* The request that execute_unstake adds to the open batch.
update_unstake_batch_wait_list(sender, amount) ==
    requested' = [requested EXCEPT ![sender] = @ + amount]

\* Mutant: any token may call the hook.
Mut_receive_cw20(caller, held, sender, amount) ==
    /\ ~paused
    /\ update_unstake_batch_wait_list(sender, amount)
    /\ execute_burn(held, HUB, amount)

(***************************************************************************)
(* Receive with the Unstake hook, from contract `caller`: the hub burns    *)
(* what the token says it has been sent.                                   *)
(***************************************************************************)
receive_cw20(caller, held, sender, amount) ==
    /\ ~paused
    /\ caller = LST_TOKEN
    /\ update_unstake_batch_wait_list(sender, amount)
    /\ execute_burn(held, HUB, amount)

(***************************************************************************)
(* Send to the hub.  A foreign token has balances of its own, which no     *)
(* action here changes, and the hub is told what it likes to tell.         *)
(***************************************************************************)
Send(user) ==
    \E token \in TOKENS, amount \in AMOUNTS :
        /\ token = LST_TOKEN => balances[user] >= amount
        /\ receive_cw20(token,
                        IF token = LST_TOKEN THEN moved(user, HUB, amount)
                                             ELSE balances,
                        user, amount)
        /\ UNCHANGED <<allowances, minter, paused, stray>>

\* SendFrom to the hub: the hook's sender is the spender.
SendFrom(spender) ==
    \E owner \in Users, amount \in AMOUNTS :
        /\ deduct_allowance(owner, spender, amount)
        /\ balances[owner] >= amount
        /\ receive_cw20(LST_TOKEN, moved(owner, HUB, amount), spender, amount)
        /\ UNCHANGED <<minter, paused, stray>>

\* Mutant: the hub burns tokens of its own.
Mut_Unstake(user) ==
    \E amount \in AMOUNTS :
        /\ ~paused
        /\ balances[user] >= amount
        /\ allowances[<<user, HUB>>] >= amount
        /\ update_unstake_batch_wait_list(user, amount)
        /\ execute_burn(balances, HUB, amount)
        /\ UNCHANGED <<allowances, minter, paused, stray>>

\* The hub's Unstake: balance and allowance are looked at before the burn.
Unstake(user) ==
    \E amount \in AMOUNTS :
        /\ ~paused
        /\ balances[user] >= amount
        /\ allowances[<<user, HUB>>] >= amount
        /\ update_unstake_batch_wait_list(user, amount)
        /\ execute_burn_from(HUB, user, amount)
        /\ UNCHANGED <<minter, paused, stray>>

\* The hub's Stake, as far as the token is concerned.
Stake(user) ==
    \E amount \in MINT_AMOUNTS :
        /\ ~paused
        /\ SumFunctionOnSet(requested, Users) + total_supply + amount
              <= MaxMinted
        /\ execute_mint(HUB, user, amount)
        /\ UNCHANGED <<allowances, minter, paused, requested, stray>>

\* The hub's UpdateParams, by the hub's owner.
UpdateParams ==
    /\ paused' \in BOOLEAN
    /\ UNCHANGED <<balances, allowances, total_supply, minter, requested, stray>>

Next ==
    \/ UpdateParams
    \/ \E user \in Users :
          \/ Transfer(user)
          \/ TransferFrom(user)
          \/ IncreaseAllowance(user)
          \/ DecreaseAllowance(user)
          \/ Burn(user)
          \/ BurnFrom(user)
          \/ Send(user)
          \/ SendFrom(user)
          \/ Unstake(user)
          \/ Stake(user)

Spec == Init /\ [][Next]_vars

-----------------------------------------------------------------------------
\* All tokens are somebody's, and those of the hub were moved to it without
\* the hook: neither flow leaves tokens with the hub, and the hub never burns
\* the stray ones in place of a user's (unstake.rs:53-86, contract.rs:349-376).
HubHoldsOnlyStray ==
    /\ balances[HUB] = stray
    /\ total_supply = SumFunctionOnSet(balances, Accounts)

\* A request is backed by as many burnt tokens, and they are the requester's
\* own or tokens whose owner allowed it to spend them: nobody's tokens are
\* unstaked for somebody else (unstake.rs:40-86, contract.rs:360-373).
RequestsBacked ==
    [][\A u \in Users :
          LET amount == requested'[u] - requested[u] IN
          amount > 0 =>
              /\ total_supply' = total_supply - amount
              /\ \E owner \in Users :
                    /\ balances'[owner] = balances[owner] - amount
                    /\ \A v \in Users \ {u} : requested'[v] = requested[v]
                    /\ owner # u =>
                          allowances'[<<owner, u>>]
                              = allowances[<<owner, u>>] - amount]_vars

\* While the hub is paused no token is minted, burnt or unstaked: the supply,
\* and with it the exchange rate, stands still, although the token has no
\* pause of its own (lst_token contract.rs:140-177).
PausedSupplyFrozen ==
    [][paused /\ paused' =>
          total_supply' = total_supply /\ requested' = requested]_vars
=============================================================================
