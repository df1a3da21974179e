-------------------------- MODULE DeploymentProofs --------------------------
(***************************************************************************)
(* The path of the rewards, for every set of owners and contracts and      *)
(* every sequence of configurations: no reward reaches the hub itself, the *)
(* fees stay bounded and no coin is lost.                                  *)
(***************************************************************************)
EXTENDS Deployment, SumLemmas

Holders == DISPATCHERS \cup {HUB}

\* No owner has a rate above the maximum.
FeeRatesValid == \A d \in DISPATCHERS : dispatcher[d].fee_rate <= MAX_FEE_RATE

\* Before a dispatcher is set nothing is delegated and so nothing is earned;
\* from then on the chain pays the dispatcher of the config.
RewardsPath ==
    /\ balance[HUB] = 0
    /\ config.reward_dispatcher = NONE => ~staked
    /\ config.reward_dispatcher # NONE =>
          withdraw_addr = config.reward_dispatcher
    /\ accrued > 0 => staked

IInv == TypeOK /\ FeeRatesValid /\ RewardsPath /\ FeesBounded

-----------------------------------------------------------------------------
(* Arithmetic.                                                             *)

\* A fee is an amount, at most the rate's share and less than one coin more.
LEMMA FeeBound ==
    ASSUME NEW amount \in Nat, NEW rate \in Nat
    PROVE  /\ compute_fee(amount, rate) \in Nat
           /\ compute_fee(amount, rate) * One <= amount * rate + (One - 1)
           /\ amount = 0 => compute_fee(amount, rate) = 0
<1> DEFINE D == DECIMAL_FRACTIONAL
           n == amount * rate + D - 1
<1>1. D \in Nat \ {0} /\ amount * rate \in Nat
  BY ScaleAssumption
<1>2. n \in Nat
  BY <1>1
<1>3. amount = 0 => n = D - 1
  BY <1>1
<1> HIDE DEF n, D
<1>4. n \div D \in Nat /\ (n \div D) * D <= n
  BY <1>1, <1>2
<1>5. n = D - 1 => n \div D = 0
  BY <1>1
<1>6. compute_fee(amount, rate) = n \div D /\ One = D
  BY DEF compute_fee, n, D, One
<1>7. n = amount * rate + (D - 1)
  BY <1>1 DEF n, D
<1> QED
  BY <1>3, <1>4, <1>5, <1>6, <1>7

\* A smaller factor gives a smaller product.
LEMMA TimesMonotone ==
    ASSUME NEW a \in Nat, NEW b \in Nat, NEW c \in Nat, b <= c
    PROVE  a * b <= a * c
<1>1. PICK k \in Nat : c = b + k
  <2>1. c - b \in Nat /\ c = b + (c - b)
    OBVIOUS
  <2> QED
    BY <2>1
<1>2. a * c = a * b + a * k
  BY <1>1
<1>3. a * b \in Nat /\ a * k \in Nat
  BY <1>1
<1> QED
  BY <1>2, <1>3
-----------------------------------------------------------------------------
(* The steps.                                                              *)

\* What TypeOK and the assumptions say of the parts.
LEMMA Types ==
    ASSUME TypeOK
    PROVE  /\ One \in Nat \ {0} /\ MAX_FEE_RATE \in Nat
           /\ NONE \notin DISPATCHERS /\ HUB \notin DISPATCHERS /\ NONE # HUB
           /\ accrued \in Nat /\ fees \in Nat /\ restaked \in Nat
           /\ dispatches \in Nat
           /\ balance \in [Holders -> Nat]
           /\ withdraw_addr \in Holders
           /\ config \in Config
           /\ \A d \in DISPATCHERS : dispatcher[d] \in DispatcherConfig
           /\ \A d \in DISPATCHERS : dispatcher[d].fee_rate \in Nat
<1>1. One \in Nat \ {0} /\ MAX_FEE_RATE \in Nat
  BY ScaleAssumption, DeploymentAssumption DEF One
<1>2. NONE \notin DISPATCHERS /\ HUB \notin DISPATCHERS /\ NONE # HUB
  BY DeploymentAssumption DEF NONE, HUB
<1>3. \A d \in DISPATCHERS : dispatcher[d] \in DispatcherConfig
  BY DEF TypeOK
<1>4. \A d \in DISPATCHERS : dispatcher[d].fee_rate \in Nat
  BY <1>3 DEF DispatcherConfig
<1> QED
  BY <1>1, <1>2, <1>3, <1>4 DEF TypeOK, Holders

\* A given value of a type that does not have NONE, or the stored one.
LEMMA GivenType ==
    ASSUME NEW T, NEW field \in T \cup {NONE}, NEW stored
    PROVE  /\ given(field, stored) \in T \cup {stored}
           /\ field = NONE => given(field, stored) = stored
           /\ field # NONE => given(field, stored) = field
  BY DEF given

\* The balances after a payout of the chain: everything accrued is with the
\* withdraw address.
LEMMA Withdrawn ==
    ASSUME TypeOK
    PROVE  /\ withdrawn \in [Holders -> Nat]
           /\ withdrawn[withdraw_addr] = balance[withdraw_addr] + accrued
           /\ \A a \in Holders \ {withdraw_addr} : withdrawn[a] = balance[a]
  BY Types DEF withdrawn

\* What a dispatch does to the amounts.
LEMMA Dispatched ==
    ASSUME TypeOK, NEW d \in DISPATCHERS, NEW held \in [Holders -> Nat],
           execute_dispatch_rewards(d, HUB, held)
    PROVE  LET fee == compute_fee(held[d], dispatcher[d].fee_rate) IN
           /\ held[d] \in Nat /\ fee \in 0 .. held[d]
           /\ fees' = fees + fee /\ restaked' = restaked + (held[d] - fee)
           /\ dispatches' = dispatches + (IF held[d] > 0 THEN 1 ELSE 0)
           /\ balance' \in [Holders -> Nat]
           /\ balance'[d] = 0
           /\ \A a \in Holders \ {d} : balance'[a] = held[a]
<1>1. held[d] \in Nat /\ dispatcher[d].fee_rate \in Nat
  BY Types DEF Holders
<1>2. compute_fee(held[d], dispatcher[d].fee_rate) \in Nat
  BY <1>1, FeeBound
<1> HIDE DEF compute_fee
<1>3. balance' = [held EXCEPT ![d] = 0] /\ d \in Holders
  BY DEF execute_dispatch_rewards, Holders
<1>4. /\ balance' \in [Holders -> Nat] /\ balance'[d] = 0
      /\ \A a \in Holders \ {d} : balance'[a] = held[a]
  BY <1>3
<1> QED
  BY <1>1, <1>2, <1>4 DEF execute_dispatch_rewards

\* A dispatch keeps the fees bounded.
LEMMA DispatchKeepsBound ==
    ASSUME TypeOK, FeeRatesValid, FeesBounded,
           NEW d \in DISPATCHERS, NEW held \in [Holders -> Nat],
           execute_dispatch_rewards(d, HUB, held)
    PROVE  FeesBounded'
<1> DEFINE h == held[d]
           rate == dispatcher[d].fee_rate
           fee == compute_fee(h, rate)
           M == MAX_FEE_RATE
           c == One - 1
<1>1. /\ fees \in Nat /\ restaked \in Nat /\ dispatches \in Nat /\ M \in Nat
      /\ One \in Nat \ {0} /\ rate \in Nat /\ rate <= M
  BY Types DEF FeeRatesValid
<1>2. /\ h \in Nat /\ fee \in Nat /\ fee <= h
      /\ fees' = fees + fee /\ restaked' = restaked + (h - fee)
      /\ dispatches' = dispatches + (IF h > 0 THEN 1 ELSE 0)
  <2> HIDE DEF compute_fee
  <2> QED
    BY Dispatched
<1>3. fee * One <= h * rate + c /\ (h = 0 => fee = 0)
  BY <1>1, <1>2, FeeBound
<1>4. h * rate <= h * M /\ h * M \in Nat /\ h * rate \in Nat
  BY <1>1, <1>2, TimesMonotone
<1>5. fees * One <= M * (fees + restaked) + dispatches * c
  BY DEF FeesBounded
<1> HIDE DEF fee, h, rate, M
<1>6. fees' + restaked' = (fees + restaked) + h
  BY <1>1, <1>2
<1>7. M * ((fees + restaked) + h) = M * (fees + restaked) + h * M
  BY <1>1, <1>2
<1>8. (fees + fee) * One = fees * One + fee * One
  BY <1>1, <1>2
<1>9. /\ c \in Nat /\ fees * One \in Nat /\ fee * One \in Nat
      /\ M * (fees + restaked) \in Nat /\ dispatches * c \in Nat
  BY <1>1, <1>2
<1>10. CASE h = 0
  <2>1. fees' = fees /\ fees' + restaked' = fees + restaked
        /\ dispatches' = dispatches
    BY <1>1, <1>2, <1>3, <1>10
  <2> QED
    BY <2>1, <1>5 DEF FeesBounded, M
<1>11. CASE h # 0
  <2>1. dispatches' = dispatches + 1
    BY <1>2, <1>11
  <2>2. (dispatches + 1) * c = dispatches * c + c
    BY <1>1
  <2>3. fees * One + fee * One
          <= (M * (fees + restaked) + h * M) + (dispatches * c + c)
    <3> HIDE DEF c
    <3> QED
      BY <1>3, <1>4, <1>5, <1>9
  <2>4. fees' * One <= M * (fees' + restaked') + dispatches' * c
    BY <2>1, <2>2, <2>3, <1>2, <1>6, <1>7, <1>8
  <2> QED
    BY <2>4 DEF FeesBounded, M
<1> QED
  BY <1>10, <1>11

\* The hub's owner changes the config: the withdraw address follows.
LEMMA UpdateConfigStep ==
    ASSUME IInv, NEW caller \in OWNERS, UpdateConfig(caller)
    PROVE  IInv'
<1>1. PICK owner \in OWNERS \cup {NONE}, lst_token \in LST_TOKENS \cup {NONE},
           registry \in REGISTRIES \cup {NONE},
           reward_dispatcher \in DISPATCHERS \cup {NONE} :
        /\ config' = [owner |-> given(owner, config.owner),
                      lst_token |-> given(lst_token, config.lst_token),
                      registry |-> given(registry, config.registry),
                      reward_dispatcher |->
                          given(reward_dispatcher, config.reward_dispatcher)]
        /\ withdraw_addr' = given(reward_dispatcher, withdraw_addr)
        /\ UNCHANGED <<paused, staked, rewardVars>>
  BY DEF UpdateConfig, set_withdraw_address
<1>2. TypeOK /\ RewardsPath /\ FeeRatesValid /\ FeesBounded
  BY DEF IInv
<1>3. /\ config.owner \in OWNERS /\ config.lst_token \in LST_TOKENS \cup {NONE}
      /\ config.registry \in REGISTRIES \cup {NONE}
      /\ config.reward_dispatcher \in DISPATCHERS \cup {NONE}
      /\ withdraw_addr \in Holders
  BY <1>2 DEF TypeOK, Config, Holders
<1>4. /\ given(owner, config.owner) \in OWNERS
      /\ given(lst_token, config.lst_token) \in LST_TOKENS \cup {NONE}
      /\ given(registry, config.registry) \in REGISTRIES \cup {NONE}
      /\ given(reward_dispatcher, config.reward_dispatcher)
            \in DISPATCHERS \cup {NONE}
      /\ given(reward_dispatcher, withdraw_addr) \in Holders
  BY <1>1, <1>3 DEF given, Holders
<1>5. TypeOK'
  BY <1>1, <1>2, <1>4 DEF TypeOK, Config, rewardVars, Holders
<1>6. RewardsPath'
  <2>1. CASE reward_dispatcher = NONE
    <3>1. /\ config'.reward_dispatcher = config.reward_dispatcher
          /\ withdraw_addr' = withdraw_addr
      BY <1>1, <2>1 DEF given
    <3> QED
      BY <1>1, <1>2, <3>1 DEF RewardsPath, rewardVars
  <2>2. CASE reward_dispatcher # NONE
    <3>1. /\ config'.reward_dispatcher = reward_dispatcher
          /\ withdraw_addr' = reward_dispatcher
      BY <1>1, <2>2 DEF given
    <3> QED
      BY <1>1, <1>2, <2>2, <3>1 DEF RewardsPath, rewardVars
  <2> QED
    BY <2>1, <2>2
<1>7. FeeRatesValid' /\ FeesBounded'
  BY <1>1, <1>2 DEF FeeRatesValid, FeesBounded, rewardVars
<1> QED
  BY <1>5, <1>6, <1>7 DEF IInv

\* A dispatcher's owner changes its config: the new rate is checked.
LEMMA DispatcherUpdateConfigStep ==
    ASSUME IInv, NEW caller \in OWNERS, DispatcherUpdateConfig(caller)
    PROVE  IInv'
<1>1. TypeOK /\ RewardsPath /\ FeeRatesValid /\ FeesBounded
  BY DEF IInv
<1>2. PICK d \in DISPATCHERS, owner \in OWNERS \cup {NONE},
           hub_contract \in HUBS \cup {NONE} :
      \E fee_rate \in FEE_RATES \cup {dispatcher[d].fee_rate} :
        /\ fee_rate <= MAX_FEE_RATE
        /\ dispatcher' = [dispatcher EXCEPT ![d] =
              [owner |-> given(owner, @.owner),
               hub_contract |-> given(hub_contract, @.hub_contract),
               fee_rate |-> fee_rate]]
        /\ UNCHANGED <<hubVars, accrued, balance, fees, restaked, dispatches>>
  BY DEF DispatcherUpdateConfig, new_fee_rate, valid_fee_rate
<1>3. PICK fee_rate \in FEE_RATES \cup {dispatcher[d].fee_rate} :
        /\ fee_rate <= MAX_FEE_RATE
        /\ dispatcher' = [dispatcher EXCEPT ![d] =
              [owner |-> given(owner, dispatcher[d].owner),
               hub_contract |-> given(hub_contract, dispatcher[d].hub_contract),
               fee_rate |-> fee_rate]]
        /\ UNCHANGED <<hubVars, accrued, balance, fees, restaked, dispatches>>
  BY <1>2
<1> DEFINE new == [owner |-> given(owner, dispatcher[d].owner),
                   hub_contract |->
                       given(hub_contract, dispatcher[d].hub_contract),
                   fee_rate |-> fee_rate]
<1>4. dispatcher[d] \in DispatcherConfig /\ dispatcher[d].fee_rate \in Nat
  BY <1>1, Types
<1>5. /\ dispatcher[d].owner \in OWNERS /\ dispatcher[d].hub_contract \in HUBS
      /\ fee_rate \in Nat
  BY <1>4, DeploymentAssumption DEF DispatcherConfig
<1>6. given(owner, dispatcher[d].owner) \in OWNERS
      /\ given(hub_contract, dispatcher[d].hub_contract) \in HUBS
  BY <1>5 DEF given
<1>7. new \in DispatcherConfig /\ new.fee_rate <= MAX_FEE_RATE
  BY <1>3, <1>5, <1>6 DEF DispatcherConfig
<1>8. dispatcher \in [DISPATCHERS -> DispatcherConfig]
  BY <1>1 DEF TypeOK
<1>9. dispatcher' = [dispatcher EXCEPT ![d] = new]
  BY <1>3
<1> HIDE DEF new
<1>10. /\ dispatcher' \in [DISPATCHERS -> DispatcherConfig]
       /\ dispatcher'[d] = new
       /\ \A e \in DISPATCHERS \ {d} : dispatcher'[e] = dispatcher[e]
  BY <1>7, <1>8, <1>9
<1>11. FeeRatesValid'
  BY <1>1, <1>7, <1>10 DEF FeeRatesValid
<1>12. TypeOK'
  BY <1>1, <1>3, <1>10 DEF TypeOK, hubVars
<1> QED
  BY <1>1, <1>3, <1>11, <1>12 DEF IInv, RewardsPath, FeesBounded, hubVars

\* The hub withdraws and dispatches: the withdraw address is the dispatcher,
\* so the hub itself gets nothing.
LEMMA UpdateGlobalIndexStep ==
    ASSUME IInv, UpdateGlobalIndex
    PROVE  IInv'
<1>1. TypeOK /\ RewardsPath /\ FeeRatesValid /\ FeesBounded
  BY DEF IInv
<1> DEFINE d == config.reward_dispatcher
<1>2. /\ d # NONE /\ execute_dispatch_rewards(d, HUB, withdrawn)
      /\ accrued' = 0 /\ UNCHANGED <<hubVars, dispatcher>>
  BY DEF UpdateGlobalIndex
<1>3. d \in DISPATCHERS /\ withdraw_addr = d /\ HUB \in Holders /\ HUB # d
  BY <1>1, <1>2, Types DEF Config, RewardsPath, Holders
<1> HIDE DEF d
<1>4. withdrawn \in [Holders -> Nat] /\ withdrawn[HUB] = balance[HUB]
  BY <1>1, <1>3, Withdrawn
<1>5. /\ fees' \in Nat /\ restaked' \in Nat /\ dispatches' \in Nat
      /\ balance' \in [Holders -> Nat]
      /\ \A a \in Holders \ {d} : balance'[a] = withdrawn[a]
  <2> DEFINE fee == compute_fee(withdrawn[d], dispatcher[d].fee_rate)
  <2>1. /\ withdrawn[d] \in Nat /\ fee \in 0 .. withdrawn[d]
        /\ fees' = fees + fee /\ restaked' = restaked + (withdrawn[d] - fee)
        /\ dispatches' = dispatches + (IF withdrawn[d] > 0 THEN 1 ELSE 0)
        /\ balance' \in [Holders -> Nat]
        /\ \A a \in Holders \ {d} : balance'[a] = withdrawn[a]
    BY <1>1, <1>2, <1>3, <1>4, Dispatched
  <2> HIDE DEF fee
  <2>2. fees \in Nat /\ restaked \in Nat /\ dispatches \in Nat
    BY <1>1, Types
  <2> QED
    BY <2>1, <2>2
<1>6. balance'[HUB] = 0
  BY <1>1, <1>3, <1>4, <1>5 DEF RewardsPath
<1>7. FeesBounded'
  BY <1>1, <1>2, <1>3, <1>4, DispatchKeepsBound
<1>8. TypeOK'
  BY <1>1, <1>2, <1>5 DEF TypeOK, hubVars, Holders
<1>9. RewardsPath'
  BY <1>1, <1>2, <1>6 DEF RewardsPath, hubVars
<1> QED
  BY <1>1, <1>2, <1>7, <1>8, <1>9 DEF IInv, FeeRatesValid

\* The chain pays the rewards of a changed delegation out.
LEMMA AutoWithdrawStep ==
    ASSUME IInv, AutoWithdraw
    PROVE  IInv'
<1>1. TypeOK /\ RewardsPath /\ FeeRatesValid /\ FeesBounded
  BY DEF IInv
<1>2. /\ staked /\ balance' = withdrawn /\ accrued' = 0
      /\ UNCHANGED <<hubVars, dispatcher, fees, restaked, dispatches>>
  BY DEF AutoWithdraw
<1>3. withdraw_addr \in DISPATCHERS
  BY <1>1, <1>2, Types DEF RewardsPath, Config
<1>4. withdrawn \in [Holders -> Nat] /\ withdrawn[HUB] = balance[HUB]
  BY <1>1, <1>3, Withdrawn, Types DEF Holders
<1>5. TypeOK'
  BY <1>1, <1>2, <1>4 DEF TypeOK, hubVars, Holders
<1>6. RewardsPath'
  BY <1>1, <1>2, <1>4 DEF RewardsPath, hubVars
<1> QED
  BY <1>1, <1>2, <1>5, <1>6 DEF IInv, FeeRatesValid, FeesBounded

\* The invariant holds of the instantiated contracts.
LEMMA InitIInv == Init => IInv
<1> SUFFICES ASSUME Init PROVE IInv
  OBVIOUS
<1> DEFINE first == [owner : OWNERS, hub_contract : {HUB},
                     fee_rate : {rate \in FEE_RATES : valid_fee_rate(rate)}]
<1>1. first \subseteq DispatcherConfig
  BY DeploymentAssumption DEF DispatcherConfig
<1>2. dispatcher \in [DISPATCHERS -> first]
  BY DEF Init
<1>3. \A d \in DISPATCHERS : dispatcher[d].fee_rate <= MAX_FEE_RATE
  BY <1>2 DEF valid_fee_rate
<1> HIDE DEF first
<1>4. dispatcher \in [DISPATCHERS -> DispatcherConfig]
  BY <1>1, <1>2
<1>5. PICK owner \in OWNERS :
          config = [owner |-> owner, lst_token |-> NONE, registry |-> NONE,
                    reward_dispatcher |-> NONE]
  BY DEF Init
<1>6. config \in Config /\ config.reward_dispatcher = NONE
  BY <1>5 DEF Config
<1>7. TypeOK /\ RewardsPath
  <2>1. /\ paused = FALSE /\ staked = FALSE /\ withdraw_addr = HUB
        /\ accrued = 0 /\ fees = 0 /\ restaked = 0 /\ dispatches = 0
        /\ balance = [a \in DISPATCHERS \cup {HUB} |-> 0]
    BY DEF Init
  <2>2. balance \in [DISPATCHERS \cup {HUB} -> Nat] /\ balance[HUB] = 0
    BY <2>1
  <2>3. TypeOK
    BY <1>4, <1>6, <2>1, <2>2 DEF TypeOK
  <2>4. RewardsPath
    BY <1>6, <2>1, <2>2 DEF RewardsPath
  <2> QED
    BY <2>3, <2>4
<1>8. FeesBounded
  BY <1>7, Types DEF Init, FeesBounded
<1> QED
  BY <1>3, <1>7, <1>8 DEF IInv, FeeRatesValid

\* Every step keeps the invariant.
LEMMA NextIInv == IInv /\ [Next]_vars => IInv'
<1> SUFFICES ASSUME IInv, [Next]_vars PROVE IInv'
  OBVIOUS
<1>1. TypeOK /\ RewardsPath /\ FeeRatesValid /\ FeesBounded
  BY DEF IInv
<1> USE DEF IInv, TypeOK, RewardsPath, FeeRatesValid, FeesBounded
<1>2. CASE UNCHANGED vars
  BY <1>1, <1>2 DEF vars, hubVars, rewardVars
<1>3. CASE Stake
  BY <1>1, <1>3 DEF Stake, stake_allowed, rewardVars
<1>4. CASE Accrue
  <2>1. PICK reward \in REWARDS :
          /\ staked /\ accrued' = accrued + reward
          /\ UNCHANGED <<hubVars, dispatcher, balance, fees, restaked,
                         dispatches>>
    BY <1>4 DEF Accrue
  <2>2. accrued' \in Nat
    BY <2>1, DeploymentAssumption
  <2> QED
    BY <1>1, <2>1, <2>2 DEF hubVars
<1>5. ASSUME NEW caller \in OWNERS, UpdateParams(caller)
      PROVE  IInv'
  BY <1>1, <1>5 DEF UpdateParams, rewardVars
<1> QED
  BY <1>2, <1>3, <1>4, <1>5, UpdateGlobalIndexStep, AutoWithdrawStep,
     UpdateConfigStep, DispatcherUpdateConfigStep DEF Next

\* The invariant holds of every behaviour.
LEMMA Invariance == Spec => []IInv
  BY InitIInv, NextIInv, PTL DEF Spec

-----------------------------------------------------------------------------
(* The theorems.                                                           *)

\* Every variable keeps its type: no payment of rewards underflows
\* (config.rs, stake.rs, dispatcher contract.rs).
THEOREM TypeCorrect == Spec => []TypeOK
  BY Invariance, PTL DEF IInv

\* In whatever order the contracts are set and replaced, the hub itself never
\* receives a reward (config.rs:52-61, stake.rs:41-43).
THEOREM HubGetsNoRewards == Spec => []NoRewardsAtHub
<1>1. IInv => NoRewardsAtHub
  BY DEF IInv, RewardsPath, NoRewardsAtHub
<1> QED
  BY <1>1, Invariance, PTL

\* Over any number of dispatches, rates and dispatchers the fees stay within
\* the maximal rate and the rounding (dispatcher contract.rs:76-83, 125-150).
THEOREM FeesStayBounded == Spec => []FeesBounded
  BY Invariance, PTL DEF IInv

-----------------------------------------------------------------------------
(* No coin is lost.                                                        *)

Held(b) == SumFunctionOnSet(b, DISPATCHERS \cup {HUB})

\* The balances are finitely many amounts, and what they add up to changes
\* with one of them by as much.
LEMMA HeldChange ==
    ASSUME NEW b \in [Holders -> Nat], NEW c \in [Holders -> Nat],
           NEW x \in Holders, \A a \in Holders \ {x} : c[a] = b[a]
    PROVE  /\ Held(b) \in Nat /\ Held(c) \in Nat
           /\ Held(c) + b[x] = Held(b) + c[x]
<1>1. IsFiniteSet(Holders)
  BY DeploymentAssumption, FS_AddElement DEF Holders
<1>2. \A a \in Holders : b[a] \in Nat /\ c[a] \in Nat
  OBVIOUS
<1>3. Held(b) = SumOver(b, Holders) /\ Held(c) = SumOver(c, Holders)
  BY <1>1, <1>2, SumFunctionIsSum DEF Held, Holders
<1> QED
  BY <1>1, <1>2, <1>3, SumType, SumUpdate

\* What the chain pays out is with a holder.
LEMMA WithdrawnHeld ==
    ASSUME TypeOK
    PROVE  /\ Held(balance) \in Nat /\ Held(withdrawn) \in Nat
           /\ Held(withdrawn) = Held(balance) + accrued
<1>1. /\ balance \in [Holders -> Nat] /\ withdrawn \in [Holders -> Nat]
      /\ withdraw_addr \in Holders /\ accrued \in Nat
      /\ withdrawn[withdraw_addr] = balance[withdraw_addr] + accrued
      /\ \A a \in Holders \ {withdraw_addr} : withdrawn[a] = balance[a]
  BY Types, Withdrawn
<1>2. /\ Held(balance) \in Nat /\ Held(withdrawn) \in Nat
      /\ Held(withdrawn) + balance[withdraw_addr]
            = Held(balance) + withdrawn[withdraw_addr]
  BY <1>1, HeldChange
<1>3. balance[withdraw_addr] \in Nat
  BY <1>1
<1> QED
  BY <1>1, <1>2, <1>3

\* A step that changes the rewards in all is one of the chain.
LEMMA NextConserves ==
    ASSUME IInv, [Next]_vars
    PROVE  Earned' # Earned => accrued' > accrued
<1>1. TypeOK
  BY DEF IInv
<1>2. accrued \in Nat /\ fees \in Nat /\ restaked \in Nat
      /\ balance \in [Holders -> Nat]
  BY <1>1, Types
<1>3. Earned = accrued + fees + restaked + Held(balance)
      /\ Earned' = accrued' + fees' + restaked' + Held(balance')
  BY DEF Earned, Held
<1>4. CASE UNCHANGED <<accrued, fees, restaked, balance>>
  BY <1>4 DEF Earned
<1>5. CASE Accrue
  <2>1. PICK reward \in REWARDS : accrued' = accrued + reward
    BY <1>5 DEF Accrue
  <2> QED
    BY <1>2, <2>1, DeploymentAssumption
<1>6. CASE AutoWithdraw
  <2>1. /\ balance' = withdrawn /\ accrued' = 0
        /\ fees' = fees /\ restaked' = restaked
    BY <1>6 DEF AutoWithdraw
  <2>2. Held(balance) \in Nat /\ Held(balance') = Held(balance) + accrued
    BY <1>1, <2>1, WithdrawnHeld
  <2>3. Earned' = Earned
    BY <1>2, <1>3, <2>1, <2>2
  <2> QED
    BY <2>3
<1>7. CASE UpdateGlobalIndex
  <2> DEFINE d == config.reward_dispatcher
             fee == compute_fee(withdrawn[d], dispatcher[d].fee_rate)
  <2>1. d \in DISPATCHERS /\ execute_dispatch_rewards(d, HUB, withdrawn)
        /\ accrued' = 0
    BY <1>1, <1>7, Types DEF UpdateGlobalIndex, Config
  <2>2. withdrawn \in [Holders -> Nat] /\ d \in Holders
    BY <1>1, <2>1, Withdrawn DEF Holders
  <2>3. /\ withdrawn[d] \in Nat /\ fee \in 0 .. withdrawn[d]
        /\ fees' = fees + fee /\ restaked' = restaked + (withdrawn[d] - fee)
        /\ balance' \in [Holders -> Nat] /\ balance'[d] = 0
        /\ \A a \in Holders \ {d} : balance'[a] = withdrawn[a]
    BY <1>1, <2>1, <2>2, Dispatched
  <2> HIDE DEF fee, d
  <2>4. /\ Held(balance') \in Nat /\ Held(withdrawn) \in Nat
        /\ Held(balance') + withdrawn[d] = Held(withdrawn) + balance'[d]
    BY <2>2, <2>3, HeldChange
  <2>5. Held(balance) \in Nat /\ Held(withdrawn) = Held(balance) + accrued
    BY <1>1, WithdrawnHeld
  <2>6. Held(balance') + withdrawn[d] = Held(balance) + accrued
    BY <2>3, <2>4, <2>5
  <2>7. fees' + restaked' = fees + restaked + withdrawn[d]
    BY <1>2, <2>3
  <2>8. fees' \in Nat /\ restaked' \in Nat
    BY <1>2, <2>3
  <2>9. Earned' = Earned
    BY <1>2, <1>3, <2>1, <2>3, <2>4, <2>5, <2>6, <2>7, <2>8
  <2> QED
    BY <2>9
<1>8. CASE UNCHANGED vars \/ Stake \/ \E caller \in OWNERS :
              \/ UpdateConfig(caller)
              \/ UpdateParams(caller)
              \/ DispatcherUpdateConfig(caller)
  <2>1. UNCHANGED <<accrued, fees, restaked, balance>>
    BY <1>8 DEF vars, rewardVars, hubVars, Stake, UpdateConfig, UpdateParams,
                DispatcherUpdateConfig
  <2> QED
    BY <1>4, <2>1
<1> QED
  BY <1>5, <1>6, <1>7, <1>8 DEF Next

\* Only the chain adds rewards: nothing that is withdrawn early, left with a
\* dispatcher that was replaced or dispatched in parts is lost or counted
\* twice (dispatcher contract.rs:121-155).
THEOREM NoRewardLost == Spec => RewardsConserved
<1>1. IInv /\ [Next]_vars => [Earned' # Earned => accrued' > accrued]_vars
  BY NextConserves
<1> QED
  BY <1>1, Invariance, PTL DEF Spec, RewardsConserved


=============================================================================
