--------------------------- MODULE LstTokenProofs ---------------------------
(***************************************************************************)
(* The token and the two ways into an unstake request, for any users,      *)
(* foreign tokens and amounts: no amount underflows, every token is        *)
(* somebody's, the hub keeps none of a request's, and a request is backed  *)
(* by tokens its owner gave or allowed.                                    *)
(***************************************************************************)
EXTENDS LstToken, SumLemmas

IInv == TypeOK /\ HubHoldsOnlyStray

Held(b) == SumFunctionOnSet(b, Accounts)

\* What TypeOK and the assumptions say of the parts.
LEMMA Types ==
    ASSUME TypeOK
    PROVE  /\ HUB \notin Users /\ HUB \in Accounts
           /\ \A u \in Users : u \in Accounts /\ u # HUB
           /\ \A amount \in AMOUNTS \cup MINT_AMOUNTS : amount \in Nat \ {0}
           /\ \A a \in Accounts : balances[a] \in Nat
           /\ \A u \in Users, a \in Accounts : allowances[<<u, a>>] \in Nat
           /\ \A u \in Users : requested[u] \in Nat
           /\ total_supply \in Nat /\ stray \in Nat
  BY TokenAssumption DEF TypeOK, Accounts

-----------------------------------------------------------------------------
(* Balances.                                                               *)

\* What the accounts hold together is an amount, not less than one of them
\* holds, and it changes with one of them by as much.
LEMMA HeldChange ==
    ASSUME NEW b \in [Accounts -> Nat], NEW c \in [Accounts -> Nat],
           NEW x \in Accounts, \A a \in Accounts \ {x} : c[a] = b[a]
    PROVE  /\ Held(b) \in Nat /\ Held(c) \in Nat
           /\ b[x] <= Held(b)
           /\ Held(c) + b[x] = Held(b) + c[x]
<1>1. IsFiniteSet(Accounts)
  BY TokenAssumption, FS_AddElement DEF Accounts
<1>2. \A a \in Accounts : b[a] \in Nat /\ c[a] \in Nat
  OBVIOUS
<1>3. Held(b) = SumOver(b, Accounts) /\ Held(c) = SumOver(c, Accounts)
  BY <1>1, <1>2, SumFunctionIsSum DEF Held
<1>4. SumOver(b, Accounts) = b[x] + SumOver(b, Accounts \ {x})
  BY <1>1, <1>2, SumRemove
<1>5. SumOver(b, Accounts \ {x}) \in Nat
  BY <1>1, <1>2, FS_RemoveElement, SumType
<1>6. SumOver(b, Accounts) \in Nat /\ SumOver(c, Accounts) \in Nat
  BY <1>1, <1>2, SumType
<1>7. SumOver(c, Accounts) + b[x] = SumOver(b, Accounts) + c[x]
  BY <1>1, <1>2, SumUpdate
<1> QED
  BY <1>2, <1>3, <1>4, <1>5, <1>6, <1>7

\* A transfer moves an amount and keeps what the accounts hold together.
LEMMA Moved ==
    ASSUME TypeOK, NEW from \in Users, NEW to \in Accounts, NEW amount \in Nat,
           balances[from] >= amount
    PROVE  LET m == moved(from, to, amount) IN
           /\ m \in [Accounts -> Nat]
           /\ Held(m) = Held(balances)
           /\ m[HUB] = balances[HUB] + (IF to = HUB THEN amount ELSE 0)
           /\ to # from => /\ m[from] = balances[from] - amount
                           /\ \A u \in Accounts \ {from, to} : m[u] = balances[u]
<1> DEFINE c == [balances EXCEPT ![from] = @ - amount]
           m == [c EXCEPT ![to] = @ + amount]
<1>1. /\ balances \in [Accounts -> Nat] /\ from \in Accounts
      /\ balances[from] \in Nat
      /\ from # HUB /\ HUB \in Accounts
  BY Types DEF TypeOK
<1>2. /\ c \in [Accounts -> Nat] /\ c[from] = balances[from] - amount
      /\ \A a \in Accounts \ {from} : c[a] = balances[a]
  BY <1>1
<1> HIDE DEF c
<1>3. /\ m \in [Accounts -> Nat] /\ m[to] = c[to] + amount
      /\ \A a \in Accounts \ {to} : m[a] = c[a]
  BY <1>2
<1>4. moved(from, to, amount) = m
  BY DEF moved, c
<1> HIDE DEF m
<1>5. /\ Held(balances) \in Nat /\ Held(c) \in Nat
      /\ Held(c) + balances[from] = Held(balances) + c[from]
  BY <1>1, <1>2, HeldChange
<1>6. Held(m) \in Nat /\ Held(m) + c[to] = Held(c) + m[to]
  BY <1>2, <1>3, HeldChange
<1>7. c[to] \in Nat /\ m[to] \in Nat /\ c[from] \in Nat
  BY <1>1, <1>2, <1>3
<1>8. Held(m) = Held(balances)
  <2>1. balances[from] \in Nat /\ c[from] = balances[from] - amount
        /\ m[to] = c[to] + amount
    BY <1>1, <1>2, <1>3
  <2> DEFINE x == balances[from]
             y == c[to]
             hm == Held(m)
             hc == Held(c)
             hb == Held(balances)
  <2>2. /\ x \in Nat /\ y \in Nat /\ hm \in Nat /\ hc \in Nat /\ hb \in Nat
        /\ hc + x = hb + (x - amount) /\ hm + y = hc + (y + amount)
    BY <1>5, <1>6, <1>7, <2>1
  <2> HIDE DEF x, y, hm, hc, hb
  <2>3. hm = hb
    BY <2>2
  <2> QED
    BY <2>3 DEF hm, hb
<1>9. balances[HUB] \in Nat
  BY <1>1
<1> QED
  BY <1>1, <1>2, <1>3, <1>4, <1>8, <1>9

\* A burn of what an account holds takes as much from what all hold.
LEMMA Burnt ==
    ASSUME NEW held \in [Accounts -> Nat], NEW caller \in Accounts,
           NEW amount \in Nat, execute_burn(held, caller, amount)
    PROVE  /\ balances' \in [Accounts -> Nat]
           /\ balances'[caller] = held[caller] - amount
           /\ \A a \in Accounts \ {caller} : balances'[a] = held[a]
           /\ amount <= held[caller] /\ held[caller] <= Held(held)
           /\ Held(held) \in Nat
           /\ Held(balances') = Held(held) - amount
           /\ total_supply' = total_supply - amount
           /\ ~paused
<1>1. /\ held[caller] >= amount /\ balances' = [held EXCEPT ![caller] = @ - amount]
      /\ total_supply' = total_supply - amount
  BY DEF execute_burn
<1>2. held[caller] \in Nat
  OBVIOUS
<1>3. /\ balances' \in [Accounts -> Nat]
      /\ balances'[caller] = held[caller] - amount
      /\ \A a \in Accounts \ {caller} : balances'[a] = held[a]
  BY <1>1, <1>2
<1>4. /\ Held(held) \in Nat /\ Held(balances') \in Nat
      /\ held[caller] <= Held(held)
      /\ Held(balances') + held[caller] = Held(held) + balances'[caller]
  BY <1>3, HeldChange
<1>5. Held(balances') = Held(held) - amount
  BY <1>2, <1>3, <1>4
<1> QED
  BY <1>1, <1>2, <1>3, <1>4, <1>5 DEF execute_burn, check_slashing_sub_msg
\* A spender's allowance shrinks by what is spent, and no other does.
LEMMA Deducted ==
    ASSUME TypeOK, NEW owner \in Users, NEW spender \in Accounts,
           NEW amount \in Nat, deduct_allowance(owner, spender, amount)
    PROVE  /\ allowances' \in [Users \X Accounts -> Nat]
           /\ allowances'[<<owner, spender>>]
                 = allowances[<<owner, spender>>] - amount
<1> DEFINE k == <<owner, spender>>
<1>1. /\ allowances \in [Users \X Accounts -> Nat] /\ k \in Users \X Accounts
      /\ allowances[k] >= amount
      /\ allowances' = [allowances EXCEPT ![k] = allowances[k] - amount]
  BY DEF deduct_allowance, TypeOK
<1> HIDE DEF k
<1>2. allowances[k] - amount \in Nat
  BY <1>1
<1>3. /\ allowances' \in [Users \X Accounts -> Nat]
      /\ allowances'[k] = allowances[k] - amount
  BY <1>1, <1>2
<1> QED
  BY <1>3 DEF k

\* A request grows by its amount, the others stay.
LEMMA Requested ==
    ASSUME TypeOK, NEW sender \in Users, NEW amount \in Nat,
           update_unstake_batch_wait_list(sender, amount)
    PROVE  /\ requested' \in [Users -> Nat]
           /\ requested'[sender] = requested[sender] + amount
           /\ \A u \in Users \ {sender} : requested'[u] = requested[u]
<1>1. /\ requested \in [Users -> Nat]
      /\ requested' = [requested EXCEPT ![sender] = requested[sender] + amount]
  BY DEF update_unstake_batch_wait_list, TypeOK
<1>2. requested[sender] + amount \in Nat
  BY <1>1
<1> QED
  BY <1>1, <1>2

-----------------------------------------------------------------------------
(* The steps.                                                              *)

\* What a step has to keep.
LEMMA Kept ==
    ASSUME TypeOK, balances' \in [Accounts -> Nat],
           allowances' \in [Users \X Accounts -> Nat],
           requested' \in [Users -> Nat],
           paused' \in BOOLEAN, minter' = minter,
           stray' \in Nat, balances'[HUB] = stray',
           total_supply' = Held(balances')
    PROVE  IInv'
<1>1. HUB \in Accounts /\ minter \in Accounts
  BY Types DEF TypeOK
<1>2. total_supply' \in Nat
  BY <1>1, HeldChange
<1> QED
  BY <1>1, <1>2 DEF IInv, TypeOK, HubHoldsOnlyStray, Held

\* A transfer, with or without an allowance.
LEMMA TransferStep ==
    ASSUME IInv, NEW from \in Users, NEW to \in Accounts, NEW amount \in AMOUNTS,
           balances[from] >= amount, balances' = moved(from, to, amount),
           strayed(to, amount), allowances' \in [Users \X Accounts -> Nat],
           UNCHANGED <<total_supply, minter, paused, requested>>
    PROVE  IInv'
<1>1. TypeOK /\ balances[HUB] = stray /\ total_supply = Held(balances)
  BY DEF IInv, HubHoldsOnlyStray, Held
<1>2. amount \in Nat /\ stray \in Nat
  BY <1>1, Types
<1>3. /\ balances' \in [Accounts -> Nat] /\ Held(balances') = Held(balances)
      /\ balances'[HUB] = balances[HUB] + (IF to = HUB THEN amount ELSE 0)
  BY <1>1, <1>2, Moved
<1>4. stray' \in Nat /\ balances'[HUB] = stray'
  BY <1>1, <1>2, <1>3 DEF strayed
<1>5. paused' \in BOOLEAN /\ requested' \in [Users -> Nat]
  BY <1>1 DEF TypeOK
<1> QED
  BY <1>1, <1>3, <1>4, <1>5, Kept

\* A burn of an account's own tokens.
LEMMA BurnStep ==
    ASSUME IInv, NEW user \in Users, NEW amount \in AMOUNTS,
           execute_burn(balances, user, amount),
           allowances' \in [Users \X Accounts -> Nat],
           requested' \in [Users -> Nat],
           UNCHANGED <<minter, paused, stray>>
    PROVE  /\ IInv'
           /\ balances'[user] = balances[user] - amount
           /\ total_supply' = total_supply - amount
           /\ ~paused
<1>1. TypeOK /\ balances[HUB] = stray /\ total_supply = Held(balances)
  BY DEF IInv, HubHoldsOnlyStray, Held
<1>2. /\ amount \in Nat /\ user \in Accounts /\ user # HUB /\ HUB \in Accounts
      /\ balances \in [Accounts -> Nat]
  BY <1>1, Types DEF TypeOK
<1>3. /\ balances' \in [Accounts -> Nat]
      /\ balances'[user] = balances[user] - amount
      /\ balances'[HUB] = balances[HUB]
      /\ Held(balances') = Held(balances) - amount
      /\ total_supply' = total_supply - amount /\ ~paused
  BY <1>2, Burnt
<1>4. paused' \in BOOLEAN /\ stray' \in Nat
  BY <1>1 DEF TypeOK
<1>5. IInv'
  BY <1>1, <1>3, <1>4, Kept
<1> QED
  BY <1>3, <1>5

\* Tokens sent to the hub with the hook: the hub burns as many of its own as
\* it has just received.
LEMMA ReceiveStep ==
    ASSUME IInv, NEW owner \in Users, NEW sender \in Users,
           NEW amount \in AMOUNTS, balances[owner] >= amount,
           receive_cw20(LST_TOKEN, moved(owner, HUB, amount), sender, amount),
           allowances' \in [Users \X Accounts -> Nat],
           UNCHANGED <<minter, paused, stray>>
    PROVE  /\ IInv'
           /\ balances'[owner] = balances[owner] - amount
           /\ total_supply' = total_supply - amount
           /\ requested'[sender] = requested[sender] + amount
           /\ \A u \in Users \ {sender} : requested'[u] = requested[u]
           /\ ~paused
<1> DEFINE m == moved(owner, HUB, amount)
<1>1. TypeOK /\ balances[HUB] = stray /\ total_supply = Held(balances)
  BY DEF IInv, HubHoldsOnlyStray, Held
<1>2. /\ amount \in Nat /\ owner \in Accounts /\ owner # HUB /\ HUB \in Accounts
      /\ balances[HUB] \in Nat
  BY <1>1, Types
<1>3. /\ m \in [Accounts -> Nat] /\ Held(m) = Held(balances)
      /\ m[HUB] = balances[HUB] + amount /\ m[owner] = balances[owner] - amount
  BY <1>1, <1>2, Moved
<1>4. /\ execute_burn(m, HUB, amount)
      /\ update_unstake_batch_wait_list(sender, amount)
  BY DEF receive_cw20
<1> HIDE DEF m
<1>5. /\ balances' \in [Accounts -> Nat] /\ balances'[HUB] = m[HUB] - amount
      /\ balances'[owner] = m[owner]
      /\ Held(balances') = Held(m) - amount
      /\ total_supply' = total_supply - amount /\ ~paused
  BY <1>2, <1>3, <1>4, Burnt
<1>6. /\ requested' \in [Users -> Nat]
      /\ requested'[sender] = requested[sender] + amount
      /\ \A u \in Users \ {sender} : requested'[u] = requested[u]
  BY <1>1, <1>2, <1>4, Requested
<1>7. paused' \in BOOLEAN /\ stray' \in Nat /\ balances'[HUB] = stray'
  BY <1>1, <1>2, <1>3, <1>5 DEF TypeOK
<1>8. IInv'
  BY <1>1, <1>3, <1>5, <1>6, <1>7, Kept
<1> QED
  BY <1>3, <1>5, <1>6, <1>8

\* A step that unstakes `amount` of the owner's tokens for `sender`.
Unstakes(sender, owner, amount) ==
    /\ ~paused
    /\ total_supply' = total_supply - amount
    /\ balances'[owner] = balances[owner] - amount
    /\ requested'[sender] = requested[sender] + amount
    /\ \A u \in Users \ {sender} : requested'[u] = requested[u]
    /\ owner # sender =>
          allowances'[<<owner, sender>>]
              = allowances[<<owner, sender>>] - amount

\* A step that leaves the requests as they are.
NoRequest ==
    /\ requested' = requested
    /\ paused /\ paused' => total_supply' = total_supply

\* The steps of the token that start no request.
LEMMA TokenSteps ==
    ASSUME IInv, NEW user \in Users,
           \/ Transfer(user) \/ TransferFrom(user)
           \/ IncreaseAllowance(user) \/ DecreaseAllowance(user)
           \/ Burn(user) \/ BurnFrom(user) \/ Stake(user)
    PROVE  IInv' /\ NoRequest
<1>1. /\ TypeOK /\ balances[HUB] = stray /\ total_supply = Held(balances)
      /\ allowances \in [Users \X Accounts -> Nat]
      /\ requested \in [Users -> Nat] /\ user \in Accounts
      /\ balances \in [Accounts -> Nat] /\ stray \in Nat /\ paused \in BOOLEAN
  BY Types DEF IInv, HubHoldsOnlyStray, Held, TypeOK
<1>2. CASE Transfer(user)
  <2>1. PICK to \in Accounts, amount \in AMOUNTS :
          /\ balances[user] >= amount
          /\ balances' = moved(user, to, amount)
          /\ strayed(to, amount)
          /\ UNCHANGED <<allowances, total_supply, minter, paused, requested>>
    BY <1>2 DEF Transfer
  <2>2. IInv'
    BY <1>1, <2>1, TransferStep
  <2> QED
    BY <2>1, <2>2 DEF NoRequest
<1>3. CASE TransferFrom(user)
  <2>1. PICK owner \in Users, to \in Accounts, amount \in AMOUNTS :
          /\ deduct_allowance(owner, user, amount)
          /\ balances[owner] >= amount
          /\ balances' = moved(owner, to, amount)
          /\ strayed(to, amount)
          /\ UNCHANGED <<total_supply, minter, paused, requested>>
    BY <1>3 DEF TransferFrom
  <2>2. allowances' \in [Users \X Accounts -> Nat]
    BY <1>1, <2>1, Types, Deducted
  <2>3. IInv'
    BY <2>1, <2>2, TransferStep
  <2> QED
    BY <2>1, <2>3 DEF NoRequest
<1>4. CASE IncreaseAllowance(user) \/ DecreaseAllowance(user)
  <2>1. PICK k \in Users \X Accounts, amount \in AMOUNTS :
          /\ \/ allowances' = [allowances EXCEPT ![k] = allowances[k] + amount]
             \/ allowances' = [allowances EXCEPT ![k] =
                    IF amount < allowances[k] THEN allowances[k] - amount ELSE 0]
          /\ UNCHANGED <<balances, total_supply, minter, paused, requested, stray>>
    BY <1>4, Zenon DEF IncreaseAllowance, DecreaseAllowance
  <2>2. amount \in Nat /\ allowances[k] \in Nat
    BY <1>1, Types
  <2>3. /\ allowances[k] + amount \in Nat
        /\ (IF amount < allowances[k] THEN allowances[k] - amount ELSE 0) \in Nat
    BY <2>2
  <2>4. allowances' \in [Users \X Accounts -> Nat]
    BY <1>1, <2>1, <2>3
  <2>5. IInv'
    BY <1>1, <2>1, <2>4, Kept
  <2> QED
    BY <2>1, <2>5 DEF NoRequest
<1>5. CASE Burn(user)
  <2>1. PICK amount \in AMOUNTS :
          /\ execute_burn(balances, user, amount)
          /\ UNCHANGED <<allowances, minter, paused, requested, stray>>
    BY <1>5 DEF Burn
  <2> QED
    BY <1>1, <2>1, BurnStep DEF NoRequest
<1>6. CASE BurnFrom(user)
  <2>1. PICK owner \in Users, amount \in AMOUNTS :
          /\ deduct_allowance(owner, user, amount)
          /\ execute_burn(balances, owner, amount)
          /\ UNCHANGED <<minter, paused, requested, stray>>
    BY <1>6 DEF BurnFrom, execute_burn_from
  <2>2. allowances' \in [Users \X Accounts -> Nat]
    BY <1>1, <2>1, Types, Deducted
  <2> QED
    BY <1>1, <2>1, <2>2, BurnStep DEF NoRequest
<1>7. CASE Stake(user)
  <2>1. PICK amount \in MINT_AMOUNTS :
          /\ ~paused
          /\ balances' = [balances EXCEPT ![user] = balances[user] + amount]
          /\ total_supply' = total_supply + amount
          /\ UNCHANGED <<allowances, minter, paused, requested, stray>>
    BY <1>7 DEF Stake, execute_mint
  <2>2. amount \in Nat /\ balances[user] \in Nat /\ user # HUB /\ HUB \in Accounts
    BY <1>1, Types
  <2>3. balances[user] + amount \in Nat
    BY <2>2
  <2>4. /\ balances' \in [Accounts -> Nat]
        /\ balances'[user] = balances[user] + amount
        /\ \A a \in Accounts \ {user} : balances'[a] = balances[a]
    BY <1>1, <2>1, <2>3
  <2>5. /\ Held(balances) \in Nat /\ Held(balances') \in Nat
        /\ Held(balances') + balances[user] = Held(balances) + balances'[user]
    BY <1>1, <2>4, HeldChange
  <2>6. total_supply' = Held(balances')
    BY <1>1, <2>1, <2>2, <2>4, <2>5
  <2>7. balances'[HUB] = stray'
    BY <1>1, <2>1, <2>2, <2>4
  <2>8. IInv'
    BY <1>1, <2>1, <2>4, <2>6, <2>7, Kept
  <2> QED
    BY <2>1, <2>8 DEF NoRequest
<1> QED
  BY <1>2, <1>3, <1>4, <1>5, <1>6, <1>7

\* The steps that start a request.
LEMMA RequestSteps ==
    ASSUME IInv, NEW user \in Users, Send(user) \/ SendFrom(user) \/ Unstake(user)
    PROVE  /\ IInv'
           /\ \E owner \in Users, amount \in AMOUNTS :
                 Unstakes(user, owner, amount)
<1>1. /\ TypeOK /\ user \in Accounts /\ HUB \in Accounts
      /\ allowances \in [Users \X Accounts -> Nat]
      /\ requested \in [Users -> Nat]
      /\ \A amount \in AMOUNTS : amount \in Nat
  BY Types DEF IInv, TypeOK
<1>2. CASE Send(user)
  <2>1. PICK token \in TOKENS, amount \in AMOUNTS :
          /\ token = LST_TOKEN => balances[user] >= amount
          /\ receive_cw20(token,
                          IF token = LST_TOKEN THEN moved(user, HUB, amount)
                                               ELSE balances,
                          user, amount)
          /\ UNCHANGED <<allowances, minter, paused, stray>>
    BY <1>2 DEF Send
  <2>2. token = LST_TOKEN
    BY <2>1 DEF receive_cw20
  <2>3. /\ balances[user] >= amount
        /\ receive_cw20(LST_TOKEN, moved(user, HUB, amount), user, amount)
    BY <2>1, <2>2
  <2>4. IInv' /\ Unstakes(user, user, amount)
    BY <1>1, <2>1, <2>3, ReceiveStep DEF Unstakes
  <2> QED
    BY <2>4
<1>3. CASE SendFrom(user)
  <2>1. PICK owner \in Users, amount \in AMOUNTS :
          /\ deduct_allowance(owner, user, amount)
          /\ balances[owner] >= amount
          /\ receive_cw20(LST_TOKEN, moved(owner, HUB, amount), user, amount)
          /\ UNCHANGED <<minter, paused, stray>>
    BY <1>3 DEF SendFrom
  <2>2. /\ allowances' \in [Users \X Accounts -> Nat]
        /\ allowances'[<<owner, user>>] = allowances[<<owner, user>>] - amount
    BY <1>1, <2>1, Deducted
  <2>3. IInv' /\ Unstakes(user, owner, amount)
    BY <2>1, <2>2, ReceiveStep DEF Unstakes
  <2> QED
    BY <2>3
<1>4. CASE Unstake(user)
  <2>1. PICK amount \in AMOUNTS :
          /\ update_unstake_batch_wait_list(user, amount)
          /\ deduct_allowance(user, HUB, amount)
          /\ execute_burn(balances, user, amount)
          /\ UNCHANGED <<minter, paused, stray>>
    BY <1>4 DEF Unstake, execute_burn_from
  <2>2. allowances' \in [Users \X Accounts -> Nat]
    BY <1>1, <2>1, Deducted
  <2>3. /\ requested' \in [Users -> Nat]
        /\ requested'[user] = requested[user] + amount
        /\ \A u \in Users \ {user} : requested'[u] = requested[u]
    BY <1>1, <2>1, Requested
  <2>4. IInv' /\ Unstakes(user, user, amount)
    BY <2>1, <2>2, <2>3, BurnStep DEF Unstakes
  <2> QED
    BY <2>4
<1> QED
  BY <1>2, <1>3, <1>4

\* Every step keeps the invariant and starts a request in one of these ways
\* or not at all.
LEMMA NextStep ==
    ASSUME IInv, [Next]_vars
    PROVE  /\ IInv'
           /\ \/ NoRequest
              \/ \E sender, owner \in Users, amount \in AMOUNTS :
                    Unstakes(sender, owner, amount)
<1>1. CASE UNCHANGED vars
  BY <1>1 DEF vars, IInv, TypeOK, HubHoldsOnlyStray, NoRequest
<1>2. CASE UpdateParams
  BY <1>2 DEF UpdateParams, IInv, TypeOK, HubHoldsOnlyStray, NoRequest
<1> QED
  BY <1>1, <1>2, TokenSteps, RequestSteps DEF Next

\* The invariant holds of the new token.
LEMMA InitIInv == Init => IInv
<1> SUFFICES ASSUME Init PROVE IInv
  OBVIOUS
<1>1. TypeOK
  BY DEF Init, TypeOK, Accounts
<1>2. \A a \in Accounts : balances[a] = 0
  BY DEF Init
<1>3. Held(balances) = 0
  <2>1. IsFiniteSet(Accounts)
    BY TokenAssumption, FS_AddElement DEF Accounts
  <2>2. Held(balances) = SumOver(balances, Accounts)
    BY <1>2, <2>1, SumFunctionIsSum DEF Held
  <2>3. Units(balances, Accounts) = {}
    BY <1>2 DEF Units
  <2> QED
    BY <2>2, <2>3, FS_EmptySet DEF SumOver
<1> QED
  BY <1>1, <1>2, <1>3, Types DEF IInv, HubHoldsOnlyStray, Held, Init

\* The invariant holds of every behaviour.
LEMMA Invariance == Spec => []IInv
<1>1. IInv /\ [Next]_vars => IInv'
  BY NextStep
<1> QED
  BY <1>1, InitIInv, PTL DEF Spec

-----------------------------------------------------------------------------
(* The theorems.                                                           *)

\* No balance, allowance, supply or request underflows (cw20-base; lst_token
\* contract.rs:140-177).
THEOREM TypeCorrect == Spec => []TypeOK
  BY Invariance, PTL DEF IInv

\* The supply is what the accounts hold, and the hub holds what was moved to
\* it without a hook, however the two unstake flows, transfers, burns and
\* pauses are mixed (unstake.rs:53-86, contract.rs:349-376).
THEOREM SupplyHeld == Spec => []HubHoldsOnlyStray
  BY Invariance, PTL DEF IInv

\* A request of some amount burns as many tokens of one owner, who is the
\* requester or had allowed it (unstake.rs:40-86, contract.rs:360-373).
THEOREM EveryRequestBacked == Spec => RequestsBacked
<1> DEFINE Backed ==
        \A u \in Users :
            LET amount == requested'[u] - requested[u] IN
            amount > 0 =>
                /\ total_supply' = total_supply - amount
                /\ \E owner \in Users :
                      /\ balances'[owner] = balances[owner] - amount
                      /\ \A v \in Users \ {u} : requested'[v] = requested[v]
                      /\ owner # u =>
                            allowances'[<<owner, u>>]
                                = allowances[<<owner, u>>] - amount
<1>1. ASSUME IInv, [Next]_vars
      PROVE  Backed
  <2>1. \A u \in Users : requested[u] \in Nat
    BY <1>1, Types DEF IInv
  <2>2. CASE NoRequest
    BY <2>1, <2>2 DEF NoRequest
  <2>3. ASSUME NEW sender \in Users, NEW owner \in Users, NEW amount \in AMOUNTS,
               Unstakes(sender, owner, amount)
        PROVE  Backed
    <3>1. amount \in Nat
      BY <1>1, Types DEF IInv
    <3>2. requested'[sender] - requested[sender] = amount
      BY <2>1, <2>3, <3>1 DEF Unstakes
    <3>3. \A u \in Users \ {sender} : ~(requested'[u] - requested[u] > 0)
      BY <2>1, <2>3 DEF Unstakes
    <3> SUFFICES ASSUME NEW u \in Users, requested'[u] - requested[u] > 0
                 PROVE  /\ total_supply' = total_supply - amount
                        /\ \E o \in Users :
                              /\ balances'[o] = balances[o] - amount
                              /\ \A v \in Users \ {u} :
                                    requested'[v] = requested[v]
                              /\ o # u => allowances'[<<o, u>>]
                                            = allowances[<<o, u>>] - amount
      BY <3>2, <3>3
    <3>4. u = sender
      BY <3>3
    <3> QED
      BY <2>3, <3>4 DEF Unstakes
  <2> QED
    BY <1>1, <2>2, <2>3, NextStep
<1>2. IInv /\ [Next]_vars => [Backed]_vars
  BY <1>1
<1> QED
  BY <1>2, Invariance, PTL DEF Spec, RequestsBacked

\* While the hub is paused nothing changes the supply or a request (lst_token
\* contract.rs:140-177).
THEOREM PausedFreezesSupply == Spec => PausedSupplyFrozen
<1>1. ASSUME IInv, [Next]_vars
      PROVE  paused /\ paused' =>
                total_supply' = total_supply /\ requested' = requested
  BY <1>1, NextStep DEF NoRequest, Unstakes
<1>2. IInv /\ [Next]_vars =>
        [paused /\ paused' =>
            total_supply' = total_supply /\ requested' = requested]_vars
  BY <1>1
<1> QED
  BY <1>2, Invariance, PTL DEF Spec, PausedSupplyFrozen


=============================================================================
