------------------------- MODULE ValidatorsRegistry -------------------------
(***************************************************************************)
(* The validators registry with the hub's stake on each validator and the  *)
(* epoching module's queue, message by message.  The owner registers and   *)
(* removes validators while stakes and closed batches are split over the   *)
(* registered ones; ProcessRedelegations, which anyone may call, moves the *)
(* stake of removed validators to the registered ones through the hub's    *)
(* RedelegateProxy.  All messages wait in one queue until the epoch ends.  *)
(*                                                                         *)
(* One action is one transaction; one that fails takes no step.  The hub   *)
(* is not paused: while it is, the steps that go through it do not occur.  *)
(***************************************************************************)
EXTENDS Delegation, Functions

CONSTANTS
    N,                  \* validators of the chain, 1 .. N, in key order
    INITIAL,            \* validators of the instantiate message
    PREFIXES,           \* prefixes of the addresses given to AddValidator
    HUB_CONTRACTS,      \* what the owner may set hub_contract to, HUB among it
    STAKE_AMOUNTS, UNSTAKE_AMOUNTS,
    SLASH_AMOUNTS,      \* what one slash takes from one validator
    MaxStaked,          \* bound: no stake beyond this sum
    MaxFaults,          \* bound: slashes and redelegations the chain refuses
    MaxCalls            \* bound: ProcessRedelegations in one epoch

VALIDATOR_ADDR_PREFIX == "bbnvaloper"
Validators == 1 .. N
Address == [id : Validators, prefix : {"bbn", VALIDATOR_ADDR_PREFIX}]

\* The hub's account; validators are numbered from one.
HUB == 0

ASSUME RegistryAssumption ==
    /\ N \in Nat \ {0} /\ INITIAL \subseteq Validators
    /\ PREFIXES \subseteq {"bbn", VALIDATOR_ADDR_PREFIX}
    /\ HUB \in HUB_CONTRACTS /\ HUB_CONTRACTS \subseteq Nat
    /\ STAKE_AMOUNTS \subseteq Nat \ {0} /\ UNSTAKE_AMOUNTS \subseteq Nat
    /\ SLASH_AMOUNTS \subseteq Nat \ {0}
    /\ MaxStaked \in Nat /\ MaxFaults \in Nat /\ MaxCalls \in Nat

VARIABLES
    registry,       \* VALIDATOR_REGISTRY: validator -> address as stored
    exclude_list,   \* VALIDATOR_EXCLUDE_LIST
    hub_contract,   \* CONFIG.hub_contract
    delegated,      \* the hub's executed delegations, by validator
    queue,          \* the epoching module's message queue
    batch_closed,   \* a batch has been closed in this staking epoch
    calls,          \* ProcessRedelegations in this staking epoch
    disturbed,      \* history variable: a slash, or a validator registered
                    \* again behind its queued redelegation, in this epoch
    faults          \* slashes and refused redelegations so far

registryVars == <<registry, exclude_list, hub_contract>>
vars == <<registryVars, delegated, queue, batch_closed, calls, disturbed,
          faults>>

\* A queued message moves an amount; the hub's bank account is HUB.
Message == [src : Validators \cup {HUB}, dst : Validators \cup {HUB},
            amount : Nat]

TypeOK ==
    /\ DOMAIN registry \subseteq Validators
    /\ \A v \in DOMAIN registry : registry[v] \in Address
    /\ exclude_list \subseteq Validators
    /\ hub_contract \in HUB_CONTRACTS
    /\ delegated \in [Validators -> Nat]
    /\ queue \in Seq(Message)
    /\ batch_closed \in BOOLEAN /\ calls \in Nat
    /\ disturbed \in BOOLEAN /\ faults \in Nat

convert_addr_by_prefix(address, prefix) == [address EXCEPT !.prefix = prefix]

\* instantiate stores the address that the chain reports.
Init ==
    /\ registry = [v \in INITIAL |->
                      [id |-> v, prefix |-> VALIDATOR_ADDR_PREFIX]]
    /\ exclude_list = {}
    /\ hub_contract = HUB
    /\ delegated = [v \in Validators |-> 0]
    /\ queue = <<>>
    /\ batch_closed = FALSE
    /\ calls = 0
    /\ disturbed = FALSE
    /\ faults = 0

-----------------------------------------------------------------------------
(* What the registry answers.                                              *)

\* The delegations of hub_contract, looked up under an address: the chain
\* reports them under operator addresses.
delegation_of(address) ==
    IF hub_contract = HUB /\ address.prefix = VALIDATOR_ADDR_PREFIX
    THEN delegated[address.id] ELSE 0

total_delegated(v) == delegation_of(registry[v])

active_validators == DOMAIN registry

\* Ascending by delegation, equal ones in key order: the sort is stable.
query_validators ==
    in_order(active_validators,
             [v \in active_validators |-> total_delegated(v)])

\* The delegations in an answer.
delegations_in(validators) ==
    [i \in DOMAIN validators |-> total_delegated(validators[i])]

query_exclude_list == in_order(exclude_list, [v \in exclude_list |-> 0])

-----------------------------------------------------------------------------
(* Messages to the epoching module; amounts of zero are skipped.           *)

wrapped(messages) ==
    LET kept[i \in 0 .. Len(messages)] ==
            IF i = 0 THEN <<>>
            ELSE IF messages[i].amount = 0 THEN kept[i - 1]
            ELSE Append(kept[i - 1], messages[i])
    IN  kept[Len(messages)]

\* The chain decodes operator addresses only: a message with an account address
\* fails, with the transaction that sends it.  (The double in babylon.rs
\* converts it; the behaviours here are among those of the double.)
accepted(messages) ==
    \A i \in DOMAIN messages :
        \A v \in {messages[i].src, messages[i].dst} \cap DOMAIN registry :
            registry[v].prefix = VALIDATOR_ADDR_PREFIX

prepare_wrapped_delegate_msgs(validators, split) ==
    wrapped([i \in DOMAIN split |->
        [src |-> HUB, dst |-> validators[i], amount |-> split[i]]])

prepare_wrapped_undelegate_msgs(validators, split) ==
    wrapped([i \in DOMAIN split |->
        [src |-> validators[i], dst |-> HUB, amount |-> split[i]]])

\* Mutant: the message undelegates instead of redelegating.
Mut_execute_redelegate_proxy(src_validator, validators, split) ==
    wrapped([i \in DOMAIN split |->
        [src |-> src_validator, dst |-> HUB, amount |-> split[i]]])

\* RedelegateProxy of the hub.
execute_redelegate_proxy(src_validator, validators, split) ==
    wrapped([i \in DOMAIN split |->
        [src |-> src_validator, dst |-> validators[i],
         amount |-> split[i]]])

-----------------------------------------------------------------------------
(* The owner's operations.                                                 *)

\* A redelegation away from v is queued.
leaving(v) == \E i \in DOMAIN queue : queue[i].src = v /\ queue[i].dst # HUB

\* AddValidator: the address is stored as given, under the chain's address.
add_validator(address) ==
    LET info == convert_addr_by_prefix(address, VALIDATOR_ADDR_PREFIX) IN
    /\ registry' = [v \in DOMAIN registry \cup {info.id} |->
                       IF v = info.id THEN address ELSE registry[v]]
    /\ exclude_list' = exclude_list \ {info.id}
    /\ disturbed' = (disturbed \/ leaving(info.id))
    /\ UNCHANGED <<hub_contract, delegated, queue, batch_closed, calls, faults>>

\* Mutant: the removed validator is not put on the exclude list.
Mut_remove_validator(v) ==
    /\ registry' = Restrict(registry, DOMAIN registry \ {v})
    /\ UNCHANGED <<exclude_list, hub_contract, delegated, queue, batch_closed,
                   calls, disturbed, faults>>

\* RemoveValidator: also one that is not registered, also the last one.
remove_validator(v) ==
    /\ registry' = Restrict(registry, DOMAIN registry \ {v})
    /\ exclude_list' = exclude_list \cup {v}
    /\ UNCHANGED <<hub_contract, delegated, queue, batch_closed, calls,
                   disturbed, faults>>

update_config ==
    /\ hub_contract' \in HUB_CONTRACTS
    /\ UNCHANGED <<registry, exclude_list, delegated, queue, batch_closed,
                   calls, disturbed, faults>>

-----------------------------------------------------------------------------
(* Operations that anyone may start.                                       *)

\* Mutant: a last coin is not worth a message.
Mut_redelegations(v, validators) ==
    LET held == delegation_of([id |-> v, prefix |-> VALIDATOR_ADDR_PREFIX]) IN
    IF held <= 1 THEN <<>>
    ELSE execute_redelegate_proxy(v, validators,
            calculate_delegations(held, delegations_in(validators)))

\* The messages for one excluded validator: all it holds is split over the
\* active ones, by the figures of before this call.
redelegations(v, validators) ==
    LET held == delegation_of([id |-> v, prefix |-> VALIDATOR_ADDR_PREFIX]) IN
    IF held = 0 THEN <<>>
    ELSE execute_redelegate_proxy(v, validators,
            calculate_delegations(held, delegations_in(validators)))

\* The messages for a list of excluded validators, in its order.
all_redelegations(excluded, validators) ==
    LET sent[i \in 0 .. Len(excluded)] ==
            IF i = 0 THEN <<>>
            ELSE sent[i - 1] \o redelegations(excluded[i], validators)
    IN  sent[Len(excluded)]

\* The unwrap of calculate_delegations does not panic: what has to be moved
\* has somewhere to go.
redelegation_possible ==
    \A v \in exclude_list :
        delegation_of([id |-> v, prefix |-> VALIDATOR_ADDR_PREFIX]) # 0
            => active_validators # {}

\* ProcessRedelegations
process_redelegations ==
    /\ calls < MaxCalls
    /\ calls' = calls + 1
    /\ redelegation_possible
    /\ UNCHANGED <<registryVars, delegated, batch_closed, disturbed, faults>>
    /\ \E messages \in {all_redelegations(query_exclude_list,
                                          query_validators)} :
          accepted(messages) /\ queue' = queue \o messages

\* What the queue will add to the stake.
QueuedFrom(account) ==
    SumFunction([i \in DOMAIN queue |->
        IF queue[i].src = account THEN queue[i].amount ELSE 0])
QueuedTo(account) ==
    SumFunction([i \in DOMAIN queue |->
        IF queue[i].dst = account THEN queue[i].amount ELSE 0])

\* The delegation messages of execute_stake.
Stake ==
    \E amount \in STAKE_AMOUNTS :
        LET validators == query_validators
            current == delegations_in(validators)
            messages == prepare_wrapped_delegate_msgs(validators,
                            calculate_delegations(amount, current))
        IN
        /\ Total(delegated) + QueuedFrom(HUB) + amount <= MaxStaked
        /\ ~delegations_fail(amount, current)
        /\ accepted(messages)
        /\ queue' = queue \o messages
        /\ UNCHANGED <<registryVars, delegated, batch_closed, calls, disturbed,
                       faults>>

\* Mutant: batches may be closed without waiting for the staking epoch.
Mut_CloseBatch ==
    \E claim \in UNSTAKE_AMOUNTS :
        LET validators == query_validators
            current == delegations_in(validators)
        IN
        /\ Len(queue) < 4
        /\ ~undelegations_fail(claim, current)
        /\ queue' = queue \o prepare_wrapped_undelegate_msgs(validators,
                                calculate_undelegations(claim, current))
        /\ batch_closed' = TRUE
        /\ UNCHANGED <<registryVars, delegated, calls, disturbed, faults>>

\* The undelegation messages of a closed batch, at most one in an epoch
\* (OneBatchPerStakingEpoch of StakingHub).
CloseBatch ==
    \E claim \in UNSTAKE_AMOUNTS :
        LET validators == query_validators
            current == delegations_in(validators)
            messages == prepare_wrapped_undelegate_msgs(validators,
                            calculate_undelegations(claim, current))
        IN
        /\ ~batch_closed
        /\ ~undelegations_fail(claim, current)
        /\ accepted(messages)
        /\ queue' = queue \o messages
        /\ batch_closed' = TRUE
        /\ UNCHANGED <<registryVars, delegated, calls, disturbed, faults>>

-----------------------------------------------------------------------------
(* The chain.                                                              *)

\* Mutant: a message is executed even if it is not covered.
Mut_executed(ledger, m) ==
    [v \in Validators |->
        ledger[v] + (IF m.dst = v THEN m.amount ELSE 0)
                  - (IF m.src = v THEN m.amount ELSE 0)]

\* The ledger after one message; one that is not covered fails alone.
executed(ledger, m) ==
    IF m.src # HUB /\ ledger[m.src] < m.amount THEN ledger
    ELSE [v \in Validators |->
            ledger[v] + (IF m.dst = v THEN m.amount ELSE 0)
                      - (IF m.src = v THEN m.amount ELSE 0)]

\* The ledgers while the queue is executed in order, but for the messages at
\* the positions `refused`.
on_epoch_end(refused) ==
    LET ledger[i \in 0 .. Len(queue)] ==
            IF i = 0 THEN delegated
            ELSE IF i \in refused THEN ledger[i - 1]
            ELSE executed(ledger[i - 1], queue[i])
    IN  ledger

\* The chain may refuse a redelegation although it is covered: a validator
\* that received a redelegation recently cannot pass it on.
EpochEnd ==
    /\ queue' = <<>>
    /\ batch_closed' = FALSE
    /\ calls' = 0
    /\ disturbed' = FALSE
    /\ UNCHANGED registryVars
    /\ \E refused \in SUBSET {i \in DOMAIN queue :
                                queue[i].src # HUB /\ queue[i].dst # HUB} :
          /\ faults' = faults + Cardinality(refused)
          /\ faults' <= MaxFaults
          /\ delegated' = on_epoch_end(refused)[Len(queue)]

SlashValidator(v) ==
    /\ faults < MaxFaults
    /\ \E a \in SLASH_AMOUNTS :
          /\ a < delegated[v]
          /\ delegated' = [delegated EXCEPT ![v] = @ - a]
    /\ disturbed' = TRUE
    /\ faults' = faults + 1
    /\ UNCHANGED <<registryVars, queue, batch_closed, calls>>

Next ==
    \/ \E v \in Validators, prefix \in PREFIXES :
          add_validator([id |-> v, prefix |-> prefix])
    \/ \E v \in Validators : remove_validator(v)
    \/ update_config
    \/ process_redelegations
    \/ Stake
    \/ CloseBatch
    \/ EpochEnd
    \/ \E v \in Validators : SlashValidator(v)

Spec == Init /\ [][Next]_vars

-----------------------------------------------------------------------------
(* Safety.                                                                 *)

\* No stake is forgotten: what the registry reports for its validators and
\* what the excluded ones hold is all the hub has delegated, and so it stays
\* when the queue is executed.  Batches reach the first part
\* (unstake.rs:272-291), ProcessRedelegations the second (contract.rs:166-210).
StakeAccountedFor ==
    LET after == on_epoch_end({})[Len(queue)] IN
    hub_contract = HUB =>
          /\ Total(delegations_in(query_validators))
                + SumFunctionOnSet(delegated, exclude_list) = Total(delegated)
          /\ \A v \in Validators :
                after[v] > 0 => v \in DOMAIN registry \cup exclude_list

\* The redelegations and undelegations of an epoch do not get in each other's
\* way: unless a slash or a registration behind a queued redelegation disturbs
\* the epoch, every undelegation of a closed batch is executed, however
\* validators are removed and ProcessRedelegations repeated meanwhile
\* (contract.rs:138-215, unstake.rs:250-294).
UndelegationsExecuted ==
    LET ledger == on_epoch_end({}) IN
    ~disturbed =>
        \A i \in DOMAIN queue :
            queue[i].dst = HUB => ledger[i - 1][queue[i].src] >= queue[i].amount

\* The hub can treat its stake as one sum: redelegations do not change it and
\* no undelegation is lost without a disturbance.
Pool == INSTANCE StakePool WITH
            delegated <- Total(delegated),
            to_delegate <- QueuedFrom(HUB),
            to_undelegate <- QueuedTo(HUB),
            calm <- ~disturbed
ImplementsStakePool == Pool!PoolSpec

-----------------------------------------------------------------------------
(* Liveness.                                                               *)

(***************************************************************************)
(* Epochs end, and somebody calls ProcessRedelegations when it succeeds.   *)
(* The second conjunct is WF_vars(process_redelegations), which no other   *)
(* action shares its effect on `calls` with, for registries that hold      *)
(* operator addresses; TLC decides when this form is enabled much faster.  *)
(***************************************************************************)
FairSpec ==
    /\ Spec
    /\ WF_vars(EpochEnd)
    /\ WF_calls(calls < MaxCalls /\ redelegation_possible /\ calls' = calls + 1)

\* A removed validator is emptied: whatever else is queued, slashed or
\* refused, repeated calls move all its stake, unless the owner registers it
\* again, leaves no validator to move it to or points the registry away from
\* the hub (contract.rs:138-215).
ExcludedDrained ==
    \A v \in Validators :
        v \in exclude_list ~> \/ delegated[v] = 0
                              \/ v \notin exclude_list
                              \/ active_validators = {}
                              \/ hub_contract # HUB

-----------------------------------------------------------------------------
(* What a comment of the code says.                                        *)

\* validator.rs:43: ValidatorsDelegation returns the delegation done by the
\* hub in the network.
ReportedIsDelegated ==
    hub_contract = HUB => \A v \in DOMAIN registry : total_delegated(v) = delegated[v]
=============================================================================
