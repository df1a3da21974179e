----------------------------- MODULE HubQueries -----------------------------
(***************************************************************************)
(* The queries of the staking hub (query.rs) as operators on the state of  *)
(* StakingHub, compared with what the handlers would do in that state.     *)
(* query_config, query_current_batch and query_parameters return a stored  *)
(* item as it is, query_state returns checked_state.                       *)
(*                                                                         *)
(* A list a query returns is in ascending order of its batch ids, so it is *)
(* a set here.                                                             *)
(***************************************************************************)
EXTENDS StakingHub

\* Mutant: only one epoch is added, however many have passed.
Mut_query_pending_delegation ==
    IF epoch_over(pending)
    THEN [start |-> pending.start + EPOCH_BLOCKS, staking |-> 0, unstaking |-> 0]
    ELSE pending

\* PendingDelegation: the stored record moved to the current staking epoch.
query_pending_delegation ==
    IF epoch_over(pending)
    THEN [start |-> pending.start
                      + ((height - pending.start) \div EPOCH_BLOCKS)
                            * EPOCH_BLOCKS,
          staking |-> 0, unstaking |-> 0]
    ELSE pending

-----------------------------------------------------------------------------
(* A user's requests.                                                      *)

\* The batches in which the user has an entry, the keys of its prefix.
entries(user) == {b \in 1 .. current_batch.id : <<user, b>> \in DOMAIN wait_list}

\* Mutant: the unstaking period is not looked at.
Mut_query_get_finished_amount(user) ==
    SumFunction([b \in entries(user) \cap DOMAIN history |->
                    entry_amount(user, b)])

\* The entries of closed batches strictly older than the cutoff, released
\* or not.
query_get_finished_amount(user) ==
    LET finished_batches == {b \in entries(user) \cap DOMAIN history :
                                history[b].time < unstake_cutoff_time}
    IN  SumFunction([b \in finished_batches |-> entry_amount(user, b)])

\* WithdrawableUnstaked
query_withdrawable_unstaked(user) == query_get_finished_amount(user)

\* Mutant: the page starts after `start_from`.
Mut_page(keys, start_from, limit) ==
    LET range == {b \in keys : b > start_from} IN
    {b \in range : Cardinality({c \in range : c < b}) < limit}

\* Range from a start, inclusive, and take: the first `limit` keys.
page(keys, start_from, limit) ==
    LET range == {b \in keys : b >= start_from} IN
    {b \in range : Cardinality({c \in range : c < b}) < limit}

\* Entries of the page without a history are dropped, after the limit has
\* been applied.
get_unstake_requests(user, start_from, limit) ==
    {[batch_id |-> b, lst_amount |-> wait_list[<<user, b>>],
      withdraw_exchange_rate |-> history[b].lst_withdraw_rate,
      applied_exchange_rate |-> history[b].lst_applied_exchange_rate,
      time |-> history[b].time, released |-> history[b].released] :
        b \in page(entries(user), start_from, limit) \cap DOMAIN history}

\* UnstakeRequests, with no start and no limit, and UnstakeRequestsLimit.
query_unstake_requests(user) == get_unstake_requests(user, 1, current_batch.id)
query_unstake_requests_limit(user, start_from, limit) ==
    get_unstake_requests(user, start_from, limit)

all_unstake_history(start_from, limit) ==
    {[batch_id |-> b, history |-> history[b]] :
        b \in page(DOMAIN history, start_from, limit)}

\* AllHistory
query_unstake_requests_limitation(start_from, limit) ==
    all_unstake_history(start_from, limit)

-----------------------------------------------------------------------------
(* What a client may rely on.                                              *)

\* The pending delegation a client is told is the epoching module's queue and
\* the start of its epoch, at every block and however long nobody has called
\* the hub (query.rs:42-50).
PendingQueryFollowsEpoch ==
    query_pending_delegation =
        [start |-> epoch_start, staking |-> queue.delegate,
         unstaking |-> queue.undelegate]

\* A request from the start on that the page does not show comes after a full
\* page; an item of the history likewise.
PageComplete(start_from, limit) ==
    /\ \A u \in Users :
          LET seen == {r.batch_id : r \in
                   query_unstake_requests_limit(u, start_from, limit)}
          IN
          \A b \in entries(u) \cap DOMAIN history :
              b >= start_from /\ b \notin seen =>
                  Cardinality(seen) = limit /\ \A c \in seen : c < b
    /\ LET seen == {h.batch_id : h \in
                   query_unstake_requests_limitation(start_from, limit)}
       IN
       \A b \in DOMAIN history :
           b >= start_from /\ b \notin seen =>
               Cardinality(seen) = limit /\ \A c \in seen : c < b

\* A client that walks the pages from 1, each time to the id after the last
\* one it saw, misses no request: a page with fewer requests than the limit
\* is followed by none.  The open batch, dropped after the limit is applied,
\* may only shorten the last page (query.rs:162-186); pages of the whole
\* history likewise (query.rs:188-205).
NothingAfterShortPage ==
    \A start_from \in 1 .. MaxBatches + 1, limit \in 1 .. 2 :
        PageComplete(start_from, limit)

\* A withdrawal by the user succeeds in this state and pays at least `amount`:
\* the condition of WithdrawUnstaked, which says what each variable becomes
\* and so is enabled exactly when it holds.
WithdrawalPaysAtLeast(user, amount) ==
    \E last \in state.last_processed_batch .. current_batch.id - 1,
       left \in 0 .. hub_balance :
        /\ withdraw_succeeds(user, user_batches(user), last, left)
        /\ finished_amount(user, user_batches(user), released_history(last))
              >= amount

\* Every undelegated coin has come back.
NothingUnbonding == unbonding = 0 /\ queue.undelegate = 0 /\ lost = 0

\* The withdrawable amount a user is told is not only an estimate once the
\* unbonded coins are back: unless the hub is paused a withdrawal pays it, in
\* full, whoever else has been paid or has staked meanwhile (query.rs:68-84
\* against unstake.rs:437-503).
EstimateHonoured ==
    \A u \in Users :
        LET estimate == query_withdrawable_unstaked(u) IN
        NothingUnbonding /\ ~params.paused /\ estimate > 0 =>
            WithdrawalPaysAtLeast(u, estimate)

\* "Released amount can be withdrawn immediately" (hub.rs:80): what a user's
\* requests show as released is paid by a withdrawal at once, even while other
\* batches unbond, unless the hub is paused.
ReleasedWithdrawable ==
    \A u \in Users :
        LET released == {r \in query_unstake_requests(u) : r.released}
            amount == SumFunction([r \in released |->
                                      entry_amount(u, r.batch_id)])
        IN
        ~params.paused /\ amount > 0 =>
            WithdrawalPaysAtLeast(u, amount)
=============================================================================
