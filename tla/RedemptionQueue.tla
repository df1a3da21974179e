--------------------------- MODULE RedemptionQueue ---------------------------
(***************************************************************************)
(* What the hub promises to the users who redeem LST tokens, without the   *)
(* staking behind it.  Requests are collected in numbered batches.  A      *)
(* closed batch has a final rate.  Batches are released in order, each     *)
(* release setting coins of the vault aside, and an entry of a released    *)
(* batch is paid once, at its batch's rate.  Coins leave the vault in no   *)
(* other way, and what is set aside always covers what is owed.            *)
(***************************************************************************)
EXTENDS LstMath, FiniteSetsExt

CONSTANT Users

VARIABLES
    entry,      \* (user, batch) -> LST amount still to be paid
    open,       \* the batch that takes requests
    rate,       \* rates of the batches before it
    released,   \* batches up to this one are released
    reserve,    \* coins set aside for released batches
    vault       \* coins at hand

queueVars == <<entry, open, rate, released, reserve, vault>>

value(k) == decimal_multiplication(entry[k], rate[k[2]])
ValueOf(keys) == SumFunction([k \in keys |-> value(k)])

\* What users can claim now.
Owed == ValueOf({k \in DOMAIN entry : k[2] <= released})

Solvent == Owed <= reserve /\ reserve <= vault

QueueInit ==
    /\ entry = [k \in {} |-> 0]
    /\ open = 1
    /\ rate = [b \in 1 .. 0 |-> 0]
    /\ released = 0
    /\ reserve = 0
    /\ vault = 0

\* One user adds to the entry of the open batch.
request(user) ==
    LET key == <<user, open>> IN
    /\ DOMAIN entry' = DOMAIN entry \cup {key}
    /\ \A k \in DOMAIN entry :
          IF k = key THEN entry'[k] >= entry[k] ELSE entry'[k] = entry[k]

\* The open batch gets its rate.
close ==
    /\ open' = open + 1
    /\ DOMAIN rate' = 1 .. open
    /\ \A b \in DOMAIN rate : rate'[b] = rate[b]

\* Batches are released and coins set aside for them.
release ==
    /\ released' \in released .. open - 1
    /\ Solvent'

Request ==
    /\ \E user \in Users : request(user)
    /\ close \/ UNCHANGED <<open, rate>>
    /\ UNCHANGED <<released, reserve, vault>>

Close ==
    /\ close
    /\ UNCHANGED <<entry, released, reserve, vault>>

Release ==
    /\ release
    /\ reserve' >= reserve
    /\ released' = released => reserve' = reserve
    /\ UNCHANGED <<entry, open, rate, vault>>

\* A user is paid for entries of released batches, possibly released in the
\* same step.
Withdraw ==
    LET paid == DOMAIN entry \ DOMAIN entry'
        payment == ValueOf(paid)
    IN
    /\ release
    /\ \E user \in Users : paid \subseteq {user} \X (1 .. released')
    /\ entry' = [k \in DOMAIN entry \ paid |-> entry[k]]
    /\ payment > 0
    /\ vault' = vault - payment
    /\ reserve' >= reserve - payment
    /\ released' = released => reserve' = reserve - payment
    /\ UNCHANGED <<open, rate>>

\* Coins come back to the vault.
Fund ==
    /\ vault' > vault
    /\ UNCHANGED <<entry, open, rate, released, reserve>>

QueueNext == Request \/ Close \/ Release \/ Withdraw \/ Fund

QueueSpec == QueueInit /\ [][QueueNext]_queueVars
=============================================================================
