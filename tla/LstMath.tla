------------------------------ MODULE LstMath ------------------------------
(***************************************************************************)
(* The arithmetic of the liquid staking contracts.  An amount is a natural *)
(* number of base units; a Decimal is the natural number of its atomics,   *)
(* DECIMAL_FRACTIONAL atomics to one (10^18 in the code; a parameter here, *)
(* because every statement below holds for each positive scale and TLC     *)
(* counts with 32-bit integers).                                           *)
(***************************************************************************)
EXTENDS Integers

CONSTANT DECIMAL_FRACTIONAL

ASSUME ScaleAssumption == DECIMAL_FRACTIONAL \in Nat \ {0}

\* Decimal::one()
One == DECIMAL_FRACTIONAL

\* Decimal::from_ratio: the quotient rounded down to a whole atomic.
from_ratio(numerator, denominator) ==
    (numerator * DECIMAL_FRACTIONAL) \div denominator

decimal_multiplication(a, b) == (a * b) \div DECIMAL_FRACTIONAL

\* Mutant: the quotient rounded up instead of down.
Mut_division_ceil(numerator, denominator) ==
    (numerator * DECIMAL_FRACTIONAL + denominator - 1) \div denominator

\* The code panics when the denominator is zero: callers guard against it.
decimal_division(numerator, denominator) ==
    (numerator * DECIMAL_FRACTIONAL) \div denominator

(***************************************************************************)
(* State::update_lst_exchange_rate: the rate at which LST tokens, those    *)
(* still issued and those already burnt into the open batch, share the     *)
(* staked total.  With nothing staked, or nobody to share it, it is one.   *)
(***************************************************************************)
updated_exchange_rate(total_staked, total_issued, requested) ==
    IF total_staked = 0 \/ total_issued + requested = 0
    THEN One
    ELSE from_ratio(total_staked, total_issued + requested)

\* The reward dispatcher's fee: rewards * fee_rate, rounded up.
compute_fee(amount, fee_rate) ==
    (amount * fee_rate + DECIMAL_FRACTIONAL - 1) \div DECIMAL_FRACTIONAL
=============================================================================
