------------------------------- MODULE Money -------------------------------
(***************************************************************************)
(* Amounts of money as the repository handles them: whole cents, and a     *)
(* platform fee in basis points of the gross amount, computed in           *)
(* packages/shared as Math.floor(gross * bps / 10000).  That is exact on   *)
(* the amounts the Int columns can hold (products below 2^53), so integer  *)
(* division stands for it.                                                 *)
(***************************************************************************)
EXTENDS Integers

BasisPoints == 10000

\* const feeBps = 1500 of processEvent
FeeBps == 1500

\* Math.max(cents, 0)
NonNegative(cents) == IF cents >= 0 THEN cents ELSE 0

PlatformFeeCents(grossCents, feeBps) == (grossCents * feeBps) \div BasisPoints

NetAfterFeeCents(grossCents, feeBps) ==
    grossCents - PlatformFeeCents(grossCents, feeBps)

\* mutant: messaging rounds the fee up
MessagingFeeCeil(cents) == (cents * 15 + 99) \div 100

\* mutant: messaging takes 15 for 15 percent
MessagingFeeWhole(cents) == cents * 15

\* Math.floor(cents * 0.15) of messaging: the product in floating point is an
\* integer exactly when cents is a multiple of 20, so the floor is exact
MessagingFeeCents(cents) == (cents * 15) \div 100
=============================================================================
