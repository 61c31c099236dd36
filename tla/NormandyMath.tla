----------------------------- MODULE NormandyMath -----------------------------
(***************************************************************************)
(* The fixed-point arithmetic of normandy-core: interest accrual, scale    *)
(* factor, reserves, shares and payouts.  The code computes in u128 with   *)
(* checked operations and casts the result to u64; a checked operation     *)
(* that fails aborts the whole instruction, so each formula comes with a   *)
(* ...Fits predicate, a guard of the instructions that evaluate it, and    *)
(* each `as u64` is the truncation AsU64.                                  *)
(*                                                                         *)
(* The constants of constants.rs and the word sizes are parameters: TLC    *)
(* runs them scaled down, the theorems hold for every value.               *)
(***************************************************************************)
EXTENDS Integers

CONSTANTS
  RAY,                \* scale factor base, 10^27 in the code
  SECONDS_PER_YEAR,   \* 31_536_000
  BIP_DENOMINATOR,    \* 10_000
  PROTOCOL_FEE_BIPS,  \* 1000
  U16Max, U64Max, U128Max

ASSUME MathAssumption ==
  /\ RAY \in Nat \ {0}
  /\ SECONDS_PER_YEAR \in Nat \ {0}
  /\ BIP_DENOMINATOR \in Nat \ {0}
  /\ PROTOCOL_FEE_BIPS \in 0 .. BIP_DENOMINATOR
  /\ U16Max \in Nat
  /\ U64Max \in Nat
  /\ U128Max \in Nat
  /\ RAY <= U128Max

U16 == 0 .. U16Max
U64 == 0 .. U64Max
U128 == 0 .. U128Max

\* The cast `x as u64` of a u128.
AsU64(x) == x % (U64Max + 1)

-------------------------------------------------------------------------------
(***************************************************************************)
(* Simple interest on an amount at a yearly rate in bips over some seconds *)
(***************************************************************************)

InterestFits(amount, bips, elapsed) ==
  /\ amount * bips <= U128Max
  /\ amount * bips * elapsed <= U128Max

\* Interest is counted in bips of a token for a second, then divided by this.
Unit == BIP_DENOMINATOR * SECONDS_PER_YEAR

Interest(amount, bips, elapsed) ==
  (amount * bips * elapsed) \div (BIP_DENOMINATOR * SECONDS_PER_YEAR)

\* The protocol's share of gross interest; the lenders get the rest.
ProtocolCutRoundedUp(gross) ==
  (gross * PROTOCOL_FEE_BIPS + BIP_DENOMINATOR - 1) \div BIP_DENOMINATOR

ProtocolCut(gross) == (gross * PROTOCOL_FEE_BIPS) \div BIP_DENOMINATOR

\* The scale factor for the interest earned so far and the deposits.
ScaleFactor(earned, deposits) == RAY + (earned * RAY) \div deposits

\* The part of the deposits that a borrow must leave in the vault.  A ratio
\* above 100% can exceed 64 bits, and the cast then wraps.
RequiredReserves(deposits, ratio) ==
  AsU64((deposits * ratio) \div BIP_DENOMINATOR)

\* A deposit in scaled units, and the tokens scaled units are worth.
ScaledAmountUnscaled(amount, scale) == amount

ScaledAmount(amount, scale) == AsU64((amount * RAY) \div scale)

Payout(scaled, scale) == AsU64((scaled * scale) \div RAY)
===============================================================================
