-------------------------- MODULE DocumentedPromises --------------------------
(***************************************************************************)
(* What the repository's documentation, comments and tests say of the      *)
(* program and the code does not do.  Each is checked by a run of its own  *)
(* that TLC refutes.                                                       *)
(***************************************************************************)
EXTENDS MCNormandyCore

\* Tokens of difference that rounding explains.
RoundingSlack == 2

\* tests/normandy-v1.ts: a withdrawn lender "should receive at least their
\* deposit back".  Here a rounding slack is granted on top.  The code divides
\* all interest ever earned by the deposits of the moment, so a later deposit
\* lowers the scale factor of those already in.
DepositComesBack ==
  [][\A l \in Lenders :
       lender[l].open /\ ~lender'[l].open =>
         wallet'[l] - wallet[l] + RoundingSlack >= lender[l].total_deposited]_vars

\* Interest the borrower has been charged, or would be charged now.
Charged(a) ==
  CASE borrower[a].status = "Repaid" -> borrower[a].accrued_interest
    [] borrower[a].status = "Active" -> PositionInterest(borrower[a], clock)
    [] OTHER -> 0

TotalCharged == Total([a \in Agents |-> Charged(a)])

InterestBooked == pool.total_interest_earned + pool.accrued_protocol_fees

\* tests/normandy-v1.ts calls a payout larger than the vault by "1-2 tokens" a
\* "known rounding edge case": what the pool books for lenders and protocol
\* should differ from what the borrowers owe by rounding only.  With no loan
\* out, accrue_interest returns before it moves last_accrual_timestamp, so the
\* next loan's first accrual also books interest for the idle time before it.
BookedOnlyWhatIsOwed == InterestBooked <= TotalCharged + RoundingSlack

\* pool.rs calls total_interest_earned the "Aggregate lender interest from all
\* positions": the lenders together should not take out more profit than that.
\* Withdraw pays a share of it and leaves it in the pool, where it is shared
\* out again among the deposits that remain.  (wallet + total_deposited is what
\* a lender has when its deposit comes back without interest.)
YieldWithinInterest ==
  Total([l \in Lenders |-> wallet[l] + lender[l].total_deposited])
    <= Total([l \in Lenders |-> Endowment[l]]) + pool.total_interest_earned

\* normandy-skill.md: deposit "Supports multiple deposits to the same pool" and
\* in withdraw the lender "withdraws their full position".  Several deposits,
\* each small enough for amount * RAY to fit in 128 bits, add up to a position
\* whose scaled_deposit * scale_factor does not.
PositionCanBePaidOut ==
  \A l \in Lenders : lender[l].open /\ CanAccrue =>
    lender[l].scaled_deposit * AccruedPool.scale_factor <= U128Max

===============================================================================
