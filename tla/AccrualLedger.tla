----------------------------- MODULE AccrualLedger -----------------------------
(***************************************************************************)
(* NormandyCore with a record of its past, to compare the three accounts   *)
(* that the program keeps of the same interest and never reconciles: what  *)
(* accrue_interest books for the pool, at the pool's rate and in steps as  *)
(* long as the time between two instructions; what each loan is charged    *)
(* when it is repaid, at its own rate and in one step; and what the        *)
(* lenders take out.                                                       *)
(*                                                                         *)
(* The record is read by the properties only: each step is one of          *)
(* NormandyCore, with the history variables updated beside it.             *)
(***************************************************************************)
EXTENDS NormandyCore, Sequences

VARIABLES
  seconds,    \* each second gone by: what was lent in it, whether there were
              \* deposits, and on how much interest has been booked for it
  exposure,   \* token-seconds each agent has had on loan
  booked,     \* interest ever booked, the protocol's cut included
  accruals,   \* how many times interest was booked
  taken,      \* what withdrawals paid beyond (or short of) the deposits
  diverted,   \* tokens that hooks have moved out of the vault
  missing     \* interest booked and not received, and tokens hooks have moved
              \* out, since the vault last held the fees

ledgerVars == <<clock, config, pool, lender, borrower, vault, wallet,
                seconds, exposure, booked, accruals, taken, diverted, missing>>

LedgerInit ==
  /\ Init
  /\ seconds = <<>>
  /\ exposure = [a \in Agents |-> 0]
  /\ booked = 0 /\ accruals = 0 /\ taken = 0
  /\ diverted = 0 /\ missing = 0

-------------------------------------------------------------------------------

\* A second goes by.
RecordSecond ==
  /\ seconds' = Append(seconds, [lent |-> pool.total_borrows,
                                 funded |-> pool.total_deposits > 0,
                                 booked |-> 0])
  /\ exposure' = [a \in Agents |-> exposure[a] + Outstanding(a)]

\* An instruction that accrues books the seconds since the last accrual, all of
\* them on what is lent now.
Accruing == pool' # pool /\ Accrues(pool, clock)

RecordAccrual ==
  /\ seconds' = [s \in DOMAIN seconds |->
                   IF s >= pool.last_accrual_timestamp
                   THEN [seconds[s] EXCEPT !.booked = @ + pool.total_borrows]
                   ELSE seconds[s]]
  /\ booked' = booked
       + (AccruedPool.total_interest_earned - pool.total_interest_earned)
       + (AccruedPool.accrued_protocol_fees - pool.accrued_protocol_fees)
  /\ accruals' = accruals + 1

\* Interest that borrowers have paid in.
Received ==
  Total([a \in Agents |-> IF borrower[a].status = "Repaid"
                          THEN borrower[a].accrued_interest ELSE 0])

Leaving(l) == lender[l].open /\ ~lender'[l].open

\* In a borrow, all that leaves the vault beside the loan.
DivertedNow ==
  IF \E a \in Agents : OpensLoan(a)
  THEN LeftByLoan(CHOOSE a \in Agents : OpensLoan(a)) - vault'
  ELSE 0

Record ==
  /\ IF clock' # clock THEN RecordSecond
     ELSE /\ UNCHANGED exposure
          /\ ~Accruing => UNCHANGED seconds
  /\ IF Accruing THEN RecordAccrual ELSE UNCHANGED <<booked, accruals>>
  /\ taken' = IF \E l \in Lenders : Leaving(l)
              THEN taken + (vault - vault')
                     - lender[CHOOSE l \in Lenders : Leaving(l)].total_deposited
              ELSE taken
  /\ diverted' = diverted + DivertedNow
  /\ missing' = IF pool'.accrued_protocol_fees <= vault' THEN 0
                ELSE missing + (booked' - booked) - (Received' - Received)
                       + (diverted' - diverted)

LedgerNext == Next /\ Record

LedgerSpec == LedgerInit /\ [][LedgerNext]_ledgerVars

(***************************************************************************)
(* Fairness.  Nothing in the program runs by itself, every step is a       *)
(* user's transaction.  A user that keeps submitting a transaction that    *)
(* would succeed gets it in: agents have someone who wants their loans     *)
(* repaid, lenders want to leave, the protocol wants its fees.             *)
(***************************************************************************)
Fairness ==
  /\ \A a \in Agents : WF_ledgerVars((\E payer \in Users : Repay(a, payer)) /\ Record)
  /\ \A l \in Lenders : WF_ledgerVars(Withdraw(l) /\ Record)
  /\ WF_ledgerVars((\E r \in FeeRecipients : ClaimProtocolFees(r)) /\ Record)

FairLedgerSpec == LedgerSpec /\ Fairness

-------------------------------------------------------------------------------
(***************************************************************************)
(* Properties                                                              *)
(***************************************************************************)

\* Every second in which something was lent and somebody had deposits is booked
\* once, and on what was lent in it, however many instructions and skipped
\* accruals lie around it.  Only seconds without loans or without deposits can
\* be booked on something else.
BookedAsLent ==
  \A s \in DOMAIN seconds :
    seconds[s].lent > 0 /\ seconds[s].funded =>
      seconds[s].booked =
        IF s < pool.last_accrual_timestamp THEN seconds[s].lent ELSE 0

\* Token-seconds lent and booked, by the pool's account.
SecondsLent == Total([s \in DOMAIN seconds |-> seconds[s].lent])
SecondsBooked == Total([s \in DOMAIN seconds |-> seconds[s].booked])

\* What a loan has been, or would now be, charged.
Charge(a) ==
  CASE borrower[a].status = "Repaid" -> borrower[a].accrued_interest
    [] borrower[a].status = "Active" -> PositionInterest(borrower[a], clock)
    [] OTHER -> 0

Loans == {a \in Agents : borrower[a].status # "None"}

\* What the pool books and what its borrowers owe differ for four reasons and
\* no other: token-seconds booked that are not the ones lent (idle and unfunded
\* time, and what is still to be booked), loans at another rate than the
\* pool's, less than a token of rounding in each accrual, and less than a token
\* of rounding in each loan.  (In units of a bip of a token for a second.)
DriftExplained ==
  LET rate == pool.min_interest_bips
      surplus == Total([a \in Agents |-> borrower[a].annual_interest_bips * exposure[a]])
                   - rate * Total(exposure)
      explained == Unit * booked + rate * (SecondsLent - SecondsBooked) + surplus
      owed == Unit * Total([a \in Agents |-> Charge(a)])
  IN  explained - owed \in -(Unit * accruals) .. Unit * Cardinality(Loans)

Claims ==
  Total([l \in Lenders |-> Payout(lender[l].scaled_deposit, pool.scale_factor)])

\* The vault can fall short of what lenders and protocol may claim, but only by
\* what is on loan, the interest booked and not received, the interest that
\* lenders who left have taken with them, and what hooks have moved out.
ShortfallExplained ==
  Claims + pool.accrued_protocol_fees
    <= vault + pool.total_borrows + (booked - Received) + taken + diverted

\* The fees are senior for good: the vault can fall short of them only by what
\* is on loan, and by what has gone missing after it last held them: interest
\* booked that no borrower has paid, and tokens that a hook has moved out.
\* Lenders and loans never cause it.
FeesCovered ==
  pool.accrued_protocol_fees <= vault + pool.total_borrows + missing

\* What is still promised to the lenders, and what they took out, exceeds what
\* they were ever promised: some of the interest is promised again.
PromisedTwice ==
  Claims + taken > pool.total_deposits + pool.total_interest_earned

\* Once every loan is repaid and brought all the interest that was booked, the
\* vault holds at once what all lenders may withdraw, beside the fees and less
\* what hooks have moved out, unless interest is promised again that was paid out
\* before.
LendersCovered ==
  pool.total_borrows = 0 /\ booked <= Received /\ ~PromisedTwice =>
    Claims <= Withdrawable(AccruedPool, vault) + diverted

\* Every loan is settled in the end: neither other loans, nor the accruals, nor
\* lenders and fees leaving, can get an agent into a state where repay fails.
LoansSettle ==
  \A a \in Agents : borrower[a].status = "Active" ~> borrower[a].status = "Repaid"

\* The protocol gets its fees in the end, whatever the lenders do, unless it is
\* owed a share of interest that no borrower pays, or of what a hook has moved out.
FeesReachProtocol ==
  <>[](config # NoAccount /\ pool.accrued_protocol_fees > 0) => <>[](missing > 0)

\* A lender that wants to leave does, unless the pool has booked interest that
\* no borrower pays, promises interest again that it has paid out before, or has
\* a hook that has moved tokens out.
LendersGetOut ==
  \A l \in Lenders :
    <>[](lender[l].open) => <>[](booked > Received \/ PromisedTwice \/ diverted > 0)

===============================================================================
