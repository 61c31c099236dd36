------------------------------ MODULE NormandyCore ------------------------------
(***************************************************************************)
(* One lending pool of the normandy-core program, with the accounts its    *)
(* instructions touch: the protocol config, the pool, the lender and       *)
(* borrower positions, the vault and the users' token accounts.            *)
(*                                                                         *)
(* A Solana instruction is atomic: it either runs to its end or leaves     *)
(* every account as it was.  So each instruction is one action, an early   *)
(* return with an error is a guard, and concurrency is the order in which  *)
(* the users' instructions land, with time passing in between.             *)
(*                                                                         *)
(* The credit hook is another program.  Borrow calls it with the pool's    *)
(* signature, which is also the vault's authority, and with any accounts   *)
(* the borrower lists.  So it may answer anything in HookReplies, and move *)
(* tokens out of the vault while it is asked.  What it is assumed not to   *)
(* do with the signature is to keep hold of the vault for later, as its    *)
(* new owner or as a delegate.  Tokens that it moves into the vault are    *)
(* those of a TopUpVault that comes right after.                           *)
(*                                                                         *)
(* Left out are the fields no instruction reads: scaled_borrow,            *)
(* borrow_scale_factor, borrowed_at, maturity_timestamp (its overflow      *)
(* check is kept), entry_scale_factor, deposited_at, position_mode,        *)
(* pool_id and the bumps.                                                  *)
(***************************************************************************)
EXTENDS NormandyMath, Totals

CONSTANTS
  Lenders, Agents, FeeRecipients,
  HookPrograms,
  NoAccount,          \* an account that does not exist yet
  Amounts,            \* arguments of deposit and borrow
  InterestBips, TermSeconds, ReserveRatioBips, DepositWindowEnds,
                      \* arguments of initialize_pool
  TopUps,             \* tokens someone may send to the vault directly
  HookReplies,        \* what a hook's call may come to in a borrow
  Endowment,          \* tokens each user holds at the start
  I64Max,
  MaxClock            \* bound: the last second of a behaviour

Users == Lenders \union Agents \union FeeRecipients

\* The OnBorrowResult that a hook returns, and the tokens it moves from the
\* vault to each user (who stands for any other token account as well).
HookReply ==
  [approved : BOOLEAN, interest_bips : U16, term_seconds : Int,
   diverted : [Users -> U64]]

NothingDiverted == [u \in Users |-> 0]

ASSUME CoreAssumption ==
  /\ IsFiniteSet(Users)
  /\ NoAccount \notin Users \union HookPrograms
  /\ Amounts \subseteq U64
  /\ TopUps \subseteq U64
  /\ InterestBips \subseteq U16
  /\ TermSeconds \subseteq Int
  /\ ReserveRatioBips \subseteq U16
  /\ DepositWindowEnds \subseteq Int
  /\ HookReplies \subseteq HookReply
  /\ Endowment \in [Users -> Nat]
  /\ Total(Endowment) <= U64Max
  /\ I64Max \in Nat

VARIABLES
  clock,      \* Clock::get()?.unix_timestamp
  config,     \* the fee recipient in the ProtocolConfig account
  pool,       \* the Pool account
  lender,     \* the LenderPosition account of each lender
  borrower,   \* the BorrowerPosition account of each agent
  vault,      \* tokens in the pool's vault
  wallet      \* tokens in each user's own token account

vars == <<clock, config, pool, lender, borrower, vault, wallet>>

-------------------------------------------------------------------------------
(***************************************************************************)
(* Accounts                                                                *)
(***************************************************************************)

Pool ==
  [initialized : BOOLEAN,
   hook_program : HookPrograms \union {NoAccount},
   scale_factor : U128,
   total_interest_earned : U64,
   last_accrual_timestamp : Nat,
   min_interest_bips : U16, max_interest_bips : U16,
   min_term_seconds : Int, max_term_seconds : Int,
   reserve_ratio_bips : U16,
   total_deposits : U64, total_borrows : U64,
   accrued_protocol_fees : U64,
   deposit_window_end : Int,
   is_closed : BOOLEAN]

NoPool ==
  [initialized |-> FALSE,
   hook_program |-> NoAccount,
   scale_factor |-> 0,
   total_interest_earned |-> 0,
   last_accrual_timestamp |-> 0,
   min_interest_bips |-> 0, max_interest_bips |-> 0,
   min_term_seconds |-> 0, max_term_seconds |-> 0,
   reserve_ratio_bips |-> 0,
   total_deposits |-> 0, total_borrows |-> 0,
   accrued_protocol_fees |-> 0,
   deposit_window_end |-> 0,
   is_closed |-> FALSE]

LenderPosition ==
  [open : BOOLEAN, total_deposited : U64, scaled_deposit : U64]

NoDeposit == [open |-> FALSE, total_deposited |-> 0, scaled_deposit |-> 0]

\* "None": the account does not exist.  Repay leaves the account in place, so
\* an agent has one loan per pool, ever.
BorrowerPosition ==
  [status : {"None", "Active", "Repaid"},
   principal : U64,
   annual_interest_bips : U16,
   term_seconds : Int,
   accrued_interest : U64,
   last_accrual_timestamp : Nat]

NoLoan ==
  [status |-> "None", principal |-> 0, annual_interest_bips |-> 0,
   term_seconds |-> 0, accrued_interest |-> 0, last_accrual_timestamp |-> 0]

-------------------------------------------------------------------------------
(***************************************************************************)
(* Pool::accrue_interest, called at the top of every instruction below     *)
(***************************************************************************)

Accrues(p, now) ==
  /\ now # p.last_accrual_timestamp
  /\ p.total_borrows # 0
  /\ p.total_deposits # 0

Gross(p, now) ==
  Interest(p.total_borrows, p.min_interest_bips, now - p.last_accrual_timestamp)

EarnedAt(p, now) ==
  p.total_interest_earned + AsU64(Gross(p, now) - ProtocolCut(Gross(p, now)))

FeesAt(p, now) ==
  p.accrued_protocol_fees + AsU64(ProtocolCut(Gross(p, now)))

\* No checked operation of accrue_interest fails.
AccrualFitsIn128(p, now) ==
  InterestFits(p.total_borrows, p.min_interest_bips,
               now - p.last_accrual_timestamp)

AccrualFits(p, now) ==
  Accrues(p, now) =>
    /\ InterestFits(p.total_borrows, p.min_interest_bips,
                    now - p.last_accrual_timestamp)
    /\ Gross(p, now) * PROTOCOL_FEE_BIPS <= U128Max
    /\ EarnedAt(p, now) <= U64Max
    /\ FeesAt(p, now) <= U64Max
    /\ EarnedAt(p, now) * RAY <= U128Max
    /\ ScaleFactor(EarnedAt(p, now), p.total_deposits) <= U128Max

BookedWithoutTimestamp(p, now) ==
  [p EXCEPT !.total_interest_earned = EarnedAt(p, now),
            !.accrued_protocol_fees = FeesAt(p, now),
            !.scale_factor = ScaleFactor(EarnedAt(p, now), p.total_deposits)]

Booked(p, now) ==
  [p EXCEPT !.total_interest_earned = EarnedAt(p, now),
            !.accrued_protocol_fees = FeesAt(p, now),
            !.scale_factor = ScaleFactor(EarnedAt(p, now), p.total_deposits),
            !.last_accrual_timestamp = now]

Accrued(p, now) == IF Accrues(p, now) THEN Booked(p, now) ELSE p

\* The pool as the running instruction sees it after accrue_interest.
AccruedPool == Accrued(pool, clock)

CanAccrue == pool.initialized /\ AccrualFits(pool, clock)

-------------------------------------------------------------------------------
(***************************************************************************)
(* Steps of the instructions.  An operator named after what a plausible    *)
(* bug would do (Booked*Without*, *Ignoring*, ...) is not used by the      *)
(* specification: it is there to be put in the place of the operator it    *)
(* precedes, to see that a property notices.                               *)
(***************************************************************************)

DepositOpen(p, now) == p.deposit_window_end # 0 => now <= p.deposit_window_end

\* A lender position after a deposit; the first deposit creates it.
CreditedOverwriting(pos, amount, scaled) ==
  [open |-> TRUE, total_deposited |-> amount, scaled_deposit |-> scaled]

Credited(pos, amount, scaled) ==
  [open |-> TRUE,
   total_deposited |-> pos.total_deposited + amount,
   scaled_deposit |-> pos.scaled_deposit + scaled]

\* What a borrow may take from a vault of v tokens (negative: nothing).
BorrowableIgnoringVault(p, v) == p.total_deposits

BorrowableIgnoringFees(p, v) ==
  v - RequiredReserves(p.total_deposits, p.reserve_ratio_bips)

Borrowable(p, v) ==
  v - RequiredReserves(p.total_deposits, p.reserve_ratio_bips)
    - p.accrued_protocol_fees

\* What a withdrawal may take from a vault of v tokens.
WithdrawableIgnoringFees(p, v) == v

Withdrawable(p, v) == v - p.accrued_protocol_fees

Loan(amount, reply, now) ==
  [status |-> "Active",
   principal |-> amount,
   annual_interest_bips |-> reply.interest_bips,
   term_seconds |-> reply.term_seconds,
   accrued_interest |-> 0,
   last_accrual_timestamp |-> now]

PositionInterest(pos, now) ==
  Interest(pos.principal, pos.annual_interest_bips,
           now - pos.last_accrual_timestamp)

\* A borrower position as repay leaves it, and what repay charges for it.
SettledStillActive(pos, now) ==
  [pos EXCEPT !.accrued_interest = @ + AsU64(PositionInterest(pos, now)),
              !.last_accrual_timestamp = now]

Settled(pos, now) ==
  [pos EXCEPT !.status = "Repaid",
              !.accrued_interest = @ + AsU64(PositionInterest(pos, now)),
              !.last_accrual_timestamp = now]

TotalOwedWithoutInterest(settled) == settled.principal

TotalOwed(settled) == settled.principal + settled.accrued_interest

\* The pool after a repayment and after a withdrawal.
LessTotalOwed(p, settled) ==
  [p EXCEPT !.total_borrows = @ - TotalOwed(settled)]

LessRepaid(p, settled) == [p EXCEPT !.total_borrows = @ - settled.principal]

LessPaidOut(p, pos) ==
  [p EXCEPT !.total_deposits = @ - Payout(pos.scaled_deposit, p.scale_factor)]

LessWithdrawn(p, pos) == [p EXCEPT !.total_deposits = @ - pos.total_deposited]

\* No checked operation of repay fails for this position.
RepayFits(pos, p, now) ==
  /\ InterestFits(pos.principal, pos.annual_interest_bips,
                  now - pos.last_accrual_timestamp)
  /\ Settled(pos, now).accrued_interest <= U64Max
  /\ TotalOwed(Settled(pos, now)) <= U64Max
  /\ pos.principal <= p.total_borrows

-------------------------------------------------------------------------------
(***************************************************************************)
(* Instructions                                                            *)
(***************************************************************************)

Init ==
  /\ clock = 1
  /\ config = NoAccount
  /\ pool = NoPool
  /\ lender = [l \in Lenders |-> NoDeposit]
  /\ borrower = [a \in Agents |-> NoLoan]
  /\ vault = 0
  /\ wallet = Endowment

InitializeProtocol(recipient) ==
  /\ config = NoAccount
  /\ config' = recipient
  /\ UNCHANGED <<clock, pool, lender, borrower, vault, wallet>>

\* One rate and one term: min and max are equal.  The hook's own initialize,
\* called at the end, touches no account of this program.
InitializePool(h, bips, term, reserve, window) ==
  /\ ~pool.initialized
  /\ pool' =
       [initialized |-> TRUE,
        hook_program |-> h,
        scale_factor |-> RAY,
        total_interest_earned |-> 0,
        last_accrual_timestamp |-> clock,
        min_interest_bips |-> bips, max_interest_bips |-> bips,
        min_term_seconds |-> term, max_term_seconds |-> term,
        reserve_ratio_bips |-> reserve,
        total_deposits |-> 0, total_borrows |-> 0,
        accrued_protocol_fees |-> 0,
        deposit_window_end |-> window,
        is_closed |-> FALSE]
  /\ UNCHANGED <<clock, config, lender, borrower, vault, wallet>>

Deposit(l, amount) ==
  /\ CanAccrue
  /\ DepositOpen(pool, clock)
  /\ ~pool.is_closed
  /\ amount <= wallet[l]
  /\ LET p == AccruedPool
         scaled == ScaledAmount(amount, p.scale_factor)
         credited == Credited(lender[l], amount, scaled)
     IN /\ amount * RAY <= U128Max
        /\ credited.scaled_deposit <= U64Max
        /\ credited.total_deposited <= U64Max
        /\ p.total_deposits + amount <= U64Max
        /\ pool' = [p EXCEPT !.total_deposits = @ + amount]
        /\ lender' = [lender EXCEPT ![l] = credited]
  /\ vault' = vault + amount
  /\ wallet' = [wallet EXCEPT ![l] = @ - amount]
  /\ UNCHANGED <<clock, config, borrower>>

\* h is the hook program passed in, reply what the call of its on_borrow comes
\* to.  The vault's balance is read before that call and not again, so reserve
\* and fees are only held against what was there; the transfer after it needs
\* the tokens that are left.
Borrow(a, amount, h, reply) ==
  /\ CanAccrue
  /\ borrower[a].status = "None"
  /\ h = pool.hook_program
  /\ reply.approved
  /\ clock + reply.term_seconds <= I64Max
  /\ LET p == AccruedPool
     IN /\ p.total_deposits * p.reserve_ratio_bips <= U128Max
        /\ amount <= Borrowable(p, vault)
        /\ p.total_borrows + amount <= U64Max
        /\ pool' = [p EXCEPT !.total_borrows = @ + amount]
  /\ borrower' = [borrower EXCEPT ![a] = Loan(amount, reply, clock)]
  /\ amount <= vault - Total(reply.diverted)
  /\ vault' = vault - Total(reply.diverted) - amount
  /\ wallet' = [u \in Users |->
                  wallet[u] + reply.diverted[u] + IF u = a THEN amount ELSE 0]
  /\ UNCHANGED <<clock, config, lender>>

\* Anyone may repay an agent's loan.
Repay(a, payer) ==
  /\ CanAccrue
  /\ borrower[a].status = "Active"
  /\ LET p == AccruedPool
         settled == Settled(borrower[a], clock)
     IN /\ RepayFits(borrower[a], p, clock)
        /\ TotalOwed(settled) <= wallet[payer]
        /\ pool' = LessRepaid(p, settled)
        /\ borrower' = [borrower EXCEPT ![a] = settled]
        /\ vault' = vault + TotalOwed(settled)
        /\ wallet' = [wallet EXCEPT ![payer] = @ - TotalOwed(settled)]
  /\ UNCHANGED <<clock, config, lender>>

\* The whole position is paid out and its account closed.
Withdraw(l) ==
  /\ CanAccrue
  /\ lender[l].open
  /\ LET p == AccruedPool
         payout == Payout(lender[l].scaled_deposit, p.scale_factor)
     IN /\ lender[l].scaled_deposit * p.scale_factor <= U128Max
        /\ p.accrued_protocol_fees <= vault
        /\ payout <= Withdrawable(p, vault)
        /\ lender[l].total_deposited <= p.total_deposits
        /\ pool' = LessWithdrawn(p, lender[l])
        /\ vault' = vault - payout
        /\ wallet' = [wallet EXCEPT ![l] = @ + payout]
  /\ lender' = [lender EXCEPT ![l] = NoDeposit]
  /\ UNCHANGED <<clock, config, borrower>>

\* With no fees to claim the code returns early, with the accrual kept and
\* nothing else changed: the same as moving zero tokens.
ClaimProtocolFees(recipient) ==
  /\ CanAccrue
  /\ recipient = config
  /\ LET p == AccruedPool
         fees == p.accrued_protocol_fees
     IN /\ fees <= vault
        /\ pool' = [p EXCEPT !.accrued_protocol_fees = 0]
        /\ vault' = vault - fees
        /\ wallet' = [wallet EXCEPT ![recipient] = @ + fees]
  /\ UNCHANGED <<clock, config, lender, borrower>>

\* External: the token program lets anyone send tokens to the vault.
TopUpVault(u, amount) ==
  /\ pool.initialized
  /\ amount <= wallet[u]
  /\ vault' = vault + amount
  /\ wallet' = [wallet EXCEPT ![u] = @ - amount]
  /\ UNCHANGED <<clock, config, pool, lender, borrower>>

\* External: time passes.
Tick ==
  /\ clock < MaxClock
  /\ clock' = clock + 1
  /\ UNCHANGED <<config, pool, lender, borrower, vault, wallet>>

Next ==
  \/ \E r \in FeeRecipients : InitializeProtocol(r)
  \/ \E h \in HookPrograms, bips \in InterestBips, term \in TermSeconds,
        reserve \in ReserveRatioBips, window \in DepositWindowEnds :
       InitializePool(h, bips, term, reserve, window)
  \/ \E l \in Lenders, amount \in Amounts : Deposit(l, amount)
  \/ \E a \in Agents, amount \in Amounts, h \in HookPrograms,
        reply \in HookReplies : Borrow(a, amount, h, reply)
  \/ \E a \in Agents, payer \in Users : Repay(a, payer)
  \/ \E l \in Lenders : Withdraw(l)
  \/ \E r \in FeeRecipients : ClaimProtocolFees(r)
  \/ \E u \in Users, amount \in TopUps : TopUpVault(u, amount)
  \/ Tick

Spec == Init /\ [][Next]_vars

\* The steps that do not call the hook, for the modules that compose one with it.
HookFree ==
  \/ \E r \in FeeRecipients : InitializeProtocol(r) \/ ClaimProtocolFees(r)
  \/ \E l \in Lenders : Withdraw(l) \/ \E amount \in Amounts : Deposit(l, amount)
  \/ \E a \in Agents, payer \in Users : Repay(a, payer)
  \/ \E u \in Users, amount \in TopUps : TopUpVault(u, amount)
  \/ Tick

-------------------------------------------------------------------------------
(***************************************************************************)
(* Properties                                                              *)
(***************************************************************************)

\* Every account holds values its Rust type can hold, no balance is negative
\* and no accrual is dated in the future, so that elapsed is never negative.
TypeOK ==
  /\ clock \in Nat
  /\ config \in FeeRecipients \union {NoAccount}
  /\ pool \in Pool
  /\ pool.last_accrual_timestamp <= clock
  /\ lender \in [Lenders -> LenderPosition]
  /\ borrower \in [Agents -> BorrowerPosition]
  /\ \A a \in Agents : borrower[a].last_accrual_timestamp <= clock
  /\ vault \in Nat
  /\ wallet \in [Users -> Nat]

\* What the agent still owes as principal.
Outstanding(a) ==
  IF borrower[a].status = "Active" THEN borrower[a].principal ELSE 0

\* The two aggregates of the pool are the sums over the positions: deposits and
\* withdrawals by several lenders, borrows and repayments in any order, never
\* leave the pool with a total that a later checked_sub could not go below.
DepositsMatchPositions ==
  pool.total_deposits = Total([l \in Lenders |-> lender[l].total_deposited])

BorrowsMatchPositions ==
  pool.total_borrows = Total([a \in Agents |-> Outstanding(a)])

\* An active loan can always be repaid, by someone with enough tokens: none of
\* the checked operations of handle_repay fails on what the other agents'
\* borrows and repayments left in the pool.
Repayable ==
  \A a \in Agents :
    borrower[a].status = "Active" /\ CanAccrue =>
      RepayFits(borrower[a], AccruedPool, clock)

\* The checked arithmetic of accrue_interest does not fail, so that the pool
\* goes on taking instructions: interest never adds up to more than the words
\* hold, as long as loans are in proportion to them (how much may be lent, and
\* for how long, is LendingInWords in the proofs).  Once it fails it always
\* will, and nobody can repay or leave.
PoolKeepsRunning == pool.initialized => CanAccrue

\* Taken together, the lenders' shares at the current scale factor are never
\* worth more than the pool's book: the deposits and the interest booked on
\* them.  Late deposits, withdrawals between two accruals and a scale factor
\* that is out of date must not create value.
ClaimsWithinBook ==
  Total([l \in Lenders |-> Payout(lender[l].scaled_deposit, pool.scale_factor)])
    <= pool.total_deposits + pool.total_interest_earned

\* Each payout of withdraw can be computed as long as the book, scaled, fits in a
\* u128: no order of deposits, accruals and withdrawals makes one position's
\* product outgrow the deposits and the interest of the whole pool.
PayoutsWithinBook ==
  CanAccrue
  /\ RAY * (AccruedPool.total_deposits + AccruedPool.total_interest_earned) <= U128Max
  => \A l \in Lenders :
       lender[l].scaled_deposit * AccruedPool.scale_factor <= U128Max

\* The protocol's unclaimed fees are at most its share of the interest booked,
\* however the interest was cut into accruals: each cut is rounded down.
FeesWithinShare ==
  (BIP_DENOMINATOR - PROTOCOL_FEE_BIPS) * pool.accrued_protocol_fees
    <= PROTOCOL_FEE_BIPS * pool.total_interest_earned

\* A loan is opened once and repaid once; its principal, rate and term never
\* change, and what repay charged stays on record.
LoanLifecycle ==
  [][\A a \in Agents : borrower'[a] # borrower[a] =>
       \/ /\ borrower[a].status = "None"
          /\ borrower'[a].status = "Active"
       \/ /\ borrower[a].status = "Active"
          /\ borrower'[a] = [borrower[a] EXCEPT
                               !.status = "Repaid",
                               !.accrued_interest = borrower'[a].accrued_interest,
                               !.last_accrual_timestamp = clock]]_vars

OpensLoan(a) == borrower[a].status = "None" /\ borrower'[a].status = "Active"

\* What a loan leaves in the vault when the hook moves nothing.
LeftByLoan(a) == vault - borrower'[a].principal

\* What the program itself moves out of the vault, to a lender, an agent or the
\* protocol, does not eat into the fees the pool owes the protocol after the
\* step.  Only what a hook moves while it is asked for a loan can: the loan alone
\* would have left the fees.
FeesSenior ==
  [][vault' < vault =>
       \/ vault' >= pool'.accrued_protocol_fees
       \/ \E a \in Agents :
            OpensLoan(a) /\ LeftByLoan(a) >= pool'.accrued_protocol_fees]_vars

\* The required reserves are a number of 64 bits.  Only for ratios above 100% can
\* they be more, and the cast in borrow then makes them less than the ratio says.
ReserveInWord ==
  (pool.total_deposits * pool.reserve_ratio_bips) \div BIP_DENOMINATOR <= U64Max

\* What a loan leaves in the vault beside the fees covers the reserve ratio, of
\* whatever size, of all the lenders have put in and not taken out, to within a
\* token, before the hook's own doing.  This relies on the pool's total and on
\* fees accrued in time.
ReserveCoversDeposits ==
  [][\A a \in Agents : OpensLoan(a) /\ ReserveInWord =>
       Total([l \in Lenders |-> lender[l].total_deposited]) * pool.reserve_ratio_bips
         < BIP_DENOMINATOR * (LeftByLoan(a) - pool'.accrued_protocol_fees + 1)]_vars

\* Both for a pool whose hook leaves the vault alone, as the hooks of this
\* repository do: after a borrow the reserve is in the vault beside the fees, and
\* the fees are after every other payment.
ReserveAndFeesInVault ==
  [][/\ vault' < vault => vault' >= pool'.accrued_protocol_fees
     /\ \A a \in Agents : OpensLoan(a) /\ ReserveInWord =>
          Total([l \in Lenders |-> lender[l].total_deposited]) * pool.reserve_ratio_bips
            < BIP_DENOMINATOR * (vault' - pool'.accrued_protocol_fees + 1)]_vars

===============================================================================
