--------------------------- MODULE NormandyCoreProofs ---------------------------
(***************************************************************************)
(* Theorems about every instance of NormandyCore: any users, any number of *)
(* them, any rates, reserve ratios, word sizes and hook replies, and time  *)
(* without a bound that matters (nothing is assumed of MaxClock).          *)
(***************************************************************************)
EXTENDS NormandyCore, NormandyMathProofs

-------------------------------------------------------------------------------
(***************************************************************************)
(* Accrual                                                                 *)
(***************************************************************************)

\* What an accrual that fits may change: interest and fees grow, the scale
\* factor stays at or above RAY, the date moves up to now; everything else
\* in the pool is left alone.
AccrualOf(p, q, now) ==
  /\ q \in Pool
  /\ q.initialized
  /\ q.scale_factor >= RAY
  /\ q.last_accrual_timestamp <= now
  /\ q.total_interest_earned >= p.total_interest_earned
  /\ q.accrued_protocol_fees >= p.accrued_protocol_fees
  /\ q.total_deposits = p.total_deposits
  /\ q.total_borrows = p.total_borrows
  /\ q.reserve_ratio_bips = p.reserve_ratio_bips

\* Words are natural numbers, zero and RAY among them.
LEMMA WordTypes ==
  /\ U16 \subseteq Nat
  /\ U64 \subseteq Nat
  /\ U128 \subseteq Nat
  /\ 0 \in U16 /\ 0 \in U64 /\ 0 \in U128
  /\ RAY \in Nat \ {0} /\ RAY \in U128
BY MathAssumption DEF U16, U64, U128

\* An accrual never books a negative amount.
LEMMA GrossType ==
  ASSUME NEW p \in Pool, NEW now \in Nat, p.last_accrual_timestamp <= now
  PROVE  Gross(p, now) \in Nat
<1>1. /\ p.total_borrows \in U64
      /\ p.min_interest_bips \in U16
      /\ p.last_accrual_timestamp \in Nat
  BY DEF Pool
<1>2. p.total_borrows \in Nat /\ p.min_interest_bips \in Nat
  BY <1>1, WordTypes
<1>3. now - p.last_accrual_timestamp \in Nat
  BY <1>1
<1> QED
  BY <1>2, <1>3, InterestType DEF Gross

\* Interest earned and protocol fees only grow with an accrual.
LEMMA BookedAmounts ==
  ASSUME NEW p \in Pool, NEW now \in Nat, p.last_accrual_timestamp <= now
  PROVE  /\ EarnedAt(p, now) \in Nat
         /\ EarnedAt(p, now) >= p.total_interest_earned
         /\ FeesAt(p, now) \in Nat
         /\ FeesAt(p, now) >= p.accrued_protocol_fees
<1> DEFINE g == Gross(p, now)
           c == ProtocolCut(g)
<1>1. g \in Nat
  BY GrossType
<1>2. c \in Nat /\ c <= g
  BY <1>1, CutWithinShare
<1>3. g - c \in Nat
  BY <1>1, <1>2
<1>4. AsU64(g - c) \in Nat /\ AsU64(c) \in Nat
  BY <1>2, <1>3, AsU64Type
<1>5. p.total_interest_earned \in Nat /\ p.accrued_protocol_fees \in Nat
  BY WordTypes DEF Pool
<1> QED
  BY <1>4, <1>5 DEF EarnedAt, FeesAt

\* A booked accrual keeps what AccrualOf says of it.
LEMMA BookedIsAccrual ==
  ASSUME NEW p \in Pool, NEW now \in Nat, p.last_accrual_timestamp <= now,
         p.initialized, Accrues(p, now), AccrualFits(p, now)
  PROVE  AccrualOf(p, Booked(p, now), now)
<1> DEFINE e == EarnedAt(p, now)
           f == FeesAt(p, now)
           s == ScaleFactor(e, p.total_deposits)
<1>1. /\ e \in Nat /\ e >= p.total_interest_earned
      /\ f \in Nat /\ f >= p.accrued_protocol_fees
  BY BookedAmounts
<1>2. p.total_deposits \in Nat \ {0}
  BY WordTypes DEF Pool, Accrues
<1>3. s \in Nat /\ s >= RAY
  BY <1>1, <1>2, ScaleFactorAtLeastRay
<1>4. e <= U64Max /\ f <= U64Max /\ s <= U128Max
  BY DEF AccrualFits
<1>5. e \in U64 /\ f \in U64 /\ s \in U128
  BY <1>1, <1>3, <1>4 DEF U64, U128
<1>6. Booked(p, now) = [p EXCEPT !.total_interest_earned = e,
                                 !.accrued_protocol_fees = f,
                                 !.scale_factor = s,
                                 !.last_accrual_timestamp = now]
  BY DEF Booked
<1> HIDE DEF e, f, s
<1> DEFINE q == Booked(p, now)
<1>7. q \in Pool
  BY <1>5, <1>6 DEF Pool
<1>8. /\ q.initialized
      /\ q.total_interest_earned = e
      /\ q.accrued_protocol_fees = f
      /\ q.scale_factor = s
      /\ q.last_accrual_timestamp = now
      /\ q.total_deposits = p.total_deposits
      /\ q.total_borrows = p.total_borrows
      /\ q.reserve_ratio_bips = p.reserve_ratio_bips
  BY <1>6 DEF Pool
<1> HIDE DEF q
<1>9. AccrualOf(p, q, now)
  BY <1>1, <1>3, <1>7, <1>8 DEF AccrualOf
<1> QED
  BY <1>9 DEF q

\* accrue_interest, whether it books interest or returns early.
LEMMA AccruedIsAccrual ==
  ASSUME NEW p \in Pool, NEW now \in Nat, p.last_accrual_timestamp <= now,
         p.initialized, p.scale_factor >= RAY, AccrualFits(p, now)
  PROVE  AccrualOf(p, Accrued(p, now), now)
<1>1. CASE Accrues(p, now)
  BY <1>1, BookedIsAccrual DEF Accrued
<1>2. CASE ~Accrues(p, now)
  <2>1. Accrued(p, now) = p
    BY <1>2 DEF Accrued
  <2>2. p.total_interest_earned \in Nat /\ p.accrued_protocol_fees \in Nat
    BY WordTypes DEF Pool
  <2> QED
    BY <2>1, <2>2 DEF AccrualOf
<1> QED
  BY <1>1, <1>2

-------------------------------------------------------------------------------
(***************************************************************************)
(* Type correctness                                                        *)
(***************************************************************************)

\* accrue_interest and deposit divide by the scale factor's terms: it is RAY
\* when the pool is created and never less.
ScaleAtLeastRay == pool.initialized => pool.scale_factor >= RAY

\* TypeOK is inductive together with the bound on the scale factor that the
\* share arithmetic needs.
TypeInv == TypeOK /\ ScaleAtLeastRay

\* The same of the pool the running instruction works on.
LEMMA AccruedPoolFacts ==
  ASSUME TypeInv, CanAccrue
  PROVE  pool.initialized /\ AccrualOf(pool, AccruedPool, clock)
<1>1. /\ pool \in Pool
      /\ clock \in Nat
      /\ pool.last_accrual_timestamp <= clock
      /\ pool.initialized
      /\ pool.scale_factor >= RAY
      /\ AccrualFits(pool, clock)
  BY DEF TypeInv, TypeOK, ScaleAtLeastRay, CanAccrue
<1> QED
  BY <1>1, AccruedIsAccrual DEF AccruedPool

\* The fields of an accrued pool, as numbers.
LEMMA AccruedPoolNumbers ==
  ASSUME TypeInv, CanAccrue
  PROVE  /\ AccruedPool \in Pool
         /\ AccruedPool.total_deposits \in Nat
         /\ AccruedPool.total_borrows \in Nat
         /\ AccruedPool.accrued_protocol_fees \in Nat
         /\ AccruedPool.reserve_ratio_bips \in Nat
         /\ AccruedPool.scale_factor \in Nat
<1>1. AccruedPool \in Pool
  BY AccruedPoolFacts DEF AccrualOf
<1>2. /\ AccruedPool.total_deposits \in U64
      /\ AccruedPool.total_borrows \in U64
      /\ AccruedPool.accrued_protocol_fees \in U64
      /\ AccruedPool.reserve_ratio_bips \in U16
      /\ AccruedPool.scale_factor \in U128
  BY <1>1 DEF Pool
<1> QED
  BY <1>1, <1>2, WordTypes

\* Rewriting one field of a pool with a value of its type leaves a pool.
LEMMA PoolUpdates ==
  ASSUME NEW p \in Pool, NEW x \in U64
  PROVE  /\ [p EXCEPT !.total_deposits = x] \in Pool
         /\ [p EXCEPT !.total_borrows = x] \in Pool
         /\ [p EXCEPT !.accrued_protocol_fees = x] \in Pool
BY DEF Pool

\* TypeInv is inductive: it holds at the start, and each instruction keeps it.
LEMMA TypeInvInit == Init => TypeInv
<1> SUFFICES ASSUME Init PROVE TypeInv
  OBVIOUS
<1> USE DEF Init
<1>1. pool \in Pool
  BY WordTypes DEF NoPool, Pool
<1>2. lender \in [Lenders -> LenderPosition]
  BY WordTypes DEF NoDeposit, LenderPosition
<1>3. borrower \in [Agents -> BorrowerPosition]
  BY WordTypes DEF NoLoan, BorrowerPosition
<1>4. wallet \in [Users -> Nat]
  BY CoreAssumption
<1>5. /\ ~pool.initialized
      /\ pool.last_accrual_timestamp = 0
      /\ \A a \in Agents : borrower[a].last_accrual_timestamp = 0
  BY DEF NoPool, NoLoan
<1> QED
  BY <1>1, <1>2, <1>3, <1>4, <1>5 DEF TypeInv, TypeOK, ScaleAtLeastRay

\* initialize_pool starts from a well-typed pool at scale factor RAY.
LEMMA TypeInvInitializePool ==
  ASSUME TypeInv, NEW h \in HookPrograms, NEW bips \in InterestBips,
         NEW term \in TermSeconds, NEW reserve \in ReserveRatioBips,
         NEW window \in DepositWindowEnds,
         InitializePool(h, bips, term, reserve, window)
  PROVE  TypeInv'
<1> USE DEF InitializePool
<1>1. bips \in U16 /\ term \in Int /\ reserve \in U16 /\ window \in Int
  BY CoreAssumption
<1>2. clock \in Nat
  BY DEF TypeInv, TypeOK
<1>3. pool' \in Pool
  BY <1>1, <1>2, WordTypes DEF Pool
<1>4. pool'.scale_factor = RAY /\ pool'.last_accrual_timestamp = clock'
  OBVIOUS
<1> QED
  BY <1>2, <1>3, <1>4, WordTypes DEF TypeInv, TypeOK, ScaleAtLeastRay

\* deposit keeps every balance in its type: the checked additions see to it.
LEMMA TypeInvDeposit ==
  ASSUME TypeInv, NEW l \in Lenders, NEW amount \in Amounts, Deposit(l, amount)
  PROVE  TypeInv'
<1> DEFINE p == AccruedPool
           scaled == ScaledAmount(amount, p.scale_factor)
           credited == Credited(lender[l], amount, scaled)
<1>1. CanAccrue
  BY DEF Deposit
<1>2. /\ p \in Pool /\ p.total_deposits \in Nat /\ p.scale_factor \in Nat
      /\ p.scale_factor >= RAY
      /\ p.last_accrual_timestamp <= clock
  BY <1>1, AccruedPoolFacts, AccruedPoolNumbers DEF AccrualOf
<1>3. amount \in U64 /\ amount \in Nat
  BY CoreAssumption, WordTypes
<1>4. scaled \in U64 /\ scaled \in Nat
  BY <1>2, <1>3, ScaledWithinAmount, WordTypes
<1>5. lender[l].total_deposited \in Nat /\ lender[l].scaled_deposit \in Nat
  <2>1. lender[l].total_deposited \in U64 /\ lender[l].scaled_deposit \in U64
    BY DEF TypeInv, TypeOK, LenderPosition
  <2> QED
    BY <2>1, WordTypes
<1>6. /\ credited.scaled_deposit <= U64Max
      /\ credited.total_deposited <= U64Max
      /\ p.total_deposits + amount <= U64Max
      /\ pool' = [p EXCEPT !.total_deposits = @ + amount]
      /\ lender' = [lender EXCEPT ![l] = credited]
      /\ amount <= wallet[l]
      /\ vault' = vault + amount
      /\ wallet' = [wallet EXCEPT ![l] = @ - amount]
      /\ UNCHANGED <<clock, config, borrower>>
  BY DEF Deposit
<1> HIDE DEF p, scaled
<1>7. credited \in LenderPosition
  BY <1>3, <1>4, <1>5, <1>6 DEF Credited, LenderPosition, U64
<1>8. p.total_deposits + amount \in U64
  BY <1>2, <1>3, <1>6 DEF U64
<1>9. /\ pool' = [p EXCEPT !.total_deposits = p.total_deposits + amount]
      /\ pool' \in Pool
  BY <1>2, <1>6, <1>8, PoolUpdates
<1>10. /\ pool'.scale_factor = p.scale_factor
       /\ pool'.last_accrual_timestamp = p.last_accrual_timestamp
  BY <1>2, <1>9 DEF Pool
<1> HIDE DEF credited
<1>11. lender' \in [Lenders -> LenderPosition]
  BY <1>6, <1>7 DEF TypeInv, TypeOK
<1>12. vault' \in Nat
  BY <1>3, <1>6 DEF TypeInv, TypeOK
<1>13. wallet' \in [Users -> Nat]
  BY <1>3, <1>6 DEF TypeInv, TypeOK, Users
<1> QED
  BY <1>2, <1>6, <1>9, <1>10, <1>11, <1>12, <1>13
  DEF TypeInv, TypeOK, ScaleAtLeastRay

\* What a hook moves is a number of tokens, for each user and in total.
LEMMA DivertedType ==
  ASSUME NEW reply \in HookReplies
  PROVE  reply.diverted \in [Users -> Nat] /\ Total(reply.diverted) \in Nat
<1>1. reply.diverted \in [Users -> U64] /\ IsFiniteSet(Users)
  BY CoreAssumption DEF HookReply
<1>2. reply.diverted \in [Users -> Nat]
  BY <1>1, WordTypes
<1> QED
  BY <1>1, <1>2, TotalType

\* borrow leaves no negative vault: the transfer needs the tokens to be there.
LEMMA TypeInvBorrow ==
  ASSUME TypeInv, NEW a \in Agents, NEW amount \in Amounts,
         NEW h \in HookPrograms, NEW reply \in HookReplies,
         Borrow(a, amount, h, reply)
  PROVE  TypeInv'
<1> DEFINE p == AccruedPool
<1>1. CanAccrue
  BY DEF Borrow
<1>2. /\ p \in Pool /\ p.total_deposits \in Nat /\ p.total_borrows \in Nat
      /\ p.accrued_protocol_fees \in Nat /\ p.reserve_ratio_bips \in Nat
      /\ p.scale_factor >= RAY
      /\ p.last_accrual_timestamp <= clock
  BY <1>1, AccruedPoolFacts, AccruedPoolNumbers DEF AccrualOf
<1>3. amount \in U64 /\ amount \in Nat
  BY CoreAssumption, WordTypes
<1>5. /\ p.total_borrows + amount <= U64Max
      /\ pool' = [p EXCEPT !.total_borrows = @ + amount]
      /\ borrower' = [borrower EXCEPT ![a] = Loan(amount, reply, clock)]
      /\ amount <= vault - Total(reply.diverted)
      /\ vault' = vault - Total(reply.diverted) - amount
      /\ wallet' = [u \in Users |->
                      wallet[u] + reply.diverted[u] + IF u = a THEN amount ELSE 0]
      /\ UNCHANGED <<clock, config, lender>>
  BY DEF Borrow
<1> HIDE DEF p
<1>6. reply.diverted \in [Users -> Nat] /\ Total(reply.diverted) \in Nat
  BY DivertedType
<1>7. p.total_borrows + amount \in U64
  BY <1>2, <1>3, <1>5 DEF U64
<1>8. /\ pool' = [p EXCEPT !.total_borrows = p.total_borrows + amount]
      /\ pool' \in Pool
  BY <1>2, <1>5, <1>7, PoolUpdates
<1>9. /\ pool'.scale_factor = p.scale_factor
      /\ pool'.last_accrual_timestamp = p.last_accrual_timestamp
  BY <1>2, <1>8 DEF Pool
<1>10. reply.interest_bips \in U16 /\ reply.term_seconds \in Int
  BY CoreAssumption DEF HookReply
<1>11. clock \in Nat
  BY DEF TypeInv, TypeOK
<1>12. /\ Loan(amount, reply, clock) \in BorrowerPosition
       /\ Loan(amount, reply, clock).last_accrual_timestamp = clock
  BY <1>3, <1>10, <1>11, WordTypes DEF Loan, BorrowerPosition
<1>13. /\ borrower' \in [Agents -> BorrowerPosition]
       /\ \A b \in Agents : borrower'[b].last_accrual_timestamp <= clock
  BY <1>5, <1>11, <1>12 DEF TypeInv, TypeOK
<1>14. vault' \in Nat
  BY <1>3, <1>5, <1>6 DEF TypeInv, TypeOK
<1>15. wallet' \in [Users -> Nat]
  BY <1>3, <1>5, <1>6 DEF TypeInv, TypeOK
<1> QED
  BY <1>2, <1>5, <1>8, <1>9, <1>13, <1>14, <1>15
  DEF TypeInv, TypeOK, ScaleAtLeastRay

\* A position's numbers, and what repaying it at the present makes of it.
LEMMA SettledFacts ==
  ASSUME TypeInv, NEW a \in Agents, NEW p,
         RepayFits(borrower[a], p, clock)
  PROVE  LET settled == Settled(borrower[a], clock)
         IN  /\ settled \in BorrowerPosition
             /\ settled.status = "Repaid"
             /\ settled.principal = borrower[a].principal
             /\ settled.annual_interest_bips = borrower[a].annual_interest_bips
             /\ settled.term_seconds = borrower[a].term_seconds
             /\ settled.last_accrual_timestamp = clock
             /\ borrower[a].principal \in Nat
             /\ TotalOwed(settled) \in Nat
             /\ TotalOwed(settled) >= borrower[a].principal
<1> DEFINE pos == borrower[a]
           i == AsU64(PositionInterest(pos, clock))
           settled == Settled(pos, clock)
<1>1. pos \in BorrowerPosition /\ clock \in Nat /\ pos.last_accrual_timestamp <= clock
  BY DEF TypeInv, TypeOK
<1>2. /\ pos.principal \in U64
      /\ pos.annual_interest_bips \in U16
      /\ pos.accrued_interest \in U64
      /\ pos.last_accrual_timestamp \in Nat
  BY <1>1 DEF BorrowerPosition
<1>3. /\ pos.principal \in Nat
      /\ pos.annual_interest_bips \in Nat
      /\ pos.accrued_interest \in Nat
  BY <1>2, WordTypes
<1>4. clock - pos.last_accrual_timestamp \in Nat
  BY <1>1, <1>2
<1>5. PositionInterest(pos, clock) \in Nat
  BY <1>3, <1>4, InterestType DEF PositionInterest
<1>6. i \in Nat
  BY <1>5, AsU64Type
<1>7. settled = [pos EXCEPT !.status = "Repaid",
                            !.accrued_interest = @ + i,
                            !.last_accrual_timestamp = clock]
  BY DEF Settled
<1>8. settled.accrued_interest <= U64Max
  BY DEF RepayFits
<1> HIDE DEF i, settled
<1>9. /\ settled.accrued_interest = pos.accrued_interest + i
      /\ settled.status = "Repaid"
      /\ settled.principal = pos.principal
      /\ settled.annual_interest_bips = pos.annual_interest_bips
      /\ settled.term_seconds = pos.term_seconds
      /\ settled.last_accrual_timestamp = clock
  BY <1>1, <1>7 DEF BorrowerPosition
<1>10. pos.accrued_interest + i \in U64
  BY <1>3, <1>6, <1>8, <1>9 DEF U64
<1>11. settled \in BorrowerPosition
  BY <1>1, <1>7, <1>10 DEF BorrowerPosition
<1>12. TotalOwed(settled) \in Nat /\ TotalOwed(settled) >= pos.principal
  BY <1>3, <1>6, <1>9 DEF TotalOwed
<1> QED
  BY <1>3, <1>9, <1>11, <1>12 DEF settled

\* repay takes from total_borrows only what RepayFits found in it.
LEMMA TypeInvRepay ==
  ASSUME TypeInv, NEW a \in Agents, NEW payer \in Users, Repay(a, payer)
  PROVE  TypeInv'
<1> DEFINE p == AccruedPool
           settled == Settled(borrower[a], clock)
           owed == TotalOwed(settled)
<1>1. CanAccrue
  BY DEF Repay
<1>2. /\ p \in Pool /\ p.total_borrows \in Nat
      /\ p.scale_factor >= RAY
      /\ p.last_accrual_timestamp <= clock
  BY <1>1, AccruedPoolFacts, AccruedPoolNumbers DEF AccrualOf
<1>3. p.total_borrows \in U64
  BY <1>2 DEF Pool
<1>4. /\ RepayFits(borrower[a], p, clock)
      /\ owed <= wallet[payer]
      /\ pool' = LessRepaid(p, settled)
      /\ borrower' = [borrower EXCEPT ![a] = settled]
      /\ vault' = vault + owed
      /\ wallet' = [wallet EXCEPT ![payer] = @ - owed]
      /\ UNCHANGED <<clock, config, lender>>
  BY DEF Repay
<1>5. /\ settled \in BorrowerPosition
      /\ settled.principal = borrower[a].principal
      /\ settled.last_accrual_timestamp = clock
      /\ borrower[a].principal \in Nat
      /\ owed \in Nat
  BY <1>4, SettledFacts
<1>6. borrower[a].principal <= p.total_borrows
  BY <1>4 DEF RepayFits
<1> HIDE DEF p, settled, owed
<1>7. p.total_borrows - settled.principal \in U64
  BY <1>2, <1>3, <1>5, <1>6, MathAssumption DEF U64
<1>8. /\ pool' = [p EXCEPT !.total_borrows = p.total_borrows - settled.principal]
      /\ pool' \in Pool
  BY <1>2, <1>4, <1>7, PoolUpdates DEF LessRepaid
<1>9. /\ pool'.scale_factor = p.scale_factor
      /\ pool'.last_accrual_timestamp = p.last_accrual_timestamp
  BY <1>2, <1>8 DEF Pool
<1>10. clock \in Nat
  BY DEF TypeInv, TypeOK
<1>11. /\ borrower' \in [Agents -> BorrowerPosition]
       /\ \A b \in Agents : borrower'[b].last_accrual_timestamp <= clock
  BY <1>4, <1>5, <1>10 DEF TypeInv, TypeOK
<1>12. vault' \in Nat
  BY <1>4, <1>5 DEF TypeInv, TypeOK
<1>13. wallet' \in [Users -> Nat]
  BY <1>4, <1>5 DEF TypeInv, TypeOK
<1> QED
  BY <1>2, <1>4, <1>8, <1>9, <1>11, <1>12, <1>13
  DEF TypeInv, TypeOK, ScaleAtLeastRay

\* withdraw leaves no negative vault: the payout fits beside the fees.
LEMMA TypeInvWithdraw ==
  ASSUME TypeInv, NEW l \in Lenders, Withdraw(l)
  PROVE  TypeInv'
<1> DEFINE p == AccruedPool
           payout == Payout(lender[l].scaled_deposit, p.scale_factor)
<1>1. CanAccrue
  BY DEF Withdraw
<1>2. /\ p \in Pool /\ p.total_deposits \in Nat /\ p.scale_factor \in Nat
      /\ p.accrued_protocol_fees \in Nat
      /\ p.scale_factor >= RAY
      /\ p.last_accrual_timestamp <= clock
  BY <1>1, AccruedPoolFacts, AccruedPoolNumbers DEF AccrualOf
<1>3. p.total_deposits \in U64
  BY <1>2 DEF Pool
<1>4. lender[l].scaled_deposit \in U64 /\ lender[l].total_deposited \in U64
  BY DEF TypeInv, TypeOK, LenderPosition
<1>5. lender[l].scaled_deposit \in Nat /\ lender[l].total_deposited \in Nat
  BY <1>4, WordTypes
<1>6. payout \in Nat
  BY <1>2, <1>5, PayoutBounds
<1>7. /\ payout <= Withdrawable(p, vault)
      /\ lender[l].total_deposited <= p.total_deposits
      /\ pool' = LessWithdrawn(p, lender[l])
      /\ vault' = vault - payout
      /\ wallet' = [wallet EXCEPT ![l] = @ + payout]
      /\ lender' = [lender EXCEPT ![l] = NoDeposit]
      /\ UNCHANGED <<clock, config, borrower>>
  BY DEF Withdraw
<1> HIDE DEF p, payout
<1>8. payout <= vault
  BY <1>2, <1>6, <1>7 DEF Withdrawable, TypeInv, TypeOK
<1>9. p.total_deposits - lender[l].total_deposited \in U64
  BY <1>2, <1>3, <1>5, <1>7, MathAssumption DEF U64
<1>10. /\ pool' = [p EXCEPT !.total_deposits
                              = p.total_deposits - lender[l].total_deposited]
       /\ pool' \in Pool
  BY <1>2, <1>7, <1>9, PoolUpdates DEF LessWithdrawn
<1>11. /\ pool'.scale_factor = p.scale_factor
       /\ pool'.last_accrual_timestamp = p.last_accrual_timestamp
  BY <1>2, <1>10 DEF Pool
<1>12. NoDeposit \in LenderPosition
  BY WordTypes DEF NoDeposit, LenderPosition
<1>13. lender' \in [Lenders -> LenderPosition]
  BY <1>7, <1>12 DEF TypeInv, TypeOK
<1>14. vault' \in Nat
  BY <1>6, <1>7, <1>8 DEF TypeInv, TypeOK
<1>15. wallet' \in [Users -> Nat]
  BY <1>6, <1>7 DEF TypeInv, TypeOK, Users
<1> QED
  BY <1>2, <1>7, <1>10, <1>11, <1>13, <1>14, <1>15
  DEF TypeInv, TypeOK, ScaleAtLeastRay

\* claim_protocol_fees takes no more than the vault holds.
LEMMA TypeInvClaimProtocolFees ==
  ASSUME TypeInv, NEW r \in FeeRecipients, ClaimProtocolFees(r)
  PROVE  TypeInv'
<1> DEFINE p == AccruedPool
           fees == p.accrued_protocol_fees
<1>1. CanAccrue
  BY DEF ClaimProtocolFees
<1>2. /\ p \in Pool /\ fees \in Nat
      /\ p.scale_factor >= RAY
      /\ p.last_accrual_timestamp <= clock
  BY <1>1, AccruedPoolFacts, AccruedPoolNumbers DEF AccrualOf
<1>3. /\ fees <= vault
      /\ pool' = [p EXCEPT !.accrued_protocol_fees = 0]
      /\ vault' = vault - fees
      /\ wallet' = [wallet EXCEPT ![r] = @ + fees]
      /\ UNCHANGED <<clock, config, lender, borrower>>
  BY DEF ClaimProtocolFees
<1> HIDE DEF p, fees
<1>4. pool' \in Pool
  BY <1>2, <1>3, WordTypes, PoolUpdates
<1>5. /\ pool'.scale_factor = p.scale_factor
      /\ pool'.last_accrual_timestamp = p.last_accrual_timestamp
  BY <1>2, <1>3 DEF Pool
<1>6. vault' \in Nat
  BY <1>2, <1>3 DEF TypeInv, TypeOK
<1>7. wallet' \in [Users -> Nat]
  BY <1>2, <1>3 DEF TypeInv, TypeOK, Users
<1> QED
  BY <1>2, <1>3, <1>4, <1>5, <1>6, <1>7 DEF TypeInv, TypeOK, ScaleAtLeastRay

\* Every step keeps TypeInv; time passing and top-ups included.
LEMMA TypeInvNext == TypeInv /\ [Next]_vars => TypeInv'
<1> SUFFICES ASSUME TypeInv, [Next]_vars PROVE TypeInv'
  OBVIOUS
<1>1. ASSUME NEW r \in FeeRecipients, InitializeProtocol(r) PROVE TypeInv'
  BY <1>1 DEF InitializeProtocol, TypeInv, TypeOK, ScaleAtLeastRay
<1>2. ASSUME NEW h \in HookPrograms, NEW bips \in InterestBips,
             NEW term \in TermSeconds, NEW reserve \in ReserveRatioBips,
             NEW window \in DepositWindowEnds,
             InitializePool(h, bips, term, reserve, window)
      PROVE  TypeInv'
  BY <1>2, TypeInvInitializePool
<1>3. ASSUME NEW l \in Lenders, NEW amount \in Amounts, Deposit(l, amount)
      PROVE  TypeInv'
  BY <1>3, TypeInvDeposit
<1>4. ASSUME NEW a \in Agents, NEW amount \in Amounts, NEW h \in HookPrograms,
             NEW reply \in HookReplies, Borrow(a, amount, h, reply)
      PROVE  TypeInv'
  BY <1>4, TypeInvBorrow
<1>5. ASSUME NEW a \in Agents, NEW payer \in Users, Repay(a, payer)
      PROVE  TypeInv'
  BY <1>5, TypeInvRepay
<1>6. ASSUME NEW l \in Lenders, Withdraw(l) PROVE TypeInv'
  BY <1>6, TypeInvWithdraw
<1>7. ASSUME NEW r \in FeeRecipients, ClaimProtocolFees(r) PROVE TypeInv'
  BY <1>7, TypeInvClaimProtocolFees
<1>8. ASSUME NEW u \in Users, NEW amount \in TopUps, TopUpVault(u, amount)
      PROVE  TypeInv'
  <2>1. amount \in Nat
    BY CoreAssumption, WordTypes
  <2>2. vault' \in Nat /\ wallet' \in [Users -> Nat]
    BY <1>8, <2>1 DEF TopUpVault, TypeInv, TypeOK
  <2> QED
    BY <1>8, <2>2 DEF TopUpVault, TypeInv, TypeOK, ScaleAtLeastRay
<1>9. CASE Tick
  <2>1. /\ clock' \in Nat
        /\ pool' = pool
        /\ pool.last_accrual_timestamp <= clock'
    BY <1>9 DEF Tick, TypeInv, TypeOK, Pool
  <2>2. \A a \in Agents : borrower[a].last_accrual_timestamp <= clock'
    BY <1>9 DEF Tick, TypeInv, TypeOK, BorrowerPosition
  <2> QED
    BY <1>9, <2>1, <2>2 DEF Tick, TypeInv, TypeOK, ScaleAtLeastRay
<1>10. CASE UNCHANGED vars
  BY <1>10 DEF vars, TypeInv, TypeOK, ScaleAtLeastRay
<1> QED
  BY <1>1, <1>2, <1>3, <1>4, <1>5, <1>6, <1>7, <1>8, <1>9, <1>10 DEF Next

\* In every reachable state every account holds values of its type, no balance
\* is negative and no accrual is dated in the future.
THEOREM TypeInvariant == Spec => []TypeInv
<1>1. Init => TypeInv
  BY TypeInvInit
<1>2. TypeInv /\ [Next]_vars => TypeInv'
  BY TypeInvNext
<1> QED
  BY <1>1, <1>2, PTL DEF Spec

\* In every behaviour of every instance, all accounts hold values their Rust
\* types can hold, no balance is negative and no accrual is dated ahead.
THEOREM TypeCorrect == Spec => []TypeOK
<1>1. TypeInv => TypeOK
  BY DEF TypeInv
<1> QED
  BY <1>1, TypeInvariant, PTL

-------------------------------------------------------------------------------
(***************************************************************************)
(* The pool's totals and the positions                                     *)
(***************************************************************************)

\* Nothing exists before the pool does.
EmptyBeforePool ==
  ~pool.initialized =>
    /\ pool = NoPool
    /\ lender = [l \in Lenders |-> NoDeposit]
    /\ borrower = [a \in Agents |-> NoLoan]
    /\ vault = 0

Deposited == [l \in Lenders |-> lender[l].total_deposited]
Borrowed == [a \in Agents |-> Outstanding(a)]

\* Finitely many lenders and agents, so that totals are numbers.
LEMMA UsersFinite == IsFiniteSet(Lenders) /\ IsFiniteSet(Agents)
<1>1. IsFiniteSet(Users) /\ Lenders \in SUBSET Users /\ Agents \in SUBSET Users
  BY CoreAssumption DEF Users
<1> QED
  BY <1>1, FS_Subset

\* What each user has in or owes is a number of tokens.
LEMMA LedgerTypes ==
  ASSUME TypeInv
  PROVE  Deposited \in [Lenders -> Nat] /\ Borrowed \in [Agents -> Nat]
<1>1. \A l \in Lenders : lender[l].total_deposited \in U64
  BY DEF TypeInv, TypeOK, LenderPosition
<1>2. \A a \in Agents : borrower[a].principal \in U64
  BY DEF TypeInv, TypeOK, BorrowerPosition
<1>3. \A a \in Agents : Outstanding(a) \in Nat
  BY <1>2, WordTypes DEF Outstanding
<1> QED
  BY <1>1, <1>3, WordTypes DEF Deposited, Borrowed

\* The fields that rewriting a total or the fees does not touch.
LEMMA PoolUpdateFields ==
  ASSUME NEW p \in Pool, NEW x
  PROVE  /\ LET q == [p EXCEPT !.total_deposits = x]
            IN  /\ q.total_deposits = x
                /\ q.total_borrows = p.total_borrows
                /\ q.accrued_protocol_fees = p.accrued_protocol_fees
                /\ q.reserve_ratio_bips = p.reserve_ratio_bips
                /\ q.initialized = p.initialized
         /\ LET q == [p EXCEPT !.total_borrows = x]
            IN  /\ q.total_borrows = x
                /\ q.total_deposits = p.total_deposits
                /\ q.accrued_protocol_fees = p.accrued_protocol_fees
                /\ q.reserve_ratio_bips = p.reserve_ratio_bips
                /\ q.initialized = p.initialized
         /\ LET q == [p EXCEPT !.accrued_protocol_fees = x]
            IN  /\ q.accrued_protocol_fees = x
                /\ q.total_deposits = p.total_deposits
                /\ q.total_borrows = p.total_borrows
                /\ q.reserve_ratio_bips = p.reserve_ratio_bips
                /\ q.initialized = p.initialized
BY DEF Pool

\* What each instruction makes of the pool's totals, its fees and its ratio.
LEMMA DepositEffect ==
  ASSUME TypeInv, NEW l \in Lenders, NEW amount \in Amounts, Deposit(l, amount)
  PROVE  /\ amount \in Nat
         /\ pool'.initialized
         /\ pool'.total_deposits = pool.total_deposits + amount
         /\ pool'.total_borrows = pool.total_borrows
         /\ pool'.reserve_ratio_bips = pool.reserve_ratio_bips
         /\ Deposited' = [Deposited EXCEPT ![l] = @ + amount]
         /\ Borrowed' = Borrowed
<1>1. CanAccrue
  BY DEF Deposit
<1>2. AccruedPool \in Pool /\ AccrualOf(pool, AccruedPool, clock)
  BY <1>1, AccruedPoolFacts DEF AccrualOf
<1>3. pool' = [AccruedPool EXCEPT !.total_deposits = AccruedPool.total_deposits + amount]
  BY DEF Deposit
<1>4. \E scaled : lender' = [lender EXCEPT ![l] = Credited(lender[l], amount, scaled)]
  BY DEF Deposit
<1>5. Deposited' = [Deposited EXCEPT ![l] = @ + amount]
  <2>1. PICK scaled : lender' = [lender EXCEPT ![l] = Credited(lender[l], amount, scaled)]
    BY <1>4
  <2>2. /\ lender'[l].total_deposited = lender[l].total_deposited + amount
        /\ \A m \in Lenders \ {l} : lender'[m] = lender[m]
    BY <2>1 DEF Credited, TypeInv, TypeOK
  <2>3. /\ Deposited'[l] = Deposited[l] + amount
        /\ \A m \in Lenders \ {l} : Deposited'[m] = Deposited[m]
    BY <2>2 DEF Deposited
  <2>4. /\ Deposited' = [m \in Lenders |-> Deposited'[m]]
        /\ Deposited = [m \in Lenders |-> Deposited[m]]
    BY DEF Deposited
  <2> QED
    BY <2>3, <2>4
<1>6. Borrowed' = Borrowed
  BY DEF Deposit, Borrowed, Outstanding
<1>7. amount \in Nat
  BY CoreAssumption, WordTypes
<1> QED
  BY <1>2, <1>3, <1>5, <1>6, <1>7, PoolUpdateFields DEF AccrualOf

\* borrow on the ledger: one loan appears, of the amount lent.
LEMMA BorrowEffect ==
  ASSUME TypeInv, NEW a \in Agents, NEW amount \in Amounts,
         NEW h \in HookPrograms, NEW reply \in HookReplies,
         Borrow(a, amount, h, reply)
  PROVE  /\ amount \in Nat
         /\ pool'.initialized
         /\ pool'.total_deposits = pool.total_deposits
         /\ pool'.total_borrows = pool.total_borrows + amount
         /\ pool'.reserve_ratio_bips = pool.reserve_ratio_bips
         /\ pool'.accrued_protocol_fees = AccruedPool.accrued_protocol_fees
         /\ Deposited' = Deposited
         /\ Borrowed[a] = 0
         /\ Borrowed' = [Borrowed EXCEPT ![a] = amount]
<1>1. CanAccrue
  BY DEF Borrow
<1>2. AccruedPool \in Pool /\ AccrualOf(pool, AccruedPool, clock)
  BY <1>1, AccruedPoolFacts DEF AccrualOf
<1>3. pool' = [AccruedPool EXCEPT !.total_borrows = AccruedPool.total_borrows + amount]
  BY DEF Borrow
<1>4. /\ borrower[a].status = "None"
      /\ borrower' = [borrower EXCEPT ![a] = Loan(amount, reply, clock)]
      /\ lender' = lender
  BY DEF Borrow
<1>5. Borrowed' = [Borrowed EXCEPT ![a] = amount]
  BY <1>4 DEF Borrowed, Outstanding, Loan, TypeInv, TypeOK
<1>6. Deposited' = Deposited /\ Borrowed[a] = 0
  BY <1>4 DEF Deposited, Borrowed, Outstanding
<1>7. amount \in Nat
  BY CoreAssumption, WordTypes
<1> QED
  BY <1>2, <1>3, <1>5, <1>6, <1>7, PoolUpdateFields DEF AccrualOf

\* repay on the ledger: the whole principal of one loan goes, once.
LEMMA RepayEffect ==
  ASSUME TypeInv, NEW a \in Agents, NEW payer \in Users, Repay(a, payer)
  PROVE  /\ pool'.initialized
         /\ pool'.total_deposits = pool.total_deposits
         /\ pool'.total_borrows = pool.total_borrows - borrower[a].principal
         /\ pool'.reserve_ratio_bips = pool.reserve_ratio_bips
         /\ Deposited' = Deposited
         /\ Borrowed[a] = borrower[a].principal
         /\ Borrowed' = [Borrowed EXCEPT ![a] = 0]
<1> DEFINE settled == Settled(borrower[a], clock)
<1>1. CanAccrue
  BY DEF Repay
<1>2. AccruedPool \in Pool /\ AccrualOf(pool, AccruedPool, clock)
  BY <1>1, AccruedPoolFacts DEF AccrualOf
<1>3. /\ RepayFits(borrower[a], AccruedPool, clock)
      /\ borrower[a].status = "Active"
      /\ pool' = LessRepaid(AccruedPool, settled)
      /\ borrower' = [borrower EXCEPT ![a] = settled]
      /\ lender' = lender
  BY DEF Repay
<1>4. settled.status = "Repaid" /\ settled.principal = borrower[a].principal
  BY <1>3, SettledFacts
<1> HIDE DEF settled
<1>5. pool' = [AccruedPool EXCEPT !.total_borrows
                 = AccruedPool.total_borrows - borrower[a].principal]
  BY <1>3, <1>4 DEF LessRepaid
<1>6. Borrowed' = [Borrowed EXCEPT ![a] = 0]
  BY <1>3, <1>4 DEF Borrowed, Outstanding, TypeInv, TypeOK
<1>7. Deposited' = Deposited /\ Borrowed[a] = borrower[a].principal
  BY <1>3 DEF Deposited, Borrowed, Outstanding
<1> QED
  BY <1>2, <1>5, <1>6, <1>7, PoolUpdateFields DEF AccrualOf

\* withdraw on the ledger: all of one lender's deposits go.
LEMMA WithdrawEffect ==
  ASSUME TypeInv, NEW l \in Lenders, Withdraw(l)
  PROVE  /\ pool'.initialized
         /\ pool'.total_deposits = pool.total_deposits - lender[l].total_deposited
         /\ pool'.total_borrows = pool.total_borrows
         /\ pool'.reserve_ratio_bips = pool.reserve_ratio_bips
         /\ pool'.accrued_protocol_fees = AccruedPool.accrued_protocol_fees
         /\ Deposited[l] = lender[l].total_deposited
         /\ Deposited' = [Deposited EXCEPT ![l] = 0]
         /\ Borrowed' = Borrowed
<1>1. CanAccrue
  BY DEF Withdraw
<1>2. AccruedPool \in Pool /\ AccrualOf(pool, AccruedPool, clock)
  BY <1>1, AccruedPoolFacts DEF AccrualOf
<1>3. /\ pool' = [AccruedPool EXCEPT !.total_deposits
                    = AccruedPool.total_deposits - lender[l].total_deposited]
      /\ lender' = [lender EXCEPT ![l] = NoDeposit]
      /\ borrower' = borrower
  BY DEF Withdraw, LessWithdrawn
<1>4. Deposited' = [Deposited EXCEPT ![l] = 0]
  BY <1>3 DEF Deposited, NoDeposit, TypeInv, TypeOK
<1>5. Borrowed' = Borrowed /\ Deposited[l] = lender[l].total_deposited
  BY <1>3 DEF Deposited, Borrowed, Outstanding
<1> QED
  BY <1>2, <1>3, <1>4, <1>5, PoolUpdateFields DEF AccrualOf

\* claim_protocol_fees on the ledger: nothing.
LEMMA ClaimProtocolFeesEffect ==
  ASSUME TypeInv, NEW r \in FeeRecipients, ClaimProtocolFees(r)
  PROVE  /\ pool'.initialized
         /\ pool'.total_deposits = pool.total_deposits
         /\ pool'.total_borrows = pool.total_borrows
         /\ pool'.reserve_ratio_bips = pool.reserve_ratio_bips
         /\ pool'.accrued_protocol_fees = 0
         /\ Deposited' = Deposited
         /\ Borrowed' = Borrowed
<1>1. CanAccrue
  BY DEF ClaimProtocolFees
<1>2. AccruedPool \in Pool /\ AccrualOf(pool, AccruedPool, clock)
  BY <1>1, AccruedPoolFacts DEF AccrualOf
<1>3. /\ pool' = [AccruedPool EXCEPT !.accrued_protocol_fees = 0]
      /\ UNCHANGED <<lender, borrower>>
  BY DEF ClaimProtocolFees
<1>4. Deposited' = Deposited /\ Borrowed' = Borrowed
  BY <1>3 DEF Deposited, Borrowed, Outstanding
<1> QED
  BY <1>2, <1>3, <1>4, PoolUpdateFields DEF AccrualOf

LedgerInv ==
  /\ EmptyBeforePool
  /\ DepositsMatchPositions
  /\ BorrowsMatchPositions

\* The two properties, in terms of the ledger functions.
LEMMA LedgerTotals ==
  /\ DepositsMatchPositions <=> pool.total_deposits = Total(Deposited)
  /\ BorrowsMatchPositions <=> pool.total_borrows = Total(Borrowed)
BY DEF DepositsMatchPositions, BorrowsMatchPositions, Deposited, Borrowed

\* The same after a step.
LEMMA LedgerTotalsPrimed ==
  /\ DepositsMatchPositions' <=> pool'.total_deposits = Total(Deposited')
  /\ BorrowsMatchPositions' <=> pool'.total_borrows = Total(Borrowed')
BY DEF DepositsMatchPositions, BorrowsMatchPositions, Deposited, Borrowed

\* One position's amount changes: so does the total.
LEMMA LedgerUpdate ==
  ASSUME TypeInv, NEW v \in Nat
  PROVE  /\ \A l \in Lenders :
              /\ Deposited[l] \in Nat
              /\ Total([Deposited EXCEPT ![l] = v])
                   = Total(Deposited) - Deposited[l] + v
         /\ \A a \in Agents :
              /\ Borrowed[a] \in Nat
              /\ Total([Borrowed EXCEPT ![a] = v])
                   = Total(Borrowed) - Borrowed[a] + v
<1>1. Deposited \in [Lenders -> Nat] /\ Borrowed \in [Agents -> Nat]
  BY LedgerTypes
<1> QED
  BY <1>1, UsersFinite, TotalUpdate

\* Steps that leave the positions' amounts and the pool's totals alone.
LEMMA LedgerUnchanged ==
  ASSUME LedgerInv, Deposited' = Deposited, Borrowed' = Borrowed,
         pool'.total_deposits = pool.total_deposits,
         pool'.total_borrows = pool.total_borrows,
         EmptyBeforePool'
  PROVE  LedgerInv'
BY LedgerTotals, LedgerTotalsPrimed DEF LedgerInv

\* The ledger invariant is inductive, given TypeInv.
LEMMA LedgerInvInit == Init => LedgerInv
<1> SUFFICES ASSUME Init PROVE LedgerInv
  OBVIOUS
<1>1. EmptyBeforePool
  BY DEF Init, EmptyBeforePool
<1>2. Deposited \in [Lenders -> Nat] /\ \A l \in Lenders : Deposited[l] = 0
  BY DEF Init, Deposited, NoDeposit
<1>3. Borrowed \in [Agents -> Nat] /\ \A a \in Agents : Borrowed[a] = 0
  BY DEF Init, Borrowed, Outstanding, NoLoan
<1>4. Total(Deposited) = 0 /\ Total(Borrowed) = 0
  BY <1>2, <1>3, TotalZero
<1>5. pool.total_deposits = 0 /\ pool.total_borrows = 0
  BY DEF Init, NoPool
<1> QED
  BY <1>1, <1>4, <1>5, LedgerTotals DEF LedgerInv

\* Each instruction changes a position and the total by the same amount.
LEMMA LedgerInvNext == TypeInv /\ LedgerInv /\ [Next]_vars => LedgerInv'
<1> SUFFICES ASSUME TypeInv, LedgerInv, [Next]_vars PROVE LedgerInv'
  OBVIOUS
<1> DEFINE D == Total(Deposited)
           B == Total(Borrowed)
<1>a. /\ Deposited \in [Lenders -> Nat] /\ Borrowed \in [Agents -> Nat]
      /\ pool.total_deposits = D /\ pool.total_borrows = B
  BY LedgerTypes, LedgerTotals DEF LedgerInv
<1>b. D \in Nat /\ B \in Nat
  BY <1>a, UsersFinite, TotalType
<1>c. /\ DepositsMatchPositions' <=> pool'.total_deposits = Total(Deposited')
      /\ BorrowsMatchPositions' <=> pool'.total_borrows = Total(Borrowed')
  BY LedgerTotalsPrimed
<1>1. ASSUME NEW r \in FeeRecipients, InitializeProtocol(r) PROVE LedgerInv'
  BY <1>1, LedgerUnchanged
  DEF InitializeProtocol, LedgerInv, EmptyBeforePool, Deposited, Borrowed, Outstanding
<1>2. ASSUME NEW h \in HookPrograms, NEW bips \in InterestBips,
             NEW term \in TermSeconds, NEW reserve \in ReserveRatioBips,
             NEW window \in DepositWindowEnds,
             InitializePool(h, bips, term, reserve, window)
      PROVE  LedgerInv'
  <2>1. /\ pool'.initialized /\ pool'.total_deposits = 0 /\ pool'.total_borrows = 0
        /\ ~pool.initialized
        /\ UNCHANGED <<lender, borrower>>
    BY <1>2 DEF InitializePool
  <2>2. pool.total_deposits = 0 /\ pool.total_borrows = 0
    BY <2>1 DEF LedgerInv, EmptyBeforePool, NoPool
  <2>3. Deposited' = Deposited /\ Borrowed' = Borrowed /\ EmptyBeforePool'
    BY <2>1 DEF Deposited, Borrowed, Outstanding, EmptyBeforePool
  <2> QED
    BY <2>1, <2>2, <2>3, LedgerUnchanged
<1>3. ASSUME NEW l \in Lenders, NEW amount \in Amounts, Deposit(l, amount)
      PROVE  LedgerInv'
  <2>1. /\ amount \in Nat /\ pool'.initialized
        /\ pool'.total_deposits = pool.total_deposits + amount
        /\ pool'.total_borrows = pool.total_borrows
        /\ Deposited' = [Deposited EXCEPT ![l] = Deposited[l] + amount]
        /\ Borrowed' = Borrowed
    BY <1>3, DepositEffect
  <2>2. Deposited[l] \in Nat /\ Deposited[l] + amount \in Nat
    BY <1>a, <2>1
  <2>3. Total(Deposited') = D - Deposited[l] + (Deposited[l] + amount)
    BY <2>1, <2>2, LedgerUpdate
  <2> QED
    BY <1>a, <1>b, <1>c, <2>1, <2>2, <2>3 DEF LedgerInv, EmptyBeforePool
<1>4. ASSUME NEW a \in Agents, NEW amount \in Amounts, NEW h \in HookPrograms,
             NEW reply \in HookReplies, Borrow(a, amount, h, reply)
      PROVE  LedgerInv'
  <2>1. /\ amount \in Nat /\ pool'.initialized
        /\ pool'.total_deposits = pool.total_deposits
        /\ pool'.total_borrows = pool.total_borrows + amount
        /\ Deposited' = Deposited
        /\ Borrowed[a] = 0
        /\ Borrowed' = [Borrowed EXCEPT ![a] = amount]
    BY <1>4, BorrowEffect
  <2>2. Total(Borrowed') = B - Borrowed[a] + amount
    BY <2>1, LedgerUpdate
  <2> QED
    BY <1>a, <1>b, <1>c, <2>1, <2>2 DEF LedgerInv, EmptyBeforePool
<1>5. ASSUME NEW a \in Agents, NEW payer \in Users, Repay(a, payer)
      PROVE  LedgerInv'
  <2>1. /\ pool'.initialized
        /\ pool'.total_deposits = pool.total_deposits
        /\ pool'.total_borrows = pool.total_borrows - borrower[a].principal
        /\ Deposited' = Deposited
        /\ Borrowed[a] = borrower[a].principal
        /\ Borrowed' = [Borrowed EXCEPT ![a] = 0]
    BY <1>5, RepayEffect
  <2>2. Total(Borrowed') = B - Borrowed[a] + 0 /\ Borrowed[a] \in Nat
    BY <2>1, LedgerUpdate
  <2> QED
    BY <1>a, <1>b, <1>c, <2>1, <2>2 DEF LedgerInv, EmptyBeforePool
<1>6. ASSUME NEW l \in Lenders, Withdraw(l) PROVE LedgerInv'
  <2>1. /\ pool'.initialized
        /\ pool'.total_deposits = pool.total_deposits - lender[l].total_deposited
        /\ pool'.total_borrows = pool.total_borrows
        /\ Deposited[l] = lender[l].total_deposited
        /\ Deposited' = [Deposited EXCEPT ![l] = 0]
        /\ Borrowed' = Borrowed
    BY <1>6, WithdrawEffect
  <2>2. Total(Deposited') = D - Deposited[l] + 0 /\ Deposited[l] \in Nat
    BY <2>1, LedgerUpdate
  <2> QED
    BY <1>a, <1>b, <1>c, <2>1, <2>2 DEF LedgerInv, EmptyBeforePool
<1>7. ASSUME NEW r \in FeeRecipients, ClaimProtocolFees(r) PROVE LedgerInv'
  BY <1>7, ClaimProtocolFeesEffect, LedgerUnchanged DEF EmptyBeforePool
<1>8. ASSUME NEW u \in Users, NEW amount \in TopUps, TopUpVault(u, amount)
      PROVE  LedgerInv'
  BY <1>8, LedgerUnchanged
  DEF TopUpVault, LedgerInv, EmptyBeforePool, Deposited, Borrowed, Outstanding
<1>9. CASE Tick
  BY <1>9, LedgerUnchanged
  DEF Tick, LedgerInv, EmptyBeforePool, Deposited, Borrowed, Outstanding
<1>10. CASE UNCHANGED vars
  BY <1>10, LedgerUnchanged
  DEF vars, LedgerInv, EmptyBeforePool, Deposited, Borrowed, Outstanding
<1> QED
  BY <1>1, <1>2, <1>3, <1>4, <1>5, <1>6, <1>7, <1>8, <1>9, <1>10 DEF Next

\* The pool's running totals are the sums over the positions in every reachable
\* state, for any number of lenders and agents.
THEOREM LedgerInvariant == Spec => [](TypeInv /\ LedgerInv)
<1>1. Init => TypeInv /\ LedgerInv
  BY TypeInvInit, LedgerInvInit
<1>2. (TypeInv /\ LedgerInv) /\ [Next]_vars => (TypeInv /\ LedgerInv)'
  BY TypeInvNext, LedgerInvNext
<1> QED
  BY <1>1, <1>2, PTL DEF Spec

\* The pool's total_deposits is the sum of the lender positions, whatever
\* deposits, withdrawals and accruals came before: withdraw cannot fail on it.
THEOREM DepositsAlwaysMatch == Spec => []DepositsMatchPositions
<1>1. TypeInv /\ LedgerInv => DepositsMatchPositions
  BY DEF LedgerInv
<1> QED
  BY <1>1, LedgerInvariant, PTL

\* The pool's total_borrows is the sum of the principals still owed, so the
\* checked_sub of repay cannot fail.
THEOREM BorrowsAlwaysMatch == Spec => []BorrowsMatchPositions
<1>1. TypeInv /\ LedgerInv => BorrowsMatchPositions
  BY DEF LedgerInv
<1> QED
  BY <1>1, LedgerInvariant, PTL

-------------------------------------------------------------------------------
(***************************************************************************)
(* What a step may never do                                                *)
(***************************************************************************)

\* What is lent fits beside reserve and fees into the vault that borrow reads,
\* before the hook is asked.
LEMMA LoanLeavesReserve ==
  ASSUME TypeInv, NEW a \in Agents, NEW amount \in Amounts,
         NEW h \in HookPrograms, NEW reply \in HookReplies,
         Borrow(a, amount, h, reply)
  PROVE  /\ OpensLoan(a)
         /\ borrower'[a].principal = amount
         /\ LeftByLoan(a) \in Int
         /\ LeftByLoan(a) >= pool'.accrued_protocol_fees
              + RequiredReserves(pool.total_deposits, pool.reserve_ratio_bips)
         /\ pool'.accrued_protocol_fees \in Nat
         /\ RequiredReserves(pool.total_deposits, pool.reserve_ratio_bips) \in Nat
<1> DEFINE p == AccruedPool
           r == RequiredReserves(p.total_deposits, p.reserve_ratio_bips)
<1>1. CanAccrue /\ amount <= Borrowable(p, vault)
  BY DEF Borrow
<1>2. /\ p.total_deposits = pool.total_deposits
      /\ p.reserve_ratio_bips = pool.reserve_ratio_bips
  BY <1>1, AccruedPoolFacts DEF AccrualOf
<1>3. pool'.accrued_protocol_fees = p.accrued_protocol_fees /\ amount \in Nat
  BY BorrowEffect
<1>4. p.accrued_protocol_fees \in Nat /\ r \in Nat
  BY <1>1, AccruedPoolNumbers, RequiredReservesType, WordTypes
<1>5. amount <= vault - r - p.accrued_protocol_fees
  BY <1>1 DEF Borrowable
<1>6. OpensLoan(a) /\ borrower'[a].principal = amount
  BY DEF Borrow, OpensLoan, Loan, TypeInv, TypeOK
<1>7. vault \in Nat
  BY DEF TypeInv, TypeOK
<1>8. r = RequiredReserves(pool.total_deposits, pool.reserve_ratio_bips)
  BY <1>2
<1> HIDE DEF p, r
<1>9. LeftByLoan(a) = vault - amount
  BY <1>6 DEF LeftByLoan
<1>10. LeftByLoan(a) \in Int /\ LeftByLoan(a) >= p.accrued_protocol_fees + r
  BY <1>3, <1>4, <1>5, <1>7, <1>9
<1> QED
  BY <1>3, <1>4, <1>6, <1>8, <1>10

\* No payment of the program's own eats into the protocol's fees, and a loan
\* would not either if the hook moved nothing.
THEOREM FeesAlwaysSenior == Spec => FeesSenior
<1> DEFINE Opened == \E a \in Agents :
                       OpensLoan(a) /\ LeftByLoan(a) >= pool'.accrued_protocol_fees
<1>1. TypeInv /\ [Next]_vars =>
        [vault' < vault => vault' >= pool'.accrued_protocol_fees \/ Opened]_vars
  <2> SUFFICES ASSUME TypeInv, Next, vault' < vault
               PROVE  vault' >= pool'.accrued_protocol_fees \/ Opened
    BY DEF vars
  <2>a. vault \in Nat
    BY DEF TypeInv, TypeOK
  <2>1. ASSUME NEW a \in Agents, NEW amount \in Amounts, NEW h \in HookPrograms,
               NEW reply \in HookReplies, Borrow(a, amount, h, reply)
        PROVE  Opened
    <3>1. /\ OpensLoan(a)
          /\ LeftByLoan(a) \in Int
          /\ LeftByLoan(a) >= pool'.accrued_protocol_fees
               + RequiredReserves(pool.total_deposits, pool.reserve_ratio_bips)
          /\ pool'.accrued_protocol_fees \in Nat
          /\ RequiredReserves(pool.total_deposits, pool.reserve_ratio_bips) \in Nat
      BY <2>1, LoanLeavesReserve
    <3>2. LeftByLoan(a) >= pool'.accrued_protocol_fees
      BY <3>1
    <3> QED
      BY <3>1, <3>2
  <2>2. ASSUME NEW l \in Lenders, Withdraw(l)
        PROVE  vault' >= pool'.accrued_protocol_fees
    <3> DEFINE payout == Payout(lender[l].scaled_deposit, AccruedPool.scale_factor)
    <3>1. CanAccrue /\ payout <= Withdrawable(AccruedPool, vault) /\ vault' = vault - payout
      BY <2>2 DEF Withdraw
    <3>2. pool'.accrued_protocol_fees = AccruedPool.accrued_protocol_fees
      BY <2>2, WithdrawEffect
    <3>3. /\ AccruedPool.accrued_protocol_fees \in Nat
          /\ AccruedPool.scale_factor \in Nat
      BY <3>1, AccruedPoolNumbers
    <3>4. lender[l].scaled_deposit \in U64
      BY DEF TypeInv, TypeOK, LenderPosition
    <3>5. payout \in Nat
      BY <3>3, <3>4, WordTypes, PayoutBounds
    <3> HIDE DEF payout
    <3> QED
      BY <2>a, <3>1, <3>2, <3>3, <3>5 DEF Withdrawable
  <2>3. ASSUME NEW r \in FeeRecipients, ClaimProtocolFees(r)
        PROVE  vault' >= pool'.accrued_protocol_fees
    <3>1. pool'.accrued_protocol_fees = 0
      BY <2>3, ClaimProtocolFeesEffect
    <3>2. vault' \in Nat
      BY <2>3, TypeInvClaimProtocolFees DEF TypeInv, TypeOK
    <3> QED
      BY <3>1, <3>2
  <2>4. ASSUME NEW l \in Lenders, NEW amount \in Amounts, Deposit(l, amount)
        PROVE  vault' >= vault
    <3>1. vault' = vault + amount /\ amount \in Nat
      BY <2>4, CoreAssumption, WordTypes DEF Deposit
    <3> QED
      BY <2>a, <3>1
  <2>5. ASSUME NEW a \in Agents, NEW payer \in Users, Repay(a, payer)
        PROVE  vault' >= vault
    <3> DEFINE owed == TotalOwed(Settled(borrower[a], clock))
    <3>1. vault' = vault + owed /\ RepayFits(borrower[a], AccruedPool, clock)
      BY <2>5 DEF Repay
    <3>2. owed \in Nat
      BY <3>1, SettledFacts
    <3> HIDE DEF owed
    <3> QED
      BY <2>a, <3>1, <3>2
  <2>6. ASSUME NEW u \in Users, NEW amount \in TopUps, TopUpVault(u, amount)
        PROVE  vault' >= vault
    <3>1. vault' = vault + amount /\ amount \in Nat
      BY <2>6, CoreAssumption, WordTypes DEF TopUpVault
    <3> QED
      BY <2>a, <3>1
  <2>7. ASSUME NEW r \in FeeRecipients, InitializeProtocol(r) PROVE vault' = vault
    BY <2>7 DEF InitializeProtocol
  <2>8. ASSUME NEW h \in HookPrograms, NEW bips \in InterestBips,
               NEW term \in TermSeconds, NEW reserve \in ReserveRatioBips,
               NEW window \in DepositWindowEnds,
               InitializePool(h, bips, term, reserve, window)
        PROVE  vault' = vault
    BY <2>8 DEF InitializePool
  <2>9. CASE Tick
    BY <2>9, <2>a DEF Tick
  <2>b. vault' \in Nat
    BY TypeInvNext DEF TypeInv, TypeOK
  <2> QED
    BY <2>a, <2>b, <2>1, <2>2, <2>3, <2>4, <2>5, <2>6, <2>7, <2>8, <2>9 DEF Next
<1> QED
  BY <1>1, TypeInvariant, PTL DEF Spec, FeesSenior

\* Loans are opened once, repaid once, and keep their terms.
THEOREM LoansKeepLifecycle == Spec => LoanLifecycle
<1> DEFINE Kept(a) ==
      borrower'[a] # borrower[a] =>
       \/ /\ borrower[a].status = "None"
          /\ borrower'[a].status = "Active"
       \/ /\ borrower[a].status = "Active"
          /\ borrower'[a] = [borrower[a] EXCEPT
                               !.status = "Repaid",
                               !.accrued_interest = borrower'[a].accrued_interest,
                               !.last_accrual_timestamp = clock]
<1>1. TypeInv /\ [Next]_vars => [\A a \in Agents : Kept(a)]_vars
  <2> SUFFICES ASSUME TypeInv, Next, NEW b \in Agents
               PROVE  Kept(b)
    BY DEF vars
  <2>1. ASSUME NEW a \in Agents, NEW amount \in Amounts, NEW h \in HookPrograms,
               NEW reply \in HookReplies, Borrow(a, amount, h, reply)
        PROVE  Kept(b)
    <3>1. /\ borrower[a].status = "None"
          /\ borrower' = [borrower EXCEPT ![a] = Loan(amount, reply, clock)]
          /\ Loan(amount, reply, clock).status = "Active"
      BY <2>1 DEF Borrow, Loan
    <3> QED
      BY <3>1 DEF TypeInv, TypeOK
  <2>2. ASSUME NEW a \in Agents, NEW payer \in Users, Repay(a, payer)
        PROVE  Kept(b)
    <3> DEFINE i == borrower[a].accrued_interest
                      + AsU64(PositionInterest(borrower[a], clock))
    <3>1. /\ borrower[a].status = "Active"
          /\ borrower' = [borrower EXCEPT ![a] = Settled(borrower[a], clock)]
      BY <2>2 DEF Repay
    <3>2. Settled(borrower[a], clock)
            = [borrower[a] EXCEPT !.status = "Repaid", !.accrued_interest = i,
                                  !.last_accrual_timestamp = clock]
      BY DEF Settled
    <3> HIDE DEF i
    <3>3. borrower[a] \in BorrowerPosition /\ borrower \in [Agents -> BorrowerPosition]
      BY DEF TypeInv, TypeOK
    <3>4. Settled(borrower[a], clock).accrued_interest = i
      BY <3>2, <3>3 DEF BorrowerPosition
    <3>5. CASE b = a
      BY <3>1, <3>2, <3>3, <3>4, <3>5
    <3>6. CASE b # a
      BY <3>1, <3>3, <3>6
    <3> QED
      BY <3>5, <3>6
  <2>3. ASSUME borrower' = borrower PROVE Kept(b)
    BY <2>3
  <2> QED
    BY <2>1, <2>2, <2>3
    DEF Next, InitializeProtocol, InitializePool, Deposit, Withdraw,
        ClaimProtocolFees, TopUpVault, Tick
<1> QED
  BY <1>1, TypeInvariant, PTL DEF Spec, LoanLifecycle

\* What a borrow leaves covers what the lender positions say they put in: the
\* pool's total is their sum, and the cast does not wrap.
LEMMA BorrowCoversDeposits ==
  ASSUME TypeInv, DepositsMatchPositions, NEW a \in Agents, NEW amount \in Amounts,
         NEW h \in HookPrograms, NEW reply \in HookReplies,
         Borrow(a, amount, h, reply), ReserveInWord
  PROVE  Total([l \in Lenders |-> lender[l].total_deposited]) * pool.reserve_ratio_bips
           < BIP_DENOMINATOR * (LeftByLoan(a) - pool'.accrued_protocol_fees + 1)
<1> DEFINE d == pool.total_deposits
           ratio == pool.reserve_ratio_bips
           r == RequiredReserves(d, ratio)
           free == LeftByLoan(a) - pool'.accrued_protocol_fees
<1>1. d = Total([l \in Lenders |-> lender[l].total_deposited])
  BY DEF DepositsMatchPositions
<1>2. d \in Nat /\ ratio \in Nat
  BY WordTypes DEF TypeInv, TypeOK, Pool
<1>3. /\ LeftByLoan(a) >= pool'.accrued_protocol_fees + r
      /\ LeftByLoan(a) \in Int /\ pool'.accrued_protocol_fees \in Nat /\ r \in Nat
  BY LoanLeavesReserve
<1>4. BIP_DENOMINATOR \in Nat
  BY MathAssumption
<1>5. d * ratio < BIP_DENOMINATOR * (r + 1)
  BY <1>2, ReservesCoverRatio DEF ReserveInWord
<1> HIDE DEF r, d, ratio
<1>6. PICK left \in Int : left = LeftByLoan(a)
  BY <1>3
<1>7. PICK fees \in Nat : fees = pool'.accrued_protocol_fees
  BY <1>3
<1>8. free = left - fees /\ left >= fees + r
  BY <1>3, <1>6, <1>7
<1>9. r + 1 <= free + 1 /\ r + 1 \in Nat /\ free + 1 \in Nat
  BY <1>3, <1>8
<1> HIDE DEF free
<1>10. (r + 1) * BIP_DENOMINATOR <= (free + 1) * BIP_DENOMINATOR
  BY <1>4, <1>9, ProductMonotone
<1>11. /\ (r + 1) * BIP_DENOMINATOR = BIP_DENOMINATOR * (r + 1)
       /\ (free + 1) * BIP_DENOMINATOR = BIP_DENOMINATOR * (free + 1)
       /\ (r + 1) * BIP_DENOMINATOR \in Nat /\ (free + 1) * BIP_DENOMINATOR \in Nat
       /\ d * ratio \in Nat
  BY <1>2, <1>4, <1>9
<1>12. d * ratio < BIP_DENOMINATOR * (free + 1)
  BY <1>5, <1>10, <1>11
<1> QED
  BY <1>1, <1>12 DEF free, ratio

\* Every loan leaves in the vault, beside the fees, the reserve ratio of all the
\* lenders have in the pool, to within a token, before the hook's own doing.
THEOREM ReserveAlwaysCoversDeposits == Spec => ReserveCoversDeposits
<1> DEFINE Covered(b) ==
      OpensLoan(b) /\ ReserveInWord =>
        Total([l \in Lenders |-> lender[l].total_deposited]) * pool.reserve_ratio_bips
          < BIP_DENOMINATOR * (LeftByLoan(b) - pool'.accrued_protocol_fees + 1)
<1>1. TypeInv /\ DepositsMatchPositions /\ [Next]_vars
        => [\A a \in Agents : Covered(a)]_vars
  <2> SUFFICES ASSUME TypeInv, DepositsMatchPositions, Next, NEW b \in Agents
               PROVE  Covered(b)
    BY DEF vars
  <2>1. ASSUME NEW a \in Agents, NEW amount \in Amounts, NEW h \in HookPrograms,
               NEW reply \in HookReplies, Borrow(a, amount, h, reply)
        PROVE  Covered(b)
    <3>1. CASE b = a
      BY <2>1, <3>1, BorrowCoversDeposits
    <3>2. CASE b # a
      BY <2>1, <3>2 DEF Borrow, OpensLoan, TypeInv, TypeOK
    <3> QED
      BY <3>1, <3>2
  <2>2. ASSUME NEW a \in Agents, NEW payer \in Users, Repay(a, payer)
        PROVE  ~OpensLoan(b)
    <3>1. /\ RepayFits(borrower[a], AccruedPool, clock)
          /\ borrower' = [borrower EXCEPT ![a] = Settled(borrower[a], clock)]
      BY <2>2 DEF Repay
    <3>2. Settled(borrower[a], clock).status = "Repaid"
      BY <3>1, SettledFacts
    <3> QED
      BY <3>1, <3>2 DEF TypeInv, TypeOK, OpensLoan
  <2>3. ASSUME borrower' = borrower PROVE ~OpensLoan(b)
    BY <2>3 DEF OpensLoan
  <2> QED
    BY <2>1, <2>2, <2>3
    DEF Next, InitializeProtocol, InitializePool, Deposit, Withdraw,
        ClaimProtocolFees, TopUpVault, Tick
<1> QED
  BY <1>1, TypeInvariant, DepositsAlwaysMatch, PTL DEF Spec, ReserveCoversDeposits

\* A pool's hook moves nothing: a loan takes its principal from the vault, alone.
LoansAlone == [][\A a \in Agents : OpensLoan(a) => vault' = LeftByLoan(a)]_vars

\* Where the hook moves nothing, reserve and fees are in the vault after the step.
THEOREM HookLeavesVaultAlone == Spec /\ LoansAlone => ReserveAndFeesInVault
<1> DEFINE Fees == vault' < vault =>
             \/ vault' >= pool'.accrued_protocol_fees
             \/ \E a \in Agents :
                  OpensLoan(a) /\ LeftByLoan(a) >= pool'.accrued_protocol_fees
           Reserve(left(_)) == \A a \in Agents : OpensLoan(a) /\ ReserveInWord =>
             Total([l \in Lenders |-> lender[l].total_deposited]) * pool.reserve_ratio_bips
               < BIP_DENOMINATOR * (left(a) - pool'.accrued_protocol_fees + 1)
           Alone == \A a \in Agents : OpensLoan(a) => vault' = LeftByLoan(a)
           Both == /\ vault' < vault => vault' >= pool'.accrued_protocol_fees
                   /\ Reserve(LAMBDA a : vault')
<1>1. [Fees]_vars /\ [Reserve(LeftByLoan)]_vars /\ [Alone]_vars => [Both]_vars
  OBVIOUS
<1> QED
  BY <1>1, FeesAlwaysSenior, ReserveAlwaysCoversDeposits, PTL
  DEF FeesSenior, ReserveCoversDeposits, LoansAlone, ReserveAndFeesInVault

\* A borrow whose hook moves nothing takes the principal from the vault, alone.
LEMMA QuietHookLoan ==
  ASSUME TypeInv, NEW a \in Agents, NEW amount \in Amounts,
         NEW h \in HookPrograms, NEW reply \in HookReplies,
         Borrow(a, amount, h, reply), reply.diverted = NothingDiverted,
         NEW b \in Agents, OpensLoan(b)
  PROVE  vault' = LeftByLoan(b)
<1>1. b = a
  BY DEF Borrow, OpensLoan, TypeInv, TypeOK
<1>2. Total(reply.diverted) = 0
  BY TotalZero, CoreAssumption DEF NothingDiverted
<1>3. vault' = vault - Total(reply.diverted) - amount /\ vault \in Nat
  BY DEF Borrow, TypeInv, TypeOK
<1>4. borrower'[a].principal = amount /\ amount \in Nat
  BY LoanLeavesReserve, BorrowEffect
<1> QED
  BY <1>1, <1>2, <1>3, <1>4 DEF LeftByLoan

\* Without a call of the hook there is no new loan.
LEMMA HookFreeOpensNoLoan ==
  ASSUME TypeInv, HookFree, NEW b \in Agents
  PROVE  ~OpensLoan(b)
<1>1. ASSUME NEW a \in Agents, NEW payer \in Users, Repay(a, payer)
      PROVE  ~OpensLoan(b)
  <2>1. /\ RepayFits(borrower[a], AccruedPool, clock)
        /\ borrower' = [borrower EXCEPT ![a] = Settled(borrower[a], clock)]
    BY <1>1 DEF Repay
  <2>2. Settled(borrower[a], clock).status = "Repaid"
    BY <2>1, SettledFacts
  <2> QED
    BY <2>1, <2>2 DEF TypeInv, TypeOK, OpensLoan
<1>2. ASSUME borrower' = borrower PROVE ~OpensLoan(b)
  BY <1>2 DEF OpensLoan
<1> QED
  BY <1>1, <1>2
  DEF HookFree, InitializeProtocol, Deposit, Withdraw, ClaimProtocolFees,
      TopUpVault, Tick

\* The checked subtraction of repay never fails: the pool's outstanding borrows
\* always cover each active loan.
THEOREM ActiveLoansCovered ==
  Spec => [](\A a \in Agents :
               borrower[a].status = "Active" =>
                 borrower[a].principal <= pool.total_borrows)
<1>1. TypeInv /\ LedgerInv =>
        \A a \in Agents : borrower[a].status = "Active" =>
                            borrower[a].principal <= pool.total_borrows
  <2> SUFFICES ASSUME TypeInv, LedgerInv, NEW a \in Agents,
                      borrower[a].status = "Active"
               PROVE  borrower[a].principal <= pool.total_borrows
    OBVIOUS
  <2>1. Borrowed \in [Agents -> Nat] /\ pool.total_borrows = Total(Borrowed)
    BY LedgerTypes, LedgerTotals DEF LedgerInv
  <2>2. Borrowed[a] <= Total(Borrowed)
    BY <2>1, UsersFinite, TotalMember
  <2>3. Borrowed[a] = borrower[a].principal
    BY DEF Borrowed, Outstanding
  <2> QED
    BY <2>1, <2>2, <2>3
<1> QED
  BY <1>1, LedgerInvariant, PTL

-------------------------------------------------------------------------------
(***************************************************************************)
(* The lenders' shares                                                     *)
(***************************************************************************)

\* The lenders' gains at the scale factor of the pool p.
Gains(p) ==
  [l \in Lenders |->
     Gain(lender[l].scaled_deposit, lender[l].total_deposited, p.scale_factor)]

\* ClaimsWithinBook is not inductive: after a withdrawal it would not survive the
\* next accrual.  What is: the gains alone fit in the interest booked.
GainsWithinInterest == Total(Gains(pool)) <= RAY * pool.total_interest_earned

ScaledWithinDeposited ==
  \A l \in Lenders : lender[l].scaled_deposit <= lender[l].total_deposited

ClaimsInv == ScaledWithinDeposited /\ GainsWithinInterest

\* Positions and earnings are numbers, and so are gains.
LEMMA ClaimsTypes ==
  ASSUME TypeInv, NEW p \in Pool
  PROVE  /\ Gains(p) \in [Lenders -> Nat]
         /\ Total(Gains(p)) \in Nat
         /\ p.total_interest_earned \in Nat
         /\ p.scale_factor \in Nat
         /\ \A l \in Lenders : /\ lender[l].scaled_deposit \in Nat
                               /\ lender[l].total_deposited \in Nat
<1>1. p.scale_factor \in U128 /\ p.total_interest_earned \in U64
  BY DEF Pool
<1>2. \A l \in Lenders : /\ lender[l].scaled_deposit \in U64
                         /\ lender[l].total_deposited \in U64
  BY DEF TypeInv, TypeOK, LenderPosition
<1>3. /\ p.scale_factor \in Nat /\ p.total_interest_earned \in Nat
      /\ \A l \in Lenders : /\ lender[l].scaled_deposit \in Nat
                            /\ lender[l].total_deposited \in Nat
  BY <1>1, <1>2, WordTypes
<1>4. Gains(p) \in [Lenders -> Nat]
  BY <1>3, GainType DEF Gains
<1> QED
  BY <1>3, <1>4, UsersFinite, TotalType

\* An accrual gives the lenders together no more than the interest booked so
\* far: it is spread over all the deposits, and rounded down.
LEMMA GainsAfterBooking ==
  ASSUME TypeInv, LedgerInv, ClaimsInv, CanAccrue, Accrues(pool, clock)
  PROVE  Total(Gains(AccruedPool)) <= RAY * AccruedPool.total_interest_earned
<1> DEFINE D == pool.total_deposits
           E == EarnedAt(pool, clock)
           q == (E * RAY) \div D
           f == Gains(AccruedPool)
           g == [l \in Lenders |-> q * Deposited[l]]
<1>1. /\ D \in Nat \ {0} /\ E \in Nat /\ RAY \in Nat
      /\ AccruedPool \in Pool
  <2>1. /\ pool \in Pool /\ clock \in Nat /\ pool.last_accrual_timestamp <= clock
        /\ pool.total_deposits \in U64
    BY DEF TypeInv, TypeOK, Pool
  <2> QED
    BY <2>1, BookedAmounts, WordTypes, AccruedPoolNumbers DEF Accrues
<1>2. /\ AccruedPool.scale_factor = ScaleFactor(E, D)
      /\ AccruedPool.total_interest_earned = E
  BY DEF AccruedPool, Accrued, Booked, TypeInv, TypeOK, Pool
<1>3. E * RAY \in Nat /\ q \in Nat /\ D * q <= E * RAY
  <2>1. E * RAY \in Nat
    BY <1>1
  <2> QED
    BY <1>1, <2>1, QuotientBounds
<1>4. \A l \in Lenders : /\ lender[l].scaled_deposit \in Nat
                         /\ lender[l].total_deposited \in Nat
                         /\ lender[l].scaled_deposit <= lender[l].total_deposited
  BY <1>1, ClaimsTypes DEF ClaimsInv, ScaledWithinDeposited
<1>5. Deposited \in [Lenders -> Nat] /\ D = Total(Deposited)
  BY LedgerTypes, LedgerTotals DEF LedgerInv
<1>6. f \in [Lenders -> Nat]
  BY <1>1, ClaimsTypes
<1>7. ASSUME NEW l \in Lenders PROVE f[l] <= q * Deposited[l]
  <2> DEFINE s == lender[l].scaled_deposit
             d == lender[l].total_deposited
  <2>1. s \in Nat /\ d \in Nat /\ s <= d
    BY <1>4
  <2>2. f[l] = Gain(s, d, ScaleFactor(E, D)) /\ d = Deposited[l]
    BY <1>2 DEF Gains, Deposited
  <2> HIDE DEF s, d, E, D, q, f
  <2>3. Gain(s, d, ScaleFactor(E, D)) <= d * q
    BY <1>1, <2>1, GainAtScaleFactor DEF q
  <2>4. d * q = q * d
    BY <1>3, <2>1
  <2> QED
    BY <2>2, <2>3, <2>4
<1> HIDE DEF q, f, E, D
<1>8. g \in [Lenders -> Nat] /\ \A l \in Lenders : f[l] <= g[l]
  BY <1>3, <1>5, <1>7
<1>9. Total(f) <= Total(g)
  BY <1>6, <1>8, UsersFinite, TotalMonotone
<1>10. Total(g) = q * D
  BY <1>3, <1>5, UsersFinite, TotalMultiple
<1>11. Total(f) \in Nat
  BY <1>6, UsersFinite, TotalType
<1>12. q * D = D * q /\ E * RAY = RAY * E
  BY <1>1, <1>3
<1>13. Total(f) <= RAY * E
  BY <1>1, <1>3, <1>9, <1>10, <1>11, <1>12
<1> QED
  BY <1>2, <1>13 DEF f

\* So too if the accrual returns early.
LEMMA GainsAfterAccrual ==
  ASSUME TypeInv, LedgerInv, ClaimsInv, CanAccrue
  PROVE  Total(Gains(AccruedPool)) <= RAY * AccruedPool.total_interest_earned
<1>1. CASE Accrues(pool, clock)
  BY <1>1, GainsAfterBooking
<1>2. CASE ~Accrues(pool, clock)
  <2>1. AccruedPool = pool
    BY <1>2 DEF AccruedPool, Accrued
  <2> QED
    BY <2>1 DEF ClaimsInv, GainsWithinInterest
<1> QED
  BY <1>1, <1>2

\* An instruction keeps ClaimsInv when, after its accrual, no position gains by
\* it and no position gets more scaled units than tokens.
LEMMA ClaimsKept ==
  ASSUME TypeInv, TypeInv', LedgerInv, ClaimsInv, CanAccrue,
         pool'.scale_factor = AccruedPool.scale_factor,
         pool'.total_interest_earned = AccruedPool.total_interest_earned,
         ScaledWithinDeposited',
         \A l \in Lenders :
           Gain(lender'[l].scaled_deposit, lender'[l].total_deposited,
                AccruedPool.scale_factor)
             <= Gain(lender[l].scaled_deposit, lender[l].total_deposited,
                     AccruedPool.scale_factor)
  PROVE  ClaimsInv'
<1> DEFINE f == Gains(AccruedPool)
           g == [l \in Lenders |->
                   Gain(lender'[l].scaled_deposit, lender'[l].total_deposited,
                        AccruedPool.scale_factor)]
<1>1. AccruedPool \in Pool
  BY AccruedPoolNumbers
<1>2. f \in [Lenders -> Nat]
  BY <1>1, ClaimsTypes
<1>3. g \in [Lenders -> Nat]
  <2>1. \A l \in Lenders : /\ lender'[l].scaled_deposit \in U64
                           /\ lender'[l].total_deposited \in U64
    BY DEF TypeInv, TypeOK, LenderPosition
  <2>2. AccruedPool.scale_factor \in Nat
    BY AccruedPoolNumbers
  <2>3. \A l \in Lenders : /\ lender'[l].scaled_deposit \in Nat
                           /\ lender'[l].total_deposited \in Nat
    BY <2>1, WordTypes
  <2> QED
    BY <2>2, <2>3, GainType
<1>4. \A l \in Lenders : g[l] <= f[l]
  BY DEF Gains
<1>5. Gains(pool)' = g
  BY DEF Gains
<1>6. Total(f) <= RAY * AccruedPool.total_interest_earned
  BY GainsAfterAccrual
<1>7. AccruedPool.total_interest_earned \in Nat /\ RAY \in Nat
  BY <1>1, ClaimsTypes, WordTypes
<1> HIDE DEF f, g
<1>8. Total(g) <= Total(f) /\ Total(f) \in Nat /\ Total(g) \in Nat
  BY <1>2, <1>3, <1>4, UsersFinite, TotalMonotone, TotalType
<1>9. RAY * AccruedPool.total_interest_earned \in Nat
  BY <1>7
<1>10. Total(g) <= RAY * AccruedPool.total_interest_earned
  BY <1>6, <1>8, <1>9
<1> QED
  BY <1>5, <1>10 DEF ClaimsInv, GainsWithinInterest

\* The scale factor and the interest earned are changed by accruals alone.
LEMMA PoolUpdateEarnings ==
  ASSUME NEW p \in Pool, NEW x
  PROVE  /\ LET q == [p EXCEPT !.total_deposits = x]
            IN  /\ q.scale_factor = p.scale_factor
                /\ q.total_interest_earned = p.total_interest_earned
         /\ LET q == [p EXCEPT !.total_borrows = x]
            IN  /\ q.scale_factor = p.scale_factor
                /\ q.total_interest_earned = p.total_interest_earned
         /\ LET q == [p EXCEPT !.accrued_protocol_fees = x]
            IN  /\ q.scale_factor = p.scale_factor
                /\ q.total_interest_earned = p.total_interest_earned
BY DEF Pool

\* Steps that leave the lenders alone, after their accrual or without one.
LEMMA ClaimsOfOthers ==
  ASSUME TypeInv, TypeInv', LedgerInv, ClaimsInv, lender' = lender,
         \/ /\ pool'.scale_factor = pool.scale_factor
            /\ pool'.total_interest_earned = pool.total_interest_earned
         \/ /\ CanAccrue
            /\ pool'.scale_factor = AccruedPool.scale_factor
            /\ pool'.total_interest_earned = AccruedPool.total_interest_earned
  PROVE  ClaimsInv'
<1>1. ScaledWithinDeposited'
  BY DEF ClaimsInv, ScaledWithinDeposited
<1>2. CASE /\ pool'.scale_factor = pool.scale_factor
           /\ pool'.total_interest_earned = pool.total_interest_earned
  <2>1. Gains(pool)' = Gains(pool)
    BY <1>2 DEF Gains
  <2> QED
    BY <1>1, <1>2, <2>1 DEF ClaimsInv, GainsWithinInterest
<1>3. CASE /\ CanAccrue
           /\ pool'.scale_factor = AccruedPool.scale_factor
           /\ pool'.total_interest_earned = AccruedPool.total_interest_earned
  <2>1. AccruedPool \in Pool
    BY <1>3, AccruedPoolNumbers
  <2>2. Gains(AccruedPool) \in [Lenders -> Nat]
    BY <2>1, ClaimsTypes
  <2>3. \A l \in Lenders :
          Gain(lender'[l].scaled_deposit, lender'[l].total_deposited,
               AccruedPool.scale_factor) \in Nat
    BY <2>2 DEF Gains
  <2> QED
    BY <1>1, <1>3, <2>3, ClaimsKept
<1> QED
  BY <1>2, <1>3

\* A deposit adds no gain: what it buys is worth at most what is put in.
LEMMA ClaimsAfterDeposit ==
  ASSUME TypeInv, TypeInv', LedgerInv, ClaimsInv,
         NEW l \in Lenders, NEW amount \in Amounts, Deposit(l, amount)
  PROVE  ClaimsInv'
<1> DEFINE p == AccruedPool
           scaled == ScaledAmount(amount, p.scale_factor)
           s == lender[l].scaled_deposit
           d == lender[l].total_deposited
<1>1. CanAccrue /\ amount \in Nat
  BY CoreAssumption, WordTypes DEF Deposit
<1>2. p \in Pool /\ p.scale_factor \in Nat /\ p.scale_factor >= RAY
  BY <1>1, AccruedPoolNumbers, AccruedPoolFacts DEF AccrualOf
<1>3. /\ pool' = [p EXCEPT !.total_deposits = p.total_deposits + amount]
      /\ lender' = [lender EXCEPT ![l] = Credited(lender[l], amount, scaled)]
  BY DEF Deposit
<1>4. s \in Nat /\ d \in Nat /\ s <= d
  BY <1>2, ClaimsTypes DEF ClaimsInv, ScaledWithinDeposited
<1>5. lender \in [Lenders -> LenderPosition]
  BY DEF TypeInv, TypeOK
<1>6. scaled \in Nat /\ scaled <= amount
  BY <1>1, <1>2, ScaledWithinAmount, WordTypes
<1>7. Gain(s + scaled, d + amount, p.scale_factor) <= Gain(s, d, p.scale_factor)
  BY <1>1, <1>2, <1>4, GainOfDeposit
<1>8. /\ lender'[l].scaled_deposit = s + scaled
      /\ lender'[l].total_deposited = d + amount
      /\ \A m \in Lenders \ {l} : lender'[m] = lender[m]
  BY <1>3, <1>5 DEF Credited
<1>9. /\ pool'.scale_factor = AccruedPool.scale_factor
      /\ pool'.total_interest_earned = AccruedPool.total_interest_earned
  BY <1>2, <1>3, PoolUpdateEarnings
<1>10. Gains(p) \in [Lenders -> Nat]
  BY <1>2, ClaimsTypes
<1>11. \A m \in Lenders \ {l} :
         Gain(lender'[m].scaled_deposit, lender'[m].total_deposited, p.scale_factor)
           <= Gain(lender[m].scaled_deposit, lender[m].total_deposited, p.scale_factor)
  BY <1>8, <1>10 DEF Gains
<1> HIDE DEF p, scaled, s, d
<1>12. ScaledWithinDeposited'
  <2>1. lender'[l].scaled_deposit <= lender'[l].total_deposited
    BY <1>1, <1>4, <1>6, <1>8
  <2> QED
    BY <1>8, <2>1 DEF ClaimsInv, ScaledWithinDeposited
<1>13. \A m \in Lenders :
         Gain(lender'[m].scaled_deposit, lender'[m].total_deposited,
              AccruedPool.scale_factor)
           <= Gain(lender[m].scaled_deposit, lender[m].total_deposited,
                   AccruedPool.scale_factor)
  BY <1>7, <1>8, <1>11 DEF p, s, d
<1> QED
  BY <1>1, <1>9, <1>12, <1>13, ClaimsKept

\* A withdrawal takes the whole gain of its lender along.
LEMMA ClaimsAfterWithdraw ==
  ASSUME TypeInv, TypeInv', LedgerInv, ClaimsInv, NEW l \in Lenders, Withdraw(l)
  PROVE  ClaimsInv'
<1>1. CanAccrue
  BY DEF Withdraw
<1>2. AccruedPool \in Pool /\ AccruedPool.scale_factor \in Nat
  BY <1>1, AccruedPoolNumbers
<1>3. /\ pool' = [AccruedPool EXCEPT !.total_deposits
                    = AccruedPool.total_deposits - lender[l].total_deposited]
      /\ lender' = [lender EXCEPT ![l] = NoDeposit]
  BY DEF Withdraw, LessWithdrawn
<1>4. lender \in [Lenders -> LenderPosition]
  BY DEF TypeInv, TypeOK
<1>5. /\ lender'[l].scaled_deposit = 0 /\ lender'[l].total_deposited = 0
      /\ \A m \in Lenders \ {l} : lender'[m] = lender[m]
  BY <1>3, <1>4 DEF NoDeposit
<1>6. /\ pool'.scale_factor = AccruedPool.scale_factor
      /\ pool'.total_interest_earned = AccruedPool.total_interest_earned
  BY <1>2, <1>3, PoolUpdateEarnings
<1>7. Gain(0, 0, AccruedPool.scale_factor) = 0
  <2>1. 0 * AccruedPool.scale_factor = 0 /\ 0 * RAY = 0
    BY <1>2, WordTypes
  <2> QED
    BY <2>1 DEF Gain
<1>8. \A m \in Lenders :
        Gain(lender[m].scaled_deposit, lender[m].total_deposited,
             AccruedPool.scale_factor) \in Nat
  BY <1>2, ClaimsTypes DEF Gains
<1>9. \A m \in Lenders :
        Gain(lender'[m].scaled_deposit, lender'[m].total_deposited,
             AccruedPool.scale_factor)
          <= Gain(lender[m].scaled_deposit, lender[m].total_deposited,
                  AccruedPool.scale_factor)
  BY <1>5, <1>7, <1>8
<1>10. ScaledWithinDeposited'
  BY <1>5 DEF ClaimsInv, ScaledWithinDeposited
<1> QED
  BY <1>1, <1>6, <1>9, <1>10, ClaimsKept

\* Before the pool there are no positions, and a new one has booked nothing.
LEMMA ClaimsOfNobody ==
  ASSUME lender = [l \in Lenders |-> NoDeposit], pool \in Pool,
         TypeInv
  PROVE  ClaimsInv
<1>1. pool.scale_factor \in Nat /\ pool.total_interest_earned \in Nat /\ RAY \in Nat
  BY ClaimsTypes, WordTypes
<1>2. Gain(0, 0, pool.scale_factor) = 0
  <2>1. 0 * pool.scale_factor = 0 /\ 0 * RAY = 0
    BY <1>1
  <2> QED
    BY <2>1 DEF Gain
<1>3. Gains(pool) \in [Lenders -> Nat] /\ \A l \in Lenders : Gains(pool)[l] = 0
  BY <1>2, ClaimsTypes DEF Gains, NoDeposit
<1>4. Total(Gains(pool)) = 0
  BY <1>3, TotalZero
<1>5. RAY * pool.total_interest_earned >= 0
  BY <1>1
<1>6. ScaledWithinDeposited
  BY DEF ScaledWithinDeposited, NoDeposit
<1> QED
  BY <1>4, <1>5, <1>6 DEF ClaimsInv, GainsWithinInterest

\* ClaimsInv holds at the start, and each instruction keeps it.
LEMMA ClaimsInvInit == Init => ClaimsInv
<1> SUFFICES ASSUME Init PROVE ClaimsInv
  OBVIOUS
<1>1. TypeInv /\ lender = [l \in Lenders |-> NoDeposit]
  BY TypeInvInit DEF Init
<1> QED
  BY <1>1, ClaimsOfNobody DEF TypeInv, TypeOK

\* Deposits and withdrawals are the only ones to touch the positions.
LEMMA ClaimsInvNext == TypeInv /\ LedgerInv /\ ClaimsInv /\ [Next]_vars => ClaimsInv'
<1> SUFFICES ASSUME TypeInv, LedgerInv, ClaimsInv, [Next]_vars PROVE ClaimsInv'
  OBVIOUS
<1>a. TypeInv'
  BY TypeInvNext
<1>b. CanAccrue => AccruedPool \in Pool
  BY AccruedPoolNumbers
<1>1. ASSUME NEW h \in HookPrograms, NEW bips \in InterestBips,
             NEW term \in TermSeconds, NEW reserve \in ReserveRatioBips,
             NEW window \in DepositWindowEnds,
             InitializePool(h, bips, term, reserve, window)
      PROVE  ClaimsInv'
  <2>1. lender' = [l \in Lenders |-> NoDeposit]
    BY <1>1 DEF InitializePool, LedgerInv, EmptyBeforePool
  <2>2. ScaledWithinDeposited'
    BY <2>1 DEF ScaledWithinDeposited, NoDeposit
  <2>3. pool'.scale_factor = RAY /\ pool'.total_interest_earned = 0 /\ RAY \in Nat
    BY <1>1, WordTypes DEF InitializePool
  <2>4. Gain(0, 0, RAY) = 0
    <3>1. 0 * RAY = 0
      BY <2>3
    <3> QED
      BY <3>1 DEF Gain
  <2>5. Gains(pool)' = [l \in Lenders |-> 0]
    BY <2>1, <2>3, <2>4 DEF Gains, NoDeposit
  <2>6. Total([l \in Lenders |-> 0]) = 0
    BY TotalZero
  <2>7. RAY * 0 = 0
    BY <2>3
  <2> QED
    BY <2>2, <2>3, <2>5, <2>6, <2>7 DEF ClaimsInv, GainsWithinInterest
<1>2. ASSUME NEW a \in Agents, NEW amount \in Amounts, NEW h \in HookPrograms,
             NEW reply \in HookReplies, Borrow(a, amount, h, reply)
      PROVE  ClaimsInv'
  <2>1. /\ CanAccrue /\ lender' = lender
        /\ pool' = [AccruedPool EXCEPT !.total_borrows
                      = AccruedPool.total_borrows + amount]
    BY <1>2 DEF Borrow
  <2> QED
    BY <1>a, <1>b, <2>1, PoolUpdateEarnings, ClaimsOfOthers
<1>3. ASSUME NEW a \in Agents, NEW payer \in Users, Repay(a, payer)
      PROVE  ClaimsInv'
  <2>1. /\ CanAccrue /\ lender' = lender
        /\ pool' = [AccruedPool EXCEPT !.total_borrows =
                      AccruedPool.total_borrows - Settled(borrower[a], clock).principal]
    BY <1>3 DEF Repay, LessRepaid
  <2> QED
    BY <1>a, <1>b, <2>1, PoolUpdateEarnings, ClaimsOfOthers
<1>4. ASSUME NEW r \in FeeRecipients, ClaimProtocolFees(r)
      PROVE  ClaimsInv'
  <2>1. /\ CanAccrue /\ lender' = lender
        /\ pool' = [AccruedPool EXCEPT !.accrued_protocol_fees = 0]
    BY <1>4 DEF ClaimProtocolFees
  <2> QED
    BY <1>a, <1>b, <2>1, PoolUpdateEarnings, ClaimsOfOthers
<1>5. ASSUME UNCHANGED <<pool, lender>> PROVE ClaimsInv'
  BY <1>a, <1>5, ClaimsOfOthers
<1>6. ASSUME NEW r \in FeeRecipients, InitializeProtocol(r) PROVE ClaimsInv'
  BY <1>5, <1>6 DEF InitializeProtocol
<1>7. ASSUME NEW u \in Users, NEW amount \in TopUps, TopUpVault(u, amount)
      PROVE  ClaimsInv'
  BY <1>5, <1>7 DEF TopUpVault
<1>8. CASE Tick
  BY <1>5, <1>8 DEF Tick
<1>9. CASE UNCHANGED vars
  BY <1>5, <1>9 DEF vars
<1>10. ASSUME NEW l \in Lenders, NEW amount \in Amounts, Deposit(l, amount)
       PROVE  ClaimsInv'
  BY <1>a, <1>10, ClaimsAfterDeposit
<1>11. ASSUME NEW l \in Lenders, Withdraw(l) PROVE ClaimsInv'
  BY <1>a, <1>11, ClaimsAfterWithdraw
<1> QED
  BY <1>1, <1>2, <1>3, <1>4, <1>6, <1>7, <1>8, <1>9, <1>10, <1>11 DEF Next

\* What the shares are worth is covered by deposits and gains, so by the book.
LEMMA ClaimsInvImplies ==
  ASSUME TypeInv, LedgerInv, ClaimsInv
  PROVE  ClaimsWithinBook
<1> DEFINE pay == [l \in Lenders |->
                     Payout(lender[l].scaled_deposit, pool.scale_factor)]
           gain == Gains(pool)
           x == [l \in Lenders |-> RAY * pay[l]]
           y == [l \in Lenders |-> RAY * Deposited[l]]
           z == [l \in Lenders |-> y[l] + gain[l]]
           D == pool.total_deposits
           E == pool.total_interest_earned
<1>1. pool \in Pool /\ RAY \in Nat \ {0}
  BY WordTypes DEF TypeInv, TypeOK
<1>2. gain \in [Lenders -> Nat] /\ E \in Nat /\ pool.scale_factor \in Nat
  BY <1>1, ClaimsTypes
<1>3. Deposited \in [Lenders -> Nat] /\ D = Total(Deposited)
  BY LedgerTypes, LedgerTotals DEF LedgerInv
<1>4. ASSUME NEW l \in Lenders
      PROVE  pay[l] \in Nat /\ RAY * pay[l] <= RAY * Deposited[l] + gain[l]
  <2> DEFINE s == lender[l].scaled_deposit
             d == lender[l].total_deposited
             sf == pool.scale_factor
             v == Payout(s, sf)
  <2>1. s \in Nat /\ d \in Nat /\ sf \in Nat
    BY <1>1, ClaimsTypes
  <2>2. pay[l] = v /\ gain[l] = Gain(s, d, sf) /\ Deposited[l] = d
    BY DEF Gains, Deposited
  <2> HIDE DEF s, d, sf, pay, gain
  <2>3. v \in Nat /\ v * RAY <= s * sf
    BY <2>1, PayoutBounds
  <2>4. Gain(s, d, sf) \in Nat /\ s * sf <= d * RAY + Gain(s, d, sf)
    BY <2>1, GainType
  <2> HIDE DEF v
  <2>5. /\ v * RAY = RAY * v /\ d * RAY = RAY * d
        /\ RAY * v \in Nat /\ s * sf \in Nat /\ RAY * d \in Nat
    BY <1>1, <2>1, <2>3
  <2>6. RAY * v <= RAY * d + Gain(s, d, sf)
    BY <2>3, <2>4, <2>5
  <2> QED
    BY <2>2, <2>3, <2>6
<1>5. pay \in [Lenders -> Nat]
  BY <1>4
<1> HIDE DEF pay, gain, D, E
<1>6. /\ x \in [Lenders -> Nat] /\ y \in [Lenders -> Nat]
      /\ \A l \in Lenders : x[l] = RAY * pay[l] /\ y[l] = RAY * Deposited[l]
  BY <1>1, <1>3, <1>5
<1>7. z \in [Lenders -> Nat] /\ \A l \in Lenders : x[l] <= z[l]
  <2>1. \A l \in Lenders : z[l] = y[l] + gain[l]
    OBVIOUS
  <2> HIDE DEF x, y
  <2>2. z \in [Lenders -> Nat]
    BY <1>2, <1>6
  <2> HIDE DEF z
  <2> QED
    BY <1>4, <1>6, <2>1, <2>2
<1>8. Total(x) = RAY * Total(pay) /\ Total(y) = RAY * D
  BY <1>1, <1>3, <1>5, UsersFinite, TotalMultiple
<1>9. Total(z) = Total(y) + Total(gain)
  <2> HIDE DEF y
  <2> QED
    BY <1>2, <1>6, UsersFinite, TotalSum
<1>10. Total(x) <= Total(z)
  <2> HIDE DEF x, y, z
  <2> QED
    BY <1>6, <1>7, UsersFinite, TotalMonotone
<1>11. Total(gain) <= RAY * E
  BY DEF ClaimsInv, GainsWithinInterest, gain, E
<1>12. Total(pay) \in Nat /\ Total(gain) \in Nat /\ D \in Nat
  BY <1>2, <1>3, <1>5, UsersFinite, TotalType
<1> HIDE DEF x, y, z
<1>13. RAY * Total(pay) <= RAY * D + RAY * E
  <2>1. RAY * D \in Nat /\ RAY * E \in Nat /\ RAY * Total(pay) \in Nat
    BY <1>1, <1>2, <1>12
  <2> QED
    BY <1>8, <1>9, <1>10, <1>11, <1>12, <2>1
<1>14. Total(pay) <= D + E
  <2> DEFINE t == Total(pay)
  <2>1. t \in Nat /\ RAY * t <= RAY * D + RAY * E
    BY <1>12, <1>13
  <2> HIDE DEF t
  <2>2. SUFFICES ASSUME t > D + E PROVE FALSE
    BY <1>2, <1>12, <2>1 DEF t
  <2>3. (D + E + 1) * RAY <= t * RAY
    BY <1>1, <1>2, <1>12, <2>1, <2>2, ProductMonotone
  <2>4. /\ (D + E + 1) * RAY = RAY * D + RAY * E + RAY /\ t * RAY = RAY * t
        /\ RAY * D \in Nat /\ RAY * E \in Nat /\ RAY * t \in Nat
    BY <1>1, <1>2, <1>12, <2>1
  <2> QED
    BY <1>1, <2>1, <2>3, <2>4
<1> QED
  BY <1>14 DEF ClaimsWithinBook, pay, D, E

\* The gains fit in the interest throughout.
LEMMA ClaimsInvariant == Spec => []ClaimsInv
<1>1. Init => ClaimsInv
  BY ClaimsInvInit
<1>2. TypeInv /\ LedgerInv /\ ClaimsInv /\ [Next]_vars => ClaimsInv'
  BY ClaimsInvNext
<1> QED
  BY <1>1, <1>2, LedgerInvariant, PTL DEF Spec

\* Together the lenders' shares are never worth more than the deposits and the
\* interest booked, for any lenders, amounts, rates and word sizes.
THEOREM ClaimsAlwaysWithinBook == Spec => []ClaimsWithinBook
<1>1. TypeInv /\ LedgerInv /\ ClaimsInv => ClaimsWithinBook
  BY ClaimsInvImplies
<1> QED
  BY <1>1, ClaimsInvariant, LedgerInvariant, PTL

\* No position, scaled up by the factor of the next accrual, is worth more than
\* the whole book: its deposit is one of the deposits, its gain one of the gains.
LEMMA ProductWithinBook ==
  ASSUME TypeInv, LedgerInv, ClaimsInv, CanAccrue, NEW l \in Lenders
  PROVE  lender[l].scaled_deposit * AccruedPool.scale_factor
           <= RAY * (AccruedPool.total_deposits + AccruedPool.total_interest_earned)
<1> DEFINE s == lender[l].scaled_deposit
           d == lender[l].total_deposited
           sf == AccruedPool.scale_factor
           D == AccruedPool.total_deposits
           E == AccruedPool.total_interest_earned
           f == Gains(AccruedPool)
           g == Gain(s, d, sf)
<1>1. AccruedPool \in Pool /\ RAY \in Nat \ {0}
  BY AccruedPoolNumbers, WordTypes
<1>2. /\ s \in Nat /\ d \in Nat /\ sf \in Nat /\ E \in Nat
      /\ f \in [Lenders -> Nat] /\ Total(f) \in Nat
  BY <1>1, ClaimsTypes
<1>3. Deposited \in [Lenders -> Nat] /\ D = Total(Deposited) /\ D \in Nat
  <2>1. Deposited \in [Lenders -> Nat] /\ pool.total_deposits = Total(Deposited)
    BY LedgerTypes, LedgerTotals DEF LedgerInv
  <2>2. D = pool.total_deposits
    BY AccruedPoolFacts DEF AccrualOf
  <2> QED
    BY <2>1, <2>2, UsersFinite, TotalType
<1>4. d <= D
  <2>1. Deposited[l] <= Total(Deposited)
    BY <1>3, UsersFinite, TotalMember
  <2> QED
    BY <1>3, <2>1 DEF Deposited
<1>5. g \in Nat /\ g <= RAY * E
  <2>1. f[l] = g
    BY DEF Gains
  <2>2. f[l] <= Total(f)
    BY <1>2, UsersFinite, TotalMember
  <2>3. Total(f) <= RAY * E
    BY GainsAfterAccrual
  <2> HIDE DEF f, g, E
  <2>4. f[l] \in Nat /\ RAY * E \in Nat
    BY <1>1, <1>2
  <2> QED
    BY <1>2, <2>1, <2>2, <2>3, <2>4
<1>6. s * sf <= d * RAY + g
  BY <1>2, GainType
<1> HIDE DEF s, d, sf, D, E, f, g
<1>7. d * RAY <= D * RAY
  BY <1>1, <1>2, <1>3, <1>4, ProductMonotone
<1>8. /\ RAY * (D + E) = D * RAY + RAY * E
      /\ s * sf \in Nat /\ d * RAY \in Nat /\ D * RAY \in Nat /\ RAY * E \in Nat
  BY <1>1, <1>2, <1>3
<1>9. s * sf <= RAY * (D + E)
  BY <1>5, <1>6, <1>7, <1>8
<1> QED
  BY <1>9 DEF s, sf, D, E

\* As long as the whole book, scaled, fits in a u128, no payout overflows, for any
\* lenders, amounts, rates and word sizes, and any order of instructions.
THEOREM PayoutsAlwaysWithinBook == Spec => []PayoutsWithinBook
<1>1. TypeInv /\ LedgerInv /\ ClaimsInv => PayoutsWithinBook
  <2> SUFFICES ASSUME TypeInv, LedgerInv, ClaimsInv, CanAccrue,
                      RAY * (AccruedPool.total_deposits
                               + AccruedPool.total_interest_earned) <= U128Max,
                      NEW l \in Lenders
               PROVE  lender[l].scaled_deposit * AccruedPool.scale_factor <= U128Max
    BY DEF PayoutsWithinBook
  <2> DEFINE v == lender[l].scaled_deposit * AccruedPool.scale_factor
             b == RAY * (AccruedPool.total_deposits
                           + AccruedPool.total_interest_earned)
  <2>1. v <= b /\ b <= U128Max
    BY ProductWithinBook
  <2>2. v \in Nat /\ b \in Nat /\ U128Max \in Nat
    <3>1. AccruedPool \in Pool /\ RAY \in Nat /\ U128Max \in Nat
      BY AccruedPoolNumbers, WordTypes, MathAssumption
    <3>2. /\ lender[l].scaled_deposit \in Nat /\ AccruedPool.scale_factor \in Nat
          /\ AccruedPool.total_interest_earned \in Nat
      BY <3>1, ClaimsTypes
    <3>3. AccruedPool.total_deposits \in Nat
      BY AccruedPoolNumbers
    <3> QED
      BY <3>1, <3>2, <3>3
  <2> HIDE DEF v, b
  <2>3. v <= U128Max
    BY <2>1, <2>2
  <2> QED
    BY <2>3 DEF v
<1> QED
  BY <1>1, ClaimsInvariant, LedgerInvariant, PTL

-------------------------------------------------------------------------------
(***************************************************************************)
(* The protocol's fees                                                     *)
(***************************************************************************)

\* No accrual's interest exceeds a word: the condition under which the cast of
\* the lenders' part does not wrap.
GrossInWord == pool.initialized => Gross(pool, clock) <= U64Max

\* Of each accrual the protocol gets at most its share.
LEMMA CutOfGross ==
  ASSUME NEW gross \in Nat, gross <= U64Max
  PROVE  LET cut == ProtocolCut(gross)
         IN  /\ cut \in Nat /\ gross - cut \in Nat
             /\ AsU64(cut) = cut /\ AsU64(gross - cut) = gross - cut
             /\ (BIP_DENOMINATOR - PROTOCOL_FEE_BIPS) * cut
                  <= PROTOCOL_FEE_BIPS * (gross - cut)
<1> DEFINE c == ProtocolCut(gross)
<1>1. c \in Nat /\ c <= gross /\ BIP_DENOMINATOR * c <= PROTOCOL_FEE_BIPS * gross
  BY CutWithinShare
<1>2. /\ BIP_DENOMINATOR \in Nat /\ PROTOCOL_FEE_BIPS \in Nat /\ U64Max \in Nat
      /\ PROTOCOL_FEE_BIPS <= BIP_DENOMINATOR
  BY MathAssumption
<1> HIDE DEF c
<1>3. gross - c \in 0 .. U64Max /\ c \in 0 .. U64Max
  BY <1>1, <1>2
<1>4. \A x \in 0 .. U64Max : x % (U64Max + 1) = x
  BY <1>2
<1>5. /\ (BIP_DENOMINATOR - PROTOCOL_FEE_BIPS) * c
           = BIP_DENOMINATOR * c - PROTOCOL_FEE_BIPS * c
      /\ PROTOCOL_FEE_BIPS * (gross - c)
           = PROTOCOL_FEE_BIPS * gross - PROTOCOL_FEE_BIPS * c
      /\ BIP_DENOMINATOR * c \in Nat /\ PROTOCOL_FEE_BIPS * c \in Nat
      /\ PROTOCOL_FEE_BIPS * gross \in Nat
  BY <1>1, <1>2
<1>6. (BIP_DENOMINATOR - PROTOCOL_FEE_BIPS) * c <= PROTOCOL_FEE_BIPS * (gross - c)
  BY <1>1, <1>5
<1> QED
  BY <1>1, <1>3, <1>4, <1>6 DEF c, AsU64

FeesOf(p) == (BIP_DENOMINATOR - PROTOCOL_FEE_BIPS) * p.accrued_protocol_fees
               <= PROTOCOL_FEE_BIPS * p.total_interest_earned

\* An accrual keeps the fees within the share.
LEMMA FeesAfterAccrual ==
  ASSUME TypeInv, CanAccrue, GrossInWord, FeesWithinShare
  PROVE  FeesOf(AccruedPool)
<1> DEFINE k == BIP_DENOMINATOR - PROTOCOL_FEE_BIPS
           e == pool.total_interest_earned
           f == pool.accrued_protocol_fees
           g == Gross(pool, clock)
           c == ProtocolCut(g)
<1>1. CASE ~Accrues(pool, clock)
  BY <1>1 DEF FeesOf, FeesWithinShare, AccruedPool, Accrued
<1>2. CASE Accrues(pool, clock)
  <2>1. /\ pool \in Pool /\ clock \in Nat /\ pool.last_accrual_timestamp <= clock
    BY DEF TypeInv, TypeOK
  <2>2. e \in Nat /\ f \in Nat
    BY <2>1, WordTypes DEF Pool
  <2>3. g \in Nat /\ g <= U64Max
    BY <2>1, GrossType DEF CanAccrue, GrossInWord
  <2>4. /\ AccruedPool.total_interest_earned = e + AsU64(g - c)
        /\ AccruedPool.accrued_protocol_fees = f + AsU64(c)
    BY <1>2, <2>1 DEF AccruedPool, Accrued, Booked, EarnedAt, FeesAt, Pool
  <2> HIDE DEF g
  <2>5. /\ c \in Nat /\ g - c \in Nat
        /\ AsU64(c) = c /\ AsU64(g - c) = g - c
        /\ k * c <= PROTOCOL_FEE_BIPS * (g - c)
    BY <2>3, CutOfGross
  <2>6. k * f <= PROTOCOL_FEE_BIPS * e
    BY DEF FeesWithinShare
  <2>7. k \in Nat /\ PROTOCOL_FEE_BIPS \in Nat
    BY MathAssumption
  <2> DEFINE n == g - c
  <2>8. n \in Nat
    BY <2>5
  <2> HIDE DEF k, e, f, c, n
  <2>9. /\ k * (f + c) = k * f + k * c
        /\ PROTOCOL_FEE_BIPS * (e + n) = PROTOCOL_FEE_BIPS * e + PROTOCOL_FEE_BIPS * n
        /\ k * f \in Nat /\ k * c \in Nat
        /\ PROTOCOL_FEE_BIPS * e \in Nat /\ PROTOCOL_FEE_BIPS * n \in Nat
    BY <2>2, <2>5, <2>7, <2>8
  <2>10. k * (f + c) <= PROTOCOL_FEE_BIPS * (e + n)
    BY <2>5, <2>6, <2>9 DEF n
  <2> QED
    BY <2>4, <2>5, <2>10 DEF FeesOf, n, k
<1> QED
  BY <1>1, <1>2

\* The other steps of an instruction book nothing, and a claim empties the fees.
LEMMA FeesWithinShareNext ==
  TypeInv /\ GrossInWord /\ FeesWithinShare /\ [Next]_vars => FeesWithinShare'
<1> SUFFICES ASSUME TypeInv, GrossInWord, FeesWithinShare, [Next]_vars
             PROVE  FeesWithinShare'
  OBVIOUS
<1>1. ASSUME CanAccrue,
             pool'.accrued_protocol_fees = AccruedPool.accrued_protocol_fees,
             pool'.total_interest_earned = AccruedPool.total_interest_earned
      PROVE  FeesWithinShare'
  BY <1>1, FeesAfterAccrual DEF FeesWithinShare, FeesOf
<1>2. CanAccrue => AccruedPool \in Pool
  BY AccruedPoolNumbers
<1>3. ASSUME NEW l \in Lenders, NEW amount \in Amounts, Deposit(l, amount)
      PROVE  FeesWithinShare'
  <2>1. CanAccrue /\ pool' = [AccruedPool EXCEPT !.total_deposits
                                = AccruedPool.total_deposits + amount]
    BY <1>3 DEF Deposit
  <2> QED
    BY <1>1, <1>2, <2>1, PoolUpdateFields, PoolUpdateEarnings
<1>4. ASSUME NEW l \in Lenders, Withdraw(l) PROVE FeesWithinShare'
  <2>1. CanAccrue /\ pool' = [AccruedPool EXCEPT !.total_deposits
                    = AccruedPool.total_deposits - lender[l].total_deposited]
    BY <1>4 DEF Withdraw, LessWithdrawn
  <2> QED
    BY <1>1, <1>2, <2>1, PoolUpdateFields, PoolUpdateEarnings
<1>5. ASSUME NEW a \in Agents, NEW amount \in Amounts, NEW h \in HookPrograms,
             NEW reply \in HookReplies, Borrow(a, amount, h, reply)
      PROVE  FeesWithinShare'
  <2>1. CanAccrue /\ pool' = [AccruedPool EXCEPT !.total_borrows
                                = AccruedPool.total_borrows + amount]
    BY <1>5 DEF Borrow
  <2> QED
    BY <1>1, <1>2, <2>1, PoolUpdateFields, PoolUpdateEarnings
<1>6. ASSUME NEW a \in Agents, NEW payer \in Users, Repay(a, payer)
      PROVE  FeesWithinShare'
  <2>1. CanAccrue /\ pool' = [AccruedPool EXCEPT !.total_borrows =
                      AccruedPool.total_borrows - Settled(borrower[a], clock).principal]
    BY <1>6 DEF Repay, LessRepaid
  <2> QED
    BY <1>1, <1>2, <2>1, PoolUpdateFields, PoolUpdateEarnings
<1>7. ASSUME pool'.accrued_protocol_fees = 0, pool'.total_interest_earned \in Nat
      PROVE  FeesWithinShare'
  <2>1. /\ BIP_DENOMINATOR - PROTOCOL_FEE_BIPS \in Nat /\ PROTOCOL_FEE_BIPS \in Nat
    BY MathAssumption
  <2>2. /\ (BIP_DENOMINATOR - PROTOCOL_FEE_BIPS) * 0 = 0
        /\ PROTOCOL_FEE_BIPS * pool'.total_interest_earned \in Nat
    BY <1>7, <2>1
  <2>3. 0 <= PROTOCOL_FEE_BIPS * pool'.total_interest_earned
    BY <2>2
  <2> QED
    BY <1>7, <2>2, <2>3 DEF FeesWithinShare
<1>8. TypeInv' => pool'.total_interest_earned \in Nat
  BY WordTypes DEF TypeInv, TypeOK, Pool
<1>9. TypeInv'
  BY TypeInvNext
<1>10. ASSUME NEW r \in FeeRecipients, ClaimProtocolFees(r) PROVE FeesWithinShare'
  <2>1. CanAccrue /\ pool' = [AccruedPool EXCEPT !.accrued_protocol_fees = 0]
    BY <1>10 DEF ClaimProtocolFees
  <2> QED
    BY <1>2, <1>7, <1>8, <1>9, <2>1, PoolUpdateFields
<1>11. ASSUME NEW h \in HookPrograms, NEW bips \in InterestBips,
              NEW term \in TermSeconds, NEW reserve \in ReserveRatioBips,
              NEW window \in DepositWindowEnds,
              InitializePool(h, bips, term, reserve, window)
       PROVE  FeesWithinShare'
  BY <1>7, <1>8, <1>9, <1>11 DEF InitializePool
<1>12. ASSUME pool' = pool PROVE FeesWithinShare'
  BY <1>12 DEF FeesWithinShare
<1>13. ASSUME NEW r \in FeeRecipients, InitializeProtocol(r) PROVE FeesWithinShare'
  BY <1>12, <1>13 DEF InitializeProtocol
<1>14. ASSUME NEW u \in Users, NEW amount \in TopUps, TopUpVault(u, amount)
       PROVE  FeesWithinShare'
  BY <1>12, <1>14 DEF TopUpVault
<1>15. CASE Tick
  BY <1>12, <1>15 DEF Tick
<1>16. CASE UNCHANGED vars
  BY <1>12, <1>16 DEF vars
<1> QED
  BY <1>3, <1>4, <1>5, <1>6, <1>10, <1>11, <1>13, <1>14, <1>15, <1>16 DEF Next

\* The fees not yet claimed are at most the protocol's share of the interest
\* booked, however it was cut into accruals, as long as no single accrual
\* exceeds a word (if one did, the lenders' part would wrap).
THEOREM FeesAlwaysWithinShare == Spec /\ []GrossInWord => []FeesWithinShare
<1>1. Init => FeesWithinShare
  <2> SUFFICES ASSUME Init PROVE FeesWithinShare
    OBVIOUS
  <2>1. pool.accrued_protocol_fees = 0 /\ pool.total_interest_earned = 0
    BY DEF Init, NoPool
  <2>2. /\ (BIP_DENOMINATOR - PROTOCOL_FEE_BIPS) * 0 = 0
        /\ PROTOCOL_FEE_BIPS * 0 = 0
    BY MathAssumption
  <2> QED
    BY <2>1, <2>2 DEF FeesWithinShare
<1>2. TypeInv /\ GrossInWord /\ FeesWithinShare /\ [Next]_vars => FeesWithinShare'
  BY FeesWithinShareNext
<1>3. Spec => []TypeInv
  BY TypeInvariant
<1> QED
  BY <1>1, <1>2, <1>3, PTL DEF Spec

-------------------------------------------------------------------------------
(***************************************************************************)
(* A pool whose loans are in proportion to its words never stops           *)
(***************************************************************************)

\* No pool and no hook asks for more than this rate.
RatesWithin(rate) ==
  /\ \A bips \in InterestBips : bips <= rate
  /\ \A reply \in HookReplies : reply.interest_bips <= rate

\* The interest on as much as may be lent, for a pool's whole life.
MostInterest(limit, rate, span) == (limit * rate * span) \div Unit

\* The words hold what lending up to a limit, for so many seconds, can come to.
LendingInWords(limit, rate, span) ==
  /\ limit * rate * span <= U128Max
  /\ MostInterest(limit, rate, span) * PROTOCOL_FEE_BIPS <= U128Max
  /\ RAY + MostInterest(limit, rate, span) * RAY <= U128Max
  /\ limit + MostInterest(limit, rate, span) <= U64Max

\* The pool keeps to the limit: no more than that is on loan, and no more than
\* so many seconds have gone by since the second it was, at the earliest, set up.
LendingWithin(limit, start, span) ==
  /\ pool.total_borrows <= limit
  /\ pool.initialized => start <= clock /\ clock <= start + span

\* CanAccrue is not inductive: what is, is that the interest booked so far,
\* claimed or not, is at most that on the limit up to the last accrual.
EarningsInv(limit, rate, start) ==
  pool.initialized =>
    /\ pool.min_interest_bips <= rate
    /\ start <= pool.last_accrual_timestamp
    /\ Unit * (pool.total_interest_earned + pool.accrued_protocol_fees)
         <= limit * rate * (pool.last_accrual_timestamp - start)

\* What LendingInWords says of any interest that is at most the most.
LEMMA InterestInWord ==
  ASSUME NEW limit \in Nat, NEW rate \in Nat, NEW span \in Nat \ {0},
         LendingInWords(limit, rate, span),
         NEW i \in Nat, Unit * i <= limit * rate * span
  PROVE  /\ i <= U64Max /\ limit + i <= U64Max
         /\ i * PROTOCOL_FEE_BIPS <= U128Max
         /\ i * RAY \in Nat /\ RAY + i * RAY <= U128Max
<1> DEFINE most == limit * rate * span
           m == MostInterest(limit, rate, span)
<1>1. span \in Nat /\ U64Max \in Nat /\ U128Max \in Nat
      /\ PROTOCOL_FEE_BIPS \in Nat /\ RAY \in Nat
  BY MathAssumption
<1>2. most \in Nat
  BY <1>1, InterestAtMost
<1>3. m = most \div Unit
  BY DEF MostInterest
<1>4. m \in Nat
  BY <1>2, <1>3, UnitType, QuotientBounds
<1>5. Unit * i <= most
  OBVIOUS
<1>6. /\ m * PROTOCOL_FEE_BIPS <= U128Max
      /\ RAY + m * RAY <= U128Max
      /\ limit + m <= U64Max
  BY DEF LendingInWords
<1> HIDE DEF most
<1>7. i <= most \div Unit
  BY <1>2, <1>5, UnitsAtMost
<1>8. i <= m
  BY <1>3, <1>7
<1> HIDE DEF m
<1>9. /\ i * PROTOCOL_FEE_BIPS <= m * PROTOCOL_FEE_BIPS
      /\ i * PROTOCOL_FEE_BIPS \in Nat /\ m * PROTOCOL_FEE_BIPS \in Nat
      /\ i * RAY <= m * RAY /\ i * RAY \in Nat /\ m * RAY \in Nat
  BY <1>1, <1>4, <1>8, ProductMonotone
<1> QED
  BY <1>1, <1>4, <1>6, <1>8, <1>9

\* While what is lent is within the limit accrue_interest succeeds, its interest
\* fits in a word, and the bound on the interest moves up with the date.
LEMMA AccrualInWords ==
  ASSUME NEW limit \in Nat, NEW rate \in Nat,
         NEW start \in Nat, NEW span \in Nat \ {0},
         LendingInWords(limit, rate, span),
         TypeInv, EarningsInv(limit, rate, start),
         pool.initialized, LendingWithin(limit, start, span)
  PROVE  /\ CanAccrue
         /\ Gross(pool, clock) <= U64Max
         /\ AccruedPool.min_interest_bips = pool.min_interest_bips
         /\ start <= AccruedPool.last_accrual_timestamp
         /\ Unit * (AccruedPool.total_interest_earned
                      + AccruedPool.accrued_protocol_fees)
              <= limit * rate * (AccruedPool.last_accrual_timestamp - start)
<1> DEFINE last == pool.last_accrual_timestamp
           elapsed == clock - last
           before == last - start
           age == clock - start
           e == pool.total_interest_earned
           f == pool.accrued_protocol_fees
           b == pool.total_borrows
           r == pool.min_interest_bips
           d == pool.total_deposits
           g == Gross(pool, clock)
           c == ProtocolCut(g)
           m == limit * rate
<1>1. /\ pool \in Pool /\ clock \in Nat /\ last <= clock
      /\ start <= last /\ clock <= start + span
  BY DEF TypeInv, TypeOK, EarningsInv, LendingWithin
<1>2. /\ e \in Nat /\ f \in Nat /\ b \in Nat /\ r \in Nat /\ d \in Nat /\ last \in Nat
  BY <1>1, WordTypes DEF Pool
<1>3. /\ elapsed \in Nat /\ before \in Nat /\ age \in Nat
      /\ elapsed <= span /\ age <= span /\ age = before + elapsed
  BY <1>1, <1>2
<1>4. r <= rate /\ Unit * (e + f) <= m * before
  BY DEF EarningsInv
<1>5. g = Interest(b, r, elapsed)
  BY DEF Gross
<1>6. Unit \in Nat \ {0}
  BY UnitType
<1>7. /\ RAY \in Nat \ {0} /\ U64Max \in Nat /\ U128Max \in Nat
      /\ PROTOCOL_FEE_BIPS \in Nat
  BY MathAssumption
<1>8. limit * rate * span <= U128Max
  BY DEF LendingInWords
<1>9. b <= limit
  BY DEF LendingWithin
<1> HIDE DEF elapsed, before, age, b, r, m
<1>10. /\ b * r <= m /\ b * r * elapsed <= m * elapsed
       /\ m * elapsed <= m * span /\ m \in Nat
       /\ m * elapsed \in Nat /\ m * span \in Nat
       /\ b * r \in Nat
       /\ Unit * Interest(b, r, elapsed) <= m * elapsed
       /\ Interest(b, r, elapsed) \in Nat
  <2>1. /\ b \in Nat /\ r \in Nat /\ elapsed \in Nat /\ span \in Nat
        /\ b <= limit /\ r <= rate /\ elapsed <= span
    BY <1>1, <1>2, <1>3, <1>4, <1>9
  <2>2. /\ b * r \in Nat /\ limit * rate \in Nat
        /\ b * r <= limit * rate
        /\ b * r * elapsed <= limit * rate * elapsed
        /\ limit * rate * elapsed <= limit * rate * span
        /\ limit * rate * elapsed \in Nat /\ limit * rate * span \in Nat
        /\ Unit * Interest(b, r, elapsed) <= limit * rate * elapsed
        /\ Interest(b, r, elapsed) \in Nat
    BY <2>1, InterestAtMost
  <2> QED
    BY <2>2 DEF m
<1> HIDE DEF g
<1>11. g \in Nat /\ Unit * g <= m * elapsed /\ Unit * g \in Nat
  BY <1>5, <1>6, <1>10
<1>12. Unit * g <= limit * rate * span
  BY <1>10, <1>11 DEF m
<1>13. g <= U64Max /\ g * PROTOCOL_FEE_BIPS <= U128Max
  BY <1>11, <1>12, InterestInWord
<1>14. /\ c \in Nat /\ g - c \in Nat
       /\ AsU64(c) = c /\ AsU64(g - c) = g - c
  BY <1>11, <1>13, CutOfGross
<1> HIDE DEF c, e, f, last
<1>15. EarnedAt(pool, clock) = e + (g - c) /\ FeesAt(pool, clock) = f + c
  BY <1>14 DEF EarnedAt, FeesAt, e, f, c, g
<1> DEFINE i == e + f + g
<1>16. i \in Nat /\ Unit * i = Unit * (e + f) + Unit * g /\ Unit * (e + f) \in Nat
  BY <1>2, <1>6, <1>11
<1>17. m * age = m * before + m * elapsed /\ m * before \in Nat
  BY <1>2, <1>3, <1>10
<1>18. Unit * i <= m * age
  BY <1>4, <1>10, <1>11, <1>16, <1>17
<1>19. age * m <= span * m /\ age * m = m * age /\ span * m = m * span
  BY <1>3, <1>10, ProductMonotone
<1> HIDE DEF i
<1>20. Unit * i <= limit * rate * span
  <2>1. Unit * i \in Nat /\ m * age \in Nat
    BY <1>3, <1>6, <1>10, <1>16
  <2> QED
    BY <2>1, <1>10, <1>18, <1>19 DEF m
<1>21. i <= U64Max /\ i * RAY \in Nat /\ RAY + i * RAY <= U128Max
  BY <1>16, <1>20, InterestInWord
<1> DEFINE en == e + (g - c)
           fn == f + c
<1>22. en \in Nat /\ fn \in Nat /\ en <= i /\ fn <= i /\ en + fn = i
  BY <1>2, <1>11, <1>14 DEF i
<1> HIDE DEF en, fn
<1>23. en <= U64Max /\ fn <= U64Max
  BY <1>7, <1>16, <1>21, <1>22
<1>24. en * RAY <= i * RAY /\ en * RAY \in Nat
  BY <1>7, <1>16, <1>22, ProductMonotone
<1>25. en * RAY <= U128Max
  BY <1>7, <1>21, <1>24
<1>26. d # 0 => ScaleFactor(en, d) <= U128Max
  <2> HAVE d # 0
  <2>1. d \in Nat \ {0}
    BY <1>2
  <2> DEFINE y == en * RAY
  <2>2. y \in Nat
    BY <1>24
  <2> HIDE DEF d, y
  <2>3. y <= y * d
    BY <2>1, <2>2
  <2>4. y \div d <= y /\ y \div d \in Nat
    BY <2>1, <2>2, <2>3, QuotientAtMost, QuotientBounds
  <2>5. ScaleFactor(en, d) = RAY + (y \div d)
    BY DEF ScaleFactor, y
  <2>6. y <= i * RAY
    BY <1>24 DEF y
  <2> HIDE DEF y
  <2>7. RAY + (y \div d) <= RAY + i * RAY
    BY <1>7, <1>21, <2>2, <2>4, <2>6
  <2> QED
    BY <1>7, <1>21, <2>2, <2>4, <2>5, <2>7
<1>27. AccrualFits(pool, clock)
  <2>1. InterestFits(b, r, elapsed)
    <3>1. b * r <= U128Max
      <4>1. m * 1 <= m * span /\ m * 1 = m
        BY <1>1, <1>10
      <4> QED
        BY <1>7, <1>8, <1>10, <4>1 DEF m
    <3>2. b * r * elapsed <= U128Max
      <4>1. b * r * elapsed \in Nat
        BY <1>3, <1>10
      <4> QED
        BY <1>7, <1>8, <1>10, <4>1 DEF m
    <3> QED
      BY <3>1, <3>2 DEF InterestFits
  <2>2. InterestFits(pool.total_borrows, pool.min_interest_bips,
                     clock - pool.last_accrual_timestamp)
    BY <2>1 DEF b, r, elapsed, last
  <2>3. EarnedAt(pool, clock) = en /\ FeesAt(pool, clock) = fn
    BY <1>15 DEF en, fn
  <2>4. Gross(pool, clock) * PROTOCOL_FEE_BIPS <= U128Max
    BY <1>13 DEF g
  <2>5. Accrues(pool, clock) => ScaleFactor(en, pool.total_deposits) <= U128Max
    BY <1>26 DEF Accrues
  <2> QED
    BY <1>23, <1>25, <2>2, <2>3, <2>4, <2>5 DEF AccrualFits
<1>28. CanAccrue
  BY <1>27 DEF CanAccrue
<1>29. /\ AccruedPool.min_interest_bips = pool.min_interest_bips
       /\ start <= AccruedPool.last_accrual_timestamp
       /\ Unit * (AccruedPool.total_interest_earned
                      + AccruedPool.accrued_protocol_fees)
            <= m * (AccruedPool.last_accrual_timestamp - start)
  <2>1. CASE Accrues(pool, clock)
    <3>1. AccruedPool = Booked(pool, clock)
      BY <2>1 DEF AccruedPool, Accrued
    <3>2. /\ AccruedPool.total_interest_earned = en
          /\ AccruedPool.accrued_protocol_fees = fn
          /\ AccruedPool.last_accrual_timestamp = clock
          /\ AccruedPool.min_interest_bips = pool.min_interest_bips
      BY <1>1, <1>15, <3>1 DEF Booked, Pool, en, fn
    <3>3. start <= clock
      BY <1>1, <1>2 DEF last
    <3> QED
      BY <1>18, <1>22, <3>2, <3>3 DEF age
  <2>2. CASE ~Accrues(pool, clock)
    <3>1. AccruedPool = pool
      BY <2>2 DEF AccruedPool, Accrued
    <3> QED
      BY <1>1, <1>4, <3>1 DEF e, f, last, before
  <2> QED
    BY <2>1, <2>2
<1> QED
  BY <1>13, <1>28, <1>29 DEF g, m

\* What the rest of an instruction leaves of the accrued pool's earnings: fees
\* can only be claimed.
SameBooking(p, q) ==
  /\ q.min_interest_bips = p.min_interest_bips
  /\ q.last_accrual_timestamp = p.last_accrual_timestamp
  /\ q.total_interest_earned = p.total_interest_earned
  /\ q.accrued_protocol_fees \in {p.accrued_protocol_fees, 0}

\* Rewriting a total or claiming the fees books nothing.
LEMMA PoolUpdateBooking ==
  ASSUME NEW p \in Pool, NEW x
  PROVE  /\ SameBooking(p, [p EXCEPT !.total_deposits = x])
         /\ SameBooking(p, [p EXCEPT !.total_borrows = x])
         /\ SameBooking(p, [p EXCEPT !.accrued_protocol_fees = 0])
BY DEF Pool, SameBooking

\* An instruction that accrues keeps the bound, if its accrual did.
LEMMA EarningsKept ==
  ASSUME NEW limit \in Nat, NEW rate \in Nat,
         NEW start \in Nat, NEW span \in Nat \ {0},
         LendingInWords(limit, rate, span),
         TypeInv, EarningsInv(limit, rate, start), LendingWithin(limit, start, span),
         clock' = clock, CanAccrue, SameBooking(AccruedPool, pool')
  PROVE  EarningsInv(limit, rate, start)'
<1> DEFINE e == AccruedPool.total_interest_earned
           f == AccruedPool.accrued_protocol_fees
           g == pool'.accrued_protocol_fees
           last == AccruedPool.last_accrual_timestamp
           bound == limit * rate * (last - start)
<1>1. /\ AccruedPool.min_interest_bips = pool.min_interest_bips
      /\ start <= last
      /\ Unit * (e + f) <= bound
  BY AccrualInWords DEF CanAccrue
<1>2. pool.min_interest_bips <= rate
  BY DEF CanAccrue, EarningsInv
<1>3. /\ pool'.min_interest_bips = AccruedPool.min_interest_bips
      /\ pool'.last_accrual_timestamp = last
      /\ pool'.total_interest_earned = e
      /\ g \in {f, 0}
  BY DEF SameBooking
<1>4. e \in Nat /\ f \in Nat /\ bound \in Nat /\ Unit \in Nat
  <2>1. AccruedPool \in Pool
    BY AccruedPoolNumbers
  <2>2. e \in Nat /\ f \in Nat /\ last \in Nat
    BY <2>1, WordTypes DEF Pool
  <2>3. last - start \in Nat
    BY <1>1, <2>2
  <2> QED
    BY <2>2, <2>3, UnitType
<1> HIDE DEF e, f, g, bound
<1>5. Unit * (e + g) <= bound
  <2>1. CASE g = f
    BY <1>1, <2>1
  <2>2. CASE g = 0
    <3>1. (e + 0) * Unit <= (e + f) * Unit /\ (e + 0) * Unit = Unit * (e + 0)
          /\ (e + f) * Unit = Unit * (e + f)
          /\ Unit * (e + 0) \in Nat /\ Unit * (e + f) \in Nat
      BY <1>4, ProductMonotone
    <3> QED
      BY <1>1, <1>4, <2>2, <3>1
  <2> QED
    BY <1>3, <2>1, <2>2
<1> QED
  BY <1>1, <1>2, <1>3, <1>5 DEF EarningsInv, bound, g

\* The bound is inductive as long as what is lent stays within the limit.
LEMMA EarningsInvNext ==
  ASSUME NEW limit \in Nat, NEW rate \in Nat,
         NEW start \in Nat, NEW span \in Nat \ {0},
         RatesWithin(rate), LendingInWords(limit, rate, span),
         TypeInv, EarningsInv(limit, rate, start),
         LendingWithin(limit, start, span), LendingWithin(limit, start, span)',
         [Next]_vars
  PROVE  EarningsInv(limit, rate, start)'
<1>1. ASSUME CanAccrue, clock' = clock, SameBooking(AccruedPool, pool')
      PROVE  EarningsInv(limit, rate, start)'
  BY <1>1, EarningsKept
<1>2. ASSUME pool' = pool PROVE EarningsInv(limit, rate, start)'
  BY <1>2 DEF EarningsInv
<1>3. CanAccrue => AccruedPool \in Pool
  BY AccruedPoolNumbers
<1>4. ASSUME NEW l \in Lenders, NEW amount \in Amounts, Deposit(l, amount)
      PROVE  EarningsInv(limit, rate, start)'
  <2>1. CanAccrue /\ clock' = clock
        /\ pool' = [AccruedPool EXCEPT !.total_deposits
                      = AccruedPool.total_deposits + amount]
    BY <1>4 DEF Deposit
  <2> QED
    BY <1>1, <1>3, <2>1, PoolUpdateBooking
<1>5. ASSUME NEW l \in Lenders, Withdraw(l) PROVE EarningsInv(limit, rate, start)'
  <2>1. CanAccrue /\ clock' = clock
        /\ pool' = [AccruedPool EXCEPT !.total_deposits
                      = AccruedPool.total_deposits - lender[l].total_deposited]
    BY <1>5 DEF Withdraw, LessWithdrawn
  <2> QED
    BY <1>1, <1>3, <2>1, PoolUpdateBooking
<1>6. ASSUME NEW a \in Agents, NEW amount \in Amounts, NEW h \in HookPrograms,
             NEW reply \in HookReplies, Borrow(a, amount, h, reply)
      PROVE  EarningsInv(limit, rate, start)'
  <2>1. CanAccrue /\ clock' = clock
        /\ pool' = [AccruedPool EXCEPT !.total_borrows
                      = AccruedPool.total_borrows + amount]
    BY <1>6 DEF Borrow
  <2> QED
    BY <1>1, <1>3, <2>1, PoolUpdateBooking
<1>7. ASSUME NEW a \in Agents, NEW payer \in Users, Repay(a, payer)
      PROVE  EarningsInv(limit, rate, start)'
  <2>1. CanAccrue /\ clock' = clock
        /\ pool' = [AccruedPool EXCEPT !.total_borrows =
                      AccruedPool.total_borrows - Settled(borrower[a], clock).principal]
    BY <1>7 DEF Repay, LessRepaid
  <2> QED
    BY <1>1, <1>3, <2>1, PoolUpdateBooking
<1>8. ASSUME NEW r \in FeeRecipients, ClaimProtocolFees(r)
      PROVE  EarningsInv(limit, rate, start)'
  <2>1. CanAccrue /\ clock' = clock
        /\ pool' = [AccruedPool EXCEPT !.accrued_protocol_fees = 0]
    BY <1>8 DEF ClaimProtocolFees
  <2> QED
    BY <1>1, <1>3, <2>1, PoolUpdateBooking
<1>9. ASSUME NEW h \in HookPrograms, NEW bips \in InterestBips,
              NEW term \in TermSeconds, NEW reserve \in ReserveRatioBips,
              NEW window \in DepositWindowEnds,
              InitializePool(h, bips, term, reserve, window)
       PROVE  EarningsInv(limit, rate, start)'
  <2>1. /\ pool'.min_interest_bips = bips
        /\ pool'.total_interest_earned = 0
        /\ pool'.accrued_protocol_fees = 0
        /\ pool'.last_accrual_timestamp = clock
        /\ clock' = clock
        /\ pool'.initialized
    BY <1>9 DEF InitializePool
  <2>2. bips <= rate
    BY DEF RatesWithin
  <2>3. start <= clock /\ clock - start \in Nat
    BY <2>1 DEF LendingWithin, TypeInv, TypeOK
  <2>4. limit * rate * (clock - start) \in Nat /\ Unit * (0 + 0) = 0
    <3> DEFINE age == clock - start
    <3>1. age \in Nat
      BY <2>3
    <3> HIDE DEF age
    <3>2. limit * rate * age \in Nat
      BY <3>1
    <3> QED
      BY <3>2, UnitType DEF age
  <2>5. Unit * (0 + 0) <= limit * rate * (clock - start)
    <3> DEFINE bound == limit * rate * (clock - start)
    <3>1. bound \in Nat
      BY <2>4
    <3> HIDE DEF bound
    <3> QED
      BY <2>4, <3>1 DEF bound
  <2> QED
    BY <2>1, <2>2, <2>3, <2>5 DEF EarningsInv
<1>10. ASSUME NEW r \in FeeRecipients, InitializeProtocol(r)
       PROVE  EarningsInv(limit, rate, start)'
  BY <1>2, <1>10 DEF InitializeProtocol
<1>11. ASSUME NEW u \in Users, NEW amount \in TopUps, TopUpVault(u, amount)
       PROVE  EarningsInv(limit, rate, start)'
  BY <1>2, <1>11 DEF TopUpVault
<1>12. CASE Tick
  BY <1>2, <1>12 DEF Tick
<1>13. CASE UNCHANGED vars
  BY <1>2, <1>13 DEF vars
<1> QED
  BY <1>4, <1>5, <1>6, <1>7, <1>8, <1>9, <1>10, <1>11, <1>12, <1>13 DEF Next

\* At the start there is no pool and nothing has been booked.
LEMMA EarningsInvInit ==
  ASSUME NEW limit \in Nat, NEW rate \in Nat, NEW start \in Nat, Init
  PROVE  EarningsInv(limit, rate, start)
BY DEF Init, NoPool, EarningsInv

\* The bound holds throughout a behaviour that keeps to the limit.
LEMMA EarningsInvariant ==
  ASSUME NEW limit \in Nat, NEW rate \in Nat,
         NEW start \in Nat, NEW span \in Nat \ {0},
         RatesWithin(rate), LendingInWords(limit, rate, span)
  PROVE  Spec /\ []LendingWithin(limit, start, span) => []EarningsInv(limit, rate, start)
<1>1. Init => EarningsInv(limit, rate, start)
  BY EarningsInvInit
<1>2. /\ TypeInv /\ EarningsInv(limit, rate, start) /\ [Next]_vars
      /\ LendingWithin(limit, start, span) /\ LendingWithin(limit, start, span)'
      => EarningsInv(limit, rate, start)'
  BY EarningsInvNext
<1>3. Spec => []TypeInv
  BY TypeInvariant
<1> QED
  BY <1>1, <1>2, <1>3, PTL DEF Spec

\* A pool always goes on taking instructions, as long as its loans never exceed
\* what its words were shown to hold the interest of.
THEOREM PoolAlwaysRuns ==
  ASSUME NEW limit \in Nat, NEW rate \in Nat,
         NEW start \in Nat, NEW span \in Nat \ {0},
         RatesWithin(rate), LendingInWords(limit, rate, span)
  PROVE  Spec /\ []LendingWithin(limit, start, span) => []PoolKeepsRunning
<1>1. TypeInv /\ EarningsInv(limit, rate, start) /\ LendingWithin(limit, start, span)
        => PoolKeepsRunning
  BY AccrualInWords DEF PoolKeepsRunning
<1>2. Spec => []TypeInv
  BY TypeInvariant
<1>3. Spec /\ []LendingWithin(limit, start, span) => []EarningsInv(limit, rate, start)
  BY EarningsInvariant
<1> QED
  BY <1>1, <1>2, <1>3, PTL

\* The same lending never makes an accrual larger than a word, which is what
\* FeesAlwaysWithinShare asks for.
THEOREM GrossAlwaysInWord ==
  ASSUME NEW limit \in Nat, NEW rate \in Nat,
         NEW start \in Nat, NEW span \in Nat \ {0},
         RatesWithin(rate), LendingInWords(limit, rate, span)
  PROVE  Spec /\ []LendingWithin(limit, start, span) => [](GrossInWord /\ FeesWithinShare)
<1>1. TypeInv /\ EarningsInv(limit, rate, start) /\ LendingWithin(limit, start, span)
        => GrossInWord
  BY AccrualInWords DEF GrossInWord
<1>2. Spec => []TypeInv
  BY TypeInvariant
<1>3. Spec /\ []LendingWithin(limit, start, span) => []EarningsInv(limit, rate, start)
  BY EarningsInvariant
<1>4. Spec /\ []GrossInWord => []FeesWithinShare
  BY FeesAlwaysWithinShare
<1> QED
  BY <1>1, <1>2, <1>3, <1>4, PTL

\* A loan that is out carries no interest yet, at a rate the hook may return, and
\* is not older than the pool.
LoansFresh(rate, start) ==
  \A a \in Agents : borrower[a].status = "Active" =>
    /\ borrower[a].accrued_interest = 0
    /\ borrower[a].annual_interest_bips <= rate
    /\ start <= borrower[a].last_accrual_timestamp

\* Only repay charges a loan, and then it is no longer out.
LEMMA LoansFreshNext ==
  ASSUME NEW limit \in Nat, NEW rate \in Nat, NEW start \in Nat, NEW span \in Nat \ {0},
         RatesWithin(rate), LendingWithin(limit, start, span),
         TypeInv, LoansFresh(rate, start), [Next]_vars
  PROVE  LoansFresh(rate, start)'
<1>1. borrower \in [Agents -> BorrowerPosition]
  BY DEF TypeInv, TypeOK
<1>2. ASSUME borrower' = borrower PROVE LoansFresh(rate, start)'
  BY <1>2 DEF LoansFresh
<1>3. ASSUME NEW a \in Agents, NEW amount \in Amounts, NEW h \in HookPrograms,
             NEW reply \in HookReplies, Borrow(a, amount, h, reply)
      PROVE  LoansFresh(rate, start)'
  <2>1. borrower' = [borrower EXCEPT ![a] = Loan(amount, reply, clock)]
    BY <1>3 DEF Borrow
  <2>2. start <= clock
    BY <1>3 DEF Borrow, CanAccrue, LendingWithin
  <2>3. /\ Loan(amount, reply, clock).accrued_interest = 0
        /\ Loan(amount, reply, clock).annual_interest_bips <= rate
        /\ start <= Loan(amount, reply, clock).last_accrual_timestamp
    BY <2>2 DEF Loan, RatesWithin
  <2> QED
    BY <1>1, <2>1, <2>3 DEF LoansFresh
<1>4. ASSUME NEW a \in Agents, NEW payer \in Users, Repay(a, payer)
      PROVE  LoansFresh(rate, start)'
  <2>1. /\ borrower' = [borrower EXCEPT ![a] = Settled(borrower[a], clock)]
        /\ RepayFits(borrower[a], AccruedPool, clock)
    BY <1>4 DEF Repay
  <2>2. Settled(borrower[a], clock).status = "Repaid"
    BY <2>1, SettledFacts
  <2> QED
    BY <1>1, <2>1, <2>2 DEF LoansFresh
<1>5. ASSUME NEW l \in Lenders, NEW amount \in Amounts, Deposit(l, amount)
      PROVE  LoansFresh(rate, start)'
  BY <1>2, <1>5 DEF Deposit
<1>6. ASSUME NEW l \in Lenders, Withdraw(l) PROVE LoansFresh(rate, start)'
  BY <1>2, <1>6 DEF Withdraw
<1>7. ASSUME NEW r \in FeeRecipients, ClaimProtocolFees(r) PROVE LoansFresh(rate, start)'
  BY <1>2, <1>7 DEF ClaimProtocolFees
<1>8. ASSUME NEW r \in FeeRecipients, InitializeProtocol(r) PROVE LoansFresh(rate, start)'
  BY <1>2, <1>8 DEF InitializeProtocol
<1>9. ASSUME NEW h \in HookPrograms, NEW bips \in InterestBips,
             NEW term \in TermSeconds, NEW reserve \in ReserveRatioBips,
             NEW window \in DepositWindowEnds,
             InitializePool(h, bips, term, reserve, window)
      PROVE  LoansFresh(rate, start)'
  BY <1>2, <1>9 DEF InitializePool
<1>10. ASSUME NEW u \in Users, NEW amount \in TopUps, TopUpVault(u, amount)
       PROVE  LoansFresh(rate, start)'
  BY <1>2, <1>10 DEF TopUpVault
<1>11. CASE Tick
  BY <1>2, <1>11 DEF Tick
<1>12. CASE UNCHANGED vars
  BY <1>2, <1>12 DEF vars
<1> QED
  BY <1>3, <1>4, <1>5, <1>6, <1>7, <1>8, <1>9, <1>10, <1>11, <1>12 DEF Next

\* What repay is going to charge a loan fits in the words, whenever it comes.
LEMMA ChargeInWords ==
  ASSUME NEW limit \in Nat, NEW rate \in Nat,
         NEW start \in Nat, NEW span \in Nat \ {0},
         LendingInWords(limit, rate, span),
         TypeInv, LedgerInv, EarningsInv(limit, rate, start), LoansFresh(rate, start),
         LendingWithin(limit, start, span),
         NEW a \in Agents, borrower[a].status = "Active"
  PROVE  /\ PositionInterest(borrower[a], clock) <= U64Max
         /\ CanAccrue => RepayFits(borrower[a], AccruedPool, clock)
<1> DEFINE pos == borrower[a]
           elapsed == clock - pos.last_accrual_timestamp
           bips == pos.annual_interest_bips
           i == PositionInterest(pos, clock)
           settled == Settled(pos, clock)
           amount == pos.principal
<1>1. /\ pos \in BorrowerPosition /\ clock \in Nat
      /\ pos.last_accrual_timestamp \in Nat /\ pos.last_accrual_timestamp <= clock
      /\ amount \in Nat /\ bips \in Nat
  BY WordTypes DEF TypeInv, TypeOK, BorrowerPosition
<1>2. pool.initialized /\ clock <= start + span
  <2>1. pool.initialized
    BY DEF LedgerInv, EmptyBeforePool, NoLoan
  <2> QED
    BY <2>1 DEF LendingWithin
<1>3. /\ elapsed \in Nat /\ elapsed <= span
      /\ start <= pos.last_accrual_timestamp
  BY <1>1, <1>2 DEF LoansFresh
<1>4. pos.accrued_interest = 0 /\ bips <= rate
  BY DEF LoansFresh
<1>5. amount <= pool.total_borrows /\ pool.total_borrows \in Nat
  <2>1. Borrowed \in [Agents -> Nat] /\ pool.total_borrows = Total(Borrowed)
    BY LedgerTypes, LedgerTotals DEF LedgerInv
  <2>2. Borrowed[a] <= Total(Borrowed)
    BY <2>1, UsersFinite, TotalMember
  <2>3. Borrowed[a] = amount
    BY DEF Borrowed, Outstanding
  <2>4. Total(Borrowed) \in Nat
    BY <2>1, UsersFinite, TotalType
  <2> QED
    BY <2>1, <2>2, <2>3, <2>4
<1>6. amount <= limit
  BY <1>1, <1>5 DEF LendingWithin
<1>7. /\ U64Max \in Nat /\ U128Max \in Nat
  BY MathAssumption
<1>8. i = Interest(amount, bips, elapsed)
  BY DEF PositionInterest
<1> HIDE DEF i, elapsed, bips, amount
<1>9. /\ amount * bips \in Nat /\ limit * rate \in Nat
      /\ amount * bips <= limit * rate
      /\ amount * bips * elapsed <= limit * rate * elapsed
      /\ limit * rate * elapsed <= limit * rate * span
      /\ limit * rate * elapsed \in Nat /\ limit * rate * span \in Nat
      /\ Unit * Interest(amount, bips, elapsed) <= limit * rate * elapsed
      /\ Interest(amount, bips, elapsed) \in Nat
  BY <1>1, <1>3, <1>4, <1>6, InterestAtMost
<1>10. i \in Nat /\ Unit * i <= limit * rate * span
  <2>1. Unit * i \in Nat /\ Unit * i <= limit * rate * elapsed
    BY <1>8, <1>9, UnitType
  <2> QED
    BY <1>8, <1>9, <2>1
<1>11. i <= U64Max /\ limit + i <= U64Max
  BY <1>10, InterestInWord
<1>12. AsU64(i) = i
  BY <1>10, <1>11, AsU64Identity
<1>13. settled.accrued_interest = i /\ settled.principal = amount
  BY <1>1, <1>4, <1>10, <1>12 DEF Settled, BorrowerPosition, i, amount
<1>14. TotalOwed(settled) <= U64Max
  BY <1>1, <1>6, <1>7, <1>10, <1>11, <1>13 DEF TotalOwed
<1>15. limit * rate * span <= U128Max
  BY DEF LendingInWords
<1>16. InterestFits(amount, bips, elapsed)
  <2>1. limit * rate * 1 <= limit * rate * span /\ limit * rate * 1 = limit * rate
    <3> DEFINE m == limit * rate
    <3>1. m \in Nat
      BY <1>9
    <3> HIDE DEF m
    <3>2. m * 1 <= m * span /\ m * 1 = m
      BY <3>1
    <3> QED
      BY <3>2 DEF m
  <2>2. amount * bips <= U128Max
    BY <1>7, <1>9, <1>15, <2>1
  <2>3. amount * bips * elapsed \in Nat
    <3> DEFINE x == amount * bips
    <3>1. x \in Nat
      BY <1>9
    <3> HIDE DEF x
    <3>2. x * elapsed \in Nat
      BY <1>3, <3>1
    <3> QED
      BY <3>2 DEF x
  <2>4. amount * bips * elapsed <= U128Max
    BY <1>7, <1>9, <1>15, <2>3
  <2> QED
    BY <2>2, <2>4 DEF InterestFits
<1>17. ASSUME CanAccrue PROVE RepayFits(pos, AccruedPool, clock)
  <2>1. AccruedPool.total_borrows = pool.total_borrows
    BY <1>17, AccruedPoolFacts DEF AccrualOf
  <2>2. pos.principal <= AccruedPool.total_borrows
    BY <1>5, <2>1 DEF amount
  <2> QED
    BY <1>11, <1>13, <1>14, <1>16, <2>2 DEF RepayFits, amount, bips, elapsed
<1> QED
  BY <1>11, <1>17 DEF i

\* A rate within the bound and no interest yet, for every loan of a behaviour.
LEMMA LoansFreshInvariant ==
  ASSUME NEW limit \in Nat, NEW rate \in Nat,
         NEW start \in Nat, NEW span \in Nat \ {0}, RatesWithin(rate)
  PROVE  Spec /\ []LendingWithin(limit, start, span) => []LoansFresh(rate, start)
<1>1. Init => LoansFresh(rate, start)
  BY DEF Init, LoansFresh, NoLoan
<1>2. TypeInv /\ LoansFresh(rate, start) /\ LendingWithin(limit, start, span)
        /\ [Next]_vars => LoansFresh(rate, start)'
  BY LoansFreshNext
<1>3. Spec => []TypeInv
  BY TypeInvariant
<1> QED
  BY <1>1, <1>2, <1>3, PTL DEF Spec

\* Every loan can be repaid, whenever its payer comes and whatever the others
\* have borrowed and repaid in between, as long as the pool's loans never exceed
\* what the words hold the interest of.
THEOREM LoansAlwaysRepayable ==
  ASSUME NEW limit \in Nat, NEW rate \in Nat,
         NEW start \in Nat, NEW span \in Nat \ {0},
         RatesWithin(rate), LendingInWords(limit, rate, span)
  PROVE  Spec /\ []LendingWithin(limit, start, span) => []Repayable
<1>1. TypeInv /\ LedgerInv /\ EarningsInv(limit, rate, start) /\ LoansFresh(rate, start)
        /\ LendingWithin(limit, start, span)
      => Repayable
  BY ChargeInWords DEF Repayable
<1>2. Spec => [](TypeInv /\ LedgerInv)
  BY LedgerInvariant
<1>3. Spec /\ []LendingWithin(limit, start, span) => []EarningsInv(limit, rate, start)
  BY EarningsInvariant
<1>4. Spec /\ []LendingWithin(limit, start, span) => []LoansFresh(rate, start)
  BY LoansFreshInvariant
<1> QED
  BY <1>1, <1>2, <1>3, <1>4, PTL

\* The condition under which no cast of an interest wraps, the pool's or a
\* loan's.
InterestInWords ==
  /\ GrossInWord
  /\ \A a \in Agents :
       borrower[a].status = "Active" => PositionInterest(borrower[a], clock) <= U64Max

\* Such lending never makes a cast of an interest wrap.
LEMMA InterestAlwaysInWords ==
  ASSUME NEW limit \in Nat, NEW rate \in Nat,
         NEW start \in Nat, NEW span \in Nat \ {0},
         RatesWithin(rate), LendingInWords(limit, rate, span)
  PROVE  Spec /\ []LendingWithin(limit, start, span) => []InterestInWords
<1>1. TypeInv /\ LedgerInv /\ EarningsInv(limit, rate, start) /\ LoansFresh(rate, start)
        /\ LendingWithin(limit, start, span)
      => InterestInWords
  BY AccrualInWords, ChargeInWords DEF InterestInWords, GrossInWord
<1>2. Spec => [](TypeInv /\ LedgerInv)
  BY LedgerInvariant
<1>3. Spec /\ []LendingWithin(limit, start, span) => []EarningsInv(limit, rate, start)
  BY EarningsInvariant
<1>4. Spec /\ []LendingWithin(limit, start, span) => []LoansFresh(rate, start)
  BY LoansFreshInvariant
<1> QED
  BY <1>1, <1>2, <1>3, <1>4, PTL

-------------------------------------------------------------------------------
(***************************************************************************)
(* For pools with a known hook: the terms the hook is told                 *)
(***************************************************************************)

SameTerms(p, q) ==
  /\ q.initialized = p.initialized
  /\ q.min_interest_bips = p.min_interest_bips
  /\ q.max_interest_bips = p.max_interest_bips
  /\ q.min_term_seconds = p.min_term_seconds
  /\ q.max_term_seconds = p.max_term_seconds

\* The pool's ranges are what its creator asked for, one rate and one term.
PoolTermsFixed ==
  pool.initialized =>
    /\ pool.min_interest_bips \in InterestBips
    /\ pool.max_interest_bips = pool.min_interest_bips
    /\ pool.min_term_seconds \in TermSeconds
    /\ pool.max_term_seconds = pool.min_term_seconds

\* An accrual leaves the ranges alone.
LEMMA AccrualKeepsTerms == pool \in Pool => SameTerms(pool, AccruedPool)
<1> SUFFICES ASSUME pool \in Pool PROVE SameTerms(pool, AccruedPool)
  OBVIOUS
<1>1. CASE Accrues(pool, clock)
  <2>1. AccruedPool = Booked(pool, clock)
    BY <1>1 DEF AccruedPool, Accrued
  <2>2. SameTerms(pool, Booked(pool, clock))
    BY DEF Booked, SameTerms, Pool
  <2> QED
    BY <2>1, <2>2
<1>2. CASE ~Accrues(pool, clock)
  BY <1>2 DEF AccruedPool, Accrued, SameTerms
<1> QED
  BY <1>1, <1>2

\* So does every instruction but initialize_pool.
LEMMA HookFreeKeepsTerms ==
  ASSUME TypeInv, HookFree
  PROVE  SameTerms(pool, pool')
<1>1. pool \in Pool /\ SameTerms(pool, AccruedPool)
  BY AccrualKeepsTerms DEF TypeInv, TypeOK
<1>2. CanAccrue => AccruedPool \in Pool
  BY AccruedPoolFacts DEF AccrualOf
<1>3. ASSUME NEW r \in FeeRecipients, InitializeProtocol(r)
      PROVE  SameTerms(pool, pool')
  BY <1>3 DEF InitializeProtocol, SameTerms
<1>4. ASSUME NEW r \in FeeRecipients, ClaimProtocolFees(r)
      PROVE  SameTerms(pool, pool')
  <2>1. CanAccrue /\ pool' = [AccruedPool EXCEPT !.accrued_protocol_fees = 0]
    BY <1>4 DEF ClaimProtocolFees
  <2> QED
    BY <1>1, <1>2, <2>1 DEF SameTerms, Pool
<1>5. ASSUME NEW l \in Lenders, Withdraw(l)
      PROVE  SameTerms(pool, pool')
  <2>1. CanAccrue
        /\ pool' = [AccruedPool EXCEPT !.total_deposits
                      = AccruedPool.total_deposits - lender[l].total_deposited]
    BY <1>5 DEF Withdraw, LessWithdrawn
  <2> QED
    BY <1>1, <1>2, <2>1 DEF SameTerms, Pool
<1>6. ASSUME NEW l \in Lenders, NEW amount \in Amounts, Deposit(l, amount)
      PROVE  SameTerms(pool, pool')
  <2>1. CanAccrue
        /\ pool' = [AccruedPool EXCEPT !.total_deposits
                      = AccruedPool.total_deposits + amount]
    BY <1>6 DEF Deposit
  <2> QED
    BY <1>1, <1>2, <2>1 DEF SameTerms, Pool
<1>7. ASSUME NEW a \in Agents, NEW payer \in Users, Repay(a, payer)
      PROVE  SameTerms(pool, pool')
  <2>1. CanAccrue
        /\ pool' = LessRepaid(AccruedPool, Settled(borrower[a], clock))
    BY <1>7 DEF Repay
  <2>2. pool' = [AccruedPool EXCEPT !.total_borrows
                   = AccruedPool.total_borrows - Settled(borrower[a], clock).principal]
    BY <2>1 DEF LessRepaid
  <2> QED
    BY <1>1, <1>2, <2>1, <2>2 DEF SameTerms, Pool
<1>8. ASSUME NEW u \in Users, NEW amount \in TopUps, TopUpVault(u, amount)
      PROVE  SameTerms(pool, pool')
  BY <1>8 DEF TopUpVault, SameTerms
<1>9. CASE Tick
  BY <1>9 DEF Tick, SameTerms
<1> QED
  BY <1>3, <1>4, <1>5, <1>6, <1>7, <1>8, <1>9 DEF HookFree

===============================================================================
