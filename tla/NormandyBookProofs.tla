--------------------------- MODULE NormandyBookProofs ---------------------------
(***************************************************************************)
(* NormandyCore implements LendingBook, for every instance: its initial    *)
(* states are the book's, and each instruction is a step of the book or    *)
(* leaves it as it is.                                                     *)
(***************************************************************************)
EXTENDS NormandyBook, NormandyCoreProofs

\* The book's variables, as the program's state gives them.
BookDeposited == [l \in Lenders |-> lender[l].total_deposited]
BookLoan == [a \in Agents |-> LoanEntry(borrower[a])]

\* Before there is a pool the book is empty.
LEMMA BookInit == Init => Book!Init
<1> SUFFICES ASSUME Init PROVE Book!Init
  OBVIOUS
<1>1. pool.reserve_ratio_bips = 0 /\ vault = 0
  BY DEF Init, NoPool
<1>2. BookDeposited = [l \in Lenders |-> 0]
  BY DEF Init, NoDeposit, BookDeposited
<1>3. BookLoan = [a \in Agents |-> [status |-> "None", principal |-> 0]]
  BY DEF Init, NoLoan, BookLoan, LoanEntry
<1> QED
  BY <1>1, <1>2, <1>3 DEF Book!Init, BookDeposited, BookLoan

\* A deposit enters the book token for token.
LEMMA BookDeposit ==
  ASSUME TypeInv, NEW l \in Lenders, NEW amount \in Amounts, Deposit(l, amount)
  PROVE  Book!Lend(l)
<1>1. /\ amount \in Nat
      /\ pool'.reserve_ratio_bips = pool.reserve_ratio_bips
      /\ Deposited' = [Deposited EXCEPT ![l] = @ + amount]
  BY DepositEffect
<1>2. vault' = vault + amount /\ borrower' = borrower
  BY DEF Deposit
<1>3. vault \in Nat
  BY DEF TypeInv, TypeOK
<1>4. vault' - vault = amount /\ vault' >= vault
  BY <1>1, <1>2, <1>3
<1>5. BookDeposited' = [BookDeposited EXCEPT ![l] = @ + (vault' - vault)]
  BY <1>1, <1>4 DEF BookDeposited, Deposited
<1>6. BookLoan' = BookLoan
  BY <1>2 DEF BookLoan, LoanEntry
<1> QED
  BY <1>1, <1>4, <1>5, <1>6 DEF Book!Lend, BookDeposited, BookLoan

\* A borrow respects the reserve of all deposits in the book: pool.total_deposits
\* is their sum.
LEMMA BookBorrow ==
  ASSUME TypeInv, LedgerInv, NEW a \in Agents, NEW amount \in Amounts,
         NEW h \in HookPrograms, NEW reply \in HookReplies,
         Borrow(a, amount, h, reply)
  PROVE  Book!Draw(a)
<1> DEFINE r == RequiredReserves(Total(Deposited), pool.reserve_ratio_bips)
<1>1. /\ amount \in Nat
      /\ pool'.reserve_ratio_bips = pool.reserve_ratio_bips
      /\ Deposited' = Deposited
  BY BorrowEffect
<1>2. /\ borrower[a].status = "None"
      /\ borrower' = [borrower EXCEPT ![a] = Loan(amount, reply, clock)]
      /\ amount <= vault - Total(reply.diverted)
      /\ vault' = vault - Total(reply.diverted) - amount
  BY DEF Borrow
<1>3. vault \in Nat /\ vault' \in Nat /\ Total(reply.diverted) \in Nat
  BY TypeInvBorrow, DivertedType DEF TypeInv, TypeOK
<1>4. amount \in 0 .. vault /\ vault' >= 0
  BY <1>1, <1>2, <1>3
<1>5. vault' = vault - amount - Total(reply.diverted)
  BY <1>1, <1>2, <1>3
<1>6. LoanEntry(Loan(amount, reply, clock))
        = [status |-> "Active", principal |-> amount]
  BY DEF Loan, LoanEntry
<1>7. BookLoan' = [BookLoan EXCEPT ![a] = [status |-> "Active", principal |-> amount]]
  BY <1>2, <1>6 DEF BookLoan, TypeInv, TypeOK
<1>8. BookLoan[a].status = "None"
  BY <1>2 DEF BookLoan, LoanEntry
<1>9. vault - amount >= r
  <2>1. /\ pool.total_deposits = Total(Deposited)
        /\ borrower'[a].principal = amount
        /\ pool'.accrued_protocol_fees \in Nat
    BY LedgerTotals, LoanLeavesReserve DEF LedgerInv
  <2>2. LeftByLoan(a) >= pool'.accrued_protocol_fees + r /\ r \in Nat
    BY <2>1, LoanLeavesReserve
  <2>3. LeftByLoan(a) = vault - amount
    BY <2>1 DEF LeftByLoan
  <2> HIDE DEF r
  <2> QED
    BY <1>1, <1>3, <2>1, <2>2, <2>3
<1>10. BookDeposited' = BookDeposited
  BY <1>1 DEF BookDeposited, Deposited
<1>11. Book!Total(BookDeposited) = Total(Deposited)
  BY DEF Book!Total, Book!Units, Book!Cardinality, Total, Units, Cardinality,
         BookDeposited, Deposited
<1>12. Total(reply.diverted) \in {Total(other.diverted) : other \in HookReplies}
  OBVIOUS
<1> QED
  BY <1>1, <1>4, <1>5, <1>7, <1>8, <1>9, <1>10, <1>11, <1>12
  DEF Book!Draw, BookDeposited, BookLoan

\* A repayment settles the loan with its principal and some interest.
LEMMA BookRepay ==
  ASSUME TypeInv, NEW a \in Agents, NEW payer \in Users, Repay(a, payer)
  PROVE  Book!Settle(a)
<1> DEFINE settled == Settled(borrower[a], clock)
           owed == TotalOwed(settled)
<1>1. /\ borrower[a].status = "Active"
      /\ RepayFits(borrower[a], AccruedPool, clock)
      /\ borrower' = [borrower EXCEPT ![a] = settled]
      /\ vault' = vault + owed
  BY DEF Repay
<1>2. /\ settled.status = "Repaid"
      /\ settled.principal = borrower[a].principal
      /\ borrower[a].principal \in Nat
      /\ owed \in Nat /\ owed >= borrower[a].principal
  BY <1>1, SettledFacts
<1>3. /\ pool'.reserve_ratio_bips = pool.reserve_ratio_bips
      /\ Deposited' = Deposited
  BY RepayEffect
<1> HIDE DEF settled, owed
<1>4. vault \in Nat
  BY DEF TypeInv, TypeOK
<1>5. LoanEntry(settled) = [LoanEntry(borrower[a]) EXCEPT !.status = "Repaid"]
  BY <1>2 DEF LoanEntry
<1>6. BookLoan' = [BookLoan EXCEPT ![a].status = "Repaid"]
  BY <1>1, <1>5 DEF BookLoan, TypeInv, TypeOK
<1>7. BookLoan[a].status = "Active" /\ BookLoan[a].principal = borrower[a].principal
  BY <1>1 DEF BookLoan, LoanEntry
<1>8. vault' >= vault + BookLoan[a].principal
  BY <1>1, <1>2, <1>4, <1>7
<1>9. BookDeposited' = BookDeposited
  BY <1>3 DEF BookDeposited, Deposited
<1> QED
  BY <1>3, <1>6, <1>7, <1>8, <1>9 DEF Book!Settle, BookDeposited, BookLoan

\* A withdrawal clears the lender's entry.
LEMMA BookWithdraw ==
  ASSUME TypeInv, NEW l \in Lenders, Withdraw(l)
  PROVE  Book!Redeem(l)
<1> DEFINE payout == Payout(lender[l].scaled_deposit, AccruedPool.scale_factor)
<1>1. /\ pool'.reserve_ratio_bips = pool.reserve_ratio_bips
      /\ Deposited' = [Deposited EXCEPT ![l] = 0]
  BY WithdrawEffect
<1>2. CanAccrue /\ vault' = vault - payout /\ borrower' = borrower
  BY DEF Withdraw
<1>3. lender[l].scaled_deposit \in U64 /\ AccruedPool.scale_factor \in Nat
  BY <1>2, AccruedPoolNumbers DEF TypeInv, TypeOK, LenderPosition
<1>4. payout \in Nat
  BY <1>3, WordTypes, PayoutBounds
<1> HIDE DEF payout
<1>5. vault \in Nat /\ vault' \in Nat
  BY TypeInvWithdraw DEF TypeInv, TypeOK
<1>6. vault' \in 0 .. vault
  BY <1>2, <1>4, <1>5
<1>7. BookDeposited' = [BookDeposited EXCEPT ![l] = 0]
  BY <1>1 DEF BookDeposited, Deposited
<1>8. BookLoan' = BookLoan
  BY <1>2 DEF BookLoan, LoanEntry
<1> QED
  BY <1>1, <1>6, <1>7, <1>8 DEF Book!Redeem, BookDeposited, BookLoan

\* A step that touches no position is a charge or a gift.
LEMMA BookCharge ==
  ASSUME TypeInv', pool'.reserve_ratio_bips = pool.reserve_ratio_bips,
         lender' = lender, borrower' = borrower
  PROVE  Book!Charge
<1>1. vault' >= 0
  BY DEF TypeInv, TypeOK
<1> QED
  BY <1>1 DEF Book!Charge, LoanEntry

\* Every step of the program is a step of the book, or leaves it as it is.
LEMMA BookStep == TypeInv /\ LedgerInv /\ [Next]_vars => [Book!Next]_(Book!bookVars)
<1> SUFFICES ASSUME TypeInv, LedgerInv, [Next]_vars
             PROVE  Book!Next \/ UNCHANGED Book!bookVars
  OBVIOUS
<1>1. ASSUME NEW r \in FeeRecipients, InitializeProtocol(r)
      PROVE  UNCHANGED Book!bookVars
  BY <1>1 DEF InitializeProtocol, Book!bookVars, LoanEntry
<1>2. ASSUME NEW h \in HookPrograms, NEW bips \in InterestBips,
             NEW term \in TermSeconds, NEW reserve \in ReserveRatioBips,
             NEW window \in DepositWindowEnds,
             InitializePool(h, bips, term, reserve, window)
      PROVE  Book!Open
  <2>1. /\ ~pool.initialized
        /\ pool'.reserve_ratio_bips = reserve
        /\ UNCHANGED <<lender, borrower, vault>>
    BY <1>2 DEF InitializePool
  <2>2. /\ vault = 0
        /\ \A l \in Lenders : lender[l].total_deposited = 0
        /\ \A a \in Agents : borrower[a].status = "None"
    BY <2>1 DEF LedgerInv, EmptyBeforePool, NoDeposit, NoLoan
  <2>3. reserve \in Nat
    BY CoreAssumption, WordTypes
  <2> QED
    BY <2>1, <2>2, <2>3 DEF Book!Open, LoanEntry
<1>3. ASSUME NEW l \in Lenders, NEW amount \in Amounts, Deposit(l, amount)
      PROVE  Book!Lend(l)
  BY <1>3, BookDeposit
<1>4. ASSUME NEW a \in Agents, NEW amount \in Amounts, NEW h \in HookPrograms,
             NEW reply \in HookReplies, Borrow(a, amount, h, reply)
      PROVE  Book!Draw(a)
  BY <1>4, BookBorrow
<1>5. ASSUME NEW a \in Agents, NEW payer \in Users, Repay(a, payer)
      PROVE  Book!Settle(a)
  BY <1>5, BookRepay
<1>6. ASSUME NEW l \in Lenders, Withdraw(l) PROVE Book!Redeem(l)
  BY <1>6, BookWithdraw
<1>7. ASSUME NEW r \in FeeRecipients, ClaimProtocolFees(r) PROVE Book!Charge
  <2>1. pool'.reserve_ratio_bips = pool.reserve_ratio_bips
    BY <1>7, ClaimProtocolFeesEffect
  <2>2. lender' = lender /\ borrower' = borrower
    BY <1>7 DEF ClaimProtocolFees
  <2> QED
    BY <1>7, <2>1, <2>2, TypeInvClaimProtocolFees, BookCharge
<1>8. ASSUME NEW u \in Users, NEW amount \in TopUps, TopUpVault(u, amount)
      PROVE  Book!Charge
  <2>1. UNCHANGED <<pool, lender, borrower>>
    BY <1>8 DEF TopUpVault
  <2> QED
    BY <2>1, TypeInvNext, BookCharge
<1>9. CASE Tick
  BY <1>9 DEF Tick, Book!bookVars, LoanEntry
<1>10. CASE UNCHANGED vars
  BY <1>10 DEF vars, Book!bookVars, LoanEntry
<1> QED
  BY <1>1, <1>2, <1>3, <1>4, <1>5, <1>6, <1>7, <1>8, <1>9, <1>10
  DEF Next, Book!Next

\* The program keeps the book's promises: deposits enter one for one, each agent
\* has one loan that on its own left the reserve for all deposits in the vault,
\* and is settled with at least its principal.
THEOREM CoreImplementsBook == Spec => ImplementsBook
<1>1. Init => Book!Init
  BY BookInit
<1>2. (TypeInv /\ LedgerInv) /\ [Next]_vars => [Book!Next]_(Book!bookVars)
  BY BookStep
<1> QED
  BY <1>1, <1>2, LedgerInvariant, PTL DEF Spec, ImplementsBook, Book!Spec
===============================================================================
