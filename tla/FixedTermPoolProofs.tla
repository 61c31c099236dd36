-------------------------- MODULE FixedTermPoolProofs --------------------------
(***************************************************************************)
(* A pool with the fixed-term hook is a pool of NormandyCore, so all that  *)
(* is proved of NormandyCore holds of it; and its loans keep to the terms  *)
(* of the pool and to the hook's cap.                                      *)
(***************************************************************************)
EXTENDS FixedTermPool, NormandyCoreProofs

FixedTermInv == TypeInv /\ LedgerInv /\ PoolTermsFixed /\ LoansOnHookTerms

\* What the hook answers is one of the answers core is modelled with.
LEMMA FixedTermReply ==
  ASSUME TypeInv, PoolTermsFixed, CanAccrue
  PROVE  Terms(AccruedPool) \in HookReplies
<1>1. /\ AccruedPool.min_interest_bips \in InterestBips
      /\ AccruedPool.min_term_seconds \in TermSeconds
  BY AccrualKeepsTerms DEF PoolTermsFixed, SameTerms, CanAccrue, TypeInv, TypeOK
<1>2. Terms(AccruedPool) \in [approved : {TRUE}, interest_bips : InterestBips,
                              term_seconds : TermSeconds,
                              diverted : {NothingDiverted}]
  BY <1>1 DEF Terms
<1> QED
  BY <1>2, FixedTermAssumption

\* Every step of the composition is a step of core with some hook's answer.
LEMMA HookStep ==
  ASSUME TypeInv, PoolTermsFixed, [FixedTermNext]_fixedTermVars
  PROVE  [Next]_vars
<1>1. ASSUME NEW bips \in InterestBips, NEW term \in TermSeconds,
             NEW reserve \in ReserveRatioBips, NEW window \in DepositWindowEnds,
             NEW cap \in BorrowCaps, NEW pnl \in BOOLEAN,
             InitializeFixedTermPool(bips, term, reserve, window, cap, pnl)
      PROVE  Next
  BY <1>1, FixedTermAssumption DEF InitializeFixedTermPool, Next
<1>2. ASSUME NEW a \in Agents, NEW amount \in Amounts, NEW h \in HookPrograms,
             NEW proof \in Pnls \union {MalformedProof},
             FixedTermBorrow(a, amount, h, proof)
      PROVE  Next
  <2>1. Borrow(a, amount, h, Terms(AccruedPool))
    BY <1>2 DEF FixedTermBorrow
  <2>2. Terms(AccruedPool) \in HookReplies
    BY <2>1, FixedTermReply DEF Borrow
  <2> QED
    BY <2>1, <2>2 DEF Next
<1>3. CASE HookFree
  BY <1>3 DEF HookFree, Next
<1>4. CASE UNCHANGED fixedTermVars
  BY <1>4 DEF fixedTermVars, vars
<1> QED
  BY <1>1, <1>2, <1>3, <1>4 DEF FixedTermNext

\* Only repay writes to a loan, and it keeps the principal, rate and term.
LEMMA HookFreeKeepsLoans ==
  ASSUME TypeInv, HookFree, NEW a \in Agents, borrower'[a].status # "None"
  PROVE  /\ borrower[a].status # "None"
         /\ borrower'[a].principal = borrower[a].principal
         /\ borrower'[a].annual_interest_bips = borrower[a].annual_interest_bips
         /\ borrower'[a].term_seconds = borrower[a].term_seconds
<1>1. CASE borrower' = borrower
  BY <1>1
<1>2. ASSUME NEW b \in Agents, NEW payer \in Users, Repay(b, payer)
      PROVE  /\ borrower[a].status # "None"
             /\ borrower'[a].principal = borrower[a].principal
             /\ borrower'[a].annual_interest_bips = borrower[a].annual_interest_bips
             /\ borrower'[a].term_seconds = borrower[a].term_seconds
  <2> DEFINE settled == Settled(borrower[b], clock)
  <2>1. /\ borrower[b].status = "Active"
        /\ RepayFits(borrower[b], AccruedPool, clock)
        /\ borrower' = [borrower EXCEPT ![b] = settled]
    BY <1>2 DEF Repay
  <2>2. /\ settled.principal = borrower[b].principal
        /\ settled.annual_interest_bips = borrower[b].annual_interest_bips
        /\ settled.term_seconds = borrower[b].term_seconds
    BY <2>1, SettledFacts
  <2> HIDE DEF settled
  <2>3. CASE a = b
    BY <2>1, <2>2, <2>3 DEF TypeInv, TypeOK
  <2>4. CASE a # b
    BY <2>1, <2>4 DEF TypeInv, TypeOK
  <2> QED
    BY <2>3, <2>4
<1>3. borrower' = borrower \/ \E b \in Agents, payer \in Users : Repay(b, payer)
  BY DEF HookFree, InitializeProtocol, ClaimProtocolFees, Withdraw, Deposit,
         TopUpVault, Tick
<1> QED
  BY <1>1, <1>2, <1>3

\* The hook invariant is inductive, given the invariants of core.
LEMMA FixedTermInvInit == FixedTermInit => FixedTermInv
<1> SUFFICES ASSUME FixedTermInit PROVE FixedTermInv
  OBVIOUS
<1>1. Init
  BY DEF FixedTermInit
<1>2. ~pool.initialized /\ \A a \in Agents : borrower[a].status = "None"
  BY <1>1 DEF Init, NoPool, NoLoan
<1> QED
  BY <1>1, <1>2, TypeInvInit, LedgerInvInit
  DEF FixedTermInv, PoolTermsFixed, LoansOnHookTerms

\* A new pool has no loans, a new loan has the hook's terms, and the other
\* instructions change neither.
LEMMA FixedTermInvNext ==
  FixedTermInv /\ [FixedTermNext]_fixedTermVars => FixedTermInv'
<1> SUFFICES ASSUME FixedTermInv, [FixedTermNext]_fixedTermVars
             PROVE  FixedTermInv'
  OBVIOUS
<1>1. TypeInv /\ LedgerInv /\ PoolTermsFixed /\ LoansOnHookTerms
  BY DEF FixedTermInv
<1>2. TypeInv' /\ LedgerInv'
  BY <1>1, HookStep, TypeInvNext, LedgerInvNext
<1>3. ASSUME NEW bips \in InterestBips, NEW term \in TermSeconds,
             NEW reserve \in ReserveRatioBips, NEW window \in DepositWindowEnds,
             NEW cap \in BorrowCaps, NEW pnl \in BOOLEAN,
             InitializeFixedTermPool(bips, term, reserve, window, cap, pnl)
      PROVE  PoolTermsFixed' /\ LoansOnHookTerms'
  <2>1. /\ ~pool.initialized /\ borrower' = borrower
        /\ pool'.min_interest_bips = bips /\ pool'.max_interest_bips = bips
        /\ pool'.min_term_seconds = term /\ pool'.max_term_seconds = term
    BY <1>3 DEF InitializeFixedTermPool, InitializePool
  <2>2. \A a \in Agents : borrower'[a].status = "None"
    BY <1>1, <2>1 DEF LedgerInv, EmptyBeforePool, NoLoan
  <2> QED
    BY <2>1, <2>2 DEF PoolTermsFixed, LoansOnHookTerms
<1>4. ASSUME NEW a \in Agents, NEW amount \in Amounts, NEW h \in HookPrograms,
             NEW proof \in Pnls \union {MalformedProof},
             FixedTermBorrow(a, amount, h, proof)
      PROVE  PoolTermsFixed' /\ LoansOnHookTerms'
  <2> DEFINE terms == Terms(AccruedPool)
  <2>1. /\ amount <= hook_config.max_borrow_per_agent
        /\ hook_config' = hook_config
        /\ CanAccrue /\ pool.initialized
        /\ pool' = [AccruedPool EXCEPT !.total_borrows
                      = AccruedPool.total_borrows + amount]
        /\ borrower' = [borrower EXCEPT ![a] = Loan(amount, terms, clock)]
    BY <1>4 DEF FixedTermBorrow, Approves, Borrow, CanAccrue
  <2>2. pool \in Pool /\ SameTerms(pool, AccruedPool) /\ AccruedPool \in Pool
    BY <1>1, <2>1, AccrualKeepsTerms, AccruedPoolFacts DEF TypeInv, TypeOK, AccrualOf
  <2>3. SameTerms(pool, pool')
    BY <2>1, <2>2 DEF SameTerms, Pool
  <2>4. PoolTermsFixed'
    BY <1>1, <2>3 DEF PoolTermsFixed, SameTerms
  <2>5. /\ terms.interest_bips = pool.min_interest_bips
        /\ terms.term_seconds = pool.min_term_seconds
    BY <2>2 DEF Terms, SameTerms
  <2>6. /\ pool.min_interest_bips \in Int /\ pool.min_term_seconds \in Int
        /\ pool.max_interest_bips = pool.min_interest_bips
        /\ pool.max_term_seconds = pool.min_term_seconds
    BY <1>1, <2>1, CoreAssumption, WordTypes DEF PoolTermsFixed
  <2> HIDE DEF terms
  <2>7. /\ terms.interest_bips \in pool'.min_interest_bips .. pool'.max_interest_bips
        /\ terms.term_seconds \in pool'.min_term_seconds .. pool'.max_term_seconds
    BY <2>3, <2>5, <2>6 DEF SameTerms
  <2>8. ASSUME NEW b \in Agents, borrower'[b].status # "None"
        PROVE  /\ borrower'[b].principal <= hook_config'.max_borrow_per_agent
               /\ borrower'[b].annual_interest_bips
                    \in pool'.min_interest_bips .. pool'.max_interest_bips
               /\ borrower'[b].term_seconds
                    \in pool'.min_term_seconds .. pool'.max_term_seconds
    <3>1. CASE b = a
      <4>1. borrower'[b] = Loan(amount, terms, clock)
        BY <1>1, <2>1, <3>1 DEF TypeInv, TypeOK
      <4> QED
        BY <2>1, <2>7, <4>1 DEF Loan
    <3>2. CASE b # a
      <4>1. borrower'[b] = borrower[b]
        BY <1>1, <2>1, <3>2 DEF TypeInv, TypeOK
      <4> QED
        BY <1>1, <2>1, <2>3, <2>8, <4>1 DEF LoansOnHookTerms, SameTerms
    <3> QED
      BY <3>1, <3>2
  <2>9. LoansOnHookTerms'
    BY <2>8 DEF LoansOnHookTerms
  <2> QED
    BY <2>4, <2>9
<1>5. ASSUME HookFree, UNCHANGED hook_config
      PROVE  PoolTermsFixed' /\ LoansOnHookTerms'
  <2>1. SameTerms(pool, pool')
    BY <1>1, <1>5, HookFreeKeepsTerms
  <2>2. PoolTermsFixed'
    BY <1>1, <2>1 DEF PoolTermsFixed, SameTerms
  <2>3. LoansOnHookTerms'
    BY <1>1, <1>5, <2>1, HookFreeKeepsLoans DEF LoansOnHookTerms, SameTerms
  <2> QED
    BY <2>2, <2>3
<1>6. ASSUME UNCHANGED fixedTermVars
      PROVE  PoolTermsFixed' /\ LoansOnHookTerms'
  BY <1>1, <1>6 DEF fixedTermVars, PoolTermsFixed, LoansOnHookTerms
<1>7. PoolTermsFixed' /\ LoansOnHookTerms'
  BY <1>3, <1>4, <1>5, <1>6 DEF FixedTermNext
<1> QED
  BY <1>2, <1>7 DEF FixedTermInv

\* With the fixed-term hook the pool is one of NormandyCore: every theorem of
\* NormandyCoreProofs holds of the two programs together.
THEOREM FixedTermPoolIsCore == FixedTermSpec => Spec
<1>1. FixedTermInit => FixedTermInv /\ Init
  BY FixedTermInvInit DEF FixedTermInit
<1>2. FixedTermInv /\ [FixedTermNext]_fixedTermVars => FixedTermInv' /\ [Next]_vars
  BY FixedTermInvNext, HookStep DEF FixedTermInv
<1> QED
  BY <1>1, <1>2, PTL DEF FixedTermSpec, Spec

\* Every loan the fixed-term hook lets through, repaid ones too, has the pool's
\* own rate and term and stays within the hook's cap on an agent.
THEOREM LoansAlwaysOnHookTerms == FixedTermSpec => []LoansOnHookTerms
<1>1. FixedTermInv => LoansOnHookTerms
  BY DEF FixedTermInv
<1> QED
  BY <1>1, FixedTermInvInit, FixedTermInvNext, PTL DEF FixedTermSpec

\* The fixed-term hook moves no tokens: after every borrow the reserve is in the
\* vault beside the fees, and the fees are after every other payment.
THEOREM FixedTermKeepsVault == FixedTermSpec => ReserveAndFeesInVault
<1>1. FixedTermInv /\ [FixedTermNext]_fixedTermVars
        => [\A a \in Agents : OpensLoan(a) => vault' = LeftByLoan(a)]_vars
  <2> SUFFICES ASSUME FixedTermInv, [FixedTermNext]_fixedTermVars,
                      NEW b \in Agents, OpensLoan(b)
               PROVE  vault' = LeftByLoan(b)
    OBVIOUS
  <2>1. TypeInv /\ PoolTermsFixed
    BY DEF FixedTermInv
  <2>2. ASSUME NEW a \in Agents, NEW amount \in Amounts, NEW h \in HookPrograms,
               NEW proof, FixedTermBorrow(a, amount, h, proof)
        PROVE  vault' = LeftByLoan(b)
    <3>1. Borrow(a, amount, h, Terms(AccruedPool))
      BY <2>2 DEF FixedTermBorrow
    <3>2. Terms(AccruedPool) \in HookReplies
      BY <2>1, <3>1, FixedTermReply DEF Borrow
    <3>3. Terms(AccruedPool).diverted = NothingDiverted
      BY DEF Terms
    <3> QED
      BY <2>1, <3>1, <3>2, <3>3, QuietHookLoan
  <2>3. ASSUME borrower' = borrower PROVE FALSE
    BY <2>3 DEF OpensLoan
  <2>4. ~HookFree
    BY <2>1, HookFreeOpensNoLoan
  <2> QED
    BY <2>2, <2>3, <2>4
    DEF FixedTermNext, InitializeFixedTermPool, InitializePool, fixedTermVars
<1>2. FixedTermSpec => LoansAlone
  BY <1>1, FixedTermInvInit, FixedTermInvNext, PTL DEF FixedTermSpec, LoansAlone
<1> QED
  BY <1>2, FixedTermPoolIsCore, HookLeavesVaultAlone, PTL

===============================================================================
