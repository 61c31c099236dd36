-------------------------- MODULE SatiScorePoolProofs --------------------------
(***************************************************************************)
(* A pool with the SATI hook is a pool of NormandyCore, and behind each of *)
(* its loans stands an attestation, for any keys, providers, thresholds    *)
(* and accounts passed along, however attestations come and go.            *)
(***************************************************************************)
EXTENDS SatiScorePool, NormandyCoreProofs, SatiScoreCheckProofs

\* initialize has refused a negative age, and what exists was published.
AgeIsNatural == hook_config.max_score_age_seconds \in Nat

SatiInv ==
  /\ TypeInv
  /\ PoolTermsFixed
  /\ AgeIsNatural
  /\ attestations \subseteq Publishable

\* The empty state has no pool and no attestation.
LEMMA SatiInvInit == SatiPoolInit => SatiInv
<1> SUFFICES ASSUME SatiPoolInit PROVE SatiInv
  OBVIOUS
<1>1. Init /\ attestations = {}
  BY DEF SatiPoolInit
<1>2. TypeInv
  BY <1>1, TypeInvInit
<1>3. PoolTermsFixed /\ AgeIsNatural
  BY <1>1 DEF SatiPoolInit, Init, NoPool, NoConfig, PoolTermsFixed, AgeIsNatural
<1> QED
  BY <1>1, <1>2, <1>3 DEF SatiInv

\* What the hook answers is one of the answers core is modelled with.
LEMMA SatiReply ==
  ASSUME SatiInv, CanAccrue
  PROVE  /\ Terms(AccruedPool) \in HookReplies
         /\ Terms(AccruedPool).interest_bips = pool.min_interest_bips
         /\ Terms(AccruedPool).term_seconds = pool.min_term_seconds
<1>1. SameTerms(pool, AccruedPool)
  BY AccrualKeepsTerms DEF SatiInv, TypeInv, TypeOK
<1>2. pool.min_interest_bips \in InterestBips /\ pool.min_term_seconds \in TermSeconds
  BY DEF SatiInv, PoolTermsFixed, CanAccrue
<1>3. Terms(AccruedPool) \in [approved : {TRUE}, interest_bips : InterestBips,
                              term_seconds : TermSeconds,
                              diverted : {NothingDiverted}]
  BY <1>1, <1>2 DEF Terms, SameTerms
<1>4. Terms(AccruedPool) \in HookReplies
  BY <1>3, SatiPoolAssumption
<1> QED
  BY <1>1, <1>4 DEF Terms, SameTerms

\* Every step of the composition is a step of core with some hook's answer.
LEMMA SatiStep ==
  ASSUME SatiInv, [SatiPoolNext]_satiPoolVars
  PROVE  [Next]_vars
<1>1. ASSUME NEW bips \in InterestBips, NEW term \in TermSeconds,
             NEW reserve \in ReserveRatioBips, NEW window \in DepositWindowEnds,
             NEW args \in ConfigArgs,
             InitializeSatiPool(bips, term, reserve, window, args)
      PROVE  Next
  BY <1>1, SatiPoolAssumption DEF InitializeSatiPool, Next
<1>2. ASSUME NEW a \in Agents, NEW amount \in Amounts, NEW h \in HookPrograms,
             NEW accounts, SatiBorrow(a, amount, h, accounts)
      PROVE  Next
  <2>1. Borrow(a, amount, h, Terms(AccruedPool))
    BY <1>2 DEF SatiBorrow
  <2>2. Terms(AccruedPool) \in HookReplies
    BY <2>1, SatiReply DEF Borrow
  <2> QED
    BY <2>1, <2>2 DEF Next
<1>3. ASSUME NEW acc, Publish(acc) PROVE UNCHANGED vars
  BY <1>3 DEF Publish
<1>4. ASSUME NEW acc, Close(acc) PROVE UNCHANGED vars
  BY <1>4 DEF Close
<1>5. CASE HookFree
  BY <1>5 DEF HookFree, Next
<1>6. CASE UNCHANGED satiPoolVars
  BY <1>6 DEF satiPoolVars, vars
<1> QED
  BY <1>1, <1>2, <1>3, <1>4, <1>5, <1>6 DEF SatiPoolNext

\* The terms and the hook's config are set with the pool and stay.
LEMMA SatiInvNext ==
  ASSUME SatiInv, [SatiPoolNext]_satiPoolVars
  PROVE  SatiInv'
<1> DEFINE Kept == PoolTermsFixed' /\ AgeIsNatural' /\ attestations' \subseteq Publishable
<1>1. TypeInv'
  BY SatiStep, TypeInvNext DEF SatiInv
<1>2. ASSUME NEW bips \in InterestBips, NEW term \in TermSeconds,
             NEW reserve \in ReserveRatioBips, NEW window \in DepositWindowEnds,
             NEW args \in ConfigArgs,
             InitializeSatiPool(bips, term, reserve, window, args)
      PROVE  Kept
  <2>1. PoolTermsFixed' /\ attestations' = attestations
    BY <1>2 DEF InitializeSatiPool, InitializePool, PoolTermsFixed
  <2>2. args.max_score_age_seconds \in Int
    BY SatiPoolAssumption DEF InitializeArgs
  <2>3. AgeIsNatural'
    BY <1>2, <2>2 DEF InitializeSatiPool, ValidArgs, AgeIsNatural
  <2> QED
    BY <2>1, <2>3 DEF SatiInv
<1>3. ASSUME NEW a \in Agents, NEW amount \in Amounts, NEW h \in HookPrograms,
             NEW accounts, SatiBorrow(a, amount, h, accounts)
      PROVE  Kept
  <2>1. /\ CanAccrue /\ UNCHANGED <<hook_config, attestations>>
        /\ pool' = [AccruedPool EXCEPT !.total_borrows = @ + amount]
    BY <1>3 DEF SatiBorrow, Borrow
  <2>2. AccruedPool \in Pool /\ SameTerms(pool, AccruedPool)
    BY <2>1, AccruedPoolFacts, AccrualKeepsTerms
    DEF AccrualOf, SatiInv, TypeInv, TypeOK
  <2>3. SameTerms(pool, pool')
    BY <2>1, <2>2 DEF SameTerms, Pool
  <2> QED
    BY <2>1, <2>3 DEF SatiInv, AgeIsNatural, PoolTermsFixed, SameTerms
<1>4. ASSUME NEW acc \in Publishable, Publish(acc)
      PROVE  Kept
  BY <1>4 DEF Publish, vars, SatiInv, AgeIsNatural, PoolTermsFixed
<1>5. ASSUME NEW acc \in attestations, Close(acc)
      PROVE  Kept
  BY <1>5 DEF Close, vars, SatiInv, AgeIsNatural, PoolTermsFixed
<1>6. ASSUME HookFree, UNCHANGED <<hook_config, attestations>>
      PROVE  Kept
  BY <1>6, HookFreeKeepsTerms DEF SatiInv, AgeIsNatural, PoolTermsFixed, SameTerms
<1>7. ASSUME UNCHANGED satiPoolVars
      PROVE  Kept
  BY <1>7 DEF satiPoolVars, SatiInv, AgeIsNatural, PoolTermsFixed
<1>8. Kept
  BY <1>2, <1>3, <1>4, <1>5, <1>6, <1>7 DEF SatiPoolNext
<1> QED
  BY <1>1, <1>8 DEF SatiInv

-------------------------------------------------------------------------------
(***************************************************************************)
(* The hook's decision                                                     *)
(***************************************************************************)

\* A call is approved within the cap and because of one of its accounts.
LEMMA DecidedByAnAccount ==
  ASSUME NEW agent, NEW amount, NEW accounts, NEW hc, NEW now,
         Decided(agent, amount, accounts, hc, now).result = "approved"
  PROVE  /\ amount <= hc.max_borrow_per_agent
         /\ \E i \in DOMAIN accounts :
              Verdict(accounts[i], agent, hc, now).result = "approved"
BY DEF Decided, Rejected

\* An approved borrow has an attestation that exists to vouch for it.
LEMMA ApprovedIsVouchedFor ==
  ASSUME SatiInv, NEW a \in Agents, NEW amount,
         NEW accounts \in SeqOf(attestations \union Foreign, MaxAccounts),
         Decided(a, amount, accounts, hook_config, clock).result = "approved"
  PROVE  \E acc \in attestations : Vouches(acc, a)
<1>1. PICK i \in DOMAIN accounts :
        Verdict(accounts[i], a, hook_config, clock).result = "approved"
  BY DecidedByAnAccount
<1> DEFINE acc == accounts[i]
<1>2. acc \in attestations \union Foreign
  BY <1>1 DEF SeqOf
<1> HIDE DEF acc
<1>3. /\ acc \in Attestation
      /\ Recommends(acc, a, hook_config)
      /\ ~Stale(acc, hook_config, clock)
  <2>1. acc \in Attestation
    BY <1>2, SatiPoolAssumption DEF SatiInv
  <2>2. Verdict(acc, a, hook_config, clock).result = "approved"
    BY <1>1 DEF acc
  <2> QED
    BY <2>1, <2>2, ApprovedIffRecommends
<1>4. /\ acc.sas_owned
      /\ acc.credential = hook_config.credential /\ acc.schema = hook_config.schema
      /\ acc.counterparty \in Range(hook_config.allowed_providers)
      /\ acc.agent_mint = a
      /\ acc.outcome >= hook_config.min_outcome
  BY <1>3 DEF Recommends
<1>5. acc \in attestations
  BY <1>2, <1>4, SatiPoolAssumption
<1>6. acc.expiry \in Nat /\ hook_config.max_score_age_seconds \in Nat
  BY <1>5, SatiPoolAssumption DEF SatiInv, AgeIsNatural
<1>7. clock \in Nat
  BY DEF SatiInv, TypeInv, TypeOK
<1>8. UpToDate(acc, hook_config, clock)
  BY <1>3, <1>6, <1>7, StaleIffOutdated
<1>9. IF acc.expiry = 0 THEN hook_config.max_score_age_seconds = 0
      ELSE clock <= acc.expiry
  BY <1>6, <1>8 DEF UpToDate
<1> QED
  BY <1>4, <1>5, <1>9 DEF Vouches

-------------------------------------------------------------------------------
(***************************************************************************)
(* Theorems                                                                *)
(***************************************************************************)

\* With the SATI hook the pool is one of NormandyCore, so every theorem of
\* NormandyCoreProofs holds of the two programs together.
THEOREM SatiScorePoolIsCore == SatiPoolSpec => Spec
<1>1. SatiPoolInit => SatiInv /\ Init
  BY SatiInvInit DEF SatiPoolInit
<1>2. SatiInv /\ [SatiPoolNext]_satiPoolVars => SatiInv' /\ [Next]_vars
  BY SatiInvNext, SatiStep
<1> QED
  BY <1>1, <1>2, PTL DEF SatiPoolSpec, Spec

\* A loan is drawn only against an attestation that exists at that moment and
\* that the lender asked for, within its cap and on the pool's terms.
THEOREM LoansAlwaysVouchedFor == SatiPoolSpec => ScoreBehindEveryLoan
<1> DEFINE Backed(b) ==
      OpensLoan(b) =>
        /\ \E acc \in attestations : Vouches(acc, b)
        /\ borrower'[b].principal <= hook_config.max_borrow_per_agent
        /\ borrower'[b].annual_interest_bips = pool.min_interest_bips
        /\ borrower'[b].term_seconds = pool.min_term_seconds
<1>1. SatiInv /\ [SatiPoolNext]_satiPoolVars
        => [\A a \in Agents : Backed(a)]_satiPoolVars
  <2> SUFFICES ASSUME SatiInv, SatiPoolNext, NEW b \in Agents
               PROVE  Backed(b)
    BY DEF satiPoolVars
  <2>1. ASSUME NEW a \in Agents, NEW amount \in Amounts, NEW h \in HookPrograms,
               NEW accounts \in SeqOf(attestations \union Foreign, MaxAccounts),
               SatiBorrow(a, amount, h, accounts)
        PROVE  Backed(b)
    <3> DEFINE loan == Loan(amount, Terms(AccruedPool), clock)
    <3>1. /\ CanAccrue
          /\ borrower' = [borrower EXCEPT ![a] = loan]
          /\ Decided(a, amount, accounts, hook_config, clock).result = "approved"
      BY <2>1 DEF SatiBorrow, Borrow
    <3>2. \E acc \in attestations : Vouches(acc, a)
      BY <3>1, ApprovedIsVouchedFor
    <3>3. /\ loan.principal <= hook_config.max_borrow_per_agent
          /\ loan.annual_interest_bips = pool.min_interest_bips
          /\ loan.term_seconds = pool.min_term_seconds
      BY <3>1, DecidedByAnAccount, SatiReply DEF Loan
    <3> HIDE DEF loan
    <3>4. borrower \in [Agents -> BorrowerPosition]
      BY DEF SatiInv, TypeInv, TypeOK
    <3>5. CASE b = a
      BY <3>1, <3>2, <3>3, <3>4, <3>5
    <3>6. CASE b # a
      BY <3>1, <3>4, <3>6 DEF OpensLoan
    <3> QED
      BY <3>5, <3>6
  <2>3. ASSUME borrower' = borrower PROVE ~OpensLoan(b)
    BY <2>3 DEF OpensLoan
  <2>4. HookFree => ~OpensLoan(b)
    BY HookFreeOpensNoLoan DEF SatiInv
  <2>5. ASSUME NEW acc, Publish(acc) \/ Close(acc) PROVE borrower' = borrower
    BY <2>5 DEF Publish, Close, vars
  <2>6. ASSUME NEW bips \in InterestBips, NEW term \in TermSeconds,
               NEW reserve \in ReserveRatioBips, NEW window \in DepositWindowEnds,
               NEW args \in ConfigArgs,
               InitializeSatiPool(bips, term, reserve, window, args)
        PROVE  borrower' = borrower
    BY <2>6 DEF InitializeSatiPool, InitializePool
  <2> QED
    BY <2>1, <2>3, <2>4, <2>5, <2>6 DEF SatiPoolNext
<1>2. SatiPoolInit => SatiInv
  BY SatiInvInit
<1>3. SatiInv /\ [SatiPoolNext]_satiPoolVars => SatiInv'
  BY SatiInvNext
<1> QED
  BY <1>1, <1>2, <1>3, PTL DEF SatiPoolSpec, ScoreBehindEveryLoan

\* The SATI hook moves no tokens: after every borrow the reserve is in the vault
\* beside the fees, and the fees are after every other payment.
THEOREM SatiKeepsVault == SatiPoolSpec => ReserveAndFeesInVault
<1>1. SatiInv /\ [SatiPoolNext]_satiPoolVars
        => [\A a \in Agents : OpensLoan(a) => vault' = LeftByLoan(a)]_vars
  <2> SUFFICES ASSUME SatiInv, [SatiPoolNext]_satiPoolVars,
                      NEW b \in Agents, OpensLoan(b)
               PROVE  vault' = LeftByLoan(b)
    OBVIOUS
  <2>1. TypeInv
    BY DEF SatiInv
  <2>2. ASSUME NEW a \in Agents, NEW amount \in Amounts, NEW h \in HookPrograms,
               NEW accounts, SatiBorrow(a, amount, h, accounts)
        PROVE  vault' = LeftByLoan(b)
    <3>1. Borrow(a, amount, h, Terms(AccruedPool))
      BY <2>2 DEF SatiBorrow
    <3>2. Terms(AccruedPool) \in HookReplies
      BY <3>1, SatiReply DEF Borrow
    <3>3. Terms(AccruedPool).diverted = NothingDiverted
      BY DEF Terms
    <3> QED
      BY <2>1, <3>1, <3>2, <3>3, QuietHookLoan
  <2>3. ASSUME borrower' = borrower PROVE FALSE
    BY <2>3 DEF OpensLoan
  <2>4. ~HookFree
    BY <2>1, HookFreeOpensNoLoan
  <2>5. ASSUME NEW acc, Publish(acc) \/ Close(acc) PROVE borrower' = borrower
    BY <2>5 DEF Publish, Close, vars
  <2> QED
    BY <2>2, <2>3, <2>4, <2>5
    DEF SatiPoolNext, InitializeSatiPool, InitializePool, satiPoolVars
<1>2. SatiPoolSpec => LoansAlone
  BY <1>1, SatiInvInit, SatiInvNext, PTL DEF SatiPoolSpec, LoansAlone
<1> QED
  BY <1>2, SatiScorePoolIsCore, HookLeavesVaultAlone, PTL

===============================================================================
