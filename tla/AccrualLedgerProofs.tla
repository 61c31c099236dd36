-------------------------- MODULE AccrualLedgerProofs --------------------------
(***************************************************************************)
(* The history that AccrualLedger keeps, for any users, rates, amounts and *)
(* times: each second is booked once and on what was lent in it, the vault *)
(* falls short of the claims by no more than the four causes named, of     *)
(* the fees alone by fewer still, and interest booked and interest owed    *)
(* differ by no more than the four.                                        *)
(***************************************************************************)
EXTENDS AccrualLedger, NormandyCoreProofs, SequenceTheorems

Second == [lent : Nat, funded : BOOLEAN, booked : Nat]

RecordTypes ==
  /\ seconds \in Seq(Second) /\ Len(seconds) = clock - 1
  /\ booked \in Nat
  /\ taken \in Int /\ diverted \in Int

\* A second that will be booked, and was lent and funded, has seen no change of
\* the pool since.
PendingAsLent ==
  \A s \in DOMAIN seconds :
    /\ s >= pool.last_accrual_timestamp
    /\ seconds[s].lent > 0 /\ seconds[s].funded
    => seconds[s].lent = pool.total_borrows /\ pool.total_deposits > 0

SecondsInv == RecordTypes /\ BookedAsLent /\ PendingAsLent

\* The cash behind the book: deposits, interest and fees are in the vault, on
\* loan, not yet received, taken out, or moved out by a hook.  ShortfallExplained is
\* this and ClaimsWithinBook.
CashBehindBook ==
  pool.total_deposits + pool.total_interest_earned + pool.accrued_protocol_fees
    <= vault + pool.total_borrows + (booked - Received) + taken + diverted

-------------------------------------------------------------------------------
(***************************************************************************)
(* What is recorded of a step                                              *)
(***************************************************************************)

\* An instruction that accrues, whatever it does besides.
Instruction ==
  /\ CanAccrue
  /\ clock' = clock
  /\ pool'.last_accrual_timestamp = AccruedPool.last_accrual_timestamp

\* The date of the last accrual is changed by accruals alone.
LEMMA PoolUpdateDate ==
  ASSUME NEW p \in Pool, NEW x
  PROVE  /\ [p EXCEPT !.total_deposits = x].last_accrual_timestamp
              = p.last_accrual_timestamp
         /\ [p EXCEPT !.total_borrows = x].last_accrual_timestamp
              = p.last_accrual_timestamp
         /\ [p EXCEPT !.accrued_protocol_fees = x].last_accrual_timestamp
              = p.last_accrual_timestamp
BY DEF Pool

\* The steps that accrue.
LEMMA InstructionsAccrue ==
  ASSUME TypeInv
  PROVE  /\ \A l \in Lenders, amount \in Amounts : Deposit(l, amount) => Instruction
         /\ \A a \in Agents, amount \in Amounts, h \in HookPrograms,
               reply \in HookReplies : Borrow(a, amount, h, reply) => Instruction
         /\ \A a \in Agents, payer \in Users : Repay(a, payer) => Instruction
         /\ \A l \in Lenders : Withdraw(l) => Instruction
         /\ \A r \in FeeRecipients : ClaimProtocolFees(r) => Instruction
<1>1. CanAccrue => AccruedPool \in Pool
  BY AccruedPoolNumbers
<1>2. ASSUME NEW l \in Lenders, NEW amount \in Amounts, Deposit(l, amount)
      PROVE  Instruction
  BY <1>1, <1>2, PoolUpdateDate DEF Deposit, Instruction
<1>3. ASSUME NEW a \in Agents, NEW amount \in Amounts, NEW h \in HookPrograms,
             NEW reply \in HookReplies, Borrow(a, amount, h, reply)
      PROVE  Instruction
  BY <1>1, <1>3, PoolUpdateDate DEF Borrow, Instruction
<1>4. ASSUME NEW a \in Agents, NEW payer \in Users, Repay(a, payer)
      PROVE  Instruction
  BY <1>1, <1>4, PoolUpdateDate DEF Repay, LessRepaid, Instruction
<1>5. ASSUME NEW l \in Lenders, Withdraw(l) PROVE Instruction
  BY <1>1, <1>5, PoolUpdateDate DEF Withdraw, LessWithdrawn, Instruction
<1>6. ASSUME NEW r \in FeeRecipients, ClaimProtocolFees(r) PROVE Instruction
  BY <1>1, <1>6, PoolUpdateDate DEF ClaimProtocolFees, Instruction
<1> QED
  BY <1>2, <1>3, <1>4, <1>5, <1>6

\* The pool of a running instruction is accrued, or as it was.
LEMMA InstructionRecord ==
  ASSUME TypeInv, booked \in Nat, Instruction, Record
  PROVE  /\ booked' = booked
              + (AccruedPool.total_interest_earned - pool.total_interest_earned)
              + (AccruedPool.accrued_protocol_fees - pool.accrued_protocol_fees)
         /\ booked' \in Nat
         /\ exposure' = exposure
         /\ Accrues(pool, clock) =>
              /\ accruals' = accruals + 1
              /\ pool'.last_accrual_timestamp = clock
              /\ seconds' = [s \in DOMAIN seconds |->
                   IF s >= pool.last_accrual_timestamp
                   THEN [seconds[s] EXCEPT !.booked = @ + pool.total_borrows]
                   ELSE seconds[s]]
         /\ ~Accrues(pool, clock) =>
              /\ accruals' = accruals
              /\ AccruedPool = pool
              /\ pool'.last_accrual_timestamp = pool.last_accrual_timestamp
              /\ seconds' = seconds
<1>1. pool \in Pool /\ clock' = clock
  BY DEF TypeInv, TypeOK, Instruction
<1>2. AccrualOf(pool, AccruedPool, clock)
  BY AccruedPoolFacts DEF Instruction
<1>3. /\ pool.total_interest_earned \in Nat /\ pool.accrued_protocol_fees \in Nat
      /\ AccruedPool.total_interest_earned \in Nat
      /\ AccruedPool.accrued_protocol_fees \in Nat
      /\ AccruedPool.total_interest_earned >= pool.total_interest_earned
      /\ AccruedPool.accrued_protocol_fees >= pool.accrued_protocol_fees
  BY <1>1, <1>2, WordTypes DEF AccrualOf, Pool
<1>4. CASE Accrues(pool, clock)
  <2>1. AccruedPool.last_accrual_timestamp = clock
    BY <1>1, <1>4 DEF AccruedPool, Accrued, Booked, Pool
  <2>2. Accruing
    BY <1>4, <2>1 DEF Accruing, Instruction, Accrues
  <2> QED
    BY <1>1, <1>3, <1>4, <2>1, <2>2 DEF Record, RecordAccrual, Instruction
<1>5. CASE ~Accrues(pool, clock)
  <2>1. AccruedPool = pool
    BY <1>5 DEF AccruedPool, Accrued
  <2>2. ~Accruing
    BY <1>5 DEF Accruing
  <2>3. UNCHANGED <<booked, accruals, seconds, exposure>>
    BY <1>1, <2>2 DEF Record
  <2> QED
    BY <1>3, <1>5, <2>1, <2>3 DEF Instruction
<1> QED
  BY <1>4, <1>5

\* Nothing is recorded of a step that does not accrue.
LEMMA QuietRecord ==
  ASSUME Record, clock' = clock, pool' = pool \/ pool.total_borrows = 0
  PROVE  UNCHANGED <<seconds, booked, accruals, exposure>>
BY DEF Record, Accruing, Accrues

\* A tick records a second, with nothing booked for it.
LEMMA TickRecord ==
  ASSUME RecordTypes, TypeInv, Record, Tick
  PROVE  /\ seconds' \in Seq(Second)
         /\ Len(seconds') = clock /\ clock' = clock + 1 /\ clock \in Nat \ {0}
         /\ DOMAIN seconds = 1 .. clock - 1 /\ DOMAIN seconds' = 1 .. clock
         /\ \A s \in 1 .. clock - 1 : seconds'[s] = seconds[s]
         /\ seconds'[clock] = [lent |-> pool.total_borrows,
                               funded |-> pool.total_deposits > 0, booked |-> 0]
         /\ UNCHANGED <<pool, lender, borrower, vault, booked, accruals>>
         /\ exposure' = [a \in Agents |-> exposure[a] + Outstanding(a)]
<1> DEFINE e == [lent |-> pool.total_borrows, funded |-> pool.total_deposits > 0,
                 booked |-> 0]
<1>1. clock \in Nat /\ pool.total_borrows \in Nat
  BY WordTypes DEF TypeInv, TypeOK, Pool
<1>2. clock' = clock + 1 /\ UNCHANGED <<pool, lender, borrower, vault>>
  BY DEF Tick
<1>3. clock' # clock
  BY <1>1, <1>2
<1>4. /\ seconds' = Append(seconds, e)
      /\ exposure' = [a \in Agents |-> exposure[a] + Outstanding(a)]
  BY <1>3 DEF Record, RecordSecond
<1>5. booked' = booked /\ accruals' = accruals
  BY <1>2 DEF Record, Accruing
<1>6. e \in Second
  BY <1>1 DEF Second
<1>7. /\ seconds \in Seq(Second) /\ Len(seconds) = clock - 1 /\ Len(seconds) \in Nat
      /\ DOMAIN seconds = 1 .. clock - 1
  BY LenProperties DEF RecordTypes
<1> HIDE DEF e
<1>8. /\ seconds' \in Seq(Second) /\ Len(seconds') = Len(seconds) + 1
      /\ \A i \in 1 .. Len(seconds) : seconds'[i] = seconds[i]
      /\ seconds'[Len(seconds) + 1] = e
  BY <1>4, <1>6, <1>7, AppendProperties
<1>9. Len(seconds) + 1 = clock /\ clock \in Nat \ {0}
  BY <1>1, <1>7
<1>10. DOMAIN seconds' = 1 .. clock
  BY <1>8, <1>9, LenProperties
<1> QED
  BY <1>1, <1>2, <1>4, <1>5, <1>7, <1>8, <1>9, <1>10 DEF e

-------------------------------------------------------------------------------
(***************************************************************************)
(* Each second is booked once, on what was lent in it                      *)
(***************************************************************************)

\* A booking brings every pending second that was lent and funded to what was
\* lent in it, and leaves none pending.
LEMMA SecondsAfterBooking ==
  ASSUME TypeInv, SecondsInv, Instruction, Record, Accrues(pool, clock)
  PROVE  /\ seconds' \in Seq(Second) /\ Len(seconds') = clock - 1
         /\ BookedAsLent' /\ PendingAsLent'
<1> DEFINE last == pool.last_accrual_timestamp
           B == pool.total_borrows
<1>1. /\ clock' = clock /\ pool'.last_accrual_timestamp = clock
      /\ seconds' = [s \in DOMAIN seconds |->
                       IF s >= last THEN [seconds[s] EXCEPT !.booked = @ + B]
                       ELSE seconds[s]]
  BY InstructionRecord DEF SecondsInv, RecordTypes, Instruction
<1>2. clock \in Nat /\ last \in Nat /\ B \in Nat
  BY WordTypes DEF TypeInv, TypeOK, Pool
<1>3. /\ seconds \in Seq(Second) /\ Len(seconds) = clock - 1 /\ Len(seconds) \in Nat
      /\ DOMAIN seconds = 1 .. clock - 1
      /\ \A s \in 1 .. clock - 1 : seconds[s] \in Second
  BY LenProperties DEF SecondsInv, RecordTypes
<1> HIDE DEF last, B
<1>4. ASSUME NEW s \in 1 .. clock - 1
      PROVE  /\ s < clock
             /\ seconds'[s] \in Second
             /\ seconds'[s].lent = seconds[s].lent
             /\ seconds'[s].funded = seconds[s].funded
             /\ seconds'[s].booked = IF s >= last THEN seconds[s].booked + B
                                     ELSE seconds[s].booked
  <2> DEFINE r == seconds[s]
  <2>1. s < clock /\ s \in DOMAIN seconds /\ r \in Second
    BY <1>2, <1>3
  <2>2. seconds'[s] = IF s >= last THEN [r EXCEPT !.booked = r.booked + B] ELSE r
    BY <1>1, <2>1
  <2> HIDE DEF r
  <2>3. LET t == [r EXCEPT !.booked = r.booked + B]
        IN  /\ t \in Second /\ t.lent = r.lent /\ t.funded = r.funded
            /\ t.booked = r.booked + B
    BY <1>2, <2>1 DEF Second
  <2>4. /\ seconds'[s] \in Second
        /\ seconds'[s].lent = r.lent
        /\ seconds'[s].funded = r.funded
        /\ seconds'[s].booked = IF s >= last THEN r.booked + B ELSE r.booked
    BY <2>1, <2>2, <2>3
  <2> QED
    BY <2>1, <2>4 DEF r
<1>5. DOMAIN seconds' = 1 .. clock - 1
  BY <1>1, <1>3
<1>6. seconds' \in Seq(Second) /\ Len(seconds') = clock - 1
  <2>1. seconds' \in [1 .. clock - 1 -> Second] /\ clock - 1 \in Nat
    BY <1>1, <1>3, <1>4
  <2>2. seconds' \in Seq(Second)
    BY <2>1, SeqDef
  <2> QED
    BY <1>3, <1>5, <2>1, <2>2, LenProperties
<1>7. ASSUME NEW s \in 1 .. clock - 1, seconds[s].lent > 0, seconds[s].funded
      PROVE  seconds'[s].booked = seconds[s].lent
  <2>1. seconds[s].booked = IF s < last THEN seconds[s].lent ELSE 0
    BY <1>3, <1>7 DEF SecondsInv, BookedAsLent, last
  <2>2. s >= last => seconds[s].lent = B
    BY <1>3, <1>7 DEF SecondsInv, PendingAsLent, last, B
  <2> QED
    BY <1>2, <1>4, <2>1, <2>2
<1>8. BookedAsLent'
  BY <1>1, <1>2, <1>4, <1>5, <1>7 DEF BookedAsLent
<1>9. PendingAsLent'
  BY <1>1, <1>2, <1>4, <1>5 DEF PendingAsLent
<1> QED
  BY <1>6, <1>8, <1>9

\* An accrual that returns early leaves only seconds pending that had no loans
\* or no deposits.
LEMMA NothingPending ==
  ASSUME TypeInv, SecondsInv, ~Accrues(pool, clock), NEW s \in DOMAIN seconds,
         s >= pool.last_accrual_timestamp
  PROVE  ~(seconds[s].lent > 0 /\ seconds[s].funded)
<1>1. SUFFICES ASSUME seconds[s].lent > 0, seconds[s].funded PROVE FALSE
  OBVIOUS
<1>2. seconds[s].lent = pool.total_borrows /\ pool.total_deposits > 0
  BY <1>1 DEF SecondsInv, PendingAsLent
<1>3. /\ pool.total_borrows \in Nat /\ pool.total_deposits \in Nat
      /\ pool.last_accrual_timestamp \in Nat /\ clock \in Nat
  BY WordTypes DEF TypeInv, TypeOK, Pool
<1>4. s \in 1 .. clock - 1
  BY LenProperties DEF SecondsInv, RecordTypes
<1>5. clock # pool.last_accrual_timestamp
  BY <1>3, <1>4
<1>6. pool.total_borrows # 0 /\ pool.total_deposits # 0
  BY <1>1, <1>2, <1>3
<1> QED
  BY <1>5, <1>6 DEF Accrues

\* Before the pool exists no second has been lent in.
LEMMA NothingBeforePool ==
  ASSUME TypeInv, LedgerInv, SecondsInv, ~pool.initialized, NEW s \in DOMAIN seconds
  PROVE  ~(seconds[s].lent > 0 /\ seconds[s].funded)
<1>1. pool.total_borrows = 0 /\ pool.last_accrual_timestamp = 0
  BY DEF LedgerInv, EmptyBeforePool, NoPool
<1>2. ~Accrues(pool, clock)
  BY <1>1 DEF Accrues
<1>3. s \in Nat
  BY LenProperties DEF SecondsInv, RecordTypes
<1>4. s >= pool.last_accrual_timestamp
  BY <1>1, <1>3
<1> QED
  BY <1>2, <1>4, NothingPending

\* A tick adds a second that is pending.
LEMMA SecondsAfterTick ==
  ASSUME TypeInv, SecondsInv, Record, Tick
  PROVE  /\ seconds' \in Seq(Second) /\ Len(seconds') = clock' - 1
         /\ BookedAsLent' /\ PendingAsLent'
<1> DEFINE last == pool.last_accrual_timestamp
<1>1. /\ seconds' \in Seq(Second)
      /\ Len(seconds') = clock /\ clock' = clock + 1 /\ clock \in Nat \ {0}
      /\ DOMAIN seconds = 1 .. clock - 1 /\ DOMAIN seconds' = 1 .. clock
      /\ \A s \in 1 .. clock - 1 : seconds'[s] = seconds[s]
      /\ seconds'[clock] = [lent |-> pool.total_borrows,
                            funded |-> pool.total_deposits > 0, booked |-> 0]
      /\ pool' = pool
  BY TickRecord DEF SecondsInv
<1>2. last \in Nat /\ last <= clock
  BY DEF TypeInv, TypeOK, Pool
<1>3. /\ seconds'[clock].lent = pool.total_borrows
      /\ seconds'[clock].funded = (pool.total_deposits > 0)
      /\ seconds'[clock].booked = 0
  BY <1>1
<1>4. \A s \in DOMAIN seconds' : s \in DOMAIN seconds \/ s = clock
  BY <1>1
<1>5. Len(seconds') = clock' - 1
  BY <1>1
<1> HIDE DEF last
<1>6. ASSUME NEW s \in DOMAIN seconds', seconds'[s].lent > 0, seconds'[s].funded
      PROVE  seconds'[s].booked = IF s < last THEN seconds'[s].lent ELSE 0
  <2>1. CASE s \in DOMAIN seconds
    BY <1>1, <1>6, <2>1 DEF SecondsInv, BookedAsLent, last
  <2>2. CASE s = clock
    <3>1. clock \in Nat /\ ~(clock < last)
      BY <1>1, <1>2
    <3> QED
      BY <1>3, <2>2, <3>1
  <2> QED
    BY <1>4, <2>1, <2>2
<1>7. BookedAsLent'
  BY <1>1, <1>6 DEF BookedAsLent, last
<1>8. ASSUME NEW s \in DOMAIN seconds', s >= last,
             seconds'[s].lent > 0, seconds'[s].funded
      PROVE  seconds'[s].lent = pool.total_borrows /\ pool.total_deposits > 0
  <2>1. CASE s \in DOMAIN seconds
    BY <1>1, <1>8, <2>1 DEF SecondsInv, PendingAsLent, last
  <2>2. CASE s = clock
    BY <1>3, <1>8, <2>2
  <2> QED
    BY <1>4, <2>1, <2>2
<1>9. PendingAsLent'
  BY <1>1, <1>8 DEF PendingAsLent, last
<1> QED
  BY <1>1, <1>5, <1>7, <1>9

\* SecondsInv holds at the start: no second has gone by.
LEMMA SecondsInvInit == LedgerInit => SecondsInv
<1> SUFFICES ASSUME LedgerInit PROVE SecondsInv
  OBVIOUS
<1>1. /\ seconds = <<>> /\ clock = 1 /\ booked = 0 /\ taken = 0 /\ diverted = 0
  BY DEF LedgerInit, Init
<1>2. seconds \in Seq(Second) /\ Len(seconds) = 0 /\ DOMAIN seconds = {}
  BY <1>1
<1> QED
  BY <1>1, <1>2 DEF SecondsInv, RecordTypes, BookedAsLent, PendingAsLent

\* What is taken out is a number of tokens, or a loss.
LEMMA TakenType ==
  ASSUME TypeInv, TypeInv', taken \in Int, Record
  PROVE  taken' \in Int
<1>1. vault \in Nat /\ vault' \in Nat
  BY DEF TypeInv, TypeOK
<1>2. \A l \in Lenders : lender[l].total_deposited \in Nat
  BY WordTypes DEF TypeInv, TypeOK, LenderPosition
<1>3. CASE \E l \in Lenders : Leaving(l)
  <2> DEFINE m == CHOOSE l \in Lenders : Leaving(l)
  <2>1. m \in Lenders
    BY <1>3
  <2>2. taken' = taken + (vault - vault') - lender[m].total_deposited
    BY <1>3 DEF Record
  <2> HIDE DEF m
  <2> QED
    BY <1>1, <1>2, <2>1, <2>2
<1>4. CASE ~ \E l \in Lenders : Leaving(l)
  BY <1>4 DEF Record
<1> QED
  BY <1>3, <1>4

\* What a hook moves out is recorded where a loan is opened, and nowhere else.
LEMMA DivertedRecord ==
  ASSUME TypeInv, TypeInv', diverted \in Int, Record
  PROVE  /\ diverted' \in Int
         /\ (\A a \in Agents : ~OpensLoan(a)) => diverted' = diverted
<1>1. vault \in Nat /\ vault' \in Nat
  BY DEF TypeInv, TypeOK
<1>2. \A a \in Agents : borrower'[a].principal \in Nat
  BY WordTypes DEF TypeInv, TypeOK, BorrowerPosition
<1>3. diverted' = diverted + DivertedNow
  BY DEF Record
<1>4. CASE \E a \in Agents : OpensLoan(a)
  <2> DEFINE b == CHOOSE a \in Agents : OpensLoan(a)
  <2>1. b \in Agents
    BY <1>4
  <2>2. DivertedNow = (vault - borrower'[b].principal) - vault'
    BY <1>4 DEF DivertedNow, LeftByLoan
  <2> HIDE DEF b
  <2>3. DivertedNow \in Int
    BY <1>1, <1>2, <2>1, <2>2
  <2> QED
    BY <1>3, <1>4, <2>3
<1>5. CASE ~ \E a \in Agents : OpensLoan(a)
  BY <1>3, <1>5 DEF DivertedNow
<1> QED
  BY <1>4, <1>5

\* SecondsInv is inductive.
LEMMA SecondsInvNext ==
  ASSUME TypeInv, TypeInv', LedgerInv, SecondsInv, [LedgerNext]_ledgerVars
  PROVE  SecondsInv'
<1>a. booked \in Nat /\ taken \in Int /\ diverted \in Int
  BY DEF SecondsInv, RecordTypes
<1>1. CASE UNCHANGED ledgerVars
  BY <1>1 DEF ledgerVars, SecondsInv, RecordTypes, BookedAsLent, PendingAsLent
<1> SUFFICES ASSUME LedgerNext PROVE SecondsInv'
  BY <1>1
<1>b. Next /\ Record
  BY DEF LedgerNext
<1>c. taken' \in Int /\ diverted' \in Int
  BY <1>a, <1>b, TakenType, DivertedRecord
<1>2. ASSUME Instruction PROVE SecondsInv'
  <2>1. booked' \in Nat
    BY <1>a, <1>b, <1>2, InstructionRecord
  <2>2. CASE Accrues(pool, clock)
    BY <1>b, <1>c, <1>2, <2>1, <2>2, SecondsAfterBooking
    DEF SecondsInv, RecordTypes, Instruction
  <2>3. CASE ~Accrues(pool, clock)
    <3>1. /\ seconds' = seconds /\ clock' = clock
          /\ pool'.last_accrual_timestamp = pool.last_accrual_timestamp
      BY <1>a, <1>b, <1>2, <2>3, InstructionRecord DEF Instruction
    <3>2. BookedAsLent'
      BY <3>1 DEF SecondsInv, BookedAsLent
    <3>3. PendingAsLent'
      BY <2>3, <3>1, NothingPending DEF PendingAsLent
    <3> QED
      BY <1>c, <2>1, <3>1, <3>2, <3>3 DEF SecondsInv, RecordTypes
  <2> QED
    BY <2>2, <2>3
<1>3. ASSUME clock' = clock, pool' = pool PROVE SecondsInv'
  <2>1. seconds' = seconds /\ booked' = booked
    BY <1>b, <1>3, QuietRecord
  <2> QED
    BY <1>c, <1>3, <2>1 DEF SecondsInv, RecordTypes, BookedAsLent, PendingAsLent
<1>4. ASSUME clock' = clock, ~pool.initialized PROVE SecondsInv'
  <2>1. pool.total_borrows = 0
    BY <1>4 DEF LedgerInv, EmptyBeforePool, NoPool
  <2>2. seconds' = seconds /\ booked' = booked
    BY <1>b, <1>4, <2>1, QuietRecord
  <2>3. BookedAsLent' /\ PendingAsLent'
    BY <1>4, <2>2, NothingBeforePool DEF BookedAsLent, PendingAsLent
  <2> QED
    BY <1>c, <1>4, <2>2, <2>3 DEF SecondsInv, RecordTypes
<1>5. CASE Tick
  <2>1. booked' = booked
    BY <1>b, <1>5, TickRecord DEF SecondsInv
  <2> QED
    BY <1>b, <1>c, <1>5, <2>1, SecondsAfterTick DEF SecondsInv, RecordTypes
<1>6. ASSUME NEW r \in FeeRecipients, InitializeProtocol(r) PROVE SecondsInv'
  BY <1>3, <1>6 DEF InitializeProtocol
<1>7. ASSUME NEW u \in Users, NEW amount \in TopUps, TopUpVault(u, amount)
      PROVE  SecondsInv'
  BY <1>3, <1>7 DEF TopUpVault
<1>8. ASSUME NEW h \in HookPrograms, NEW bips \in InterestBips,
             NEW term \in TermSeconds, NEW reserve \in ReserveRatioBips,
             NEW window \in DepositWindowEnds,
             InitializePool(h, bips, term, reserve, window)
      PROVE  SecondsInv'
  BY <1>4, <1>8 DEF InitializePool
<1> QED
  BY <1>b, <1>2, <1>5, <1>6, <1>7, <1>8, InstructionsAccrue DEF Next

-------------------------------------------------------------------------------
(***************************************************************************)
(* The cash behind the book                                                *)
(***************************************************************************)

\* Interest paid, agent by agent.
Paid == [a \in Agents |-> IF borrower[a].status = "Repaid"
                          THEN borrower[a].accrued_interest ELSE 0]

\* The numbers that the cash equation is made of.
LEMMA CashTypes ==
  ASSUME TypeInv
  PROVE  /\ Paid \in [Agents -> Nat] /\ Received = Total(Paid) /\ Received \in Nat
         /\ vault \in Nat
         /\ pool.total_deposits \in Nat /\ pool.total_borrows \in Nat
         /\ pool.total_interest_earned \in Nat /\ pool.accrued_protocol_fees \in Nat
<1>1. Paid \in [Agents -> Nat]
  <2>1. \A a \in Agents : borrower[a].accrued_interest \in Nat
    BY WordTypes DEF TypeInv, TypeOK, BorrowerPosition
  <2> QED
    BY <2>1 DEF Paid
<1>2. Received = Total(Paid)
  BY DEF Received, Paid
<1>3. Total(Paid) \in Nat
  BY <1>1, UsersFinite, TotalType
<1> QED
  BY <1>1, <1>2, <1>3, WordTypes DEF TypeInv, TypeOK, Pool

\* What an instruction moves beside its accrual: dd into the deposits, db into the
\* loans, c out of the fees, dv into the vault, dr of interest received, dt taken
\* by a lender beyond its deposits, dh moved out by a hook.
Moves(dd, db, c, dv, dr, dt, dh) ==
  /\ Instruction
  /\ dd \in Int /\ db \in Int /\ c \in Int /\ dv \in Int /\ dr \in Int /\ dt \in Int
  /\ dh \in Int
  /\ pool'.total_deposits = pool.total_deposits + dd
  /\ pool'.total_borrows = pool.total_borrows + db
  /\ pool'.total_interest_earned = AccruedPool.total_interest_earned
  /\ pool'.accrued_protocol_fees = AccruedPool.accrued_protocol_fees - c
  /\ vault' = vault + dv
  /\ Received' = Received + dr
  /\ taken' = taken + dt
  /\ diverted' = diverted + dh

\* An instruction keeps the cash behind the book if what it adds to deposits and
\* takes from the fees is covered by what it adds to the vault, to the loans
\* and to what was taken or moved out, less what it receives as interest.
LEMMA CashKept ==
  ASSUME TypeInv, RecordTypes, CashBehindBook, Record,
         NEW dd, NEW db, NEW c, NEW dv, NEW dr, NEW dt, NEW dh,
         Moves(dd, db, c, dv, dr, dt, dh), dd - c <= dv + db - dr + dt + dh
  PROVE  CashBehindBook'
<1> DEFINE D == pool.total_deposits
           B == pool.total_borrows
           E == pool.total_interest_earned
           F == pool.accrued_protocol_fees
           AE == AccruedPool.total_interest_earned
           AF == AccruedPool.accrued_protocol_fees
           R == Received
<1>1. D \in Nat /\ B \in Nat /\ E \in Nat /\ F \in Nat /\ vault \in Nat /\ R \in Nat
  BY CashTypes
<1>2. AE \in Nat /\ AF \in Nat
  BY AccruedPoolNumbers, WordTypes DEF Moves, Instruction, Pool
<1>3. booked \in Nat /\ taken \in Int /\ diverted \in Int
  BY DEF RecordTypes
<1>4. booked' = booked + (AE - E) + (AF - F)
  BY <1>3, InstructionRecord DEF Moves
<1>5. D + E + F <= vault + B + (booked - R) + taken + diverted
  BY DEF CashBehindBook
<1>6. /\ pool'.total_deposits = D + dd /\ pool'.total_borrows = B + db
      /\ pool'.total_interest_earned = AE /\ pool'.accrued_protocol_fees = AF - c
      /\ Received' = R + dr /\ vault' = vault + dv /\ taken' = taken + dt
      /\ diverted' = diverted + dh
      /\ dd \in Int /\ db \in Int /\ c \in Int /\ dv \in Int /\ dr \in Int /\ dt \in Int
      /\ dh \in Int
  BY DEF Moves
<1> HIDE DEF D, B, E, F, AE, AF, R
<1>7. (D + dd) + AE + (AF - c)
        <= (vault + dv) + (B + db) + ((booked + (AE - E) + (AF - F)) - (R + dr))
             + (taken + dt) + (diverted + dh)
  BY <1>1, <1>2, <1>3, <1>5, <1>6
<1> QED
  BY <1>4, <1>6, <1>7 DEF CashBehindBook

\* No lender leaves in a step that keeps every open position open.
LEMMA NobodyLeaves ==
  ASSUME Record, \A l \in Lenders : lender[l].open => lender'[l].open
  PROVE  taken' = taken
BY DEF Record, Leaving

\* No hook is asked in a step that leaves the loans as they are, or settles one.
LEMMA NoHookAsked ==
  ASSUME TypeInv, TypeInv', RecordTypes, Record, HookFree \/ borrower' = borrower
  PROVE  diverted' = diverted /\ diverted \in Int
<1>1. \A a \in Agents : ~OpensLoan(a)
  BY HookFreeOpensNoLoan DEF OpensLoan
<1> QED
  BY <1>1, DivertedRecord DEF RecordTypes

\* A deposit is cash and book at once.
LEMMA DepositMoves ==
  ASSUME TypeInv, TypeInv', RecordTypes, Record,
         NEW l \in Lenders, NEW amount \in Amounts, Deposit(l, amount)
  PROVE  Moves(amount, 0, 0, amount, 0, 0, 0) /\ amount \in Nat
<1>1. Instruction /\ AccruedPool \in Pool
  BY InstructionsAccrue, AccruedPoolNumbers DEF Instruction
<1>2. /\ amount \in Nat
      /\ pool'.total_deposits = pool.total_deposits + amount
      /\ pool'.total_borrows = pool.total_borrows
  BY DepositEffect
<1>3. /\ pool' = [AccruedPool EXCEPT !.total_deposits
                    = AccruedPool.total_deposits + amount]
      /\ vault' = vault + amount /\ borrower' = borrower
  BY DEF Deposit
<1>4. /\ pool'.total_interest_earned = AccruedPool.total_interest_earned
      /\ pool'.accrued_protocol_fees = AccruedPool.accrued_protocol_fees
  BY <1>1, <1>3, PoolUpdateEarnings, PoolUpdateFields
<1>5. taken' = taken
  <2>1. \E scaled : lender' = [lender EXCEPT ![l] = Credited(lender[l], amount, scaled)]
    BY DEF Deposit
  <2>2. \A m \in Lenders : lender[m].open => lender'[m].open
    BY <2>1 DEF Credited, TypeInv, TypeOK
  <2> QED
    BY <2>2, NobodyLeaves
<1>6. Received' = Received
  BY <1>3 DEF Received
<1>7. /\ pool.total_borrows \in Nat /\ AccruedPool.accrued_protocol_fees \in Nat
      /\ Received \in Nat /\ taken \in Int /\ diverted \in Int
      /\ diverted' = diverted
  BY <1>1, <1>3, CashTypes, AccruedPoolNumbers, NoHookAsked DEF RecordTypes, Instruction
<1>8. /\ pool'.total_borrows = pool.total_borrows + 0
      /\ pool'.accrued_protocol_fees = AccruedPool.accrued_protocol_fees - 0
      /\ Received' = Received + 0 /\ taken' = taken + 0 /\ diverted' = diverted + 0
      /\ amount \in Int /\ 0 \in Int
  BY <1>2, <1>4, <1>5, <1>6, <1>7
<1> QED
  BY <1>1, <1>2, <1>3, <1>4, <1>8 DEF Moves

\* A loan is taken from the vault and stays in the book; what the hook moves is
\* recorded.
LEMMA BorrowMoves ==
  ASSUME TypeInv, TypeInv', RecordTypes, Record,
         NEW a \in Agents, NEW amount \in Amounts, NEW h \in HookPrograms,
         NEW reply \in HookReplies, Borrow(a, amount, h, reply)
  PROVE  \E k \in Nat, d \in Nat : Moves(0, k, 0, 0 - (k + d), 0, 0, d)
<1> DEFINE d == Total(reply.diverted)
<1>1. Instruction /\ AccruedPool \in Pool
  BY InstructionsAccrue, AccruedPoolNumbers DEF Instruction
<1>2. /\ amount \in Nat
      /\ pool'.total_deposits = pool.total_deposits
      /\ pool'.total_borrows = pool.total_borrows + amount
  BY BorrowEffect
<1>3. /\ pool' = [AccruedPool EXCEPT !.total_borrows
                    = AccruedPool.total_borrows + amount]
      /\ vault' = vault - d - amount /\ lender' = lender
      /\ borrower[a].status = "None"
      /\ borrower' = [borrower EXCEPT ![a] = Loan(amount, reply, clock)]
  BY DEF Borrow
<1>4. /\ pool'.total_interest_earned = AccruedPool.total_interest_earned
      /\ pool'.accrued_protocol_fees = AccruedPool.accrued_protocol_fees
  BY <1>1, <1>3, PoolUpdateEarnings, PoolUpdateFields
<1>5. taken' = taken
  BY <1>3, NobodyLeaves
<1>6. Received' = Received
  <2>1. Paid' = Paid
    BY <1>3 DEF Paid, Loan, TypeInv, TypeOK
  <2> QED
    BY <2>1 DEF Received, Paid
<1>7. /\ pool.total_deposits \in Nat /\ AccruedPool.accrued_protocol_fees \in Nat
      /\ Received \in Nat /\ taken \in Int /\ diverted \in Int /\ vault \in Nat
  BY <1>1, CashTypes, AccruedPoolNumbers DEF RecordTypes, Instruction
<1>8. d \in Nat
  BY DivertedType
<1>9. diverted' = diverted + d
  <2>1. \A b \in Agents : OpensLoan(b) <=> b = a
    BY <1>3, LoanLeavesReserve DEF OpensLoan, TypeInv, TypeOK
  <2>2. (CHOOSE b \in Agents : OpensLoan(b)) = a
    BY <2>1
  <2>3. DivertedNow = (vault - amount) - vault'
    BY <2>1, <2>2, LoanLeavesReserve DEF DivertedNow, LeftByLoan
  <2>4. DivertedNow = (vault - amount) - (vault - d - amount)
    BY <1>3, <2>3
  <2> HIDE DEF d
  <2>5. DivertedNow = d
    BY <1>2, <1>7, <1>8, <2>4
  <2> QED
    BY <2>5 DEF Record
<1> HIDE DEF d
<1>10. /\ pool'.total_deposits = pool.total_deposits + 0
       /\ pool'.accrued_protocol_fees = AccruedPool.accrued_protocol_fees - 0
       /\ Received' = Received + 0 /\ taken' = taken + 0
  BY <1>2, <1>4, <1>5, <1>6, <1>7
<1>11. vault' = vault + (0 - (amount + d))
  BY <1>2, <1>3, <1>7, <1>8
<1>12. amount \in Int /\ d \in Int /\ 0 - (amount + d) \in Int /\ 0 \in Int
  BY <1>2, <1>8
<1>13. Moves(0, amount, 0, 0 - (amount + d), 0, 0, d)
  BY <1>1, <1>2, <1>4, <1>9, <1>10, <1>11, <1>12 DEF Moves
<1> QED
  BY <1>2, <1>8, <1>13

\* A repayment brings the principal and the interest it is charged for.
LEMMA RepayMoves ==
  ASSUME TypeInv, TypeInv', RecordTypes, Record,
         NEW a \in Agents, NEW payer \in Users, Repay(a, payer)
  PROVE  \E pr \in Nat, i \in Nat : Moves(0, 0 - pr, 0, pr + i, i, 0, 0)
<1> DEFINE settled == Settled(borrower[a], clock)
           pr == borrower[a].principal
           i == settled.accrued_interest
<1>1. Instruction /\ AccruedPool \in Pool
  BY InstructionsAccrue, AccruedPoolNumbers DEF Instruction
<1>2. /\ pool'.total_deposits = pool.total_deposits
      /\ pool'.total_borrows = pool.total_borrows - pr
  BY RepayEffect
<1>3. /\ RepayFits(borrower[a], AccruedPool, clock)
      /\ borrower[a].status = "Active"
      /\ pool' = [AccruedPool EXCEPT !.total_borrows
                    = AccruedPool.total_borrows - settled.principal]
      /\ borrower' = [borrower EXCEPT ![a] = settled]
      /\ vault' = vault + TotalOwed(settled) /\ lender' = lender
  BY DEF Repay, LessRepaid
<1>4. /\ settled \in BorrowerPosition /\ settled.status = "Repaid"
      /\ settled.principal = pr /\ pr \in Nat
  BY <1>3, SettledFacts
<1>5. i \in Nat /\ TotalOwed(settled) = pr + i
  BY <1>4, WordTypes DEF BorrowerPosition, TotalOwed
<1>6. /\ pool'.total_interest_earned = AccruedPool.total_interest_earned
      /\ pool'.accrued_protocol_fees = AccruedPool.accrued_protocol_fees
  BY <1>1, <1>3, PoolUpdateEarnings, PoolUpdateFields
<1>7. taken' = taken
  BY <1>3, NobodyLeaves
<1>8. Paid \in [Agents -> Nat] /\ Received = Total(Paid) /\ Received \in Nat
  BY CashTypes
<1> HIDE DEF settled, pr
<1>9. Paid' = [Paid EXCEPT ![a] = i] /\ Paid[a] = 0
  BY <1>3, <1>4 DEF Paid, TypeInv, TypeOK
<1> HIDE DEF i
<1>10. Received' = Received + i
  <2>1. Received' = Total(Paid')
    BY DEF Received, Paid
  <2>2. Total([Paid EXCEPT ![a] = i]) = Total(Paid) - Paid[a] + i
    BY <1>5, <1>8, UsersFinite, TotalUpdate
  <2> QED
    BY <1>5, <1>8, <1>9, <2>1, <2>2
<1>11. /\ pool.total_deposits \in Nat /\ AccruedPool.accrued_protocol_fees \in Nat
       /\ taken \in Int /\ vault \in Nat /\ pool.total_borrows \in Nat
  BY <1>1, CashTypes, AccruedPoolNumbers DEF RecordTypes, Instruction
<1>12. /\ pool'.total_deposits = pool.total_deposits + 0
       /\ pool'.total_borrows = pool.total_borrows + (0 - pr)
  BY <1>2, <1>4, <1>11
<1>13. pool'.accrued_protocol_fees = AccruedPool.accrued_protocol_fees - 0
  BY <1>6, <1>11
<1>14. taken' = taken + 0 /\ diverted' = diverted + 0
  <2>1. HookFree
    BY DEF HookFree
  <2> QED
    BY <1>7, <1>11, <2>1, NoHookAsked
<1>15. vault' = vault + (pr + i)
  BY <1>3, <1>5
<1>16. /\ pr + i \in Int /\ 0 - pr \in Int /\ i \in Int /\ 0 \in Int
       /\ pr \in Nat /\ i \in Nat
  BY <1>4, <1>5
<1>17. Moves(0, 0 - pr, 0, pr + i, i, 0, 0)
  BY <1>1, <1>6, <1>10, <1>12, <1>13, <1>14, <1>15, <1>16 DEF Moves
<1> QED
  BY <1>16, <1>17

\* A withdrawal beyond the deposit is recorded as taken.
LEMMA WithdrawMoves ==
  ASSUME TypeInv, TypeInv', RecordTypes, Record,
         NEW l \in Lenders, Withdraw(l)
  PROVE  \E d \in Int, dv \in Int : Moves(0 - d, 0, 0, dv, 0, (0 - dv) - d, 0)
<1> DEFINE d == lender[l].total_deposited
<1>1. Instruction /\ AccruedPool \in Pool
  BY InstructionsAccrue, AccruedPoolNumbers DEF Instruction
<1>2. /\ pool'.total_deposits = pool.total_deposits - d
      /\ pool'.total_borrows = pool.total_borrows
      /\ pool'.accrued_protocol_fees = AccruedPool.accrued_protocol_fees
  BY WithdrawEffect
<1>3. /\ pool' = [AccruedPool EXCEPT !.total_deposits = AccruedPool.total_deposits - d]
      /\ lender[l].open /\ lender' = [lender EXCEPT ![l] = NoDeposit]
      /\ borrower' = borrower
  BY DEF Withdraw, LessWithdrawn
<1>4. pool'.total_interest_earned = AccruedPool.total_interest_earned
  BY <1>1, <1>3, PoolUpdateEarnings
<1>5. taken' = taken + (vault - vault') - d
  <2>1. \A m \in Lenders : Leaving(m) <=> m = l
    BY <1>3 DEF Leaving, NoDeposit, TypeInv, TypeOK
  <2>2. (CHOOSE m \in Lenders : Leaving(m)) = l
    BY <2>1
  <2> QED
    BY <2>1, <2>2 DEF Record
<1>6. Received' = Received
  BY <1>3 DEF Received
<1>7. /\ pool.total_deposits \in Nat /\ AccruedPool.accrued_protocol_fees \in Nat
      /\ Received \in Nat /\ taken \in Int /\ vault \in Nat
      /\ pool.total_borrows \in Nat /\ d \in Nat
  BY <1>1, CashTypes, AccruedPoolNumbers, WordTypes
  DEF RecordTypes, Instruction, TypeInv, TypeOK, LenderPosition
<1>8. vault' \in Nat
  BY DEF TypeInv, TypeOK
<1>9. PICK v \in Int : vault' = v
  BY <1>8
<1>a. diverted' = diverted + 0
  BY <1>3, NoHookAsked
<1> DEFINE dv == v - vault
           dt == (0 - dv) - d
<1>10. /\ pool'.total_deposits = pool.total_deposits + (0 - d)
       /\ pool'.total_borrows = pool.total_borrows + 0
       /\ pool'.accrued_protocol_fees = AccruedPool.accrued_protocol_fees - 0
       /\ Received' = Received + 0 /\ taken' = taken + dt
       /\ vault' = vault + dv
       /\ d \in Int /\ 0 - d \in Int /\ dv \in Int /\ dt \in Int /\ 0 \in Int
  BY <1>2, <1>5, <1>6, <1>7, <1>9
<1> HIDE DEF d, dv, dt
<1>11. Moves(0 - d, 0, 0, dv, 0, dt, 0)
  BY <1>1, <1>4, <1>10, <1>a DEF Moves
<1> QED
  BY <1>10, <1>11 DEF dt

\* A claim takes fees from the vault and from the book.
LEMMA ClaimMoves ==
  ASSUME TypeInv, TypeInv', RecordTypes, Record,
         NEW r \in FeeRecipients, ClaimProtocolFees(r)
  PROVE  \E f \in Nat : Moves(0, 0, f, 0 - f, 0, 0, 0)
<1> DEFINE f == AccruedPool.accrued_protocol_fees
<1>1. Instruction /\ AccruedPool \in Pool
  BY InstructionsAccrue, AccruedPoolNumbers DEF Instruction
<1>2. /\ pool'.total_deposits = pool.total_deposits
      /\ pool'.total_borrows = pool.total_borrows
      /\ pool'.accrued_protocol_fees = 0
  BY ClaimProtocolFeesEffect
<1>3. /\ pool' = [AccruedPool EXCEPT !.accrued_protocol_fees = 0]
      /\ vault' = vault - f /\ UNCHANGED <<lender, borrower>>
  BY DEF ClaimProtocolFees
<1>4. pool'.total_interest_earned = AccruedPool.total_interest_earned
  BY <1>1, <1>3, PoolUpdateEarnings
<1>5. taken' = taken
  BY <1>3, NobodyLeaves
<1>6. Received' = Received
  BY <1>3 DEF Received
<1>7. /\ pool.total_deposits \in Nat /\ pool.total_borrows \in Nat /\ f \in Nat
      /\ Received \in Nat /\ taken \in Int /\ vault \in Nat
  BY <1>1, CashTypes, AccruedPoolNumbers DEF RecordTypes, Instruction
<1>8. /\ pool'.total_deposits = pool.total_deposits + 0
      /\ pool'.total_borrows = pool.total_borrows + 0
      /\ pool'.accrued_protocol_fees = f - f
      /\ Received' = Received + 0 /\ taken' = taken + 0
      /\ vault' = vault + (0 - f)
      /\ f \in Int /\ 0 - f \in Int /\ 0 \in Int
  BY <1>2, <1>3, <1>5, <1>6, <1>7
<1>9. diverted' = diverted + 0
  BY <1>3, NoHookAsked
<1> HIDE DEF f
<1>10. Moves(0, 0, f, 0 - f, 0, 0, 0)
  BY <1>1, <1>4, <1>8, <1>9 DEF Moves, f
<1> QED
  BY <1>7, <1>10

\* There is no money at the start, nor any debt.
LEMMA CashInit == LedgerInit => CashBehindBook
<1> SUFFICES ASSUME LedgerInit PROVE CashBehindBook
  OBVIOUS
<1>1. /\ Init /\ booked = 0 /\ taken = 0 /\ diverted = 0 /\ vault = 0 /\ pool = NoPool
      /\ borrower = [a \in Agents |-> NoLoan]
  BY DEF LedgerInit, Init
<1>2. Paid \in [Agents -> Nat] /\ \A a \in Agents : Paid[a] = 0
  BY <1>1 DEF Paid, NoLoan
<1>3. Received = 0
  BY <1>1, <1>2, TypeInvInit, CashTypes, TotalZero
<1> QED
  BY <1>1, <1>3 DEF CashBehindBook, NoPool

\* CashBehindBook is inductive.
LEMMA CashNext ==
  ASSUME TypeInv, TypeInv', LedgerInv, RecordTypes, CashBehindBook,
         [LedgerNext]_ledgerVars
  PROVE  CashBehindBook'
<1>1. CASE UNCHANGED ledgerVars
  BY <1>1 DEF ledgerVars, CashBehindBook, Received
<1> SUFFICES ASSUME LedgerNext PROVE CashBehindBook'
  BY <1>1
<1>a. Next /\ Record
  BY DEF LedgerNext
<1>2. ASSUME UNCHANGED <<pool, lender, borrower>>, vault' >= vault, booked' = booked
      PROVE  CashBehindBook'
  <2>1. taken' = taken /\ diverted' = diverted /\ Received' = Received
    BY <1>a, <1>2, NobodyLeaves, NoHookAsked DEF Received
  <2>2. /\ vault \in Nat /\ vault' \in Nat /\ Received \in Nat
        /\ pool.total_deposits \in Nat /\ pool.total_borrows \in Nat
        /\ pool.total_interest_earned \in Nat /\ pool.accrued_protocol_fees \in Nat
        /\ booked \in Nat /\ taken \in Int /\ diverted \in Int
    BY CashTypes DEF TypeInv, TypeOK, RecordTypes
  <2> QED
    BY <1>2, <2>1, <2>2 DEF CashBehindBook
<1>3. vault \in Nat
  BY DEF TypeInv, TypeOK
<1>4. ASSUME NEW r \in FeeRecipients, InitializeProtocol(r) PROVE CashBehindBook'
  BY <1>a, <1>2, <1>3, <1>4, QuietRecord DEF InitializeProtocol
<1>5. ASSUME NEW u \in Users, NEW amount \in TopUps, TopUpVault(u, amount)
      PROVE  CashBehindBook'
  <2>1. amount \in Nat
    BY CoreAssumption, WordTypes
  <2>2. UNCHANGED <<clock, pool, lender, borrower>> /\ vault' = vault + amount
    BY <1>5 DEF TopUpVault
  <2> QED
    BY <1>a, <1>2, <1>3, <2>1, <2>2, QuietRecord
<1>6. CASE Tick
  BY <1>a, <1>2, <1>3, <1>6, TickRecord
<1>7. ASSUME NEW h \in HookPrograms, NEW bips \in InterestBips,
             NEW term \in TermSeconds, NEW reserve \in ReserveRatioBips,
             NEW window \in DepositWindowEnds,
             InitializePool(h, bips, term, reserve, window)
      PROVE  CashBehindBook'
  <2>1. /\ pool = NoPool /\ UNCHANGED <<clock, lender, borrower, vault>>
        /\ pool'.total_deposits = 0 /\ pool'.total_borrows = 0
        /\ pool'.total_interest_earned = 0 /\ pool'.accrued_protocol_fees = 0
    BY <1>7 DEF InitializePool, LedgerInv, EmptyBeforePool
  <2>2. /\ pool.total_deposits = 0 /\ pool.total_borrows = 0
        /\ pool.total_interest_earned = 0 /\ pool.accrued_protocol_fees = 0
    BY <2>1 DEF NoPool
  <2>3. UNCHANGED <<taken, diverted, Received, booked>>
    BY <1>a, <2>1, <2>2, NobodyLeaves, NoHookAsked, QuietRecord DEF Received
  <2> QED
    BY <2>1, <2>2, <2>3 DEF CashBehindBook
<1>8. ASSUME NEW l \in Lenders, NEW amount \in Amounts, Deposit(l, amount)
      PROVE  CashBehindBook'
  <2>1. Moves(amount, 0, 0, amount, 0, 0, 0) /\ amount \in Nat
    BY <1>a, <1>8, DepositMoves
  <2>2. amount - 0 <= amount + 0 - 0 + 0 + 0
    BY <2>1
  <2> QED
    BY <1>a, <2>1, <2>2, CashKept
<1>9. ASSUME NEW a \in Agents, NEW amount \in Amounts, NEW h \in HookPrograms,
             NEW reply \in HookReplies, Borrow(a, amount, h, reply)
      PROVE  CashBehindBook'
  <2>1. PICK k \in Nat, d \in Nat : Moves(0, k, 0, 0 - (k + d), 0, 0, d)
    BY <1>a, <1>9, BorrowMoves
  <2>2. 0 - 0 <= (0 - (k + d)) + k - 0 + 0 + d
    OBVIOUS
  <2> QED
    BY <1>a, <2>1, <2>2, CashKept
<1>10. ASSUME NEW a \in Agents, NEW payer \in Users, Repay(a, payer)
       PROVE  CashBehindBook'
  <2>1. PICK pr \in Nat, i \in Nat : Moves(0, 0 - pr, 0, pr + i, i, 0, 0)
    BY <1>a, <1>10, RepayMoves
  <2>2. 0 - 0 <= (pr + i) + (0 - pr) - i + 0 + 0
    OBVIOUS
  <2> QED
    BY <1>a, <2>1, <2>2, CashKept
<1>11. ASSUME NEW l \in Lenders, Withdraw(l) PROVE CashBehindBook'
  <2>1. PICK d \in Int, dv \in Int : Moves(0 - d, 0, 0, dv, 0, (0 - dv) - d, 0)
    BY <1>a, <1>11, WithdrawMoves
  <2>2. (0 - d) - 0 <= dv + 0 - 0 + ((0 - dv) - d) + 0
    OBVIOUS
  <2> QED
    BY <1>a, <2>1, <2>2, CashKept
<1>12. ASSUME NEW r \in FeeRecipients, ClaimProtocolFees(r) PROVE CashBehindBook'
  <2>1. PICK f \in Nat : Moves(0, 0, f, 0 - f, 0, 0, 0)
    BY <1>a, <1>12, ClaimMoves
  <2>2. 0 - f <= (0 - f) + 0 - 0 + 0 + 0
    OBVIOUS
  <2> QED
    BY <1>a, <2>1, <2>2, CashKept
<1> QED
  BY <1>a, <1>4, <1>5, <1>6, <1>7, <1>8, <1>9, <1>10, <1>11, <1>12 DEF Next

-------------------------------------------------------------------------------
(***************************************************************************)
(* The protocol's fees and the vault                                       *)
(***************************************************************************)

\* FeesCovered is inductive together with what missing counts from.
FeesInv ==
  /\ missing \in Int
  /\ FeesCovered
  /\ pool.accrued_protocol_fees <= vault => missing = 0

\* An instruction that leaves the fees in the vault settles the matter; any other
\* keeps them covered if what it takes from the fees (c) is no less than what it
\* takes from the vault, beside loans, interest received and what a hook moves.
LEMMA FeesKept ==
  ASSUME TypeInv, TypeInv', RecordTypes, FeesInv, Record,
         NEW dd, NEW db, NEW c, NEW dv, NEW dr, NEW dt, NEW dh,
         Moves(dd, db, c, dv, dr, dt, dh),
         pool'.accrued_protocol_fees <= vault' \/ 0 - c <= dv + db - dr + dh
  PROVE  FeesInv'
<1> DEFINE B == pool.total_borrows
           E == pool.total_interest_earned
           F == pool.accrued_protocol_fees
           AE == AccruedPool.total_interest_earned
           AF == AccruedPool.accrued_protocol_fees
           R == Received
<1>1. B \in Nat /\ E \in Nat /\ F \in Nat /\ vault \in Nat /\ R \in Nat
  BY CashTypes
<1>2. AE \in Nat /\ AF \in Nat /\ AE >= E
  BY AccruedPoolNumbers, AccruedPoolFacts, WordTypes DEF Moves, Instruction, Pool, AccrualOf
<1>3. booked \in Nat /\ missing \in Int /\ diverted \in Int
  BY DEF RecordTypes, FeesInv
<1>4. booked' = booked + (AE - E) + (AF - F)
  BY <1>3, InstructionRecord DEF Moves
<1>5. F <= vault + B + missing
  BY DEF FeesInv, FeesCovered
<1>6. /\ pool'.total_borrows = B + db /\ pool'.accrued_protocol_fees = AF - c
      /\ Received' = R + dr /\ vault' = vault + dv /\ diverted' = diverted + dh
      /\ db \in Int /\ c \in Int /\ dv \in Int /\ dr \in Int /\ dh \in Int
  BY DEF Moves
<1>7. B + db \in Nat
  <2>1. pool'.total_borrows \in Nat
    BY WordTypes DEF TypeInv, TypeOK, Pool
  <2> QED
    BY <1>6, <2>1
<1>8. missing' = IF pool'.accrued_protocol_fees <= vault' THEN 0
                ELSE missing + (booked' - booked) - (Received' - Received)
                       + (diverted' - diverted)
  BY DEF Record
<1> HIDE DEF B, E, F, AE, AF
<1>9. booked' - booked = (AE - E) + (AF - F)
  BY <1>1, <1>2, <1>3, <1>4
<1>10. Received' - Received = dr /\ diverted' - diverted = dh
  BY <1>1, <1>3, <1>6
<1> HIDE DEF R
<1>11. missing' = IF AF - c <= vault + dv THEN 0
                 ELSE missing + ((AE - E) + (AF - F)) - dr + dh
  BY <1>6, <1>8, <1>9, <1>10
<1>12. CASE AF - c <= vault + dv
  <2>1. missing' = 0
    BY <1>11, <1>12
  <2>2. AF - c <= (vault + dv) + (B + db) + 0
    BY <1>1, <1>2, <1>6, <1>7, <1>12
  <2> QED
    BY <1>6, <2>1, <2>2 DEF FeesInv, FeesCovered
<1>13. CASE ~(AF - c <= vault + dv)
  <2>1. 0 - c <= dv + db - dr + dh
    BY <1>6, <1>13
  <2>2. missing' = missing + ((AE - E) + (AF - F)) - dr + dh
    BY <1>11, <1>13
  <2>3. missing + ((AE - E) + (AF - F)) - dr + dh \in Int
    BY <1>1, <1>2, <1>3, <1>6
  <2>4. AF - c <= (vault + dv) + (B + db) + (missing + ((AE - E) + (AF - F)) - dr + dh)
    BY <1>1, <1>2, <1>3, <1>5, <1>6, <2>1
  <2> QED
    BY <1>6, <1>13, <2>2, <2>3, <2>4 DEF FeesInv, FeesCovered
<1> QED
  BY <1>12, <1>13

\* A step that books nothing and leaves the loans and the fees alone, or the fees
\* at zero, keeps them covered.
LEMMA FeesUntouched ==
  ASSUME TypeInv, TypeInv', RecordTypes, FeesInv, Record,
         booked' = booked, borrower' = borrower,
         \/ pool' = pool /\ vault' >= vault
         \/ pool'.accrued_protocol_fees = 0
  PROVE  FeesInv'
<1>1. /\ pool'.total_borrows \in Nat /\ pool'.accrued_protocol_fees \in Nat
      /\ vault' \in Nat
  BY WordTypes DEF TypeInv, TypeOK, Pool
<1>2. /\ vault \in Nat /\ Received \in Nat /\ booked \in Nat /\ missing \in Int
      /\ pool.total_borrows \in Nat /\ pool.accrued_protocol_fees \in Nat
  BY CashTypes DEF RecordTypes, FeesInv
<1>3. booked' - booked = 0 /\ Received' - Received = 0 /\ diverted' - diverted = 0
  <2>1. Received' = Received /\ diverted' = diverted /\ diverted \in Int
    BY NoHookAsked DEF Received
  <2> QED
    BY <1>2, <2>1
<1>4. missing' = IF pool'.accrued_protocol_fees <= vault' THEN 0
                ELSE missing + (booked' - booked) - (Received' - Received)
                       + (diverted' - diverted)
  BY DEF Record
<1>5. missing' = IF pool'.accrued_protocol_fees <= vault' THEN 0 ELSE missing
  BY <1>2, <1>3, <1>4
<1>6. CASE pool'.accrued_protocol_fees <= vault'
  BY <1>1, <1>5, <1>6 DEF FeesInv, FeesCovered
<1>7. CASE ~(pool'.accrued_protocol_fees <= vault')
  <2>1. pool' = pool /\ vault' >= vault
    BY <1>1, <1>7
  <2>2. missing' = missing
    BY <1>5, <1>7
  <2>3. pool.accrued_protocol_fees <= vault + pool.total_borrows + missing
    BY DEF FeesInv, FeesCovered
  <2>4. pool.accrued_protocol_fees <= vault' + pool.total_borrows + missing
    BY <1>1, <1>2, <2>1, <2>3
  <2> QED
    BY <1>2, <1>7, <2>1, <2>2, <2>4 DEF FeesInv, FeesCovered
<1> QED
  BY <1>6, <1>7

\* FeesInv is inductive.
LEMMA FeesInvNext ==
  ASSUME TypeInv, TypeInv', LedgerInv, RecordTypes, FeesInv,
         [LedgerNext]_ledgerVars
  PROVE  FeesInv'
<1>1. CASE UNCHANGED ledgerVars
  BY <1>1 DEF ledgerVars, FeesInv, FeesCovered
<1> SUFFICES ASSUME LedgerNext PROVE FeesInv'
  BY <1>1
<1>a. Next /\ Record
  BY DEF LedgerNext
<1>2. vault \in Nat
  BY DEF TypeInv, TypeOK
<1>3. ASSUME NEW r \in FeeRecipients, InitializeProtocol(r) PROVE FeesInv'
  <2>1. UNCHANGED <<clock, pool, borrower, vault>>
    BY <1>3 DEF InitializeProtocol
  <2>2. booked' = booked /\ vault' >= vault
    BY <1>a, <1>2, <2>1, QuietRecord
  <2> QED
    BY <1>a, <2>1, <2>2, FeesUntouched
<1>4. ASSUME NEW u \in Users, NEW amount \in TopUps, TopUpVault(u, amount)
      PROVE  FeesInv'
  <2>1. UNCHANGED <<clock, pool, borrower>> /\ vault' = vault + amount
    BY <1>4 DEF TopUpVault
  <2>2. amount \in Nat
    BY CoreAssumption, WordTypes
  <2>3. booked' = booked /\ vault' >= vault
    BY <1>a, <1>2, <2>1, <2>2, QuietRecord
  <2> QED
    BY <1>a, <2>1, <2>3, FeesUntouched
<1>5. CASE Tick
  <2>1. UNCHANGED <<pool, borrower, vault, booked>>
    BY <1>a, <1>5, TickRecord
  <2>2. vault' >= vault
    BY <1>2, <2>1
  <2> QED
    BY <1>a, <2>1, <2>2, FeesUntouched
<1>6. ASSUME NEW h \in HookPrograms, NEW bips \in InterestBips,
             NEW term \in TermSeconds, NEW reserve \in ReserveRatioBips,
             NEW window \in DepositWindowEnds,
             InitializePool(h, bips, term, reserve, window)
      PROVE  FeesInv'
  <2>1. /\ pool = NoPool /\ UNCHANGED <<clock, borrower, vault>>
        /\ pool'.accrued_protocol_fees = 0
    BY <1>6 DEF InitializePool, LedgerInv, EmptyBeforePool
  <2>2. pool.total_borrows = 0
    BY <2>1 DEF NoPool
  <2>3. booked' = booked
    BY <1>a, <2>1, <2>2, QuietRecord
  <2> QED
    BY <1>a, <2>1, <2>3, FeesUntouched
<1>7. ASSUME NEW l \in Lenders, NEW amount \in Amounts, Deposit(l, amount)
      PROVE  FeesInv'
  <2>1. Moves(amount, 0, 0, amount, 0, 0, 0) /\ amount \in Nat
    BY <1>a, <1>7, DepositMoves
  <2>2. 0 - 0 <= amount + 0 - 0 + 0
    BY <2>1
  <2> QED
    BY <1>a, <2>1, <2>2, FeesKept
<1>8. ASSUME NEW a \in Agents, NEW amount \in Amounts, NEW h \in HookPrograms,
             NEW reply \in HookReplies, Borrow(a, amount, h, reply)
      PROVE  FeesInv'
  <2>1. PICK k \in Nat, d \in Nat : Moves(0, k, 0, 0 - (k + d), 0, 0, d)
    BY <1>a, <1>8, BorrowMoves
  <2>2. 0 - 0 <= (0 - (k + d)) + k - 0 + d
    OBVIOUS
  <2> QED
    BY <1>a, <2>1, <2>2, FeesKept
<1>9. ASSUME NEW a \in Agents, NEW payer \in Users, Repay(a, payer)
      PROVE  FeesInv'
  <2>1. PICK pr \in Nat, i \in Nat : Moves(0, 0 - pr, 0, pr + i, i, 0, 0)
    BY <1>a, <1>9, RepayMoves
  <2>2. 0 - 0 <= (pr + i) + (0 - pr) - i + 0
    OBVIOUS
  <2> QED
    BY <1>a, <2>1, <2>2, FeesKept
<1>10. ASSUME NEW l \in Lenders, Withdraw(l) PROVE FeesInv'
  <2>1. PICK d \in Int, dv \in Int : Moves(0 - d, 0, 0, dv, 0, (0 - dv) - d, 0)
    BY <1>a, <1>10, WithdrawMoves
  <2>2. pool'.accrued_protocol_fees <= vault'
    <3> DEFINE f == AccruedPool.accrued_protocol_fees
               y == Payout(lender[l].scaled_deposit, AccruedPool.scale_factor)
    <3>1. pool'.accrued_protocol_fees = f
      BY <1>10, WithdrawEffect
    <3>2. y <= vault - f /\ vault' = vault - y
      BY <1>10 DEF Withdraw, Withdrawable
    <3>3. f \in Nat /\ y \in Nat
      <4>1. CanAccrue
        BY <1>10 DEF Withdraw
      <4>2. f \in Nat /\ AccruedPool.scale_factor \in Nat
        BY <4>1, AccruedPoolNumbers
      <4>3. lender[l].scaled_deposit \in Nat
        BY WordTypes DEF TypeInv, TypeOK, LenderPosition
      <4> QED
        BY <4>2, <4>3, PayoutBounds
    <3> HIDE DEF f, y
    <3>4. f <= vault - y
      BY <1>2, <3>2, <3>3
    <3> QED
      BY <3>1, <3>2, <3>4
  <2> QED
    BY <1>a, <2>1, <2>2, FeesKept
<1>11. ASSUME NEW r \in FeeRecipients, ClaimProtocolFees(r) PROVE FeesInv'
  <2>1. PICK f \in Nat : Moves(0, 0, f, 0 - f, 0, 0, 0)
    BY <1>a, <1>11, ClaimMoves
  <2>2. 0 - f <= (0 - f) + 0 - 0 + 0
    OBVIOUS
  <2> QED
    BY <1>a, <2>1, <2>2, FeesKept
<1> QED
  BY <1>a, <1>3, <1>4, <1>5, <1>6, <1>7, <1>8, <1>9, <1>10, <1>11 DEF Next

-------------------------------------------------------------------------------
(***************************************************************************)
(* Interest booked and interest charged                                    *)
(***************************************************************************)

\* What each agent is charged follows the token-seconds it has had on loan.
ChargedAsExposed(a) ==
  /\ borrower[a].status = "None" => exposure[a] = 0
  /\ borrower[a].status = "Active" =>
       /\ borrower[a].accrued_interest = 0
       /\ exposure[a] = borrower[a].principal
                          * (clock - borrower[a].last_accrual_timestamp)
  /\ borrower[a].status = "Repaid" =>
       LET earned == borrower[a].annual_interest_bips * exposure[a]
           paid == Unit * borrower[a].accrued_interest
       IN  paid <= earned /\ earned < paid + Unit

\* What the pool has booked follows the token-seconds it has booked it on.
BookedAsCounted ==
  LET counted == pool.min_interest_bips * SecondsBooked
  IN  Unit * booked <= counted /\ counted <= Unit * booked + Unit * accruals

\* A pool has a date, and nothing is booked before there is one.
DatedPool ==
  IF pool.initialized THEN pool.last_accrual_timestamp >= 1
  ELSE SecondsBooked = 0 /\ booked = 0

DriftInv ==
  /\ exposure \in [Agents -> Nat] /\ accruals \in Nat
  /\ Total(exposure) = SecondsLent
  /\ \A a \in Agents : ChargedAsExposed(a)
  /\ BookedAsCounted
  /\ DatedPool

LentIn == [s \in DOMAIN seconds |-> seconds[s].lent]
BookedIn == [s \in DOMAIN seconds |-> seconds[s].booked]

\* Totals over the seconds gone by are numbers.
LEMMA SecondsTypes ==
  ASSUME TypeInv, RecordTypes
  PROVE  /\ DOMAIN seconds = 1 .. clock - 1 /\ clock \in Nat \ {0}
         /\ IsFiniteSet(DOMAIN seconds)
         /\ LentIn \in [DOMAIN seconds -> Nat] /\ BookedIn \in [DOMAIN seconds -> Nat]
         /\ SecondsLent = Total(LentIn) /\ SecondsBooked = Total(BookedIn)
         /\ SecondsLent \in Nat /\ SecondsBooked \in Nat
<1>1. /\ DOMAIN seconds = 1 .. clock - 1 /\ Len(seconds) \in Nat /\ Len(seconds) = clock - 1
      /\ \A s \in DOMAIN seconds : seconds[s] \in Second
  BY LenProperties DEF RecordTypes
<1>2. clock \in Nat \ {0}
  BY <1>1 DEF TypeInv, TypeOK
<1>3. IsFiniteSet(DOMAIN seconds)
  BY <1>1, <1>2, FS_Interval
<1>4. LentIn \in [DOMAIN seconds -> Nat] /\ BookedIn \in [DOMAIN seconds -> Nat]
  BY <1>1 DEF LentIn, BookedIn, Second
<1>5. SecondsLent = Total(LentIn) /\ SecondsBooked = Total(BookedIn)
  BY DEF SecondsLent, SecondsBooked, LentIn, BookedIn
<1> QED
  BY <1>1, <1>2, <1>3, <1>4, <1>5, TotalType

\* A tick adds what is lent in the second, and books nothing.
LEMMA TotalsAfterTick ==
  ASSUME TypeInv, RecordTypes, Record, Tick
  PROVE  /\ SecondsLent' = SecondsLent + pool.total_borrows
         /\ SecondsBooked' = SecondsBooked
<1>1. /\ DOMAIN seconds = 1 .. clock - 1 /\ clock \in Nat \ {0}
      /\ LentIn \in [DOMAIN seconds -> Nat] /\ BookedIn \in [DOMAIN seconds -> Nat]
      /\ SecondsLent = Total(LentIn) /\ SecondsBooked = Total(BookedIn)
      /\ SecondsLent \in Nat /\ SecondsBooked \in Nat
  BY SecondsTypes
<1>2. /\ DOMAIN seconds' = 1 .. clock
      /\ \A s \in 1 .. clock - 1 : seconds'[s] = seconds[s]
      /\ seconds'[clock] = [lent |-> pool.total_borrows,
                            funded |-> pool.total_deposits > 0, booked |-> 0]
  BY TickRecord
<1> DEFINE S == 1 .. clock - 1
           T == 1 .. clock
           f == LentIn
           g == LentIn'
           h == BookedIn
           k == BookedIn'
<1>3. /\ T = S \union {clock} /\ clock \notin S /\ IsFiniteSet(T)
      /\ pool.total_borrows \in Nat
  <2>1. T = S \union {clock} /\ clock \notin S
    BY <1>1
  <2>2. IsFiniteSet(T)
    BY <1>1, FS_Interval
  <2> QED
    BY <2>1, <2>2, WordTypes DEF TypeInv, TypeOK, Pool
<1>4. /\ DOMAIN g = T /\ g[clock] = pool.total_borrows /\ \A s \in S : g[s] = f[s]
      /\ DOMAIN k = T /\ k[clock] = 0 /\ \A s \in S : k[s] = h[s]
  <2>1. clock \in T /\ S \subseteq T
    BY <1>3
  <2>2. /\ seconds'[clock].lent = pool.total_borrows
        /\ seconds'[clock].booked = 0
    BY <1>2
  <2>3. /\ DOMAIN seconds = S /\ DOMAIN seconds' = T
        /\ \A s \in S : seconds'[s] = seconds[s]
    BY <1>1, <1>2
  <2> HIDE DEF S, T
  <2> QED
    BY <2>1, <2>2, <2>3 DEF LentIn, BookedIn
<1>5. f \in [S -> Nat] /\ h \in [S -> Nat]
  BY <1>1
<1>6. g = [s \in T |-> g[s]] /\ k = [s \in T |-> k[s]]
  BY <1>4 DEF LentIn, BookedIn
<1>7. SecondsLent' = Total(g) /\ SecondsBooked' = Total(k)
  BY DEF SecondsLent, SecondsBooked, LentIn, BookedIn
<1> HIDE DEF S, T, f, g, h, k
<1>8. g \in [T -> Nat] /\ k \in [T -> Nat]
  BY <1>3, <1>4, <1>5, <1>6
<1>9. Total(g) = Total(f) + g[clock]
  BY <1>3, <1>4, <1>5, <1>8, TotalExtended
<1>10. Total(k) = Total(h) + k[clock]
  BY <1>3, <1>4, <1>5, <1>8, TotalExtended
<1> QED
  BY <1>1, <1>4, <1>7, <1>9, <1>10 DEF f, h

\* An accrual books each second since the last one on what is lent now.
LEMMA TotalsAfterBooking ==
  ASSUME TypeInv, SecondsInv, Instruction, Record, Accrues(pool, clock),
         pool.last_accrual_timestamp >= 1
  PROVE  /\ SecondsLent' = SecondsLent
         /\ SecondsBooked' = SecondsBooked
              + pool.total_borrows * (clock - pool.last_accrual_timestamp)
<1> DEFINE last == pool.last_accrual_timestamp
           B == pool.total_borrows
<1>1. RecordTypes
  BY DEF SecondsInv
<1>2. /\ DOMAIN seconds = 1 .. clock - 1 /\ clock \in Nat \ {0}
      /\ IsFiniteSet(DOMAIN seconds)
      /\ LentIn \in [DOMAIN seconds -> Nat] /\ BookedIn \in [DOMAIN seconds -> Nat]
      /\ SecondsLent = Total(LentIn) /\ SecondsBooked = Total(BookedIn)
  BY <1>1, SecondsTypes
<1>3. seconds' = [s \in DOMAIN seconds |->
                    IF s >= last THEN [seconds[s] EXCEPT !.booked = @ + B]
                    ELSE seconds[s]]
  BY <1>1, InstructionRecord DEF RecordTypes
<1>4. last \in Nat /\ last <= clock /\ B \in Nat
  BY WordTypes DEF TypeInv, TypeOK, Pool
<1>5. \A s \in DOMAIN seconds : seconds[s] \in Second
  BY <1>1, LenProperties DEF RecordTypes
<1> DEFINE S == DOMAIN seconds
           P == last .. clock - 1
           h == [s \in S |-> IF s \in P THEN B ELSE 0]
<1>6. P \in SUBSET S /\ IsFiniteSet(P) /\ Cardinality(P) = clock - last
  <2>1. P \subseteq S
    BY <1>2, <1>4
  <2>2. IsFiniteSet(P) /\ Cardinality(P) = IF last > clock - 1 THEN 0
                                           ELSE (clock - 1) - last + 1
    <3>1. last \in Int /\ clock - 1 \in Int
      BY <1>2, <1>4
    <3> HIDE DEF last
    <3> QED
      BY <3>1, FS_Interval
  <2> QED
    BY <1>2, <1>4, <2>1, <2>2
<1>7. h \in [S -> Nat]
  BY <1>4
<1> HIDE DEF last, B
<1>8. ASSUME NEW s \in S
      PROVE  /\ seconds'[s].lent = seconds[s].lent
             /\ seconds'[s].booked = seconds[s].booked + h[s]
  <2> DEFINE r == seconds[s]
  <2>1. r \in Second /\ (s \in P <=> s >= last) /\ h[s] = IF s \in P THEN B ELSE 0
    BY <1>2, <1>4, <1>5
  <2>2. seconds'[s] = IF s >= last THEN [r EXCEPT !.booked = r.booked + B] ELSE r
    BY <1>3
  <2> HIDE DEF r, h
  <2>3. LET t == [r EXCEPT !.booked = r.booked + B]
        IN  t.lent = r.lent /\ t.booked = r.booked + B
    BY <2>1 DEF Second
  <2>4. r.booked \in Nat
    BY <2>1 DEF Second
  <2>5. seconds'[s].lent = r.lent /\ seconds'[s].booked = r.booked + h[s]
    BY <2>1, <2>2, <2>3, <2>4
  <2> QED
    BY <2>5 DEF r
<1>9. DOMAIN seconds' = S
  BY <1>3
<1>10. LentIn' = LentIn
  BY <1>8, <1>9 DEF LentIn
<1>11. BookedIn' = [s \in S |-> BookedIn[s] + h[s]]
  BY <1>8, <1>9 DEF BookedIn
<1>12. SecondsLent' = Total(LentIn') /\ SecondsBooked' = Total(BookedIn')
  BY DEF SecondsLent, SecondsBooked, LentIn, BookedIn
<1>13. Total(h) = Cardinality(P) * B
  <2> HIDE DEF S, P
  <2> QED
    BY <1>4, <1>6, TotalConstantOn
<1> HIDE DEF S, P, h
<1>14. Total([s \in S |-> BookedIn[s] + h[s]]) = Total(BookedIn) + Total(h)
  BY <1>2, <1>7, TotalSum DEF S
<1>15. Cardinality(P) * B = B * (clock - last)
  BY <1>2, <1>4, <1>6
<1> QED
  BY <1>2, <1>10, <1>11, <1>12, <1>13, <1>14, <1>15 DEF last, B

\* What an accrual books, when no cast wraps: the gross interest, whole.
LEMMA BookedIsGross ==
  ASSUME TypeInv, booked \in Nat, GrossInWord, Instruction, Record,
         Accrues(pool, clock)
  PROVE  LET g == Gross(pool, clock)
         IN  /\ g \in Nat
             /\ booked' = booked + g
<1> DEFINE g == Gross(pool, clock)
           c == ProtocolCut(g)
           e == pool.total_interest_earned
           f == pool.accrued_protocol_fees
<1>1. pool \in Pool /\ clock \in Nat /\ pool.last_accrual_timestamp <= clock
  BY DEF TypeInv, TypeOK
<1>2. g \in Nat /\ g <= U64Max
  BY <1>1, GrossType DEF Instruction, CanAccrue, GrossInWord
<1>3. e \in Nat /\ f \in Nat
  BY <1>1, WordTypes DEF Pool
<1>4. /\ AccruedPool.total_interest_earned = e + AsU64(g - c)
      /\ AccruedPool.accrued_protocol_fees = f + AsU64(c)
  BY <1>1 DEF AccruedPool, Accrued, Booked, EarnedAt, FeesAt, Pool
<1>5. booked' = booked + (AccruedPool.total_interest_earned - e)
                  + (AccruedPool.accrued_protocol_fees - f)
  BY InstructionRecord
<1> HIDE DEF g
<1>6. c \in Nat /\ g - c \in Nat /\ AsU64(c) = c /\ AsU64(g - c) = g - c
  BY <1>2, CutOfGross
<1> HIDE DEF c, e, f
<1>7. booked' = booked + g
  BY <1>2, <1>3, <1>4, <1>5, <1>6
<1> QED
  BY <1>2, <1>7 DEF g

\* An accrual books at the pool's rate on the seconds it counts, rounded once.
LEMMA CountedAfterBooking ==
  ASSUME NEW rate \in Nat, NEW b \in Nat, NEW n \in Nat, NEW counted \in Nat,
         NEW g \in Nat, NEW more \in Nat,
         Unit * b <= rate * counted, rate * counted <= Unit * b + Unit * n,
         Unit * g <= rate * more, rate * more < Unit * g + Unit
  PROVE  /\ Unit * (b + g) <= rate * (counted + more)
         /\ rate * (counted + more) <= Unit * (b + g) + Unit * (n + 1)
<1>1. Unit \in Nat
  BY UnitType
<1>2. /\ Unit * (b + g) = Unit * b + Unit * g
      /\ rate * (counted + more) = rate * counted + rate * more
      /\ Unit * (n + 1) = Unit * n + Unit
  BY <1>1
<1>3. /\ Unit * b \in Nat /\ Unit * g \in Nat /\ Unit * n \in Nat
      /\ rate * counted \in Nat /\ rate * more \in Nat
  BY <1>1
<1> QED
  BY <1>1, <1>2, <1>3

\* The pool's side of DriftInv after an instruction that accrues.
LEMMA BookedAfterInstruction ==
  ASSUME TypeInv, SecondsInv, DriftInv, GrossInWord, Instruction, Record,
         SameTerms(pool, pool')
  PROVE  /\ exposure' = exposure /\ accruals' \in Nat
         /\ SecondsLent' = SecondsLent
         /\ BookedAsCounted'
         /\ DatedPool'
<1> DEFINE rate == pool.min_interest_bips
           last == pool.last_accrual_timestamp
           B == pool.total_borrows
           g == Gross(pool, clock)
           more == B * (clock - last)
<1>1. /\ RecordTypes /\ booked \in Nat /\ pool.initialized /\ last >= 1
      /\ accruals \in Nat /\ BookedAsCounted
  BY DEF SecondsInv, RecordTypes, Instruction, CanAccrue, DriftInv, DatedPool
<1>2. /\ rate \in Nat /\ B \in Nat /\ last \in Nat /\ clock \in Nat /\ last <= clock
  BY WordTypes DEF TypeInv, TypeOK, Pool
<1>3. pool'.min_interest_bips = rate /\ pool'.initialized
  BY <1>1 DEF SameTerms
<1>4. exposure' = exposure /\ clock' = clock
  BY <1>1, InstructionRecord DEF Instruction
<1>5. SecondsBooked \in Nat
  BY <1>1, SecondsTypes
<1>6. CASE Accrues(pool, clock)
  <2>1. /\ accruals' = accruals + 1 /\ pool'.last_accrual_timestamp = clock
    BY <1>1, <1>6, InstructionRecord
  <2>2. /\ SecondsLent' = SecondsLent
        /\ SecondsBooked' = SecondsBooked + more
    BY <1>1, <1>6, TotalsAfterBooking
  <2>3. g \in Nat /\ booked' = booked + g
    BY <1>1, <1>6, BookedIsGross
  <2>4. more \in Nat /\ Unit * g <= rate * more /\ rate * more < Unit * g + Unit
    <3>1. clock - last \in Nat
      BY <1>2
    <3> HIDE DEF rate, B, last
    <3>2. more \in Nat
      BY <1>2, <3>1
    <3>3. g = Interest(B, rate, clock - last)
      BY DEF Gross, B, rate, last
    <3> QED
      BY <1>2, <3>1, <3>2, <3>3, InterestBounds DEF Unit
  <2>5. /\ Unit * booked <= rate * SecondsBooked
        /\ rate * SecondsBooked <= Unit * booked + Unit * accruals
    BY <1>1 DEF BookedAsCounted
  <2> HIDE DEF rate, B, last, g, more
  <2>6. /\ Unit * (booked + g) <= rate * (SecondsBooked + more)
        /\ rate * (SecondsBooked + more) <= Unit * (booked + g) + Unit * (accruals + 1)
    BY <1>1, <1>2, <1>5, <2>3, <2>4, <2>5, CountedAfterBooking
  <2>7. BookedAsCounted'
    BY <1>3, <2>1, <2>2, <2>3, <2>6 DEF BookedAsCounted, Unit
  <2>8. DatedPool'
    BY <1>1, <1>2, <1>3, <2>1 DEF DatedPool, last
  <2> QED
    BY <1>1, <1>4, <2>1, <2>2, <2>7, <2>8
<1>7. CASE ~Accrues(pool, clock)
  <2>1. /\ accruals' = accruals /\ seconds' = seconds /\ AccruedPool = pool
        /\ pool'.last_accrual_timestamp = last
    BY <1>1, <1>7, InstructionRecord
  <2>2. booked' = booked
    <3>1. booked' = booked
             + (AccruedPool.total_interest_earned - pool.total_interest_earned)
             + (AccruedPool.accrued_protocol_fees - pool.accrued_protocol_fees)
      BY <1>1, InstructionRecord
    <3>2. pool.total_interest_earned \in Nat /\ pool.accrued_protocol_fees \in Nat
      BY WordTypes DEF TypeInv, TypeOK, Pool
    <3> QED
      BY <1>1, <2>1, <3>1, <3>2
  <2>3. SecondsLent' = SecondsLent /\ SecondsBooked' = SecondsBooked
    BY <2>1 DEF SecondsLent, SecondsBooked
  <2> QED
    BY <1>1, <1>3, <1>4, <2>1, <2>2, <2>3 DEF BookedAsCounted, DatedPool, Unit
<1> QED
  BY <1>6, <1>7

\* An agent nothing happens to.
LEMMA ChargedKept ==
  ASSUME NEW a \in Agents, ChargedAsExposed(a), borrower'[a] = borrower[a],
         exposure' = exposure, clock' = clock
  PROVE  ChargedAsExposed(a)'
BY DEF ChargedAsExposed, Unit

\* An instruction other than borrow and repay.
LEMMA DriftAfterInstruction ==
  ASSUME TypeInv, SecondsInv, DriftInv, GrossInWord, Instruction, Record,
         SameTerms(pool, pool'), \A a \in Agents : ChargedAsExposed(a)'
  PROVE  DriftInv'
<1>1. /\ exposure' = exposure /\ accruals' \in Nat /\ SecondsLent' = SecondsLent
      /\ BookedAsCounted' /\ DatedPool'
  BY BookedAfterInstruction
<1> QED
  BY <1>1 DEF DriftInv

\* A loan begins without exposure.
LEMMA DriftAfterBorrow ==
  ASSUME TypeInv, SecondsInv, DriftInv, GrossInWord, Record,
         NEW a \in Agents, NEW amount \in Amounts, NEW h \in HookPrograms,
         NEW reply \in HookReplies, Borrow(a, amount, h, reply)
  PROVE  DriftInv'
<1>1. Instruction /\ AccruedPool \in Pool
  BY InstructionsAccrue, AccruedPoolNumbers DEF Instruction
<1>2. /\ pool' = [AccruedPool EXCEPT !.total_borrows = AccruedPool.total_borrows + amount]
      /\ borrower[a].status = "None"
      /\ borrower' = [borrower EXCEPT ![a] = Loan(amount, reply, clock)]
      /\ clock' = clock
  BY DEF Borrow
<1>3. SameTerms(pool, pool')
  <2>1. SameTerms(pool, AccruedPool)
    BY AccrualKeepsTerms DEF TypeInv, TypeOK
  <2> QED
    BY <1>1, <1>2, <2>1 DEF SameTerms, Pool
<1>4. exposure' = exposure
  BY <1>1, <1>3, BookedAfterInstruction
<1>5. ASSUME NEW b \in Agents PROVE ChargedAsExposed(b)'
  <2>1. CASE b = a
    <3>1. /\ borrower'[b] = Loan(amount, reply, clock) /\ exposure[b] = 0
      BY <1>2, <2>1 DEF DriftInv, ChargedAsExposed, TypeInv, TypeOK
    <3>2. /\ borrower'[b].status = "Active" /\ borrower'[b].accrued_interest = 0
          /\ borrower'[b].principal = amount
          /\ borrower'[b].last_accrual_timestamp = clock
      BY <3>1 DEF Loan
    <3>3. amount \in Nat /\ clock \in Nat
      BY BorrowEffect DEF TypeInv, TypeOK
    <3>4. amount * (clock - clock) = 0
      BY <3>3
    <3> QED
      BY <1>2, <1>4, <3>1, <3>2, <3>4 DEF ChargedAsExposed
  <2>2. CASE b # a
    <3>1. borrower'[b] = borrower[b]
      BY <1>2, <2>2 DEF TypeInv, TypeOK
    <3> QED
      BY <1>2, <1>4, <3>1, ChargedKept DEF DriftInv
  <2> QED
    BY <2>1, <2>2
<1> QED
  BY <1>1, <1>3, <1>5, DriftAfterInstruction

\* A repayment charges the exposure of the loan, rounded down.
LEMMA DriftAfterRepay ==
  ASSUME TypeInv, SecondsInv, DriftInv, InterestInWords, Record,
         NEW a \in Agents, NEW payer \in Users, Repay(a, payer)
  PROVE  DriftInv'
<1> DEFINE settled == Settled(borrower[a], clock)
           pos == borrower[a]
           i == PositionInterest(pos, clock)
<1>1. Instruction
  BY InstructionsAccrue
<1>2. /\ RepayFits(pos, AccruedPool, clock) /\ pos.status = "Active"
      /\ borrower' = [borrower EXCEPT ![a] = settled] /\ clock' = clock
  BY DEF Repay
<1>3. SameTerms(pool, pool')
  <2>1. HookFree
    BY DEF HookFree
  <2> QED
    BY <2>1, HookFreeKeepsTerms
<1>4. exposure' = exposure
  BY <1>1, <1>3, BookedAfterInstruction DEF InterestInWords
<1>5. /\ pos \in BorrowerPosition /\ clock \in Nat
      /\ pos.last_accrual_timestamp \in Nat /\ pos.last_accrual_timestamp <= clock
      /\ pos.principal \in Nat /\ pos.annual_interest_bips \in Nat
  BY WordTypes DEF TypeInv, TypeOK, BorrowerPosition
<1>6. /\ pos.accrued_interest = 0
      /\ exposure[a] = pos.principal * (clock - pos.last_accrual_timestamp)
  BY <1>2 DEF DriftInv, ChargedAsExposed
<1>7. /\ i \in Nat /\ i <= U64Max
      /\ Unit * i <= pos.annual_interest_bips * exposure[a]
      /\ pos.annual_interest_bips * exposure[a] < Unit * i + Unit
  <2>1. clock - pos.last_accrual_timestamp \in Nat
    BY <1>5
  <2>2. i <= U64Max
    BY <1>2 DEF InterestInWords
  <2>3. i = Interest(pos.principal, pos.annual_interest_bips,
                     clock - pos.last_accrual_timestamp)
    BY DEF PositionInterest
  <2> HIDE DEF i, pos
  <2> QED
    BY <1>5, <1>6, <2>1, <2>2, <2>3, InterestBounds DEF Unit
<1>8. /\ settled.status = "Repaid"
      /\ settled.annual_interest_bips = pos.annual_interest_bips
      /\ settled.accrued_interest = i
  <2>1. AsU64(i) = i
    <3> HIDE DEF i
    <3> QED
      BY <1>7, AsU64Identity
  <2>2. settled = [pos EXCEPT !.status = "Repaid",
                              !.accrued_interest = pos.accrued_interest + AsU64(i),
                              !.last_accrual_timestamp = clock]
    BY DEF Settled
  <2> HIDE DEF i, pos, settled
  <2>3. /\ settled.status = "Repaid"
        /\ settled.annual_interest_bips = pos.annual_interest_bips
        /\ settled.accrued_interest = pos.accrued_interest + AsU64(i)
    BY <1>5, <2>2 DEF BorrowerPosition
  <2> QED
    BY <1>6, <1>7, <2>1, <2>3
<1> HIDE DEF i, settled
<1>9. ASSUME NEW b \in Agents PROVE ChargedAsExposed(b)'
  <2>1. CASE b = a
    <3>1. borrower'[b] = settled
      BY <1>2, <2>1 DEF TypeInv, TypeOK
    <3> QED
      BY <1>4, <1>7, <1>8, <2>1, <3>1 DEF ChargedAsExposed, Unit
  <2>2. CASE b # a
    <3>1. borrower'[b] = borrower[b]
      BY <1>2, <2>2 DEF TypeInv, TypeOK
    <3> QED
      BY <1>2, <1>4, <3>1, ChargedKept DEF DriftInv
  <2> QED
    BY <2>1, <2>2
<1> QED
  BY <1>1, <1>3, <1>9, DriftAfterInstruction DEF InterestInWords

\* A tick adds to what each agent is charged for what it has on loan.
LEMMA DriftAfterTick ==
  ASSUME TypeInv, LedgerInv, RecordTypes, DriftInv, Record, Tick
  PROVE  DriftInv'
<1>1. /\ clock' = clock + 1 /\ UNCHANGED <<pool, borrower, booked, accruals>>
      /\ exposure' = [a \in Agents |-> exposure[a] + Outstanding(a)]
  BY TickRecord
<1>2. /\ SecondsLent' = SecondsLent + pool.total_borrows
      /\ SecondsBooked' = SecondsBooked
  BY TotalsAfterTick
<1>3. /\ exposure \in [Agents -> Nat] /\ Borrowed \in [Agents -> Nat]
      /\ exposure' = [a \in Agents |-> exposure[a] + Borrowed[a]]
      /\ accruals' \in Nat
  BY <1>1, LedgerTypes DEF DriftInv, Borrowed
<1>4. exposure' \in [Agents -> Nat]
  BY <1>3
<1>5. Total(exposure') = Total(exposure) + Total(Borrowed)
  BY <1>3, UsersFinite, TotalSum
<1>6. Total(exposure') = SecondsLent'
  BY <1>2, <1>5, LedgerTotals DEF LedgerInv, DriftInv
<1>7. ASSUME NEW a \in Agents PROVE ChargedAsExposed(a)'
  <2> DEFINE p == borrower[a]
             k == p.principal
             last == p.last_accrual_timestamp
  <2>1. /\ ChargedAsExposed(a) /\ borrower'[a] = p
        /\ exposure'[a] = exposure[a] + Outstanding(a) /\ exposure[a] \in Nat
    BY <1>1, <1>3 DEF DriftInv
  <2>2. k \in Nat /\ last \in Nat /\ clock \in Nat /\ p \in BorrowerPosition
    BY WordTypes DEF TypeInv, TypeOK, BorrowerPosition
  <2>3. CASE p.status = "Active"
    <3>1. exposure'[a] = k * (clock - last) + k
      BY <2>1, <2>3 DEF Outstanding, ChargedAsExposed
    <3> HIDE DEF k, last
    <3>2. k * (clock - last) + k = k * ((clock + 1) - last)
      BY <2>2
    <3> QED
      BY <1>1, <2>1, <2>3, <3>1, <3>2 DEF ChargedAsExposed, k, last
  <2>4. CASE p.status # "Active"
    <3>1. Outstanding(a) = 0
      BY <2>4 DEF Outstanding
    <3>2. exposure'[a] = exposure[a]
      BY <2>1, <3>1
    <3> QED
      BY <2>1, <2>4, <3>2 DEF ChargedAsExposed, Unit
  <2> QED
    BY <2>3, <2>4
<1>8. BookedAsCounted' /\ DatedPool'
  BY <1>1, <1>2 DEF DriftInv, BookedAsCounted, DatedPool, Unit
<1> QED
  BY <1>3, <1>4, <1>6, <1>7, <1>8 DEF DriftInv

\* Steps of which nothing is recorded.
LEMMA DriftKept ==
  ASSUME DriftInv, UNCHANGED <<clock, borrower, seconds, exposure, booked, accruals>>,
         BookedAsCounted', DatedPool'
  PROVE  DriftInv'
<1>1. SecondsLent' = SecondsLent
  BY DEF SecondsLent
<1>2. \A a \in Agents : ChargedAsExposed(a)'
  BY ChargedKept DEF DriftInv
<1> QED
  BY <1>1, <1>2 DEF DriftInv

\* A pool begins with nothing booked.
LEMMA DriftAfterInitializePool ==
  ASSUME TypeInv, LedgerInv, RecordTypes, DriftInv, Record,
         NEW h \in HookPrograms, NEW bips \in InterestBips,
         NEW term \in TermSeconds, NEW reserve \in ReserveRatioBips,
         NEW window \in DepositWindowEnds,
         InitializePool(h, bips, term, reserve, window)
  PROVE  DriftInv'
<1>1. /\ ~pool.initialized /\ UNCHANGED <<clock, borrower>>
      /\ pool'.initialized /\ pool'.min_interest_bips = bips
      /\ pool'.last_accrual_timestamp = clock
  BY DEF InitializePool
<1>2. pool.total_borrows = 0
  BY <1>1 DEF LedgerInv, EmptyBeforePool, NoPool
<1>3. UNCHANGED <<seconds, booked, accruals, exposure>>
  BY <1>1, <1>2, QuietRecord
<1>4. SecondsBooked = 0 /\ booked = 0 /\ accruals \in Nat
  BY <1>1 DEF DriftInv, DatedPool
<1>5. SecondsBooked' = 0 /\ booked' = 0 /\ accruals' \in Nat
  BY <1>3, <1>4 DEF SecondsBooked
<1>6. bips \in Nat
  BY CoreAssumption, WordTypes
<1>7. BookedAsCounted'
  <2>1. /\ Unit * 0 = 0 /\ bips * 0 = 0 /\ 0 <= Unit * accruals'
    <3>1. \A n \in Nat : 0 <= Unit * n
      BY UnitType
    <3>2. Unit * 0 = 0 /\ bips * 0 = 0
      BY <1>6, UnitType
    <3> QED
      BY <1>5, <3>1, <3>2
  <2> QED
    BY <1>1, <1>5, <2>1, UnitType DEF BookedAsCounted, Unit
<1>8. DatedPool'
  <2>1. clock \in Nat \ {0}
    BY SecondsTypes
  <2>2. clock >= 1
    BY <2>1
  <2> QED
    BY <1>1, <2>2 DEF DatedPool
<1> QED
  BY <1>1, <1>3, <1>7, <1>8, DriftKept

\* DriftInv is inductive.
LEMMA DriftInvNext ==
  ASSUME TypeInv, LedgerInv, SecondsInv, DriftInv, InterestInWords,
         [LedgerNext]_ledgerVars
  PROVE  DriftInv'
<1>a. RecordTypes /\ GrossInWord
  BY DEF SecondsInv, InterestInWords
<1>1. ASSUME UNCHANGED <<clock, pool, borrower, seconds, exposure, booked, accruals>>
      PROVE  DriftInv'
  <2>1. SecondsBooked' = SecondsBooked
    BY <1>1 DEF SecondsBooked
  <2>2. BookedAsCounted' /\ DatedPool'
    BY <1>1, <2>1 DEF DriftInv, BookedAsCounted, DatedPool, Unit
  <2> QED
    BY <1>1, <2>2, DriftKept
<1>2. CASE UNCHANGED ledgerVars
  BY <1>1, <1>2 DEF ledgerVars
<1> SUFFICES ASSUME LedgerNext PROVE DriftInv'
  BY <1>2
<1>b. Next /\ Record
  BY DEF LedgerNext
<1>3. ASSUME Instruction, HookFree, borrower' = borrower PROVE DriftInv'
  <2>1. SameTerms(pool, pool')
    BY <1>3, HookFreeKeepsTerms
  <2>2. exposure' = exposure /\ clock' = clock
    BY <1>a, <1>b, <1>3, <2>1, BookedAfterInstruction DEF Instruction
  <2>3. \A a \in Agents : ChargedAsExposed(a)'
    BY <1>3, <2>2, ChargedKept DEF DriftInv
  <2> QED
    BY <1>a, <1>b, <1>3, <2>1, <2>3, DriftAfterInstruction
<1>4. ASSUME NEW r \in FeeRecipients, InitializeProtocol(r) PROVE DriftInv'
  <2>1. UNCHANGED <<clock, pool, borrower>>
    BY <1>4 DEF InitializeProtocol
  <2> QED
    BY <1>b, <1>1, <2>1, QuietRecord
<1>5. ASSUME NEW u \in Users, NEW amount \in TopUps, TopUpVault(u, amount)
      PROVE  DriftInv'
  <2>1. UNCHANGED <<clock, pool, borrower>>
    BY <1>5 DEF TopUpVault
  <2> QED
    BY <1>b, <1>1, <2>1, QuietRecord
<1>6. ASSUME NEW l \in Lenders, NEW amount \in Amounts, Deposit(l, amount)
      PROVE  DriftInv'
  <2>1. borrower' = borrower /\ HookFree
    BY <1>6 DEF Deposit, HookFree
  <2> QED
    BY <1>3, <1>6, <2>1, InstructionsAccrue
<1>7. ASSUME NEW l \in Lenders, Withdraw(l) PROVE DriftInv'
  <2>1. borrower' = borrower /\ HookFree
    BY <1>7 DEF Withdraw, HookFree
  <2> QED
    BY <1>3, <1>7, <2>1, InstructionsAccrue
<1>8. ASSUME NEW r \in FeeRecipients, ClaimProtocolFees(r) PROVE DriftInv'
  <2>1. borrower' = borrower /\ HookFree
    BY <1>8 DEF ClaimProtocolFees, HookFree
  <2> QED
    BY <1>3, <1>8, <2>1, InstructionsAccrue
<1> QED
  BY <1>a, <1>b, <1>4, <1>5, <1>6, <1>7, <1>8, DriftAfterTick, DriftAfterBorrow,
     DriftAfterRepay, DriftAfterInitializePool DEF Next

\* At first there is nothing to explain.
LEMMA DriftInvInit == LedgerInit => DriftInv
<1> SUFFICES ASSUME LedgerInit PROVE DriftInv
  OBVIOUS
<1>1. /\ seconds = <<>> /\ exposure = [a \in Agents |-> 0]
      /\ booked = 0 /\ accruals = 0 /\ pool = NoPool
      /\ borrower = [a \in Agents |-> NoLoan]
  BY DEF LedgerInit, Init
<1>2. exposure \in [Agents -> Nat] /\ Total(exposure) = 0
  BY <1>1, TotalZero
<1>3. SecondsLent = 0 /\ SecondsBooked = 0
  <2> DEFINE f == [s \in DOMAIN seconds |-> seconds[s].lent]
             g == [s \in DOMAIN seconds |-> seconds[s].booked]
             S == DOMAIN seconds
  <2>1. S = {}
    BY <1>1
  <2>2. f \in [S -> Nat] /\ g \in [S -> Nat]
    BY <2>1
  <2>3. SecondsLent = Total(f) /\ SecondsBooked = Total(g)
    BY DEF SecondsLent, SecondsBooked
  <2> HIDE DEF f, g, S
  <2> QED
    BY <2>1, <2>2, <2>3, TotalZero
<1>4. \A a \in Agents : ChargedAsExposed(a)
  <2>1. NoLoan.status = "None"
    BY DEF NoLoan
  <2> QED
    BY <1>1, <2>1 DEF ChargedAsExposed
<1>5. pool.min_interest_bips = 0 /\ ~pool.initialized
  BY <1>1 DEF NoPool
<1>6. Unit * 0 = 0 /\ 0 * 0 = 0 /\ 0 <= Unit * 0 + Unit * 0
  BY UnitType
<1>7. BookedAsCounted
  BY <1>1, <1>3, <1>5, <1>6, UnitType DEF BookedAsCounted
<1>8. DatedPool
  BY <1>1, <1>3, <1>5 DEF DatedPool
<1> QED
  BY <1>1, <1>2, <1>3, <1>4, <1>7, <1>8 DEF DriftInv

\* One loan: its charge is its exposure at its rate, rounded once.
LEMMA ChargeBounds ==
  ASSUME TypeInv, RecordTypes, DriftInv, NEW a \in Agents
  PROVE  LET earned == borrower[a].annual_interest_bips * exposure[a]
         IN  /\ Charge(a) \in Nat /\ earned \in Nat
             /\ Unit * Charge(a) <= earned
             /\ earned <= Unit * Charge(a) + (IF a \in Loans THEN Unit ELSE 0)
<1> DEFINE p == borrower[a]
           r == p.annual_interest_bips
           k == p.principal
           last == p.last_accrual_timestamp
           e == exposure[a]
           earned == r * e
<1>1. /\ p \in BorrowerPosition /\ k \in Nat /\ r \in Nat /\ last \in Nat
      /\ p.accrued_interest \in Nat
      /\ clock \in Nat /\ last <= clock /\ Unit \in Nat /\ e \in Nat
      /\ ChargedAsExposed(a)
  BY WordTypes, UnitType DEF TypeInv, TypeOK, BorrowerPosition, DriftInv
<1>2. earned \in Nat
  <2> HIDE DEF r, e
  <2> QED
    BY <1>1
<1>3. a \in Loans <=> p.status # "None"
  BY DEF Loans
<1>4. CASE p.status = "None"
  <2>1. Charge(a) = 0 /\ e = 0 /\ a \notin Loans
    BY <1>1, <1>3, <1>4 DEF Charge, ChargedAsExposed
  <2>2. Unit * 0 = 0 /\ r * 0 = 0
    <3> HIDE DEF r
    <3> QED
      BY <1>1
  <2>3. earned = 0 /\ Unit * Charge(a) = 0
    BY <2>1, <2>2
  <2> HIDE DEF earned
  <2> QED
    BY <1>2, <2>1, <2>3 DEF earned
<1>5. CASE p.status = "Active"
  <2> DEFINE c == PositionInterest(p, clock)
  <2>1. Charge(a) = c /\ e = k * (clock - last) /\ a \in Loans
    BY <1>1, <1>3, <1>5 DEF Charge, ChargedAsExposed
  <2>2. c = Interest(k, r, clock - last)
    BY DEF PositionInterest
  <2>3. clock - last \in Nat
    BY <1>1
  <2> HIDE DEF c, k, r, last, e
  <2>4. c \in Nat /\ Unit * c <= earned /\ earned < Unit * c + Unit
    BY <1>1, <2>1, <2>2, <2>3, InterestBounds DEF Unit
  <2>5. Unit * c \in Nat
    BY <1>1, <2>4
  <2> HIDE DEF earned
  <2>6. /\ Charge(a) \in Nat /\ Unit * Charge(a) <= earned
        /\ earned <= Unit * Charge(a) + Unit
    BY <1>1, <1>2, <2>1, <2>4, <2>5
  <2> QED
    BY <1>2, <2>1, <2>6 DEF earned, r, e
<1>6. CASE p.status = "Repaid"
  <2> DEFINE c == p.accrued_interest
  <2>1. /\ Charge(a) = c /\ Unit * c <= earned /\ earned < Unit * c + Unit
        /\ a \in Loans
    BY <1>1, <1>3, <1>6 DEF Charge, ChargedAsExposed
  <2>2. Unit * c \in Nat
    <3> HIDE DEF c
    <3>1. c \in Nat
      BY <1>1 DEF c
    <3> QED
      BY <1>1, <3>1
  <2> HIDE DEF earned, c
  <2>3. /\ Charge(a) \in Nat /\ Unit * Charge(a) <= earned
        /\ earned <= Unit * Charge(a) + Unit
    BY <1>1, <1>2, <2>1, <2>2 DEF c
  <2> QED
    BY <1>2, <2>1, <2>3 DEF earned
<1>7. p.status \in {"None", "Active", "Repaid"}
  BY <1>1 DEF BorrowerPosition
<1> QED
  BY <1>4, <1>5, <1>6, <1>7

\* The borrowers' side: charges and exposures over all the loans.
LEMMA OwedBounds ==
  ASSUME TypeInv, RecordTypes, DriftInv
  PROVE  LET earned == Total([a \in Agents |->
                               borrower[a].annual_interest_bips * exposure[a]])
             owed == Unit * Total([a \in Agents |-> Charge(a)])
         IN  /\ earned \in Nat /\ owed \in Nat /\ Cardinality(Loans) \in Nat
             /\ owed <= earned
             /\ earned <= owed + Unit * Cardinality(Loans)
<1> DEFINE X == [a \in Agents |-> borrower[a].annual_interest_bips * exposure[a]]
           Q == [a \in Agents |-> Charge(a)]
           U == [a \in Agents |-> Unit * Q[a]]
           K == [a \in Agents |-> IF a \in Loans THEN Unit ELSE 0]
           W == [a \in Agents |-> U[a] + K[a]]
<1>1. \A a \in Agents : /\ Charge(a) \in Nat /\ X[a] \in Nat
                        /\ Unit * Charge(a) <= X[a]
                        /\ X[a] <= Unit * Charge(a) + (IF a \in Loans THEN Unit ELSE 0)
  BY ChargeBounds
<1>2. Unit \in Nat /\ IsFiniteSet(Agents)
  BY UnitType, UsersFinite
<1>3. Loans \in SUBSET Agents
  BY DEF Loans
<1>4. X \in [Agents -> Nat] /\ Q \in [Agents -> Nat] /\ K \in [Agents -> Nat]
  BY <1>1, <1>2
<1>5. \A a \in Agents : Q[a] = Charge(a) /\ U[a] = Unit * Q[a] /\ W[a] = U[a] + K[a]
  OBVIOUS
<1>6. \A a \in Agents : K[a] = IF a \in Loans THEN Unit ELSE 0
  OBVIOUS
<1>7. /\ Total(U) = Unit * Total(Q)
  <2> HIDE DEF Q
  <2> QED
    BY <1>2, <1>4, TotalMultiple
<1>8. U \in [Agents -> Nat]
  <2>1. \A q \in Nat : Unit * q \in Nat
    BY <1>2
  <2> HIDE DEF Q
  <2> QED
    BY <1>4, <2>1
<1>9. Total(W) = Total(U) + Total(K)
  <2> HIDE DEF U, K
  <2> QED
    BY <1>2, <1>4, <1>8, TotalSum
<1>10. W \in [Agents -> Nat]
  <2> HIDE DEF U, K
  <2> QED
    BY <1>4, <1>8
<1>11. IsFiniteSet(Loans)
  BY <1>2, <1>3, FS_Subset
<1>12. Total(K) = Cardinality(Loans) * Unit
  BY <1>2, <1>3, <1>11, TotalConstantOn
<1> HIDE DEF X, Q, U, K, W
<1>13. \A a \in Agents : U[a] <= X[a] /\ X[a] <= W[a]
  BY <1>1, <1>5, <1>6
<1>14. Total(U) <= Total(X) /\ Total(X) <= Total(W)
  BY <1>2, <1>4, <1>8, <1>10, <1>13, TotalMonotone
<1>15. /\ Total(X) \in Nat /\ Total(U) \in Nat /\ Cardinality(Loans) \in Nat
  BY <1>2, <1>4, <1>8, <1>11, TotalType, FS_CardinalityType
<1>16. Cardinality(Loans) * Unit = Unit * Cardinality(Loans)
  BY <1>2, <1>15
<1>17. /\ Total(X) \in Nat /\ Unit * Total(Q) \in Nat /\ Cardinality(Loans) \in Nat
       /\ Unit * Total(Q) <= Total(X)
       /\ Total(X) <= Unit * Total(Q) + Unit * Cardinality(Loans)
  BY <1>7, <1>9, <1>12, <1>14, <1>15, <1>16
<1> QED
  BY <1>17 DEF X, Q

\* The four causes account for the difference.
LEMMA DriftInvImplies ==
  ASSUME TypeInv, RecordTypes, DriftInv
  PROVE  DriftExplained
<1> DEFINE rate == pool.min_interest_bips
           X == Total([a \in Agents |-> borrower[a].annual_interest_bips * exposure[a]])
           owed == Unit * Total([a \in Agents |-> Charge(a)])
           n == Cardinality(Loans)
           E == Total(exposure)
           B == SecondsBooked
           L == SecondsLent
<1>1. /\ X \in Nat /\ owed \in Nat /\ n \in Nat
      /\ owed <= X /\ X <= owed + Unit * n
  BY OwedBounds
<1>2. rate \in Nat /\ Unit \in Nat /\ accruals \in Nat /\ booked \in Nat
  BY WordTypes, UnitType DEF TypeInv, TypeOK, Pool, DriftInv, RecordTypes
<1>3. B \in Nat /\ L \in Nat /\ E = L
  BY SecondsTypes DEF DriftInv
<1>4. Unit * booked <= rate * B /\ rate * B <= Unit * booked + Unit * accruals
  BY DEF DriftInv, BookedAsCounted
<1>5. DriftExplained <=>
        (Unit * booked + rate * (L - B) + (X - rate * E)) - owed
           \in -(Unit * accruals) .. Unit * n
  BY DEF DriftExplained
<1> HIDE DEF rate, X, owed, n, E, B, L
<1>6. rate * (L - B) = rate * L - rate * B
  BY <1>2, <1>3
<1>7. /\ rate * L \in Nat /\ rate * B \in Nat /\ Unit * booked \in Nat
      /\ Unit * accruals \in Nat /\ Unit * n \in Nat
  BY <1>1, <1>2, <1>3
<1>8. (Unit * booked + rate * (L - B) + (X - rate * E)) - owed
        = (Unit * booked - rate * B) + (X - owed)
  BY <1>1, <1>3, <1>6, <1>7
<1>9. (Unit * booked - rate * B) + (X - owed) \in -(Unit * accruals) .. Unit * n
  BY <1>1, <1>4, <1>7
<1> QED
  BY <1>5, <1>8, <1>9

-------------------------------------------------------------------------------
(***************************************************************************)
(* Theorems                                                                *)
(***************************************************************************)

\* The history does not disturb the program: each step is one of NormandyCore.
THEOREM LedgerIsCore == LedgerSpec => Spec
<1>1. LedgerInit => Init
  BY DEF LedgerInit
<1>2. [LedgerNext]_ledgerVars => [Next]_vars
  BY DEF LedgerNext, ledgerVars, vars
<1> QED
  BY <1>1, <1>2, PTL DEF LedgerSpec, Spec

\* The history and the program's own books, throughout.
LEMMA LedgerHistory ==
  LedgerSpec => [](TypeInv /\ LedgerInv /\ ClaimsInv /\ SecondsInv /\ CashBehindBook)
<1>1. LedgerInit => SecondsInv /\ CashBehindBook
  BY SecondsInvInit, CashInit
<1>2. /\ TypeInv /\ TypeInv' /\ LedgerInv /\ SecondsInv /\ CashBehindBook
      /\ [LedgerNext]_ledgerVars
      => SecondsInv' /\ CashBehindBook'
  BY SecondsInvNext, CashNext DEF SecondsInv
<1>3. LedgerSpec => [](TypeInv /\ LedgerInv)
  BY LedgerIsCore, LedgerInvariant, PTL
<1>4. LedgerSpec => []ClaimsInv
  BY LedgerIsCore, ClaimsInvariant, PTL
<1> QED
  BY <1>1, <1>2, <1>3, <1>4, PTL DEF LedgerSpec

\* Every second that was lent in and funded is booked once, on what was lent,
\* for any number and order of instructions, loans and skipped accruals.
THEOREM SecondsAlwaysBookedAsLent == LedgerSpec => []BookedAsLent
<1>1. SecondsInv => BookedAsLent
  BY DEF SecondsInv
<1> QED
  BY <1>1, LedgerHistory, PTL

\* What lenders and protocol may claim exceeds the vault by no more than what is
\* on loan, the interest booked and not received, what was taken out, and what
\* hooks have moved out.
THEOREM ShortfallAlwaysExplained == LedgerSpec => []ShortfallExplained
<1>1. TypeInv /\ LedgerInv /\ ClaimsInv /\ RecordTypes /\ CashBehindBook
        => ShortfallExplained
  <2> SUFFICES ASSUME TypeInv, LedgerInv, ClaimsInv, RecordTypes, CashBehindBook
               PROVE  ShortfallExplained
    OBVIOUS
  <2>1. Claims <= pool.total_deposits + pool.total_interest_earned
    BY ClaimsInvImplies DEF ClaimsWithinBook, Claims
  <2>2. Claims \in Nat
    <3>1. \A l \in Lenders : Payout(lender[l].scaled_deposit, pool.scale_factor) \in Nat
      BY ClaimsTypes, PayoutBounds DEF TypeInv, TypeOK
    <3> QED
      BY <3>1, UsersFinite, TotalType DEF Claims
  <2>3. /\ vault \in Nat /\ Received \in Nat
        /\ pool.total_deposits \in Nat /\ pool.total_borrows \in Nat
        /\ pool.total_interest_earned \in Nat /\ pool.accrued_protocol_fees \in Nat
        /\ booked \in Nat /\ taken \in Int /\ diverted \in Int
    BY CashTypes DEF RecordTypes
  <2> QED
    BY <2>1, <2>2, <2>3 DEF CashBehindBook, ShortfallExplained
<1>2. SecondsInv => RecordTypes
  BY DEF SecondsInv
<1> QED
  BY <1>1, <1>2, LedgerHistory, PTL

\* The vault falls short of the protocol's fees only by what is on loan, by interest
\* booked since and not paid, and by what a hook has moved out since: no lender's
\* withdrawal and no loan takes tokens that the fees had.
THEOREM FeesAlwaysCovered == LedgerSpec => []FeesCovered
<1>1. LedgerInit => FeesInv
  <2> SUFFICES ASSUME LedgerInit PROVE FeesInv
    OBVIOUS
  <2>1. missing = 0 /\ vault = 0 /\ pool = NoPool
    BY DEF LedgerInit, Init
  <2> QED
    BY <2>1 DEF FeesInv, FeesCovered, NoPool
<1>2. /\ TypeInv /\ TypeInv' /\ LedgerInv /\ SecondsInv /\ FeesInv
      /\ [LedgerNext]_ledgerVars
      => FeesInv'
  BY FeesInvNext DEF SecondsInv
<1>3. FeesInv => FeesCovered
  BY DEF FeesInv
<1> QED
  BY <1>1, <1>2, <1>3, LedgerHistory, PTL DEF LedgerSpec

\* With every loan repaid and the interest booked received, and none of it
\* promised twice, the vault holds what all lenders may take out, beside the fees
\* and less what hooks have moved out.
THEOREM LendersAlwaysCovered == LedgerSpec => []LendersCovered
<1>1. TypeInv /\ RecordTypes /\ CashBehindBook => LendersCovered
  <2> SUFFICES ASSUME TypeInv, RecordTypes, CashBehindBook,
                      pool.total_borrows = 0, booked <= Received, ~PromisedTwice
               PROVE  Claims <= Withdrawable(AccruedPool, vault) + diverted
    BY DEF LendersCovered
  <2>1. /\ vault \in Nat /\ Received \in Nat
        /\ pool.total_deposits \in Nat /\ pool.total_borrows \in Nat
        /\ pool.total_interest_earned \in Nat /\ pool.accrued_protocol_fees \in Nat
        /\ booked \in Nat /\ taken \in Int /\ diverted \in Int
    BY CashTypes DEF RecordTypes
  <2>2. Claims \in Nat
    <3>1. \A l \in Lenders : Payout(lender[l].scaled_deposit, pool.scale_factor) \in Nat
      BY ClaimsTypes, PayoutBounds DEF TypeInv, TypeOK
    <3> QED
      BY <3>1, UsersFinite, TotalType DEF Claims
  <2>3. AccruedPool = pool
    BY DEF AccruedPool, Accrued, Accrues
  <2>4. Claims + taken <= pool.total_deposits + pool.total_interest_earned
    BY <2>1, <2>2 DEF PromisedTwice
  <2>5. Claims <= vault - pool.accrued_protocol_fees + diverted
    BY <2>1, <2>2, <2>4 DEF CashBehindBook
  <2> QED
    BY <2>3, <2>5 DEF Withdrawable
<1>2. SecondsInv => RecordTypes
  BY DEF SecondsInv
<1> QED
  BY <1>1, <1>2, LedgerHistory, PTL

\* The interest the pool books and the interest its borrowers owe differ by idle
\* and unfunded time, by rates and by rounding, and by nothing else, for any
\* number of loans and accruals, as long as no cast of an interest wraps.
THEOREM DriftAlwaysExplained == LedgerSpec /\ []InterestInWords => []DriftExplained
<1>1. LedgerInit => DriftInv
  BY DriftInvInit
<1>2. TypeInv /\ LedgerInv /\ SecondsInv /\ DriftInv /\ InterestInWords
        /\ [LedgerNext]_ledgerVars => DriftInv'
  BY DriftInvNext
<1>3. TypeInv /\ SecondsInv /\ DriftInv => DriftExplained
  BY DriftInvImplies DEF SecondsInv
<1> QED
  BY <1>1, <1>2, <1>3, LedgerHistory, PTL DEF LedgerSpec

\* In particular for a pool whose loans are in proportion to its words.
THEOREM DriftExplainedInWords ==
  ASSUME NEW limit \in Nat, NEW rate \in Nat,
         NEW start \in Nat, NEW span \in Nat \ {0},
         RatesWithin(rate), LendingInWords(limit, rate, span)
  PROVE  LedgerSpec /\ []LendingWithin(limit, start, span) => []DriftExplained
<1>1. Spec /\ []LendingWithin(limit, start, span) => []InterestInWords
  BY InterestAlwaysInWords
<1> QED
  BY <1>1, LedgerIsCore, DriftAlwaysExplained, PTL

===============================================================================
