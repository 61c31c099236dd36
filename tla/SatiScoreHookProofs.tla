-------------------------- MODULE SatiScoreHookProofs --------------------------
(***************************************************************************)
(* The SATI hook's loop, for any accounts, in any order and number: it     *)
(* comes to what Decided says of the list, approves when an account        *)
(* endorses the agent, and reads no byte it has not counted.               *)
(***************************************************************************)
EXTENDS SatiScoreHook, SatiScoreCheckProofs

VerdictOn(i) == Verdict(call.accounts[i], call.agent, hook_config, call.now)

\* While the loop runs no account before the next one has passed, and the
\* failure carried along is that of the last one looked at.
LoopInv ==
  decision.result = "running" =>
    /\ call.amount <= hook_config.max_borrow_per_agent
    /\ \A i \in 1 .. call.next - 1 : VerdictOn(i).result = "running"
    /\ decision = Running(IF call.next = 1 THEN "NoValidReputationScore"
                          ELSE VerdictOn(call.next - 1).failure)

\* The loop, one account after the other, comes to what Decided says of the list
\* as a whole, which is what SatiScorePool takes a call for.
LoopDecides ==
  decision.result \in {"approved", "rejected"} =>
    decision = Decided(call.agent, call.amount, call.accounts, hook_config, call.now)

\* A call is served only by a hook that was initialized.
Configured == decision # Undecided => hook_config # NoConfig

HookInv == TypeOK /\ Configured /\ LoopInv /\ LoopDecides

-------------------------------------------------------------------------------

\* The accounts of a call are attestations, at the positions 1 to Len.
LEMMA CallAccounts ==
  ASSUME TypeOK
  PROVE  /\ Len(call.accounts) \in Nat
         /\ DOMAIN call.accounts = 1 .. Len(call.accounts)
         /\ \A i \in 1 .. Len(call.accounts) : call.accounts[i] \in Accounts
         /\ \A i \in 1 .. Len(call.accounts) : call.accounts[i] \in Attestation
         /\ Len(call.accounts) = 0 => call.accounts = <<>>
<1>1. PICK m \in 0 .. MaxAccounts : call.accounts \in [1 .. m -> Accounts]
  BY DEF TypeOK, SeqOf
<1>2. m \in Nat
  BY SatiAssumption
<1>3. call.accounts \in Seq(Accounts) /\ Len(call.accounts) = m
  BY <1>1, <1>2
<1> QED
  BY <1>1, <1>2, <1>3, SatiAssumption

\* Before the first transaction there is no config and no call.
LEMMA HookInvInit == Init => HookInv
<1> SUFFICES ASSUME Init PROVE HookInv
  OBVIOUS
<1>1. <<>> \in SeqOf(Accounts, MaxAccounts)
  <2>1. 0 \in 0 .. MaxAccounts /\ <<>> \in [1 .. 0 -> Accounts]
    BY SatiAssumption
  <2> QED
    BY <2>1 DEF SeqOf
<1>2. TypeOK
  BY <1>1 DEF Init, TypeOK, NoCall, Undecided, Errors
<1> QED
  BY <1>2 DEF Init, HookInv, Configured, LoopInv, LoopDecides, Undecided

\* initialize: no call is being served.
LEMMA InitializeKeepsHookInv ==
  ASSUME HookInv, NEW args \in ConfigArgs, Initialize(args)
  PROVE  HookInv'
<1>1. decision = Undecided /\ UNCHANGED <<call, decision>>
  BY DEF HookInv, Configured, Initialize
<1>2. args \in HookConfig
  BY SatiAssumption DEF Initialize, ValidArgs, InitializeArgs, HookConfig
<1>3. TypeOK'
  BY <1>1, <1>2 DEF Initialize, HookInv, TypeOK
<1> QED
  BY <1>1, <1>3 DEF HookInv, Configured, LoopInv, LoopDecides, Undecided

\* A call begins with nothing looked at, or ends at once for want of cap.
LEMMA OnBorrowKeepsHookInv ==
  ASSUME HookInv, NEW agent \in Agents, NEW amount \in Amounts, NEW now \in Times,
         NEW accounts \in SeqOf(Accounts, MaxAccounts),
         OnBorrow(agent, amount, accounts, now)
  PROVE  HookInv'
<1>1. /\ hook_config # NoConfig /\ hook_config' = hook_config
      /\ call' = [agent |-> agent, amount |-> amount, accounts |-> accounts,
                  now |-> now, next |-> 1]
      /\ decision' = IF amount <= hook_config.max_borrow_per_agent
                     THEN Running("NoValidReputationScore")
                     ELSE Rejected("BorrowExceedsCap")
  BY DEF OnBorrow
<1>2. Len(accounts) \in Nat
  <2>1. PICK m \in 0 .. MaxAccounts : accounts \in [1 .. m -> Accounts]
    BY DEF SeqOf
  <2>2. m \in Nat
    BY SatiAssumption
  <2> QED
    BY <2>1, <2>2
<1>3. TypeOK'
  <2>1. agent \in Keys /\ amount \in Nat /\ now \in Nat
    BY SatiAssumption
  <2>2. call' \in [agent : Keys \union {DefaultKey}, amount : Nat,
                   accounts : SeqOf(Accounts, MaxAccounts), now : Nat, next : Nat]
    BY <1>1, <2>1
  <2>3. call'.next \in 1 .. Len(call'.accounts) + 1
    BY <1>1, <1>2
  <2>4. /\ decision'.result \in {"none", "running", "approved", "rejected"}
        /\ decision'.failure \in Errors
        /\ decision'.provider \in Keys \union {DefaultKey}
    BY <1>1 DEF Running, Rejected, Errors
  <2> QED
    BY <1>1, <2>2, <2>3, <2>4 DEF HookInv, TypeOK
<1>4. Configured' /\ LoopInv'
  BY <1>1 DEF Configured, LoopInv, Running, Rejected
<1>5. LoopDecides'
  BY <1>1 DEF LoopDecides, Decided, Running, Rejected
<1> QED
  BY <1>3, <1>4, <1>5 DEF HookInv

\* One iteration: either the first account that passes, or one more failure.
LEMMA CheckAccountKeepsHookInv ==
  ASSUME HookInv, CheckAccount
  PROVE  HookInv'
<1> DEFINE n == call.next
           verdict == VerdictOn(n)
<1>1. /\ n \in 1 .. Len(call.accounts) /\ Len(call.accounts) \in Nat
      /\ DOMAIN call.accounts = 1 .. Len(call.accounts)
      /\ call.accounts[n] \in Accounts /\ call.accounts[n] \in Attestation
  BY CallAccounts DEF CheckAccount, HookInv, TypeOK
<1>2. /\ decision.result = "running"
      /\ decision' = verdict
      /\ call' = [call EXCEPT !.next = @ + 1]
      /\ hook_config' = hook_config
  BY DEF CheckAccount, VerdictOn
<1>3. /\ call'.agent = call.agent /\ call'.amount = call.amount
      /\ call'.accounts = call.accounts /\ call'.now = call.now
      /\ call'.next = n + 1
  BY <1>2 DEF HookInv, TypeOK
<1>4. \/ verdict.result = "approved" /\ verdict = Approved(call.accounts[n].counterparty)
      \/ /\ verdict.result = "running" /\ verdict = Running(verdict.failure)
         /\ verdict.failure \in
              {"InvalidScoreAccount", "InvalidScoreLayout", "UntrustedProvider",
               "ReputationScoreBelowThreshold", "ReputationScoreStale"}
  BY <1>1, VerdictType DEF VerdictOn
<1>5. \A i : Verdict(call'.accounts[i], call'.agent, hook_config', call'.now) = VerdictOn(i)
  BY <1>2, <1>3 DEF VerdictOn
<1>6. /\ call.amount <= hook_config.max_borrow_per_agent
      /\ \A i \in 1 .. n - 1 : VerdictOn(i).result = "running"
  BY <1>2 DEF HookInv, LoopInv
<1>7. TypeOK'
  <2>1. call.accounts[n].counterparty \in Keys
    BY <1>1 DEF Attestation
  <2>2. /\ decision'.result \in {"none", "running", "approved", "rejected"}
        /\ decision'.failure \in Errors
        /\ decision'.provider \in Keys \union {DefaultKey}
    BY <1>2, <1>4, <2>1 DEF Approved, Running, Errors
  <2>3. n + 1 \in Nat /\ n + 1 \in 1 .. Len(call.accounts) + 1
    BY <1>1
  <2> QED
    BY <1>2, <1>3, <2>2, <2>3 DEF HookInv, TypeOK
<1>8. Configured'
  BY <1>2 DEF HookInv, Configured, Undecided
<1>9. LoopInv'
  <2>1. SUFFICES ASSUME verdict.result = "running" PROVE LoopInv'
    BY <1>2 DEF LoopInv
  <2>2. \A i \in 1 .. n : VerdictOn(i).result = "running"
    BY <1>1, <1>6, <2>1
  <2>3. decision' = Running(VerdictOn(n).failure)
    BY <1>2, <1>4, <2>1 DEF Approved
  <2>4. call'.next - 1 = n /\ call'.next # 1
    BY <1>1, <1>3
  <2> HIDE DEF n, verdict
  <2>5. /\ call'.amount <= hook_config'.max_borrow_per_agent
        /\ \A i \in 1 .. call'.next - 1 :
             Verdict(call'.accounts[i], call'.agent, hook_config', call'.now).result
               = "running"
        /\ decision' = Running(Verdict(call'.accounts[call'.next - 1], call'.agent,
                                       hook_config', call'.now).failure)
    BY <1>2, <1>3, <1>5, <1>6, <2>2, <2>3, <2>4
  <2> QED
    BY <2>4, <2>5 DEF LoopInv, VerdictOn
<1>10. LoopDecides'
  <2>1. SUFFICES ASSUME verdict.result = "approved" PROVE LoopDecides'
    BY <1>2, <1>4 DEF LoopDecides
  <2> DEFINE passing == {i \in DOMAIN call.accounts : VerdictOn(i).result = "approved"}
  <2>2. passing \in SUBSET Int /\ n \in passing
    BY <1>1, <2>1
  <2>3. \A i \in passing : n <= i
    <3>1. SUFFICES ASSUME NEW i \in passing, i < n PROVE FALSE
      BY <1>1
    <3>2. i \in 1 .. n - 1
      BY <1>1, <3>1
    <3> QED
      BY <1>6, <3>1, <3>2
  <2>4. Min(passing) = n
    BY <2>2, <2>3, MinIs
  <2>5. Decided(call.agent, call.amount, call.accounts, hook_config, call.now)
          = VerdictOn(Min(passing))
    BY <1>6, <2>2 DEF Decided, VerdictOn
  <2>6. decision' = Decided(call.agent, call.amount, call.accounts, hook_config, call.now)
    BY <1>2, <2>4, <2>5
  <2> QED
    BY <1>2, <1>3, <2>6 DEF LoopDecides
<1> QED
  BY <1>7, <1>8, <1>9, <1>10 DEF HookInv

\* After the loop none of the accounts has passed.
LEMMA GiveUpKeepsHookInv ==
  ASSUME HookInv, GiveUp
  PROVE  HookInv'
<1>1. /\ call.next = Len(call.accounts) + 1 /\ Len(call.accounts) \in Nat
      /\ DOMAIN call.accounts = 1 .. Len(call.accounts)
      /\ Len(call.accounts) = 0 => call.accounts = <<>>
  BY CallAccounts DEF GiveUp, HookInv, TypeOK
<1>2. /\ decision.result = "running" /\ decision' = Rejected(decision.failure)
      /\ UNCHANGED <<hook_config, call>>
  BY DEF GiveUp
<1>3. /\ call.amount <= hook_config.max_borrow_per_agent
      /\ \A i \in DOMAIN call.accounts : VerdictOn(i).result = "running"
      /\ decision.failure = IF Len(call.accounts) = 0 THEN "NoValidReputationScore"
                            ELSE VerdictOn(Len(call.accounts)).failure
  <2>1. call.next - 1 = Len(call.accounts)
        /\ (call.next = 1 <=> Len(call.accounts) = 0)
    BY <1>1
  <2>2. decision = Running(IF call.next = 1 THEN "NoValidReputationScore"
                           ELSE VerdictOn(call.next - 1).failure)
    BY <1>2 DEF HookInv, LoopInv
  <2>3. decision.failure = IF call.next = 1 THEN "NoValidReputationScore"
                           ELSE VerdictOn(call.next - 1).failure
    BY <2>2 DEF Running
  <2>4. /\ call.amount <= hook_config.max_borrow_per_agent
        /\ \A i \in 1 .. call.next - 1 : VerdictOn(i).result = "running"
    BY <1>2 DEF HookInv, LoopInv
  <2> QED
    BY <1>1, <2>1, <2>3, <2>4
<1>4. TypeOK'
  BY <1>2 DEF HookInv, TypeOK, Rejected
<1>5. Configured' /\ LoopInv'
  BY <1>2 DEF HookInv, Configured, LoopInv, Undecided, Rejected
<1>6. LoopDecides'
  <2> DEFINE passing == {i \in DOMAIN call.accounts :
        Verdict(call.accounts[i], call.agent, hook_config, call.now).result = "approved"}
  <2>1. passing = {}
    BY <1>3 DEF VerdictOn
  <2>2. CASE call.accounts = <<>>
    BY <1>2, <1>3, <2>1, <2>2 DEF LoopDecides, Decided
  <2>3. CASE call.accounts # <<>>
    <3>1. decision.failure = VerdictOn(Len(call.accounts)).failure
      BY <1>1, <1>3, <2>3
    <3>2. Decided(call.agent, call.amount, call.accounts, hook_config, call.now)
            = Rejected(VerdictOn(Len(call.accounts)).failure)
      BY <1>3, <2>1, <2>3 DEF Decided, VerdictOn
    <3> QED
      BY <1>2, <3>1, <3>2 DEF LoopDecides
  <2> QED
    BY <2>2, <2>3
<1> QED
  BY <1>4, <1>5, <1>6 DEF HookInv

\* The hook keeps nothing of the call.
LEMMA ReturnKeepsHookInv ==
  ASSUME HookInv, Return
  PROVE  HookInv'
<1>1. <<>> \in SeqOf(Accounts, MaxAccounts)
  <2>1. 0 \in 0 .. MaxAccounts /\ <<>> \in [1 .. 0 -> Accounts]
    BY SatiAssumption
  <2> QED
    BY <2>1 DEF SeqOf
<1>2. TypeOK'
  BY <1>1 DEF HookInv, TypeOK, Return, NoCall, Undecided, Errors
<1> QED
  BY <1>2 DEF HookInv, Return, Configured, LoopInv, LoopDecides, Undecided

\* HookInv is inductive.
LEMMA HookInvNext == HookInv /\ [Next]_hookVars => HookInv'
<1> SUFFICES ASSUME HookInv, [Next]_hookVars PROVE HookInv'
  OBVIOUS
<1>1. CASE UNCHANGED hookVars
  BY <1>1 DEF hookVars, HookInv, TypeOK, Configured, LoopInv, LoopDecides, VerdictOn
<1>2. CASE Next
  BY <1>2, InitializeKeepsHookInv, OnBorrowKeepsHookInv, CheckAccountKeepsHookInv,
     GiveUpKeepsHookInv, ReturnKeepsHookInv DEF Next
<1> QED
  BY <1>1, <1>2

\* What Decided says of a list: approved when some account endorses, and only
\* because of one that recommends the agent.
LEMMA DecidedByEndorsement ==
  ASSUME NEW agent, NEW amount, NEW hc, NEW now \in Int, NEW n \in Nat,
         NEW accounts, DOMAIN accounts = 1 .. n, n = 0 => accounts = <<>>,
         \A i \in 1 .. n : accounts[i] \in Attestation
  PROVE  LET decided == Decided(agent, amount, accounts, hc, now)
             capped == amount <= hc.max_borrow_per_agent
             endorsing == {acc \in Range(accounts) : Endorses(acc, agent, hc, now)}
             negative == {acc \in Range(accounts) :
                            acc.expiry < 0 /\ Recommends(acc, agent, hc)}
         IN  /\ capped /\ endorsing # {} => decided.result = "approved"
             /\ decided.result = "approved" =>
                  /\ capped
                  /\ \E acc \in endorsing \union negative :
                       acc.counterparty = decided.provider
<1> DEFINE decided == Decided(agent, amount, accounts, hc, now)
           capped == amount <= hc.max_borrow_per_agent
           endorsing == {acc \in Range(accounts) : Endorses(acc, agent, hc, now)}
           negative == {acc \in Range(accounts) :
                          acc.expiry < 0 /\ Recommends(acc, agent, hc)}
           passing == {i \in DOMAIN accounts :
                         Verdict(accounts[i], agent, hc, now).result = "approved"}
<1>1. endorsing # {} => passing # {}
  BY ApprovedIffEndorses DEF Range
<1>2. ASSUME capped, passing # {}
      PROVE  /\ decided.result = "approved"
             /\ \E acc \in endorsing \union negative : acc.counterparty = decided.provider
  <2> DEFINE first == Min(passing)
  <2>1. first \in passing
    <3>1. PICK k \in passing : \A i \in passing : k <= i
      <4>1. passing \in SUBSET Nat
        OBVIOUS
      <4> QED
        BY <1>2, <4>1, NatLeast
    <3>2. passing \in SUBSET Int
      OBVIOUS
    <3> QED
      BY <3>1, <3>2, MinIs
  <2>2. decided = Verdict(accounts[first], agent, hc, now)
    BY <1>2 DEF Decided
  <2> HIDE DEF first
  <2>3. /\ accounts[first] \in Attestation /\ accounts[first] \in Range(accounts)
        /\ Verdict(accounts[first], agent, hc, now).result = "approved"
    BY <2>1 DEF Range
  <2>4. /\ decided = Approved(accounts[first].counterparty)
        /\ accounts[first] \in endorsing \union negative
    BY <2>2, <2>3, ApprovedIffEndorses
  <2> HIDE DEF decided, endorsing, negative, passing
  <2> QED
    BY <2>4 DEF Approved
<1>3. ASSUME ~(capped /\ passing # {})
      PROVE  decided.result = "rejected"
  BY <1>3 DEF Decided, Rejected
<1>4. /\ capped /\ endorsing # {} => decided.result = "approved"
      /\ decided.result = "approved" =>
           /\ capped
           /\ \E acc \in endorsing \union negative : acc.counterparty = decided.provider
  <2> HIDE DEF decided, capped, endorsing, negative, passing
  <2> QED
    BY <1>1, <1>2, <1>3
<1> QED
  BY <1>4

-------------------------------------------------------------------------------
(***************************************************************************)
(* Theorems                                                                *)
(***************************************************************************)

\* HookInv holds throughout.
LEMMA HookInvAlways == Spec => []HookInv
BY HookInvInit, HookInvNext, PTL DEF Spec

\* Every word of the hook's state has its type.
THEOREM HookTypeCorrect == Spec => []TypeOK
<1>1. HookInv => TypeOK
  BY DEF HookInv
<1> QED
  BY <1>1, HookInvAlways, PTL

\* The loop comes to what Decided says of the list as a whole: the first account
\* that passes, or else the error of the last.
THEOREM LoopAlwaysDecides == Spec => []LoopDecides
<1>1. HookInv => LoopDecides
  BY DEF HookInv
<1> QED
  BY <1>1, HookInvAlways, PTL

\* A call within the cap is approved when one of its accounts endorses the agent,
\* and only then or for one that would if its expiry were not negative.
THEOREM AlwaysApprovedIffEndorsed == Spec => []ApprovedIffEndorsed
<1>1. HookInv => ApprovedIffEndorsed
  <2> SUFFICES ASSUME HookInv, decision.result \in {"approved", "rejected"}
               PROVE  ApprovedIffEndorsed
    BY DEF ApprovedIffEndorsed
  <2> DEFINE n == Len(call.accounts)
             accounts == call.accounts
             agent == call.agent
             amount == call.amount
             hc == hook_config
             now == call.now
  <2>1. decision = Decided(agent, amount, accounts, hc, now)
    BY DEF HookInv, LoopDecides
  <2>2. /\ n \in Nat /\ DOMAIN accounts = 1 .. n /\ (n = 0 => accounts = <<>>)
        /\ \A i \in 1 .. n : accounts[i] \in Attestation
    BY CallAccounts DEF HookInv
  <2>3. now \in Int
    BY DEF HookInv, TypeOK
  <2> HIDE DEF n, accounts, agent, amount, hc, now
  <2>4. LET decided == Decided(agent, amount, accounts, hc, now)
            capped == amount <= hc.max_borrow_per_agent
            endorsing == {acc \in Range(accounts) : Endorses(acc, agent, hc, now)}
            negative == {acc \in Range(accounts) :
                           acc.expiry < 0 /\ Recommends(acc, agent, hc)}
        IN  /\ capped /\ endorsing # {} => decided.result = "approved"
            /\ decided.result = "approved" =>
                 /\ capped
                 /\ \E acc \in endorsing \union negative :
                      acc.counterparty = decided.provider
    BY <2>2, <2>3, DecidedByEndorsement
  <2> QED
    BY <2>1, <2>4 DEF ApprovedIffEndorsed, accounts, agent, amount, hc, now
<1> QED
  BY <1>1, HookInvAlways, PTL

\* No check reads past the end of what it slices: the earlier ones saw to that.
THEOREM ReadsAlwaysWithinBounds == Spec => []ReadsWithinBounds
<1>1. ASSUME NEW acc \in Attestation, NEW agent, NEW hc, NEW now,
             NEW i \in 1 .. 9, i <= Passed(Checks(acc, agent, hc, now)) + 1
      PROVE  /\ AccountReads(acc)[i] <= acc.size
             /\ PayloadReads[i] > 0 => PayloadReads[i] <= acc.data_len
  <2> DEFINE checks == Checks(acc, agent, hc, now)
  <2>1. acc.size \in Nat /\ acc.data_len \in Nat
    BY DEF Attestation
  <2>2. checks[1][1] = (acc.size >= HEADER_SIZE + PAYLOAD_MIN_SIZE + TAIL_SIZE)
        /\ checks[5][1] = PayloadFits(acc)
    BY DEF Checks
  <2>3. DOMAIN checks = 1 .. 9
    BY NineChecks
  <2>4. i <= Passed(checks) + 1
    BY <1>1
  <2> HIDE DEF checks
  <2>5. /\ Passed(checks) \in 0 .. 9
        /\ \A j \in 1 .. 9 : j <= Passed(checks) => checks[j][1]
    BY <2>3, PassedIsPrefix
  <2>6. (i > 1 => 1 <= Passed(checks)) /\ (i > 5 => 5 <= Passed(checks))
    BY <2>4, <2>5
  <2>7. 1 \in 1 .. 9 /\ 5 \in 1 .. 9
    OBVIOUS
  <2>8. (i > 1 => checks[1][1]) /\ (i > 5 => checks[5][1])
    BY <2>5, <2>6, <2>7, Zenon
  <2>9. /\ i > 1 => acc.size >= HEADER_SIZE + PAYLOAD_MIN_SIZE + TAIL_SIZE
        /\ i > 5 => PayloadFits(acc)
    BY <2>2, <2>8, Zenon
  <2>10. i > 1 => acc.size >= 308
    BY <2>1, <2>9 DEF HEADER_SIZE, PAYLOAD_MIN_SIZE, TAIL_SIZE
  <2>11. i > 5 => acc.size >= PayloadEnd(acc) + 72 /\ acc.data_len >= 135
    BY <2>1, <2>9
    DEF PayloadFits, PayloadEnd, HEADER_SIZE, PAYLOAD_MIN_SIZE, TAIL_SIZE
  <2>12. i = 1 \/ i = 2 \/ i = 3 \/ i = 4 \/ i = 5 \/ i = 6 \/ i = 7 \/ i = 8 \/ i = 9
    OBVIOUS
  <2> QED
    BY <2>1, <2>10, <2>11, <2>12
    DEF AccountReads, PayloadReads, PayloadEnd, HEADER_SIZE, TAIL_OFF_EXPIRY
<1>2. HookInv => ReadsWithinBounds
  <2>1. SUFFICES ASSUME HookInv, NEW acc \in Range(call.accounts)
                 PROVE  acc \in Attestation
    BY <1>1 DEF ReadsWithinBounds
  <2>2. PICK k \in DOMAIN call.accounts : acc = call.accounts[k]
    BY <2>1 DEF Range
  <2> QED
    BY <2>1, <2>2, CallAccounts DEF HookInv
<1> QED
  BY <1>2, HookInvAlways, PTL

===============================================================================
