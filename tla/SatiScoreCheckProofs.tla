-------------------------- MODULE SatiScoreCheckProofs --------------------------
(***************************************************************************)
(* What the SATI hook's checks come to, for every account, agent,          *)
(* configuration and time: the order of the checks and their early returns *)
(* decide on the error only, and they read no byte they have not counted.  *)
(***************************************************************************)
EXTENDS SatiScoreCheck, FiniteSetTheorems, TLAPS

\* There are nine checks, each with an error of its own to return.
LEMMA NineChecks ==
  ASSUME NEW acc, NEW agent, NEW hc, NEW now
  PROVE  LET checks == Checks(acc, agent, hc, now)
         IN  /\ Len(checks) = 9 /\ DOMAIN checks = 1 .. 9
             /\ \A i \in 1 .. 9 : checks[i][2] \in
                  {"InvalidScoreLayout", "UntrustedProvider",
                   "ReputationScoreBelowThreshold", "ReputationScoreStale"}
BY DEF Checks

\* Among n checks, Passed counts the ones before the first that fails.
LEMMA PassedIsPrefix ==
  ASSUME NEW checks, NEW n \in Nat, DOMAIN checks = 1 .. n
  PROVE  /\ Passed(checks) \in 0 .. n
         /\ \A i \in 1 .. n : i <= Passed(checks) => checks[i][1]
         /\ (\A i \in 1 .. n : checks[i][1]) => Passed(checks) = n
<1> DEFINE passed == {i \in DOMAIN checks : \A j \in 1 .. i : checks[j][1]}
<1>1. \A m \in Nat : IsFiniteSet(1 .. m) /\ Cardinality(1 .. m) = m
  <2>1. SUFFICES ASSUME NEW m \in Nat
                 PROVE  IsFiniteSet(1 .. m) /\ Cardinality(1 .. m) = m
    OBVIOUS
  <2>2. IsFiniteSet(1 .. m) /\ Cardinality(1 .. m) = (IF 1 > m THEN 0 ELSE m - 1 + 1)
    BY FS_Interval
  <2> QED
    BY <2>2
<1>2. Passed(checks) = Cardinality(passed)
  BY DEF Passed
<1>3. passed \in SUBSET (1 .. n)
  OBVIOUS
<1>4. Cardinality(passed) \in 0 .. n
  BY <1>1, <1>3, FS_Subset, FS_CardinalityType
<1>5. ASSUME NEW i \in 1 .. n, i <= Passed(checks), ~checks[i][1] PROVE FALSE
  <2>1. passed \in SUBSET (1 .. i - 1)
    BY <1>5
  <2>2. i - 1 \in Nat
    OBVIOUS
  <2>3. Cardinality(passed) <= i - 1
    BY <1>1, <2>1, <2>2, FS_Subset
  <2> QED
    BY <1>2, <1>4, <1>5, <2>3
<1>6. ASSUME \A i \in 1 .. n : checks[i][1] PROVE Passed(checks) = n
  <2>1. passed = 1 .. n
    BY <1>6
  <2> QED
    BY <1>1, <1>2, <2>1
<1> HIDE DEF passed
<1> QED
  BY <1>2, <1>4, <1>5, <1>6

\* An account fails none of the checks exactly when it passes all of them.
LEMMA FailureMeaning ==
  ASSUME NEW acc, NEW agent, NEW hc, NEW now
  PROVE  /\ Failure(acc, agent, hc, now) = "none"
              <=> \A i \in 1 .. 9 : Checks(acc, agent, hc, now)[i][1]
         /\ Failure(acc, agent, hc, now) \in
              {"none", "InvalidScoreLayout", "UntrustedProvider",
               "ReputationScoreBelowThreshold", "ReputationScoreStale"}
<1> DEFINE checks == Checks(acc, agent, hc, now)
<1>1. /\ Len(checks) = 9 /\ DOMAIN checks = 1 .. 9
      /\ \A i \in 1 .. 9 : checks[i][2] \in
           {"InvalidScoreLayout", "UntrustedProvider",
            "ReputationScoreBelowThreshold", "ReputationScoreStale"}
  BY NineChecks
<1>2. Failure(acc, agent, hc, now)
        = IF Passed(checks) = 9 THEN "none" ELSE checks[Passed(checks) + 1][2]
  BY <1>1 DEF Failure
<1> HIDE DEF checks
<1>3. /\ Passed(checks) \in 0 .. 9
      /\ \A i \in 1 .. 9 : i <= Passed(checks) => checks[i][1]
      /\ (\A i \in 1 .. 9 : checks[i][1]) => Passed(checks) = 9
  BY <1>1, PassedIsPrefix
<1>4. Passed(checks) # 9 => Passed(checks) + 1 \in 1 .. 9
  BY <1>3
<1> QED
  BY <1>1, <1>2, <1>3, <1>4 DEF checks

\* An account is approved exactly when it recommends the agent and the code does
\* not find it stale.
LEMMA ApprovedIffRecommends ==
  ASSUME NEW acc \in Attestation, NEW agent, NEW hc, NEW now
  PROVE  /\ Verdict(acc, agent, hc, now).result = "approved"
              <=> Recommends(acc, agent, hc) /\ ~Stale(acc, hc, now)
         /\ Verdict(acc, agent, hc, now).result = "approved" =>
              Verdict(acc, agent, hc, now) = Approved(acc.counterparty)
<1> DEFINE checks == Checks(acc, agent, hc, now)
           failure == Failure(acc, agent, hc, now)
<1>1. acc.size \in Nat /\ acc.data_len \in Nat
  BY DEF Attestation
<1>2. /\ checks[1][1] = (acc.size >= HEADER_SIZE + PAYLOAD_MIN_SIZE + TAIL_SIZE)
      /\ checks[2][1] = (acc.discriminator = ATTESTATION_DISCRIMINATOR)
      /\ checks[3][1] = (acc.credential = hc.credential /\ acc.schema = hc.schema)
      /\ checks[4][1] = (Matched(acc, agent, hc) # {})
  BY DEF Checks
<1>3. /\ checks[5][1] = PayloadFits(acc)
      /\ checks[6][1] = (acc.layout_version = CURRENT_LAYOUT_VERSION)
      /\ checks[7][1] = (/\ acc.task_ref = acc.nonce /\ acc.agent_mint = agent
                         /\ acc.counterparty \in Matched(acc, agent, hc))
      /\ checks[8][1] = (acc.outcome >= hc.min_outcome)
      /\ checks[9][1] = ~Stale(acc, hc, now)
  BY DEF Checks
<1>4. failure = "none" <=> \A i \in 1 .. 9 : checks[i][1]
  BY FailureMeaning
<1> HIDE DEF checks
<1>5. (\A i \in 1 .. 9 : checks[i][1])
        <=> /\ checks[1][1] /\ checks[2][1] /\ checks[3][1] /\ checks[4][1] /\ checks[5][1]
            /\ checks[6][1] /\ checks[7][1] /\ checks[8][1] /\ checks[9][1]
  OBVIOUS
<1>6. PayloadFits(acc) <=> /\ acc.data_len >= PAYLOAD_MIN_SIZE
                           /\ acc.size >= HEADER_SIZE + acc.data_len + TAIL_SIZE
  BY <1>1 DEF PayloadFits, PayloadEnd, HEADER_SIZE, TAIL_SIZE, PAYLOAD_MIN_SIZE
<1>7. PayloadFits(acc) => acc.size >= HEADER_SIZE + PAYLOAD_MIN_SIZE + TAIL_SIZE
  BY <1>1 DEF PayloadFits, PayloadEnd, HEADER_SIZE, TAIL_SIZE, PAYLOAD_MIN_SIZE
<1>8. acc.counterparty \in Matched(acc, agent, hc)
        <=> /\ acc.counterparty \in Range(hc.allowed_providers)
            /\ acc.nonce = Nonce(acc.counterparty, agent)
  BY DEF Matched
<1>9. acc.counterparty \in Matched(acc, agent, hc) => Matched(acc, agent, hc) # {}
  OBVIOUS
<1>10. acc.sas_owned /\ acc.readable /\ failure = "none"
         <=> Recommends(acc, agent, hc) /\ ~Stale(acc, hc, now)
  BY <1>2, <1>3, <1>4, <1>5, <1>6, <1>7, <1>8, <1>9 DEF Recommends
<1>11. Verdict(acc, agent, hc, now).result = "approved"
         <=> acc.sas_owned /\ acc.readable /\ failure = "none"
  BY DEF Verdict, Running, Approved
<1>12. acc.sas_owned /\ acc.readable /\ failure = "none"
         => Verdict(acc, agent, hc, now) = Approved(acc.counterparty)
  BY DEF Verdict
<1> QED
  BY <1>10, <1>11, <1>12

\* The code's test of the expiry is the documented one, but for negative expiries,
\* which it never finds stale.
LEMMA StaleIffOutdated ==
  ASSUME NEW acc \in Attestation, NEW hc, NEW now \in Int
  PROVE  /\ UpToDate(acc, hc, now) => ~Stale(acc, hc, now)
         /\ acc.expiry >= 0 /\ ~Stale(acc, hc, now) => UpToDate(acc, hc, now)
<1>1. acc.expiry \in Int
  BY DEF Attestation
<1> QED
  BY <1>1 DEF Stale, UpToDate

\* Whoever endorses the agent is approved; whoever is approved recommends it, and
\* endorses it unless its expiry is negative.
LEMMA ApprovedIffEndorses ==
  ASSUME NEW acc \in Attestation, NEW agent, NEW hc, NEW now \in Int
  PROVE  /\ Endorses(acc, agent, hc, now) =>
              Verdict(acc, agent, hc, now).result = "approved"
         /\ Verdict(acc, agent, hc, now).result = "approved" =>
              /\ Verdict(acc, agent, hc, now) = Approved(acc.counterparty)
              /\ Recommends(acc, agent, hc)
              /\ Endorses(acc, agent, hc, now) \/ acc.expiry < 0
<1>1. acc.expiry \in Int
  BY DEF Attestation
<1>2. acc.expiry >= 0 \/ acc.expiry < 0
  BY <1>1
<1> QED
  BY <1>2, ApprovedIffRecommends, StaleIffOutdated DEF Endorses

\* What the loop makes of an account: never a rejection, and always an error
\* that the code names.
LEMMA VerdictType ==
  ASSUME NEW acc \in Attestation, NEW agent, NEW hc, NEW now
  PROVE  LET verdict == Verdict(acc, agent, hc, now)
         IN  \/ /\ verdict.result = "approved"
                /\ verdict = Approved(acc.counterparty)
             \/ /\ verdict.result = "running"
                /\ verdict = Running(verdict.failure)
                /\ verdict.failure \in
                     {"InvalidScoreAccount", "InvalidScoreLayout", "UntrustedProvider",
                      "ReputationScoreBelowThreshold", "ReputationScoreStale"}
<1> DEFINE failure == Failure(acc, agent, hc, now)
<1>1. failure \in {"none", "InvalidScoreLayout", "UntrustedProvider",
                   "ReputationScoreBelowThreshold", "ReputationScoreStale"}
  BY FailureMeaning
<1>2. Verdict(acc, agent, hc, now) =
        CASE ~acc.sas_owned                  -> Running("InvalidScoreAccount")
          [] acc.sas_owned /\ ~acc.readable  -> Running("InvalidScoreLayout")
          [] acc.sas_owned /\ acc.readable /\ failure # "none" -> Running(failure)
          [] OTHER                           -> Approved(acc.counterparty)
  BY DEF Verdict
<1> HIDE DEF failure
<1> QED
  BY <1>1, <1>2 DEF Running, Approved

\* A set of naturals that is not empty has a least element.
LEMMA NatLeast ==
  ASSUME NEW S \in SUBSET Nat, S # {}
  PROVE  \E n \in S : \A m \in S : n <= m
<1> DEFINE R == OpToRel(<, Nat)
<1>1. IsWellFoundedOn(R, Nat)
  BY NatLessThanWellFounded
<1>2. \A x, y \in Nat : <<x, y>> \in R <=> x < y
  BY DEF OpToRel
<1> HIDE DEF R
<1>3. \E x \in S : \A y \in S : ~ (<<y, x>> \in R)
  BY <1>1, WFMin
<1>4. PICK n \in S : \A y \in S : ~ (<<y, n>> \in R)
  BY <1>3
<1>5. \A y \in S : y \in Nat /\ n \in Nat /\ ~ (y < n)
  BY <1>2, <1>4
<1> QED
  BY <1>4, <1>5

\* The smallest of some integers is the one that is at most each of them.
LEMMA MinIs ==
  ASSUME NEW S \in SUBSET Int, NEW n \in S, \A i \in S : n <= i
  PROVE  Min(S) = n
<1>1. Min(S) \in S /\ \A i \in S : Min(S) <= i
  BY DEF Min
<1>2. Min(S) <= n /\ n <= Min(S) /\ Min(S) \in Int /\ n \in Int
  BY <1>1
<1> QED
  BY <1>2

===============================================================================
