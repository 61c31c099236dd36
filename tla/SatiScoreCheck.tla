---------------------------- MODULE SatiScoreCheck ----------------------------
(***************************************************************************)
(* What the hook program normandy-hook-sati-score decides, as operators:   *)
(* whether an account passed along with a borrow is an attestation of the  *)
(* Solana Attestation Service (SAS) by a provider the lender trusts, about *)
(* this agent, good enough and not expired.                                *)
(*                                                                         *)
(* An account is the record of what the code decodes from its bytes, with  *)
(* the byte counts it checks: size (data.len()) and data_len.  The nonce,  *)
(* a keccak hash of provider and agent, is the pair itself: two pairs do   *)
(* not collide.                                                            *)
(***************************************************************************)
EXTENDS Integers, SequencesExt

CONSTANTS
  Keys,               \* public keys: agents, providers, credentials, schemas
  DefaultKey          \* the all-zero key

ASSUME KeyAssumption == DefaultKey \notin Keys

MAX_ALLOWED_PROVIDERS == 8

\* Byte counts of the SAS account layout and of the SATI payload in it.
HEADER_SIZE == 101
TAIL_SIZE == 72
TAIL_OFF_EXPIRY == 32
PAYLOAD_MIN_SIZE == 135
ATTESTATION_DISCRIMINATOR == 2
CURRENT_LAYOUT_VERSION == 1

Nonce(provider, agent) == <<provider, agent>>

HookConfig ==
  [max_borrow_per_agent : Nat, credential : Keys, schema : Keys,
   allowed_providers : Seq(Keys), min_outcome : 0 .. 2,
   max_score_age_seconds : Nat]

InitializeArgs ==
  [max_borrow_per_agent : Nat, credential : Keys \union {DefaultKey},
   schema : Keys \union {DefaultKey}, allowed_providers : Seq(Keys),
   min_outcome : Nat, max_score_age_seconds : Int]

Attestation ==
  [sas_owned : BOOLEAN,      \* owner is the SAS program
   readable : BOOLEAN,       \* try_borrow_data succeeds
   size : Nat,
   discriminator : Nat,
   nonce : Keys \X Keys, credential : Keys, schema : Keys,
   data_len : Nat,
   layout_version : Nat,
   task_ref : Keys \X Keys, agent_mint : Keys, counterparty : Keys,
   outcome : Nat, expiry : Int]

NoConfig == [max_borrow_per_agent |-> 0, credential |-> DefaultKey,
             schema |-> DefaultKey, allowed_providers |-> <<>>,
             min_outcome |-> 0, max_score_age_seconds |-> 0]

ValidArgsButAge(args) ==
  /\ Len(args.allowed_providers) \in 1 .. MAX_ALLOWED_PROVIDERS
  /\ args.min_outcome <= 2
  /\ args.credential # DefaultKey /\ args.schema # DefaultKey

ValidArgs(args) ==
  /\ Len(args.allowed_providers) \in 1 .. MAX_ALLOWED_PROVIDERS
  /\ args.min_outcome <= 2
  /\ args.max_score_age_seconds >= 0
  /\ args.credential # DefaultKey /\ args.schema # DefaultKey

-------------------------------------------------------------------------------
(***************************************************************************)
(* What becomes of a call, or of one account in it                         *)
(***************************************************************************)

Approved(provider) ==
  [result |-> "approved", provider |-> provider, failure |-> "none"]

Rejected(failure) ==
  [result |-> "rejected", provider |-> DefaultKey, failure |-> failure]

Running(failure) ==
  [result |-> "running", provider |-> DefaultKey, failure |-> failure]

-------------------------------------------------------------------------------
(***************************************************************************)
(* verify_score_bytes                                                      *)
(***************************************************************************)

PayloadEnd(acc) == HEADER_SIZE + acc.data_len

\* The allowed provider whose nonce for this agent the account carries: a set
\* of one, or none.
Matched(acc, agent, hc) ==
  {p \in Range(hc.allowed_providers) : Nonce(p, agent) = acc.nonce}

\* The declared payload and the tail after it lie within the account, and the
\* payload holds all of its fixed fields.
PayloadFitsByTailOnly(acc) == PayloadEnd(acc) + TAIL_SIZE <= acc.size

PayloadFits(acc) ==
  /\ PayloadEnd(acc) + TAIL_SIZE <= acc.size
  /\ acc.data_len >= PAYLOAD_MIN_SIZE

Stale(acc, hc, now) ==
  \/ hc.max_score_age_seconds > 0 /\ acc.expiry = 0
  \/ acc.expiry > 0 /\ now > acc.expiry

\* The checks in the code's order, each with the error it returns.
Checks(acc, agent, hc, now) ==
  << <<acc.size >= HEADER_SIZE + PAYLOAD_MIN_SIZE + TAIL_SIZE, "InvalidScoreLayout">>,
     <<acc.discriminator = ATTESTATION_DISCRIMINATOR, "InvalidScoreLayout">>,
     <<acc.credential = hc.credential /\ acc.schema = hc.schema, "InvalidScoreLayout">>,
     <<Matched(acc, agent, hc) # {}, "UntrustedProvider">>,
     <<PayloadFits(acc), "InvalidScoreLayout">>,
     <<acc.layout_version = CURRENT_LAYOUT_VERSION, "InvalidScoreLayout">>,
     <<acc.task_ref = acc.nonce /\ acc.agent_mint = agent
         /\ acc.counterparty \in Matched(acc, agent, hc), "InvalidScoreLayout">>,
     <<acc.outcome >= hc.min_outcome, "ReputationScoreBelowThreshold">>,
     <<~Stale(acc, hc, now), "ReputationScoreStale">> >>

\* The checks an account passes before the first that fails.
Passed(checks) ==
  Cardinality({i \in DOMAIN checks : \A j \in 1 .. i : checks[j][1]})

\* The error of the first check that fails, or "none".
Failure(acc, agent, hc, now) ==
  LET checks == Checks(acc, agent, hc, now)
  IN  IF Passed(checks) = Len(checks) THEN "none" ELSE checks[Passed(checks) + 1][2]

-------------------------------------------------------------------------------
(***************************************************************************)
(* on_borrow                                                               *)
(***************************************************************************)

\* What the loop makes of one account: its provider, or its failure.
VerdictStopping(acc, agent, hc, now) ==
  LET failure == Failure(acc, agent, hc, now)
  IN  IF failure = "none" THEN Approved(acc.counterparty) ELSE Rejected(failure)

VerdictOfAnyOwner(acc, agent, hc, now) ==
  LET failure == Failure(acc, agent, hc, now)
  IN  CASE ~acc.readable                    -> Running("InvalidScoreLayout")
        [] acc.readable /\ failure # "none" -> Running(failure)
        [] OTHER                            -> Approved(acc.counterparty)

Verdict(acc, agent, hc, now) ==
  LET failure == Failure(acc, agent, hc, now)
  IN  CASE ~acc.sas_owned                  -> Running("InvalidScoreAccount")
        [] acc.sas_owned /\ ~acc.readable  -> Running("InvalidScoreLayout")
        [] acc.sas_owned /\ acc.readable /\ failure # "none" -> Running(failure)
        [] OTHER                           -> Approved(acc.counterparty)

\* What the whole call comes to: the first account that passes decides, and if
\* there is none the last one names the error.
Decided(agent, amount, accounts, hc, now) ==
  LET verdict(i) == Verdict(accounts[i], agent, hc, now)
      passing == {i \in DOMAIN accounts : verdict(i).result = "approved"}
      capped == amount <= hc.max_borrow_per_agent
  IN  CASE ~capped -> Rejected("BorrowExceedsCap")
        [] capped /\ passing # {} -> verdict(Min(passing))
        [] capped /\ passing = {} /\ accounts # <<>> ->
             Rejected(verdict(Len(accounts)).failure)
        [] OTHER -> Rejected("NoValidReputationScore")

\* The two rules on expiry that the comment in verify_score_bytes gives: it has to
\* be set where the lender asks for freshness, and if it is set it must not be in
\* the past.  (Stale is how the code puts them: they differ on negative expiries.)
UpToDate(acc, hc, now) ==
  /\ hc.max_score_age_seconds > 0 => acc.expiry # 0
  /\ acc.expiry # 0 => now <= acc.expiry

\* What an attestation has to be for a lender to rely on it, its age aside: the
\* lender's own credential and schema, one of its providers speaking about this
\* very agent, and well enough.
Recommends(acc, agent, hc) ==
  /\ acc.sas_owned /\ acc.readable
  /\ acc.discriminator = ATTESTATION_DISCRIMINATOR
  /\ acc.credential = hc.credential /\ acc.schema = hc.schema
  /\ acc.layout_version = CURRENT_LAYOUT_VERSION
  /\ acc.agent_mint = agent
  /\ acc.counterparty \in Range(hc.allowed_providers)
  /\ acc.nonce = Nonce(acc.counterparty, agent) /\ acc.task_ref = acc.nonce
  /\ acc.data_len >= PAYLOAD_MIN_SIZE
  /\ acc.size >= HEADER_SIZE + acc.data_len + TAIL_SIZE
  /\ acc.outcome >= hc.min_outcome

Endorses(acc, agent, hc, now) == Recommends(acc, agent, hc) /\ UpToDate(acc, hc, now)

===============================================================================
