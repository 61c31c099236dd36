---------------------------- MODULE MCSatiScorePool ----------------------------
(***************************************************************************)
(* A small instance of SatiScorePool for TLC.                              *)
(***************************************************************************)
EXTENDS SatiScorePool, TLC

CONSTANTS
  a1, a2, p1, p2, cred, cred2, schema1, zero,
  LenderTokens, AgentTokens                    \* the endowment, by role

MCKeys == {a1, a2, p1, p2, cred, cred2, schema1}

MCEndowment ==
  [u \in Users |-> CASE u \in Lenders -> LenderTokens
                     [] u \in Agents  -> AgentTokens
                     [] OTHER         -> 0]

MCHookReplies ==
  [approved : {TRUE}, interest_bips : InterestBips, term_seconds : TermSeconds,
   diverted : {NothingDiverted}]

\* One lender wants fresh scores of one provider, the other any of two.
MCConfigArgs ==
  {[max_borrow_per_agent |-> 3, credential |-> cred, schema |-> schema1,
    allowed_providers |-> <<p1>>, min_outcome |-> 2, max_score_age_seconds |-> 1],
   [max_borrow_per_agent |-> 2, credential |-> cred, schema |-> schema1,
    allowed_providers |-> <<p2, p1>>, min_outcome |-> 1, max_score_age_seconds |-> 0]}

Score(provider, agent, outcome, expiry) ==
  [sas_owned |-> TRUE, readable |-> TRUE, size |-> 308, discriminator |-> 2,
   nonce |-> <<provider, agent>>, credential |-> cred, schema |-> schema1,
   data_len |-> 135, layout_version |-> 1, task_ref |-> <<provider, agent>>,
   agent_mint |-> agent, counterparty |-> provider, outcome |-> outcome,
   expiry |-> expiry]

\* Scores of one agent that expire, never do, or are too low; one by the other
\* provider, one of the other agent, one under another credential.
MCPublishable ==
  {Score(p1, a1, 2, 1), Score(p1, a1, 2, 0), Score(p1, a1, 0, 2),
   Score(p2, a1, 1, 1), Score(p1, a2, 1, 2),
   [Score(p1, a1, 2, 2) EXCEPT !.credential = cred2]}

\* The bytes of the best score in an account of another program.
MCForeign == {[Score(p1, a1, 2, 2) EXCEPT !.sas_owned = FALSE]}

===============================================================================
