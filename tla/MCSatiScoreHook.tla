---------------------------- MODULE MCSatiScoreHook ----------------------------
(***************************************************************************)
(* A small instance of SatiScoreHook for TLC: one good attestation, and    *)
(* those that differ from it in one field, or in the two sizes.            *)
(***************************************************************************)
EXTENDS SatiScoreHook

CONSTANTS agent1, agent2, provider1, provider2, stranger, cred, schema1, zero

MCKeys == {agent1, agent2, provider1, provider2, stranger, cred, schema1}

Args(providers, outcome, age) ==
  [max_borrow_per_agent |-> 1, credential |-> cred, schema |-> schema1,
   allowed_providers |-> providers, min_outcome |-> outcome,
   max_score_age_seconds |-> age]

\* Two lenders' choices, and arguments that initialize has to refuse.
MCConfigArgs ==
  {Args(<<provider1, provider2>>, 1, 0), Args(<<provider2, provider1>>, 2, 5),
   Args(<<>>, 1, 0), Args(<<provider1>>, 3, 0), Args(<<provider1>>, 1, -1),
   Args([i \in 1 .. 9 |-> provider1], 1, 0),
   [Args(<<provider1>>, 1, 0) EXCEPT !.credential = zero]}

Good(provider, agent) ==
  [sas_owned |-> TRUE, readable |-> TRUE, size |-> 309, discriminator |-> 2,
   nonce |-> <<provider, agent>>, credential |-> cred, schema |-> schema1,
   data_len |-> 136, layout_version |-> 1, task_ref |-> <<provider, agent>>,
   agent_mint |-> agent, counterparty |-> provider, outcome |-> 2, expiry |-> 5]

Base == Good(provider1, agent1)

MCAccounts ==
  {Base, Good(provider2, agent1), Good(stranger, agent1), Good(provider1, agent2)}
    \union {[Base EXCEPT !.sas_owned = FALSE], [Base EXCEPT !.readable = FALSE],
            [Base EXCEPT !.discriminator = 1], [Base EXCEPT !.credential = stranger],
            [Base EXCEPT !.schema = stranger], [Base EXCEPT !.layout_version = 2],
            [Base EXCEPT !.task_ref = <<provider2, agent1>>],
            [Base EXCEPT !.agent_mint = agent2],
            [Base EXCEPT !.counterparty = provider2]}
    \union {[Base EXCEPT !.outcome = o] : o \in 0 .. 1}
    \union {[Base EXCEPT !.expiry = e] : e \in {-1, 0, 4}}
    \union {[Base EXCEPT !.size = s, !.data_len = d] :
              s \in {0, 307, 308}, d \in {0, 134, 135, 136}}

===============================================================================
