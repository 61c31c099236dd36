---------------------------- MODULE MCFixedTermPool ----------------------------
(***************************************************************************)
(* Small instances of FixedTermPool for TLC.                               *)
(***************************************************************************)
EXTENDS FixedTermPool, TLC

CONSTANTS LenderTokens, AgentTokens    \* the endowment, by role

MCEndowment ==
  [u \in Users |-> CASE u \in Lenders -> LenderTokens
                     [] u \in Agents  -> AgentTokens
                     [] OTHER         -> 0]

MCHookReplies ==
  [approved : {TRUE}, interest_bips : InterestBips, term_seconds : TermSeconds,
   diverted : {NothingDiverted}]

\* A loss, no profit, a profit.
MCPnls == {-1, 0, 1}

\* A pool's term is any i64, negative ones included.
EdgeTerms == {-1, 2}

UserSymmetry == Permutations(Lenders) \union Permutations(Agents)

===============================================================================
