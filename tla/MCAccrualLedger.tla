---------------------------- MODULE MCAccrualLedger ----------------------------
(***************************************************************************)
(* Small instances of AccrualLedger for TLC.  The rates are such that both *)
(* the accruals and the charges are rounded.                               *)
(***************************************************************************)
EXTENDS AccrualLedger, TLC

CONSTANTS
  LenderTokens, AgentTokens, RecipientTokens,  \* the endowment, by role
  Rates,                                       \* rates the hook may return
  HookTakes                                    \* tokens it may move to the recipient

MCEndowment ==
  [u \in Users |-> CASE u \in Lenders -> LenderTokens
                     [] u \in Agents  -> AgentTokens
                     [] OTHER         -> RecipientTokens]

MCDiverted ==
  {[u \in Users |-> IF u = r THEN n ELSE 0] : r \in FeeRecipients, n \in HookTakes}

MCHookReplies ==
  [approved : {TRUE}, interest_bips : Rates, term_seconds : TermSeconds,
   diverted : MCDiverted]

UserSymmetry == Permutations(Lenders) \union Permutations(Agents)

===============================================================================
