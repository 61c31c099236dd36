---------------------------- MODULE MCNormandyCore ----------------------------
(***************************************************************************)
(* Small instances of NormandyCore for TLC.  Interest is 100% a second and *)
(* the units are a few tokens, so that one or two seconds book interest    *)
(* and fees that rounding does not hide.                                   *)
(***************************************************************************)
EXTENDS NormandyBook, TLC

CONSTANTS
  LenderTokens, AgentTokens, RecipientTokens,  \* the endowment, by role
  Rates,                                       \* rates the hook may return
  HookTakes                                    \* tokens it may move to the recipient

MCEndowment ==
  [u \in Users |-> CASE u \in Lenders -> LenderTokens
                     [] u \in Agents  -> AgentTokens
                     [] OTHER         -> RecipientTokens]

MCDiverted ==
  {[u \in Users |-> IF u = r THEN n ELSE 0] : r \in FeeRecipients, n \in HookTakes}

MCHookReplies ==
  [approved : {TRUE}, interest_bips : Rates, term_seconds : TermSeconds,
   diverted : MCDiverted]
    \union [approved : {FALSE}, interest_bips : {0}, term_seconds : {0},
            diverted : {NothingDiverted}]

\* Users of one role are interchangeable, and so are hook programs.
UserSymmetry ==
  Permutations(Lenders) \union Permutations(Agents) \union Permutations(HookPrograms)

===============================================================================
