----------------------------- MODULE FixedTermPool -----------------------------
(***************************************************************************)
(* A pool of normandy-core whose hook program is normandy-hook-fixed-term: *)
(* the two programs composed.  initialize_pool calls the hook's initialize *)
(* and borrow calls its on_borrow, each inside the core's instruction, so  *)
(* a pair of calls is one action.  Where NormandyCore lets the hook answer *)
(* anything, here the answer is what the hook's code computes from its     *)
(* HookConfig account and the borrower's reputation proof.                 *)
(***************************************************************************)
EXTENDS NormandyCore

CONSTANTS
  FixedTermHook,      \* the program id of normandy-hook-fixed-term
  BorrowCaps,         \* arguments of the hook's initialize
  Pnls,               \* profits a well-formed reputation proof may claim
  MalformedProof      \* bytes that are no ReputationProof

ASSUME FixedTermAssumption ==
  /\ FixedTermHook \in HookPrograms
  /\ BorrowCaps \subseteq U64
  /\ Pnls \subseteq Int
  /\ MalformedProof \notin Pnls
  /\ [approved : {TRUE}, interest_bips : InterestBips, term_seconds : TermSeconds,
      diverted : {NothingDiverted}]
       \subseteq HookReplies

VARIABLE hook_config  \* the hook's HookConfig account of this pool

fixedTermVars == <<clock, config, pool, lender, borrower, vault, wallet, hook_config>>

HookConfig == [max_borrow_per_agent : U64, require_pnl_positive : BOOLEAN]

-------------------------------------------------------------------------------

\* handle_on_borrow reaches its end.  The proof is the borrower's own claim:
\* its bytes are only parsed when a positive profit is required.
ApprovesIgnoringCap(hc, amount, proof) ==
  hc.require_pnl_positive => proof # MalformedProof /\ proof > 0

Approves(hc, amount, proof) ==
  /\ amount <= hc.max_borrow_per_agent
  /\ hc.require_pnl_positive => proof # MalformedProof /\ proof > 0

\* The answer: the fixed rate and term that core passed in.  The hook calls no
\* other program, so the vault stays as it is.
Terms(p) ==
  [approved |-> TRUE,
   interest_bips |-> p.min_interest_bips,
   term_seconds |-> p.min_term_seconds,
   diverted |-> NothingDiverted]

FixedTermInit ==
  /\ Init
  /\ hook_config = [max_borrow_per_agent |-> 0, require_pnl_positive |-> FALSE]

\* initialize_pool with this hook, and the hook's initialize inside it.
InitializeFixedTermPool(bips, term, reserve, window, cap, pnl) ==
  /\ InitializePool(FixedTermHook, bips, term, reserve, window)
  /\ hook_config' = [max_borrow_per_agent |-> cap, require_pnl_positive |-> pnl]

\* borrow, and the hook's on_borrow inside it.
FixedTermBorrow(a, amount, h, proof) ==
  /\ Approves(hook_config, amount, proof)
  /\ Borrow(a, amount, h, Terms(AccruedPool))
  /\ UNCHANGED hook_config

FixedTermNext ==
  \/ \E bips \in InterestBips, term \in TermSeconds, reserve \in ReserveRatioBips,
        window \in DepositWindowEnds, cap \in BorrowCaps, pnl \in BOOLEAN :
       InitializeFixedTermPool(bips, term, reserve, window, cap, pnl)
  \/ \E a \in Agents, amount \in Amounts, h \in HookPrograms,
        proof \in Pnls \union {MalformedProof} :
       FixedTermBorrow(a, amount, h, proof)
  \/ HookFree /\ UNCHANGED hook_config

FixedTermSpec == FixedTermInit /\ [][FixedTermNext]_fixedTermVars

-------------------------------------------------------------------------------
(***************************************************************************)
(* Properties                                                              *)
(***************************************************************************)

\* Every loan, repaid ones too, is on the pool's own terms and within the cap:
\* since the hook only sees one amount at a time, the cap binds an agent because
\* core never gives it a second loan.
LoansOnHookTerms ==
  \A a \in Agents : borrower[a].status # "None" =>
    /\ borrower[a].principal <= hook_config.max_borrow_per_agent
    /\ borrower[a].annual_interest_bips
         \in pool.min_interest_bips .. pool.max_interest_bips
    /\ borrower[a].term_seconds \in pool.min_term_seconds .. pool.max_term_seconds

===============================================================================
