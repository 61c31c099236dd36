----------------------------- MODULE SatiScorePool -----------------------------
(***************************************************************************)
(* A pool of normandy-core whose hook program is                           *)
(* normandy-hook-sati-score, among attestations that come and go.  As in   *)
(* FixedTermPool a call of the hook is part of the core instruction that   *)
(* makes it.  Providers publish and close attestations through the SAS     *)
(* program at any time; a borrower passes along any accounts it likes,     *)
(* attestations that exist and foreign accounts with bytes of its choice.  *)
(***************************************************************************)
EXTENDS NormandyCore, SatiScoreCheck

\* That no attestation has a negative expiry is assumed of the SAS program: the
\* hook would take one for a score that never gets stale.
CONSTANTS
  SatiHook,           \* the program id of normandy-hook-sati-score
  ConfigArgs,         \* arguments of the hook's initialize
  Publishable,        \* attestations that the SAS program may be asked to create
  Foreign,            \* accounts of other programs, or of none
  MaxAccounts         \* bound: accounts passed in one call

ASSUME SatiPoolAssumption ==
  /\ SatiHook \in HookPrograms
  /\ Agents \subseteq Keys
  /\ ConfigArgs \subseteq InitializeArgs
  /\ Publishable \subseteq {acc \in Attestation : acc.sas_owned /\ acc.expiry \in Nat}
  /\ Foreign \subseteq {acc \in Attestation : ~acc.sas_owned}
  /\ MaxAccounts \in Nat
  /\ [approved : {TRUE}, interest_bips : InterestBips, term_seconds : TermSeconds,
      diverted : {NothingDiverted}]
       \subseteq HookReplies

VARIABLES
  hook_config,        \* the hook's HookConfig account of this pool
  attestations        \* accounts of the SAS program

satiPoolVars ==
  <<clock, config, pool, lender, borrower, vault, wallet, hook_config, attestations>>

-------------------------------------------------------------------------------

\* The answer: the pool's lowest rate and shortest term, whatever the score.  The
\* hook only reads the accounts it is given, so the vault stays as it is.
Terms(p) ==
  [approved |-> TRUE,
   interest_bips |-> p.min_interest_bips,
   term_seconds |-> p.min_term_seconds,
   diverted |-> NothingDiverted]

SatiPoolInit == Init /\ hook_config = NoConfig /\ attestations = {}

\* initialize_pool with this hook, and the hook's initialize inside it.
InitializeSatiPool(bips, term, reserve, window, args) ==
  /\ ValidArgs(args)
  /\ InitializePool(SatiHook, bips, term, reserve, window)
  /\ hook_config' = args
  /\ UNCHANGED attestations

\* borrow, and the hook's on_borrow inside it.
SatiBorrow(a, amount, h, accounts) ==
  /\ Borrow(a, amount, h, Terms(AccruedPool))
  /\ Decided(a, amount, accounts, hook_config, clock).result = "approved"
  /\ UNCHANGED <<hook_config, attestations>>

\* External: the SAS program keeps an attestation at the address derived from
\* its credential, schema and nonce, so there is one of each.
Address(acc) == <<acc.credential, acc.schema, acc.nonce>>

Publish(acc) ==
  /\ \A other \in attestations : Address(other) # Address(acc)
  /\ attestations' = attestations \union {acc}
  /\ UNCHANGED <<vars, hook_config>>

Close(acc) ==
  /\ attestations' = attestations \ {acc}
  /\ UNCHANGED <<vars, hook_config>>

SatiPoolNext ==
  \/ \E bips \in InterestBips, term \in TermSeconds, reserve \in ReserveRatioBips,
        window \in DepositWindowEnds, args \in ConfigArgs :
       InitializeSatiPool(bips, term, reserve, window, args)
  \/ \E a \in Agents, amount \in Amounts, h \in HookPrograms,
        accounts \in SeqOf(attestations \union Foreign, MaxAccounts) :
       SatiBorrow(a, amount, h, accounts)
  \/ \E acc \in Publishable : Publish(acc)
  \/ \E acc \in attestations : Close(acc)
  \/ HookFree /\ UNCHANGED <<hook_config, attestations>>

SatiPoolSpec == SatiPoolInit /\ [][SatiPoolNext]_satiPoolVars

-------------------------------------------------------------------------------
(***************************************************************************)
(* Properties                                                              *)
(***************************************************************************)

\* An attestation that the lender asked for, by a provider it trusts, about
\* this very agent, good enough, and with an expiry that is still to come or,
\* where the lender does not ask for freshness, none.
Vouches(acc, a) ==
  /\ acc.credential = hook_config.credential /\ acc.schema = hook_config.schema
  /\ acc.counterparty \in Range(hook_config.allowed_providers)
  /\ acc.agent_mint = a
  /\ acc.outcome >= hook_config.min_outcome
  /\ IF acc.expiry = 0 THEN hook_config.max_score_age_seconds = 0
     ELSE clock <= acc.expiry

\* At the moment a loan is drawn there is such an attestation: not one that was
\* closed or ran out before, was replaced by a worse one, or speaks about
\* another agent, nor a foreign account that looks like one.  And the loan is
\* within the cap and on the pool's own terms.
ScoreBehindEveryLoan ==
  [][\A a \in Agents : OpensLoan(a) =>
       /\ \E acc \in attestations : Vouches(acc, a)
       /\ borrower'[a].principal <= hook_config.max_borrow_per_agent
       /\ borrower'[a].annual_interest_bips = pool.min_interest_bips
       /\ borrower'[a].term_seconds = pool.min_term_seconds]_satiPoolVars

===============================================================================
