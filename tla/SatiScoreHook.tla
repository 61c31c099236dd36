----------------------------- MODULE SatiScoreHook -----------------------------
(***************************************************************************)
(* The hook program normandy-hook-sati-score by itself.  A call of         *)
(* on_borrow looks at the accounts passed along one by one, each a step    *)
(* here; what it makes of one is SatiScoreCheck's Verdict.                 *)
(***************************************************************************)
EXTENDS SatiScoreCheck

CONSTANTS
  ConfigArgs,         \* arguments of initialize
  Agents, Amounts, Times,
  Accounts,           \* accounts that a borrower may pass along
  MaxAccounts         \* bound: accounts passed in one call

ASSUME SatiAssumption ==
  /\ ConfigArgs \subseteq InitializeArgs
  /\ Agents \subseteq Keys
  /\ Amounts \subseteq Nat /\ Times \subseteq Nat
  /\ Accounts \subseteq Attestation
  /\ MaxAccounts \in Nat

VARIABLES
  hook_config,        \* the HookConfig account, or NoConfig
  call,               \* the call of on_borrow being served
  decision            \* what it came to

hookVars == <<hook_config, call, decision>>

NoCall == [agent |-> DefaultKey, amount |-> 0, accounts |-> <<>>, now |-> 0, next |-> 1]

Undecided == [result |-> "none", provider |-> DefaultKey, failure |-> "none"]

-------------------------------------------------------------------------------
(***************************************************************************)
(* Instructions                                                            *)
(***************************************************************************)

Init == hook_config = NoConfig /\ call = NoCall /\ decision = Undecided

Initialize(args) ==
  /\ hook_config = NoConfig
  /\ ValidArgs(args)
  /\ hook_config' = args
  /\ UNCHANGED <<call, decision>>

\* A call of on_borrow begins with the cap.
OnBorrow(agent, amount, accounts, now) ==
  /\ hook_config # NoConfig
  /\ decision = Undecided
  /\ call' = [agent |-> agent, amount |-> amount, accounts |-> accounts,
              now |-> now, next |-> 1]
  /\ decision' = IF amount <= hook_config.max_borrow_per_agent
                 THEN Running("NoValidReputationScore")
                 ELSE Rejected("BorrowExceedsCap")
  /\ UNCHANGED hook_config

\* One iteration of the loop over the accounts passed along.
CheckAccount ==
  /\ decision.result = "running"
  /\ call.next <= Len(call.accounts)
  /\ decision' = Verdict(call.accounts[call.next], call.agent, hook_config, call.now)
  /\ call' = [call EXCEPT !.next = @ + 1]
  /\ UNCHANGED hook_config

\* No account is left: the last failure is the error of the call.
GiveUp ==
  /\ decision.result = "running"
  /\ call.next > Len(call.accounts)
  /\ decision' = Rejected(decision.failure)
  /\ UNCHANGED <<hook_config, call>>

\* The instruction ends; the hook keeps nothing of it.
Return ==
  /\ decision.result \in {"approved", "rejected"}
  /\ call' = NoCall /\ decision' = Undecided
  /\ UNCHANGED hook_config

Next ==
  \/ \E args \in ConfigArgs : Initialize(args)
  \/ \E agent \in Agents, amount \in Amounts, now \in Times,
        accounts \in SeqOf(Accounts, MaxAccounts) :
       OnBorrow(agent, amount, accounts, now)
  \/ CheckAccount
  \/ GiveUp
  \/ Return

Spec == Init /\ [][Next]_hookVars

-------------------------------------------------------------------------------
(***************************************************************************)
(* Properties                                                              *)
(***************************************************************************)

Errors ==
  {"none", "BorrowExceedsCap", "NoValidReputationScore", "InvalidScoreAccount",
   "InvalidScoreLayout", "UntrustedProvider", "ReputationScoreBelowThreshold",
   "ReputationScoreStale"}

\* The decision does not depend on the order of the accounts, nor on what else
\* is among them: a call within the cap is approved if one of its accounts
\* endorses the agent, and only then, in the name of a provider that does.  The
\* one exception are accounts that would if their expiry were not negative: the
\* code takes them (DocumentedScoreChecks).
ApprovedIffEndorsed ==
  decision.result \in {"approved", "rejected"} =>
    LET capped == call.amount <= hook_config.max_borrow_per_agent
        endorsing == {acc \in Range(call.accounts) :
                        Endorses(acc, call.agent, hook_config, call.now)}
        negative == {acc \in Range(call.accounts) :
                       acc.expiry < 0 /\ Recommends(acc, call.agent, hook_config)}
    IN  /\ capped /\ endorsing # {} => decision.result = "approved"
        /\ decision.result = "approved" =>
             /\ capped
             /\ \E acc \in endorsing \union negative :
                  acc.counterparty = decision.provider

\* The end of the bytes that each check reads, in the account and in the slice
\* of the payload (0: nothing).
AccountReads(acc) ==
  <<0, 1, 97, 33, 101, PayloadEnd(acc), 0, 0, PayloadEnd(acc) + TAIL_OFF_EXPIRY + 8>>

PayloadReads == <<0, 0, 0, 0, 0, 1, 97, 98, 0>>

\* No check reads past the end of what it slices, whatever the sizes are: the
\* ones before it have seen to that.  (The program would panic.)
ReadsWithinBounds ==
  \A acc \in Range(call.accounts) :
    acc.sas_owned /\ acc.readable =>
      LET passed == Passed(Checks(acc, call.agent, hook_config, call.now))
      IN  \A i \in 1 .. 9 : i <= passed + 1 =>
            /\ AccountReads(acc)[i] <= acc.size
            /\ PayloadReads[i] > 0 => PayloadReads[i] <= acc.data_len

\* Every word of the state has its type.
TypeOK ==
  /\ hook_config = NoConfig \/ hook_config \in HookConfig
  /\ call \in [agent : Keys \union {DefaultKey}, amount : Nat,
               accounts : SeqOf(Accounts, MaxAccounts), now : Nat, next : Nat]
  /\ call.next \in 1 .. Len(call.accounts) + 1
  /\ decision.result \in {"none", "running", "approved", "rejected"}
  /\ decision.failure \in Errors
  /\ decision.provider \in Keys \union {DefaultKey}

===============================================================================
