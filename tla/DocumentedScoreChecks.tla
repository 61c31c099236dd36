------------------------- MODULE DocumentedScoreChecks -------------------------
(***************************************************************************)
(* What the comments of normandy-hook-sati-score say of on_borrow and the  *)
(* code does not do.  Each is checked by a run of its own that TLC         *)
(* refutes.                                                                *)
(***************************************************************************)
EXTENDS MCSatiScoreHook

\* on_borrow.rs, verify_score_bytes: "if expiry is set, it must not be in the
\* past".  The code only compares a positive expiry with the time, so a score with
\* a negative one, which is set and long past, is taken for good.
ApprovedOnUnexpiredScore ==
  decision.result = "approved" =>
    \E acc \in Range(call.accounts) :
      Endorses(acc, call.agent, hook_config, call.now)

\* How far the program gets with an account: past its owner, to its bytes, and
\* then through so many checks.
Reached(acc) ==
  CASE ~acc.sas_owned                 -> 0
    [] acc.sas_owned /\ ~acc.readable -> 1
    [] OTHER -> 2 + Passed(Checks(acc, call.agent, hook_config, call.now))

\* on_borrow.rs, handle_on_borrow: "Track the most-specific failure across
\* candidates so the borrower's client sees a useful error".  The error should be
\* that of an account the program got furthest with; it is that of the account
\* listed last.
MostSpecificFailure ==
  /\ decision.result = "rejected"
  /\ call.amount <= hook_config.max_borrow_per_agent
  /\ call.accounts # <<>>
  => \E acc \in Range(call.accounts) :
       /\ \A other \in Range(call.accounts) : Reached(other) <= Reached(acc)
       /\ decision.failure = Verdict(acc, call.agent, hook_config, call.now).failure

===============================================================================
