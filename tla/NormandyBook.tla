------------------------------ MODULE NormandyBook ------------------------------
(***************************************************************************)
(* NormandyCore implements LendingBook: the book is read off the position  *)
(* accounts, never off the pool's running totals, so the totals have to    *)
(* agree with the positions for the reserve rule to hold.                  *)
(***************************************************************************)
EXTENDS NormandyCore

LoanEntry(pos) == [status |-> pos.status, principal |-> pos.principal]

Book ==
  INSTANCE LendingBook WITH
    Reserve <- RequiredReserves,
    Diversions <- {Total(reply.diverted) : reply \in HookReplies},
    ratio <- pool.reserve_ratio_bips,
    deposited <- [l \in Lenders |-> lender[l].total_deposited],
    loan <- [a \in Agents |-> LoanEntry(borrower[a])],
    cash <- vault

\* Every behaviour of the program is one of the book: deposits enter one for
\* one, each agent gets one loan that respects the reserve of all deposits (what
\* the hook moves out meanwhile is the only thing that can reach into it) and is
\* settled with at least its principal, and nothing else writes to the book.
ImplementsBook == Book!Spec

===============================================================================
