------------------------------ MODULE LendingBook ------------------------------
(***************************************************************************)
(* What a pool promises, without its bookkeeping: a book of who has lent   *)
(* how much and who has borrowed how much, and the cash that backs it.     *)
(* There is no clock, no interest, no scale factor and no running total:   *)
(* the total of the deposits is computed from the book whenever a rule     *)
(* speaks of it.  Rates and shares only show in how much cash an entry may *)
(* bring in or take out.                                                   *)
(***************************************************************************)
EXTENDS Totals

CONSTANTS
  Lenders, Agents,
  Reserve(_, _),    \* the cash that some deposits at some ratio call for
  Diversions        \* cash that a pool's credit hook may move out when asked

VARIABLES
  ratio,            \* the reserve ratio, 0 before there is a pool
  deposited,        \* what each lender has put in and not taken out
  loan,             \* each agent's only loan: [status, principal]
  cash              \* the cash that backs the book

bookVars == <<ratio, deposited, loan, cash>>

Init ==
  /\ ratio = 0
  /\ deposited = [l \in Lenders |-> 0]
  /\ loan = [a \in Agents |-> [status |-> "None", principal |-> 0]]
  /\ cash = 0

\* The pool is set up with some reserve ratio, over an empty book.
Open ==
  /\ cash = 0
  /\ \A l \in Lenders : deposited[l] = 0
  /\ \A a \in Agents : loan[a].status = "None"
  /\ ratio' \in Nat
  /\ UNCHANGED <<deposited, loan, cash>>

\* A lender's entry grows by exactly the cash it brings in.
Lend(l) ==
  /\ deposited' = [deposited EXCEPT ![l] = @ + (cash' - cash)]
  /\ cash' >= cash
  /\ UNCHANGED <<ratio, loan>>

\* A lender leaves, with cash of the pool or nothing.
Redeem(l) ==
  /\ deposited' = [deposited EXCEPT ![l] = 0]
  /\ cash' \in 0 .. cash
  /\ UNCHANGED <<ratio, loan>>

\* An agent's only loan, paid in cash, leaves the reserve for all deposits, from
\* which no one but the pool's own hook may take, and no more than is there.
Draw(a) ==
  /\ loan[a].status = "None"
  /\ \E amount \in 0 .. cash, diverted \in Diversions :
       /\ loan' = [loan EXCEPT ![a] = [status |-> "Active", principal |-> amount]]
       /\ cash - amount >= Reserve(Total(deposited), ratio)
       /\ cash' = cash - amount - diverted
  /\ cash' >= 0
  /\ UNCHANGED <<ratio, deposited>>

\* A loan is settled with its principal, or more.
Settle(a) ==
  /\ loan[a].status = "Active"
  /\ loan' = [loan EXCEPT ![a].status = "Repaid"]
  /\ cash' >= cash + loan[a].principal
  /\ UNCHANGED <<ratio, deposited>>

\* Fees leave the cash, gifts add to it; the book does not change.
Charge ==
  /\ cash' >= 0
  /\ UNCHANGED <<ratio, deposited, loan>>

Next ==
  \/ Open
  \/ \E l \in Lenders : Lend(l) \/ Redeem(l)
  \/ \E a \in Agents : Draw(a) \/ Settle(a)
  \/ Charge

Spec == Init /\ [][Next]_bookVars

===============================================================================
