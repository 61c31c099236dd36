# Normandy: verification project

Normandy is an under-collateralised lending protocol on Solana: lenders fund a
pool, software agents borrow from it, and a *credit hook* — another program,
chosen by the pool's creator — decides whether an agent may borrow and at which
rate and term.  This directory holds TLA+ models of the three on-chain programs,
the TLC runs that check them on small instances, and theorems, checked by
TLAPS, that hold for every value of the constants.

Paths below are relative to `src/programs/` unless they name another directory.

## 1. The system

| part | state | operations | talks to |
|---|---|---|---|
| protocol config (`normandy-core`) | `ProtocolConfig`: authority, fee recipient | `initialize_protocol` (once) | read by `claim_protocol_fees` |
| pool set-up | `Pool`, vault token account | `initialize_pool` | calls the hook's `initialize` |
| interest accrual | `Pool.scale_factor`, `total_interest_earned`, `accrued_protocol_fees`, `last_accrual_timestamp` | `Pool::accrue_interest` | first thing in every instruction below |
| lender side | `LenderPosition` per lender | `deposit`, `withdraw` | pool, vault, lender's wallet |
| borrower side | `BorrowerPosition` per agent | `borrow`, `repay` | pool, vault, wallets; `borrow` calls the hook's `on_borrow`, with the pool's signature |
| protocol fees | `Pool.accrued_protocol_fees` | `claim_protocol_fees` | vault, fee recipient's wallet |
| `normandy-hook-fixed-term` | `HookConfig`: cap, profit flag | `initialize`, `on_borrow` | called by core, answers through return data |
| `normandy-hook-sati-score` | `HookConfig`: cap, credential, schema, providers, thresholds | `initialize`, `on_borrow` | reads SAS attestation accounts the borrower lists |
| SAS attestation program (external) | attestation accounts | providers publish and close them | read by the SATI hook |
| SPL token program, clock (external) | token balances, `unix_timestamp` | transfers, also straight to a vault | every handler |
| TypeScript tests, fixture and deployment scripts | none on chain | – | clients |

**How they interact.** A Solana instruction is atomic: it runs to its end or it
leaves every account as it was, and two instructions that write the pool never
overlap.  Concurrency is therefore the *order* in which the users' instructions
land, with time passing between any two.  The shared state is the pool (running
totals, scale factor, fees, date of the last accrual) and its vault.  Positions
of different users never refer to each other: everything they owe each other goes
through the pool's totals.  Pools share nothing but the protocol config.

**What is hard in it.**

* Every handler begins with `accrue_interest`, which has an early return that
  leaves the accrual date behind, and which recomputes the scale factor from
  the *current* deposits: what a lender gets depends on the order of other
  people's deposits, withdrawals and accruals.
* The running totals must cover every later `checked_sub`, whatever the others
  did before; if they did not, a loan could not be repaid or a lender could not
  leave, for good.
* Fees are booked before borrowers pay and compete with lenders, reserve and
  borrowers for the vault.
* Checked 64/128-bit arithmetic on values scaled by 10^27, unchecked `as u64`
  casts, round-down divisions.
* The hook is another program: the rate, the term and the approval come from it.
  `borrow` calls it in the middle of the instruction (`borrow.rs:93-127`), with the
  pool's signature, which is also the vault's authority, and with any accounts the
  borrower lists; the vault's balance is read before that call (`borrow.rs:65`) and
  not again.  A hook can move tokens out of the vault while it is asked.
* The SATI hook parses accounts the borrower chooses, in the borrower's order.

**What makes each part correct.**

* accrual — one accrual per second whatever the number of instructions; the
  protocol gets at most its share; the lenders' shares together are worth no
  more than the book; every second is booked once, on what was lent in it, and
  what is booked is what borrowers are charged;
* lender side — the total of deposits is the sum of the positions; a lender
  gets its deposit back, and lenders together no more than they earned;
* borrower side — the total of borrows is the sum of the open principals; a loan
  is opened once, settled once, at least with its principal; it can always be
  settled and in the end is; a borrow leaves the reserve and the fees in the vault,
  but for what the pool's own hook moves out meanwhile; its terms are those of the
  pool;
* the pool as a whole — it goes on accruing, and so taking instructions, as long
  as its loans are in proportion to its words;
* fees — senior to every other payment of the program, never out of reach because
  of lenders or loans, and paid in the end;
* fixed-term hook — fixed terms, cap respected;
* SATI hook — approval exactly when some listed account endorses the agent (or
  would, were its expiry not negative), whatever the order and whatever else is listed; no read outside the bytes; no
  loan without an attestation that exists and is valid when it is drawn.

The hazards, each at its source line, are the `hazards` of `PROJECT.json`.

## 2. The modules

| module | what it is |
|---|---|
| `Totals` | the sum of a function over a finite set |
| `NormandyMath` | the widths and the arithmetic of the programs: `Interest`, `ProtocolCut`, `ScaleFactor`, `ScaledAmount`, `Payout`, `RequiredReserves`, the casts |
| `NormandyCore` | one pool of normandy-core: one action per instruction, plus `Tick` (time) and `TopUpVault` (a transfer to the vault by anyone) |
| `LendingBook` | the abstract specification: who has lent and borrowed how much, and the cash behind it — no clock, interest, scale factor or running totals |
| `NormandyBook` | the refinement mapping from `NormandyCore` to `LendingBook` |
| `AccrualLedger` | `NormandyCore` with a record of its past (what was lent, booked, charged, taken out), and the fair specification for liveness |
| `FixedTermPool` | `NormandyCore` composed with the fixed-term hook |
| `SatiScoreCheck` | what the SATI hook decides about an account and about a list of them, as operators |
| `SatiScoreHook` | the SATI hook by itself, one step per account it looks at |
| `SatiScorePool` | `NormandyCore` composed with the SATI hook, among attestations that come and go |
| `DocumentedPromises` | what docs, comments and tests say of core and the code does not do |
| `DocumentedScoreChecks` | what comments of the SATI hook say and the code does not do |
| `MCNormandyCore`, `MCAccrualLedger`, `MCFixedTermPool`, `MCSatiScoreHook`, `MCSatiScorePool` | small instances for TLC |
| `NormandyMathProofs`, `NormandyCoreProofs`, `NormandyBookProofs`, `AccrualLedgerProofs`, `FixedTermPoolProofs`, `SatiScoreCheckProofs`, `SatiScoreHookProofs`, `SatiScorePoolProofs` | theorems and proofs |

### NormandyCore and the code

`pool`, `config`, `lender`, `borrower` are the accounts of the Rust types of
those names, `vault` and `wallet` the token balances.  `NoPool`, `NoDeposit`,
`NoLoan` stand for accounts that do not exist.  Each action's guard is the
conjunction of the handler's account constraints, `require!`s and checked
operations; since an instruction that fails leaves no trace, failing is not a
step.  Each of them works on `AccruedPool`, the pool after
`accrue_interest`, exactly as in the handlers.

* `InitializeProtocol`, `InitializePool`: `init` of the accounts.  There is one
  rate and one term (min = max), as `initialize_pool` sets them.  The hook's
  `initialize` inside it has the pool's signature too, but gets neither the vault
  nor the token program (`initialize_pool.rs:100-108`), and moves no tokens.
* `Deposit`: window, `is_closed`, scaling at the current factor
  (`init_if_needed`: a second deposit adds to the position).
* `Borrow`: position made with `init`, hook program compared with the pool's,
  availability after reserve and fees, overflow of the maturity.  What the call of
  the hook comes to is an input from `HookReplies`: the `OnBorrowResult`, and how
  many tokens the hook moves from the vault to whom (`diverted`).  Reserve and fees
  are compared with the vault as it was before the call, the transfer needs the
  tokens left after it, as in the code.
* `Repay`: anyone pays; interest at the position's own rate; the position stays,
  marked repaid.
* `Withdraw`: the whole position is paid, its account closed.
* `ClaimProtocolFees`: with no fees the code returns early after the accrual;
  moving zero tokens is the same step.

Left out: fields no instruction reads (`scaled_borrow`,
`borrow_scale_factor`, `borrowed_at`, `maturity_timestamp`, `entry_scale_factor`,
`deposited_at`, `position_mode`, `pool_id`, bumps, the config's authority).

### AccrualLedger and the code

The program keeps three accounts of the same interest and never reconciles them:
what `accrue_interest` books for the pool, at the pool's rate and in steps as long
as the time between two instructions; what `repay` charges a loan, at the loan's
rate and in one step; and what `withdraw` pays out.  `AccrualLedger` is
`NormandyCore` with history variables beside each step, read by the properties
only:

* `seconds` — for each second gone by what was lent in it, whether there were
  deposits, and on how much interest has been booked for it since;
* `exposure` — the token-seconds each agent has had on loan;
* `booked`, `accruals` — the interest ever booked, and in how many accruals;
* `taken` — what withdrawals paid beyond the deposits;
* `diverted` — what hooks have moved out of the vault;
* `missing` — since the vault last held the protocol's fees, the interest booked
  less the interest received, and what hooks have moved out.

`BookedAsLent` says that a second with a loan out and deposits in is booked
exactly once, on exactly what was lent in it: a deposit, a loan, a repayment or a
skipped accrual cannot move it to another amount, because whatever changes the
totals accrues first.  `DriftExplained` bounds interest booked less interest
charged, by the four causes the code has: seconds booked that are not the seconds
lent (idle time, time without deposits, time still to be booked), loans at
another rate than the pool's, rounding of each accrual, rounding of each loan.
`ShortfallExplained` does the same for the vault and what may be claimed from it:
loans, interest booked and not received, interest taken out, tokens hooks have
moved out.
Two consequences have no slack in them.  `FeesCovered`: the vault falls short of
the *fees* only by what is on loan and by `missing`; what lenders took out, or were
promised, does not enter, because fees are senior at each withdrawal and borrow.
`LendersCovered`: when all loans are repaid and have brought all the interest that
was booked, the vault holds at once what all lenders may withdraw beside the
fees, less what hooks have moved out, unless some interest is promised again after it was paid
(`PromisedTwice`: what the lenders may claim now and what they took out come to
more than the deposits and all the interest ever earned).

### FixedTermPool and the code

`hook_config` is the hook's account.  `InitializeFixedTermPool` is
`initialize_pool` with the hook's `initialize` inside, `FixedTermBorrow` is
`borrow` with `on_borrow` inside; the other actions are core's.  This hook's only
accounts are its config and the pool, and it calls no other program: it diverts
nothing, and reserve and fees are in the vault after each borrow
(`ReserveAndFeesInVault`).  The same goes for the SATI hook.  The proof a
borrower sends is a profit or loss, or bytes that do not parse; as in the code it
is the borrower's own word and is read only if the pool asks for a profit.

### SatiScoreCheck, SatiScoreHook, SatiScorePool and the code

An account is the record of what `verify_score_bytes` decodes, with the two
sizes it checks (`size`, `data_len`).  `Checks` lists the checks in the code's
order, each with its error; `Failure` is the error of the first that fails.
`Verdict` is what one iteration of the loop over `remaining_accounts` makes of an
account, `Decided` what the whole call comes to.  The keccak nonce is the pair
it hashes: two pairs are assumed not to collide.

`Endorses` is what a lender may rely on, put in the words of the documentation and
not of the code: `Recommends`, everything but the age, and `UpToDate`, the two rules
on expiry that the comment at `on_borrow.rs:191-193` gives ("expiry MUST be set" where
freshness is asked for; "if expiry is set, it must not be in the past").  The code's
own test is `Stale`.  The two differ on negative expiries, which are set and past by
the comment and good by the code: the run `expired_score` shows it, and
`ApprovedIffEndorsed`, which demands approval of every endorsed agent and of no other,
names them as the one exception.

In `SatiScoreHook` the loop is `CheckAccount`, one step an account; the steps
after the loop are `GiveUp` and `Return`.  The theorem `LoopAlwaysDecides` connects
it with `Decided`, which `SatiScorePool` uses inside one atomic `SatiBorrow`.

In `SatiScorePool`, `InitializeSatiPool` and `SatiBorrow` are core's
instructions with the hook's inside, on the pool's own terms as `on_borrow`
returns them; the other actions are core's.  A borrower passes any accounts that
exist, of the SAS program or of others.  External, from how the hook reads them:
`Publish` and `Close` of attestations.  Two things are assumed of the SAS program:
one attestation for each credential, schema and nonce (its address is derived
from them), and no negative expiry, which the hook would take for a score that
never gets stale (`on_borrow.rs:205`).  Whether that program can be brought to store
one cannot be told from this repository; `SatiScoreHook` takes negative expiries as
they come, `SatiScorePool` assumes that there are none.

### LendingBook

Deposits enter one for one; a lender leaves with its entry cleared, for cash that
is there; each agent gets one loan, paid in cash, and only if the cash left
covers the reserve of *all* deposits; a loan is settled with at least its
principal; nothing else writes to the book.  What a pool's hook may divert from the
cash during a draw is a constant of the book (`Diversions`): the reserve is owed by the
loan, and by no one else may it be touched.  The mapping reads the book off the
position accounts and not off the pool's running totals, so the reserve rule
holds only because the totals agree with the positions.

## 3. The runs

Passing runs (TLC explores every state):

| run | what it shows | bounds |
|---|---|---|
| `core` | totals match positions (`DepositsMatchPositions`, `BorrowsMatchPositions`); the pool goes on accruing (`PoolKeepsRunning`) and loans stay repayable (`Repayable`); shares, each payout's product and fees within the book (`ClaimsWithinBook`, `PayoutsWithinBook`, `FeesWithinShare`); `LoanLifecycle`; payments leave the fees (`FeesSenior`) and loans the reserve for all deposits (`ReserveCoversDeposits`) in the vault, but for what the hook itself moves; refinement (`ImplementsBook`); `TypeOK` | 2 lenders, 2 agents, amounts 3 and 5, three seconds, 20% reserve, a hook that moves 0 or 2 tokens out of the vault in a borrow, a "u128" of 400: more than this lending can come to, which is the hypothesis of `PoolAlwaysRuns` |
| `corners` | core with the fixed-term hook at the corners of inputs and words: `LoansOnHookTerms`, `ReserveAndFeesInVault`, `TypeOK`, `DepositsMatchPositions`, `ClaimsWithinBook` | 2 lenders, 1 agent; zero amounts, two caps, profit, loss and malformed proofs, a second hook program, two rates, negative and overflowing terms, reserve of 50% and 180%, a window that closes, direct transfers to the vault; 4-bit "u64" and 8-bit "u128", where every checked operation fails somewhere and the casts wrap, that of the reserves included |
| `ledger` | `BookedAsLent`, `DriftExplained`, `ShortfallExplained`, `FeesCovered`, `LendersCovered` | 2 lenders, 2 agents, one amount, five seconds; loans at the pool's rate (70%) and at 120%, so both accruals and charges are rounded; a hook that moves 0 or 1 token |
| `progress` | `LoansSettle`, `FeesReachProtocol`, `LendersGetOut` | 2 lenders, 2 agents, three seconds, fairness as below, a third user rich enough to pay for any loan; 200% interest a second and half of it for the protocol, and a hook that moves 0 or 15 tokens, so that all the causes that can strand fees or a lender really arise |
| `sati` | `ApprovedIffEndorsed`, `ReadsWithinBounds`, `TypeOK` | up to 2 accounts out of a good one and its one-field variations, sizes around both limits, expiries before and at the present second, unset and negative, valid and invalid configurations |
| `sati_pool` | `ScoreBehindEveryLoan` | 1 lender, 2 agents, two configurations (fresh scores of one provider; any of two), six attestations that expire, never do, are too low, by the other provider, of the other agent or under another credential, and a foreign copy of the best; up to 2 accounts a call, three seconds |

*Bounds and why they are enough.*  Interest is 60% to 200% a second and the
scale is 10 or 16, so that a second or two books interest and fees that rounding
does not hide; between `core`, `corners` and `ledger` every division of the code
leaves a remainder in some reachable state.  Two lenders are what it takes for
one's deposit or withdrawal to change the other's share; two agents for one's
repayment to disturb the other's loan; three seconds for two accruals at
different distances and an idle gap; five for two loans, one after another, with
idle seconds before, between and after them.  Two accounts are enough for the
SATI loop, which carries nothing from one iteration to the next but the last
failure.  A hook that moves a token is enough to bring the vault below fees, reserve or
claims that the loan alone would have left.  Users of one role are interchangeable,
and in `core` and `ledger` hook programs too; no symmetry is used for liveness or
where an agent or a hook is singled out.

Behaviours end when the clock stands at `MaxClock` and no instruction is left
that may run, so those runs do not check for deadlock: the real clock goes on.
The SATI hook by itself never stops, and its run does check for it.  Every
property of a passing run has a mutant — a plausible bug put in the place of a
definition of the model — that breaks it.  The operators that serve as mutants
stand before the definition they replace and are used by nothing else.

*Fairness.*  Nothing in the programs runs by itself; every step is a user's
transaction.  `Fairness` (in `AccrualLedger`) is weak fairness of three kinds of
step: a repayment of a given agent's loan by somebody, a withdrawal of a given
lender, a claim of the fees.  It says that a user who keeps submitting a
transaction that would succeed gets it in, and that for each loan there is
someone who wants it repaid, each lender wants to leave and the protocol wants
its fees.  Nothing is assumed of deposits, borrows or time.  Strong fairness is
not assumed, so the properties also say that nobody can keep switching a
repayment or a claim off for ever.  The instance has a user with tokens enough
for every loan (`RecipientTokens`), since anyone may repay: an agent without
money is not a fault of the code.

Two of the three liveness properties have exceptions, which are behaviours of the
code and not of the model.  A pool books the time in which nothing was lent
(`idle_time_booked`), so fees can be owed that no borrower pays, and a hook can move
tokens out; `claim_protocol_fees` then fails until someone sends tokens to the vault:
`FeesReachProtocol` says that nothing else strands the fees (`missing > 0`).  In the
same way a lender can be left behind by interest booked and not received, or promised
twice, or by tokens a hook has moved out, and `LendersGetOut` says that nothing else
does it.  Each of these causes really arises: without any one of them the property is
false on the `progress` run.
Both are the temporal side of `FeesCovered` and `LendersCovered`: where no exception
holds, the vault has the tokens.

Violation runs (each refutes one sentence of the repository's docs, comments or
tests; the shortest counterexample is in TLC's output):

| run | promise | what the code does |
|---|---|---|
| `deposit_lost` | a lender gets "at least their deposit back" | `pool.rs:94` divides all interest ever earned by the deposits of the moment; a later deposit lowers the factor and costs the earlier lender principal |
| `idle_time_booked` | payout and vault differ by rounding only | `pool.rs:66` returns before it moves the date, so idle time is charged to the book at the next accrual |
| `yield_paid_twice` | `total_interest_earned` is the lenders' interest | `withdraw.rs:78` pays a share of it out and leaves it to be shared again |
| `payout_overflow` | multiple deposits, full withdrawal | deposits that fit one by one add up to a position whose payout overflows 128 bits |
| `expired_score` | "if expiry is set, it must not be in the past" | `on_borrow.rs:205` compares only positive expiries with the time |
| `last_error` | "the most-specific failure across candidates" | each account that fails overwrites `last_failure`: the error is that of the account listed last |

At the program's real widths `payout_overflow` happens at about 3.4 * 10^11 base units,
that is some 340,000 tokens with six decimals, in one position; the run
narrows the words so that a few tokens do.  `ClaimsWithinBook` and
`YieldWithinInterest` do not contradict each other: the shares are never worth
more than the book *as it stands*, but the book itself keeps interest that was
already paid out.

Five more facts of the code that no violation run is about:

* `borrow.rs:20` makes the position with `init` and `repay` never closes it, so an
  agent that has repaid can never borrow from the pool again; `normandy-skill.md:635`
  has it that "You cannot borrow again from the same pool until repaid".
  `LoanLifecycle` says what the code does.
* `borrow.rs:65` reads the vault before the hook is called with the pool's signature,
  and nothing looks at it again, so reserve and fees (which core "enforces" by
  `README.md:7`) bind the loan but not the hook.  `FeesSenior` and `ReserveCoversDeposits`
  say what the program's own transfers leave; `ReserveAndFeesInVault` says more and
  holds for hooks that leave the vault alone, as both hooks of this repository do.
* `borrow.rs:141` takes the rate and the term from the hook without comparing them
  with the pool's range, though `borrower_position.rs:13` says "within pool's
  range".  Both hooks of the repository stay in it (`LoansOnHookTerms`,
  `ScoreBehindEveryLoan`); another hook need not, and `DriftExplained` says what
  follows.
* `pool.rs:98`: once the interest earned passes 2^128 / RAY (again about
  3.4 * 10^11 base units) every instruction that accrues fails, `repay` included,
  for good.  The `corners` run, whose words are narrow, gets there.
  `PoolKeepsRunning` and `Repayable` are therefore checked in words
  that hold what the run lends, and proved from that condition (section 4).
* `borrow.rs:63`: reserves of more than 64 bits, which only a ratio above 100% can
  come to, are cast to what is left of them, and the borrow then leaves less than the
  ratio says.  `ReserveInWord` in the reserve properties is the condition that they
  are not; the 180% of `corners` is both sides of it.

## 4. The proofs

Assumptions (`MathAssumption`, `CoreAssumption`, `FixedTermAssumption`,
`KeyAssumption`, `SatiAssumption`, `SatiPoolAssumption`, all evaluated by TLC): the
constants have the types of the code, the scale and the denominators are
positive, the protocol's share is at most 100%, there are finitely many users,
and the tokens that exist fit in 64 bits (as the SPL mint's supply does); of SAS
attestations what is said above.  Two more are in the shape of the model.  A hook may
move tokens while it is asked, but does not use the pool's signature to keep hold of
the vault for later, as its delegate or its new owner: the token program would then
let others spend from it in any later transaction.  And the token accounts passed to
an instruction are wallets, not the vault itself.  Everything else is open: the
theorems hold for any hook that answers and moves whatever it likes, any number of
users, any rates, amounts, word sizes, attestations, and any length of time; those that ask for more (`GrossInWord`, `InterestInWords`, `LendingInWords`) say it
in their statement.

The core program (`NormandyCoreProofs`, `NormandyBookProofs`):

* `TypeCorrect`.  `TypeOK` is not inductive: a payout or a deposit divides by the
  scale factor.  `TypeInv` adds that an open pool's factor is at least RAY, which
  is what `accrue_interest` always makes it.
* `DepositsAlwaysMatch`, `BorrowsAlwaysMatch`.  `LedgerInv` joins both with
  the fact that before there is a pool there is no position.  The core of the
  argument is `TotalUpdate`: a sum changes by what one of its terms does.
* `ActiveLoansCovered`: the corollary that repay's `checked_sub` never fails.
* `ClaimsAlwaysWithinBook`.  `ClaimsWithinBook` is not inductive: an accrual
  replaces the scale factor, and what the shares are worth at the new one has
  nothing to do with what they were worth at the old.  `ClaimsInv` says two things
  that survive it: a position's scaled deposit is at most its deposit, and the
  *gains*, `scaled * (factor - RAY)` summed over the positions, are at most
  RAY times the interest booked.  An accrual keeps the second because the new
  factor divides that same interest by the total of the deposits; a deposit
  because what it is scaled to at the current factor gains nothing that was not
  already there (`GainOfDeposit`).
* `PayoutsAlwaysWithinBook`, from the same invariant: one position's deposit is at
  most all deposits, its gain at most all gains, so the product that `withdraw`
  computes is at most RAY times the book (`ProductWithinBook`).  A payout can
  therefore overflow only when the whole book, scaled, does (which is what happens
  in the run `payout_overflow`): no order of instructions brings it about sooner.
* `FeesAlwaysWithinShare`, from `CutWithinShare`, on the condition `GrossInWord`
  that no accrual's interest exceeds 64 bits: the lenders' part is cast before it
  is added, and if it wrapped they would get less than their share.
* `PoolAlwaysRuns`, `LoansAlwaysRepayable`, `GrossAlwaysInWord`.  For arbitrary
  words these are false, so each is an implication: if no rate offered exceeds
  `rate` (`RatesWithin`), the words hold the interest on `limit` at that rate for
  `span` seconds (`LendingInWords`), and at no time is more than `limit` on loan or
  the pool older than `span` (`LendingWithin`), then every accrual succeeds,
  no interest exceeds a word, and each active loan can be repaid at any time.
  `CanAccrue` is not inductive.  What is (`EarningsInv`): the interest booked so
  far and not claimed, times `Unit`, is at most `limit * rate` times the seconds
  from the pool's start to the last accrual.  An accrual adds at most
  `limit * rate` for each second it moves the date; a claim only lowers the
  left-hand side.  For repayments `LoansFresh` adds that an open loan has no interest
  on its position yet, is at a rate within `rate` and not older than the pool;
  that its principal is part of the total is `BorrowsAlwaysMatch`.
  The `core` run is an instance of the hypotheses, with a limit of 10, a rate of 10
  and a span of 2.
  In the program's own widths the narrowest condition is
  `RAY + interest * RAY <= 2^128`, interest up to 3.4 * 10^11 base units: a pool
  with never more than 10^10 base units (10,000 tokens with six decimals) on loan
  at 10% a year is safe for some 340 years, one with 10^12 (a million tokens) for
  some 3.4 years.
* `FeesAlwaysSenior`, `ReserveAlwaysCoversDeposits`, `LoansKeepLifecycle`: action
  properties, each instruction by itself, for any reply of the hook and any tokens
  it moves; the reserve also needs the totals to match, and `RequiredReserves` not to
  be cut by the cast (`ReservesCoverRatio`).
* `HookLeavesVaultAlone`: from these two, under the hypothesis `LoansAlone` that in a
  borrow only the loan leaves the vault, the stronger `ReserveAndFeesInVault`.
* `CoreImplementsBook`: every step of the program is a step of `LendingBook` or a
  stutter, from `TypeInv /\ LedgerInv`; what the hook moves is the diversion of
  the draw.
* `CutWithinShare`, `DepositRoundTrip` (`NormandyMathProofs`): the two roundings go
  the pool's way.

The ledger (`AccrualLedgerProofs`):

* `LedgerIsCore`: the history variables disturb nothing.
* `SecondsAlwaysBookedAsLent`.  `SecondsInv` adds to `BookedAsLent` that a second
  not booked yet, lent in and funded, saw the totals the pool still has
  (`PendingAsLent`).
* `ShortfallAlwaysExplained`, from `CashBehindBook`, the same inequality for
  the book instead of the shares, which each step keeps by itself, and
  `ClaimsAlwaysWithinBook`.
* `FeesAlwaysCovered`.  `FeesCovered` is inductive once it is said what `missing` counts
  from (`FeesInv`: it is zero while the vault holds the fees).  An instruction either
  leaves the fees in the vault, and `missing` is zero after it, or takes no more
  from the vault than it takes from the fees, beside its loan and what the hook
  moves (`FeesKept`); what each
  instruction moves is in the lemmas `DepositMoves` to `ClaimMoves`, shared
  with `CashBehindBook`.
* `LendersAlwaysCovered`, from `CashBehindBook`.
* `DriftAlwaysExplained`, from `DriftInv`: token-seconds lent are the exposures
  of the agents, each loan is charged its exposure to within one rounding, and
  what is booked follows the seconds booked to within one rounding per accrual.
  Its condition is `InterestInWords`: no interest, the pool's or a loan's, is
  above `U64Max` when it is cast to a u64 (above it the cast wraps and the
  books drift further).  `DriftExplainedInWords` discharges it from
  `LendingInWords`.

The hooks:

* `FixedTermPoolIsCore`, `LoansAlwaysOnHookTerms`: the composition implements
  `NormandyCore`, so every theorem above holds of it; its loans are on the
  pool's terms, from `FixedTermInv`, which adds that a pool's terms never change.
* `FixedTermKeepsVault`, `SatiKeepsVault`: in both compositions only the loan leaves
  the vault in a borrow (the hypothesis of `HookLeavesVaultAlone`), so
  `ReserveAndFeesInVault` holds.
* `SatiScorePoolIsCore`, `LoansAlwaysVouchedFor`: the same for the SATI hook.
  `SatiInv` adds that what exists was published and that `initialize` refused a
  negative age.
* `HookTypeCorrect`, `LoopAlwaysDecides`, `AlwaysApprovedIffEndorsed`,
  `ReadsAlwaysWithinBounds`: the hook by itself, from `HookInv`, whose part about
  the loop says that no account looked at so far has passed and that the last
  one's failure is the one carried along.  `SatiScoreCheckProofs` shows that the
  checks pass exactly for an account that recommends the agent and is not stale
  (`ApprovedIffRecommends`), that stale and not up to date are the same but for negative
  expiries (`StaleIffOutdated`), and what each check may rely on.

Model-checked only: the liveness properties of the `progress` run, which are out of
the prover's reach (their safety side, that the tokens are there and that the
instruction does not fail, is `FeesAlwaysCovered`, `LendersAlwaysCovered` and
`LoansAlwaysRepayable`).  Every invariant and every action property of a passing
run is a theorem as well.

## 5. Not modelled

* Anchor's account checks (seeds, discriminators, `has_one`): an account is the
  one its seeds name; a caller's signature is the choice of the user.  The token
  accounts that a user names freely (`agent_token_account` and the like) are that
  user's wallet: the vault itself, which the code does not exclude, is not passed.
* Hooks that keep hold of the vault (a delegate or a new owner set with the pool's
  signature): section 4.  A hook cannot call back into core, since the runtime
  forbids it.
* Instruction encoding and the names of core's errors: no state.  The dispatch of
  each program is the next-state relation of its module.
* `src/tests`, `src/scripts`, `src/migrations`: clients and tooling.
* Several pools: they share only the config.
* The SAS program beyond publishing and closing attestations: not in this
  repository.
* Rent and fees of the chain.
* Transfers between the users' own wallets: they only change who can afford what.
* The term of a loan: `maturity_timestamp` is written and no instruction reads
  it, so there is nothing a property of the code could hold it to.

## 6. Plan

Done: the inventory, the core program with its accrual, its abstract
specification, the history of interest, liveness, the composition with either
hook, the SATI hook by itself, and the proofs above, among them every safety
property that a run checks.

Next: a bound on what lenders who leave can take out (`taken`) in terms of the
interest booked and the number of withdrawals, and with it how much the last
lender can be short.

What would need a change of the code to say more: that reserve and fees are in the
vault after a borrow whatever the hook does, once `borrow` reloads the vault after the
call; the wrap of `required_reserves` above 100% once `initialize_pool` bounds the
ratio; freshness without the
assumption on expiries once the hook refuses negative ones; a bound on how long a
loan may run once an instruction reads its maturity.
