# Fincorya: TLA+ models, checks and proofs

Fincorya is a Django application for a money-transfer business: agents take
and pay out cash, an administrator funds and closes their tills, and an
accounting journal takes over the books.  This directory holds TLA+ models of
its core, the TLC configurations that check them on small instances, and
theorems about them that TLAPS checks for every value of the constants.

Paths below are relative to `src/fincorya/apps` unless they begin with `src`.

## 1. The system

| Component | State | Operations | Interacts with |
|---|---|---|---|
| Cash desk (`cash`) | reserve and tills with cached balances, two append-only ledgers, handovers, daily closures | adjust capital, allocate, announce and confirm a handover, close a day, administration forms | called by operations; posts to the journal after the cutover |
| Operations (`operations`) | operations, idempotency requests, revisions | send, withdraw, announce and pay a payout, cancel, revise | moves cash through `apply_movement`, notifies, posts to the journal |
| Ledger lock (`finance/locking.py`) | one `LedgerMutex` row | `ledger_atomic` | wraps every service that moves money |
| Accounting journal (`finance`) | accounts with cached balances, batches and entries, periods | prepare, post, reverse, create a period | receives the events of the other applications |
| Closing and charges (`finance/closing.py`, `expenses`) | charges, approvals, payments, counts, results of months | enter, decide and pay a charge, count, accrue, close, administration forms | locks periods of the journal |
| Distribution (`finance/closing.py`, `profits`) | proposals, allocations, parts | propose, approve, pay, reinvest, administration forms | works on results of closed months |
| Cutover (`finance/cutover.py`, `finance/events.py`) | the applied run, `FINANCE_LEDGER_ENABLED`, attributions of operations to a partner | carry balances over, record events, pay from a till, form of an attribution | changes what every cash service does |
| Outbox (`notifications`) | deliveries | enqueue; list, claim, send, record | filled by the services' transactions, emptied by worker processes |
| Pricing (`pricing`) | tiers of a grid, exchange rates | administration forms; `lookup_fee`, `resolve_fee`, `from_usd` | prices operations through `_pricing` |
| Accounts (`accounts`) | users, devices, recovery codes, throttle rows, sessions | sign in, send a code, verify, enrol, leave; create and switch an account | every view of the application is behind `mfa_required`; the administration site is not, and its sessions are left out |
| Permissions, stakeholders | roles, parties | look-ups | guard the services |
| Profit calculation before the journal (`profits/services.py`) | profit periods | calculate, allocate | superseded; only tests call it |
| Imports, audit, reports, contracts | staged rows, log lines, files | data entry and output | none on the state above |

What is hard in this code, and hard to test:

* **Concurrency.**  Web workers run services at PostgreSQL's READ COMMITTED;
  correctness rests on one lock row taken by `ledger_atomic`.  Administration
  forms and the creation of charges take no lock.
* **Forms that save whole rows.**  The administration site
  (`src/fincorya/config/urls.py:21`) edits tills, operations, charges, proposals, parts
  and attributions with forms that write every column of what they read earlier,
  next to services that changed the row meanwhile.
* **Cached sums next to append-only rows**, in three places: tills and reserve,
  accounts of the journal, and results of months.
* **Corrections**: cancellation, revision, reversal, second counts.
* **Idempotency**: forms submitted twice, events recorded twice.
* **Time**: business days closed in any order, periods that overlap, batches of
  an earlier day, operations that span the cutover.
* **Failure**: mail workers that die between a claim and its outcome, requests
  that die between two of the three commits of an enrolment.
* **Values read twice**: `_pricing` looks up a rate three times and the grid
  twice while administrators edit both; a session is saved whole from the copy
  that its request loaded.

`PROJECT.json` lists these hazards one by one, at their line, with the
properties that watch them.

What makes each component correct:

* Cash desk: every balance is explained by its ledger; cash carried between
  reserve and till is neither made nor lost; a handover is received once; a
  closed day is final.
* Operations: one operation per key, one payout per operation, the ledger says
  what the operations say, corrections leave a trail.
* Ledger lock: interleaved sessions commit only what services do alone, on what
  is committed.
* Journal: balanced per currency, booked once per event, reversed once, final
  once posted; nothing in a locked period moves.
* Closing: a charge is booked once, batches and payments agree whatever a form
  makes of the row; a month's result stands.
* Distribution: parts add up to the proposal and are settled once; the debts are
  what was approved and not settled.
* Cutover: cash and journal agree and each operation is in the journal, with the
  share of the partner it had then, or is older than it.
* Outbox: one sender at a time, bounded attempts, a final outcome in the end.
* Pricing: tiers do not overlap unless they are saved together; a price is made
  of rates and fees that were in effect.
* Accounts: a second factor stands for its own account only, enrolment leaves
  no account without a device, throttles hold under concurrent requests.

## 2. Modules

```
CashVault        what the cash application promises
   ^ implements
CashDesk         cash/services.py, cash/models.py, cash/admin.py
   ^ EXTENDS
Operations       operations/services.py
   ^ EXTENDS            ^ EXTENDS
LedgerSessions       Cutover   (also J == INSTANCE Journal)
statements, locks    both applications and the journal

Journal          finance/services.py, finance/models.py
   ^ EXTENDS
Closing          finance/closing.py, finance/events.py, expenses
   ^ EXTENDS
Dividends        finance/closing.py, profits

NotificationOutbox   notifications
SignIn               accounts
Pricing              pricing, and _pricing of operations/services.py
```

The theorems are in `Operations_proofs` (of `CashDesk` too),
`LedgerSessions_proofs`, `Journal_proofs`, `Dividends_proofs` (of `Closing`
too), `Cutover_proofs`, `SignIn_proofs` and `Standalone_proofs` (of
`NotificationOutbox` and `Pricing`); `Sums` has the facts on sums over sets of
rows.  Each `MC...` module gives a model's constants small values, and each
`.cfg` is one run.  `PROJECT.json` "map" leads from every definition to its
lines of code.

Conventions in all modules:

* **One action is one service call**, with every call it makes that changes
  state.  `@ledger_atomic` makes that right; `LedgerSessions` checks that it is.
  An exception rolls the transaction back, so a refused call is no step.
* **Signed amounts.**  A movement's direction and amount, or an entry's side
  and amount, are one signed number.  Amounts are whole cents.
* **Rows are positions.**  A primary key is the position in a sequence;
  histories are sequences, oldest first.  No service deletes a row; a row that a
  form of the administration site deletes keeps its position, as its primary key
  is not used again.
* **Forms.**  A form that was read before a service and is saved after it, and one
  that is filled in by hand, both write values that the service did not choose.  An
  action of a form therefore writes any values of a constant (`ExpenseForms`,
  `PartForms`, `AmountForms`) over the row as it is, in one step.  A field
  `edited`, which no guard reads, says that a form wrote the row; properties
  promise for such rows what holds whatever it wrote, and more for the others.
* **Faults.**  A definition that begins with "Fault:" is a plausible mistake in
  the definition after it.  No action uses it; `PROJECT.json` "mutants" names
  the property that finds it.

### CashDesk and CashVault

Variables are the columns: `reserve`, `balance`, `active`, `locked`, `linked`,
the ledgers `reserveLog` and `log`, `handovers`, `closures`, and `today`.
`Post` is `apply_movement` behind its lock test and `ApplyGlobalMovement` is
`_apply_global_movement`; the services are built from them as in the code.
`CloseCashDay` keeps what the code does rather than what its docstring says:
the date is any that the form submits, a lock set by an administrator is lost,
and new operations on a closed day are still accepted.

`CashVault` is what a reader should remember: capital moves the pot, business
moves one till, and carrying cash changes neither total.  `CashDesk` and
`Operations` implement it, with `pot <- reserve` and `till <- balance`.

### Operations

Adds `ops`, `requests` and `revisions`.  `Impact` is the cash an operation
moves.  `RevisionMovement` computes the difference against the first movement,
as the code does; `LedgerFollowsOperations` is the reading of the docstring
that this breaks, and `LedgerFollowsFirstRevision` the part that holds.  The
trail of an operation is the set of positions of its revisions, so that the
first, the last and the next one are found by comparing positions.

### LedgerSessions

A session begins a call, reads and locks the service's rows one at a time in
the code's order, and then writes and commits, or rolls back.  A `get_or_create`
whose insert waits for another transaction acts as a lock on the row.  Writes
are one step because nobody sees them before the commit.  Five services stand
for the patterns the others follow: one row besides the account, two accounts,
a unique insert.  The forms of the administration site are read, checked by
`save()`, and written in three steps without a lock.  `SessionsAssumption` says
of the constants that the rows at the start have their types, that no operation
has two payouts, and that a call names operations and handovers that are there.

### Journal, Closing, Dividends

`Journal` keeps accounts, batches and periods.  A balance of a day is computed
from the batches as `ledger_balance` does.  `RecordEvent` is what the events of
other applications do.  `Closing` adds charges, counts, and `close_period` with
its controls and accruals; `Dividends` what follows a closed month.  Manual
batches of the form are the constant `Drafts`.  `CounterpartAssumption` is what
`counterpart` (`finance/events.py:19-33`) does: it makes the code of an account
from type, currency and party, so that different parties or currencies have
different accounts, and fixes its nature and currency.

The forms of the administration site are `AddExpense`, `SaveExpense`,
`DeleteExpense` and `DeleteApproval` (`expenses/admin.py`), and `SaveProposal`,
`ClearProposal`, `SaveAllocation`, `DeleteAllocation`, `AddPart`, `SavePart` and
`DeletePart` (`profits/admin.py`).  They may put any status, amount and batch
beside what is booked and paid; what stops them is the unique constraint on a
batch (`Nameable`, `Valid`) and the foreign keys that restrict a deletion.  So a
decided charge may be PENDING again, and its next decision finds the batch it has
or the one that was booked for it (`ApproveRecognised`, which is what
`record_event` returns for a known key with the same content), and a settled part
may be due again.  What the properties say in spite of that needs history: of a
charge, the amount that was `recognised`; of a part, what is `left` of the
approved amount after its settlements; and of each row, whether a form wrote it
(`edited`).  `ApprovedIsRecognised`, `DueIsPayable` and `DuePartsArePayable` each
have a clause about the journal that holds for every row, and one about the
columns of the row that holds as long as no form wrote it; `PartsAddUp` and
`ApprovalStands` are about the latter.

### Cutover

Every service of `CashDesk` and `Operations` together with the event it
records, before and after the balances are carried over.  `engine` is OFF, SET
(the flag is set and `active_cutover()` raises) or ON.  `cut` remembers which
operations and ledger rows are older.  `Debit` leaves out a line of no amount,
as `record_event` does, and lines are put together with `\o`.
`OperationsAreBooked` compares the lines of a batch with those that
`record_operation` would write for the operation as it now stands and the
attribution it had then.  `Attributions` is the form of PartnerOperation, which
gives an operation to the partner or takes it away at any time; `credited`
remembers which operations had an attribution when they were booked, because a
cancellation reverses the share of then.

The three payments, `PayPartner`, `PayExpense` and `PayDistribution`, take cash
from a till or the reserve through `PayFrom`, as `_project_payment` does.  What
`Cutover` knows of the debts they settle is the partner's; the amounts of charges
and parts are any, and `Closing` and `Dividends` say which are due.

`PartnerAccountAddsUp` relates the partner's account to the operations that
stand and to the payments: cancelling an operation whose share was paid makes
the partner a debtor (`operations/services.py:286`), and nothing else does.

### SignIn

A request loads the session, passes the views statement by statement where
another request may come in between, and saves its copy at the end, unless the
session has got a new key meanwhile.  `CountSend`, `LoginRefused` and the like
count in one step because `register_auth_failure` locks its row.  `proved` in a
session is a ghost: whose second factor was seen since the session was last
emptied.  `mailed` counts the codes that one window of the throttle let
through.  Rows of the throttle have an age and a rest of their block instead of
time stamps, so that time needs no bound.  `AuthLogin`, `Renewed` and
`EndSaving` are what `django.contrib.auth` and its sessions do for the views.

### Pricing

One call (`quote`) at a time, because services hold the ledger lock, while
forms that do not hold it validate and save tiers in two steps and rates in one.
`quote.rates` and `quote.fees` are ghosts: what a look-up could have found since
the call began.  Which of two tiers with the same minimum answers is not
determined by the query and is a choice in `FeesFor`.

### NotificationOutbox

A worker lists deliveries, claims one in a transaction, sends it outside any
and records the outcome in another; it may die anywhere in between.  `mails`
and `lost` are ghosts that count what the server accepted and what a death
left.  A send is bounded by `EMAIL_TIMEOUT` (15 s, `src/fincorya/config/settings.py:126`),
far below the 15 minutes after which a row is taken back, so only rows of dead
workers are.

## 3. Runs

| Run | Instance and bounds | What it shows |
|---|---|---|
| `desk` | 1 till, 2 administrators, 1 agent, 2 days, 2 handovers, 4 + 3 ledger rows, counts 0, 1, 3 | ledgers, handovers, transfers and differences, closed days |
| `corrections` | 2 operations, 2 revisions, 1 key, 2 days, amounts 2 and 3, fees 0 and 1, ceiling 2 | keys, payouts, revisions, trail, closed days, and the vault |
| `sessions` | 3 sessions, 3 calls or forms, 5 services | atomicity, constraints |
| `outbox` | 2 deliveries, 2 workers, 2 attempts, lists of 1, 2 crashes | one sender, attempts, final outcomes, liveness |
| `months` | 2 days, a DAY and a MONTH over the first, 5 batches, a charge and a remuneration of 1, two currencies, counts and payments of 1 and 2, forms that write PENDING without a batch or APPROVED with another amount under a batch | the journal, the closing and the charges together, next to forms |
| `shares` | 2 days, a MONTH over the first, 6 batches, proposals of 5 and 6, four shareholders, forms that write 6 in a proposal or allocation, add, write or delete 1 part | events booked once; parts, their debts and their settlement next to forms |
| `carried` | 1 operation, fees 0 and 1, 4 + 3 ledger rows, 1 handover, 1 revision, 5 batches, a partner with 60 %, forms of attributions, payments of each kind | cash, journal and the partner's account together |
| `signin` | 2 accounts, of which one may enrol 1 device, 1 browser, 2 requests at a time, all factors, limits of 1 and of 2 for mails, 1 counting key, 1 recovery code | factors, enrolment and throttles under overlapping requests |
| `prices` | 2 tiers, bounds and rates 1 and 2, ceiling 3, 2 forms, 2 moments, 1 call | what a stored price is made of, and which saves overlap |
| `drift`, `overwrite`, `diverges` | the same models | the three disagreements below |

Why these bounds are enough to meet the hard cases: two operations or two
handovers that compete for a till that covers one; two days so that closures
come in either order and corrections on the day after; counts above, below and
at the balance; ledgers long enough for an operation, its correction and its
cancellation; three sessions so that two wait for a third; two attempts and two
crashes so that a delivery may fail by either; a month and a day that overlap,
so that the accrual meets a locked day; a result of five or six cents to
propose, so that quarters do not add up and the last part is less than the
others or nothing; a form that writes what it read before a decision or a
settlement, and one that writes another amount; one attribution given or taken
before and after the booking; two requests, so that each view is overtaken at every point where it
can be; two accounts in one browser, so that a session of one is left over for
the other; a limit of one mail, so that the second of two requests meets it; two
forms, so that each validates before the other saves; two rates that give
another fee when a look-up is repeated.  A single till keeps the state spaces
small; the theorems hold for any number of them.

`FundedStart` of `sessions` is a state that the services reach: capital of 4,
an allocation of 1, a transfer of 1 sent for a fee of 1, a payout announced and
a handover of 2 announced.

`CHECK_DEADLOCK FALSE` stands where the system may stop because everything is
settled or a bound is reached.

### Fairness

* `outbox`: the loop of a worker goes on, with restarts, and the pause of a
  delivery ends.  Deaths are finite in number (`MaxCrashes`).  Nothing is
  assumed about the mail server: it may refuse every message.
* The other specifications state no fairness: their properties are safety.  In
  particular nothing is said of calls that wait for a lock: every service takes
  the one lock of `ledger_atomic` first.

### Disagreements between code and documentation

* `drift`: a second correction starts from the first movement, so the cash is
  wrong (`operations/services.py:334` against `:7-8`).
* `overwrite`: a form of the administration site writes back a balance that a
  service has changed (`cash/models.py:80-89` against `:2-7`).
* `diverges`: a difference found when a day is closed after the cutover parts
  the till from its account, and every later operation on it is refused
  (`cash/services.py:237` against `finance/events.py:58-60`).

Others were met while modelling and have no run of their own:

* A batch of an earlier open day changes the balance that a later period was
  counted and locked on (`finance/services.py:39`), although new batches make a
  count out of date before the closing (`finance/closing.py:66`).
* Tiers may overlap, saved together by two forms, although "enforced
  additionally by a DB constraint" (`pricing/models.py:6-7`): there is none.
* A rate or a tier is edited in place by its form, although they are "versioned
  instead of mutated in place" (`pricing/models.py:3-5`).
* The fee and the automatic fee of one operation come from separate look-ups,
  so the fee may exceed the automatic one stored beside it, although "an agent
  may only reduce the automatic fee" (`pricing/services.py:24`).
* A revision leaves a fee of zero above the ceiling, which `_pricing` refuses
  (`operations/services.py:66-67`).

## 4. Proofs

The theorems are about the specifications of the modules, for any sets of
users, accounts, amounts, deliveries, requests and for any bounds.  Every
invariant and action property that a run checks is also the statement of a
theorem.  The type invariants (`CashTypeOK`, `JournalTypeOK`, ...) are parts of
the inductive invariants; `TypeCorrect` and its like state them.

The hypotheses are the named assumptions on the constants, which TLC evaluates
in every run.  Besides types they say that the accounts of the journal, the cash
accounts of `Cutover` and the requests of `SignIn` are finite sets, for sums and
counts over them, that the accounts of `Cutover` and of `Dividends` are
different ones, and that sessions start with typed rows and without a second
payout (`SessionsAssumption`).  Two theorems have a hypothesis of their own, see
`Dividends_proofs`.

An inductive invariant was model-checked on the run of its module before it was
proved, for instance `CutoverInv` on the 447,894 states of `carried` and
`SessionsInv` on the 30,128 of `sessions`.

* **Sums.**  Balances are `SumFunction` over a set of rows, which chooses its
  elements in some order.  The module proves that a sum does not depend on it:
  one summand more, one changed, the sum of two functions, of zeros, over two
  disjoint sets.  The induction over finite sets has the property as a set of
  subsets, so that it can be instantiated.
* **Operations_proofs.**
  - Cash desk.  `LedgersAlwaysReconcile`, from one lemma on appending a row;
    `HandoversAreReceivedOnce`, for which rows must not name a handover that
    does not exist yet; `ClosedDaysStayFinal`; `TransfersAreMirrored` and
    `VariancesArePosted`, sums over two tables that each step changes by the
    same amount; `CashDeskImplementsVault`, action by action.
  - `OperationsArePaidOnce` relates the ledger of every account to the status
    of every operation: a movement is the first of its operation or comes
    after it, and no other operation's rows change.
  - `KeysNameOneOperation`, from requests that name an operation which exists.
  - `TrailAlwaysExplainsPrice` and `LedgerAlwaysFollowsFirstRevision`, from
    `HistoryInv`: the revisions of an operation are a chain of prices
    (`Chained`), its first movement was at one of them (`Booked`), and as long
    as it was corrected once at most, its movements add up to what it is now
    (`Followed`).
  - `ClosedDaysStaySettled`, and `OperationsImplementVault`.
* **LedgerSessions_proofs.**  `SessionsInv` says that locks are two-phase: a
  session holds every row it has read, the mutex first.  So what it has read is
  what is committed (`ReadsStayCurrent`), and what it commits is one step of
  `CashDesk` or `Operations` on the committed rows
  (`CommitsAreAlwaysServices`): the reason why the other modules may take a
  service as one step.  `AtMostOnePayoutEver` holds although forms may set the
  status of an operation back, by the constraint on the table of movements.
* **Journal_proofs.**  Of the journal alone (`JournalSpec`).  A step leaves the
  batches alone, adds a fresh draft, posts a draft, or reverses a posted batch
  (`StepKinds`).  `ReversalsAlwaysPair` needs that a reversal is younger than
  what it reverses, so that a new batch is nobody's original yet.
  `CacheFollowsEntries` and `BooksAlwaysBalance` follow from what one batch more
  adds to the sum of an account.
* **Dividends_proofs.**  Of the journal with closings, charges and
  distributions (`DividendsSpec`).  A step is seen as one that books rows which
  the periods then allow (`Grown`), for `LockedFlowsStayFinal`, `ResultsStand`
  and `ApprovalsStand`, or as one that adds or turns a row and moves the caches
  by its lines (`Follows`), for `EventsStayBookedOnce`, `ReversalsStayPaired`,
  `CacheStaysTrue` and `BooksStayBalanced`.
  - `ApprovedChargesAreRecognised`, from `Charged`: the batch of a charge is
    found by its source, a source names a row that exists (`Scoped`), and what
    that batch says is `recognised`, whatever a form wrote over the row; a row
    that no form wrote agrees with it (`Unaltered`).  A month is accrued once
    although a form may delete the charge it was accrued as, because its result
    is stored by then and it cannot be closed again (`AccrualsClosed`).
  - `PartsAlwaysAddUp`, for the rounding of four parts and any proposal, and
    `ApprovalsStand`: forms are steps like others, and each writes `edited`.
  - `DueStaysPayable` and `PartsStayPayable`: the balance of an account of
    debts is what was recognised of charges and not paid, or approved of parts
    and not settled (`Owed`, `Indebted`), which no form changes; and a row that
    no form wrote is never paid beyond it (`PaidWithin`, `LeftRight`).  The hypothesis is that no
    manual batch of the form has a line on that account (`DraftsAway`,
    `DebtsAway`): the form lets an administrator enter one, and then the
    equation is lost.  `MCDividends` and `MCClosing` assert the
    hypothesis for their runs (`DraftsLeaveDues`, `DraftsLeaveDue`).
* **Cutover_proofs.**  `OperationsAreAlwaysBooked`, `CashAlwaysFollowsJournal`
  and `PartnerAccountAlwaysAddsUp`, from one invariant (`CutoverInv`).  A
  cancellation takes back the first movement of an operation and reverses its
  batch; these cancel each other only if the movement is at the operation's
  present price (`AtPrice`; a completed operation is no longer revised), is its
  only such movement (`PaidOnce`) and the batch is the one of this operation
  (`Sourced`), with the share that was credited and not the one a form has
  attributed since (`BookedAs`).  Before the engine is on there are no batches; carrying the
  balances over makes the invariant true; then a step is silent, an event, or
  the preparation, completion or cancellation of an operation (`StepOn`), and
  each kind keeps it.  `LedgersStayReconciled`, `OperationsStayPaidOnce` and
  `CutoverImplementsVault` carry the theorems of the cash applications over.
* **SignIn_proofs.**  No property is inductive: each follows from what a request
  carries from the step that reads it to the step that uses it.
  `VerifiedIsSelf` needs it of the copies of sessions (`OwnFactors`),
  `EnabledAlwaysHasDevice` of the device under confirmation (`Devices`),
  `AttemptsAreLimited` of the requests that have passed `is_throttled`
  (`Blocks`), `MailsStayBounded` of the row that an attempt is counted in
  (`Mails`).
* **Standalone_proofs.**  Outbox: `OutboxInvariant` proves types, one sender and
  `AttemptsExplained` together, with `TryLeft`: a delivery that may be claimed
  has a try left.  `SettledStaysFinal` follows.  Pricing: `PricesAreExplained`,
  with the ghosts in the invariant, and `OverlapsComeFromConcurrentSaves`.

Only model-checked: liveness (`EveryDeliverySettles`), which is out of the
provers' reach together with `ENABLED`, and the three disagreements of
section 3, which are counterexamples.

## 5. What is left out

* Several currencies in the cash desk: services check that an account and its
  reserve have the same one, so currencies do not meet.
* In `Operations` an automatic fee is a function of the amount; where it comes
  from is `Pricing`, which has one grid and one currency, and neither the bulk
  import of a grid, nor the command that seeds one, nor the read-only preview.
  A revision is priced in `Operations` only.
* In `SignIn`: the change of a password, the profile and its photo, the
  dashboard, and the bypass for local development.  Recovery codes are counted
  and not told apart, so finding one and using it up is one step.
* Activation of accounts of the journal, inactive ones are refused; accounts and
  users do not come and go.
* In `Closing` and `Dividends` payments go to accounts without a till; what the
  payments of partners, charges and parts do to a till is in `Cutover`, which
  leaves to them what is owed on charges and parts.  In `Cutover` no period is
  locked and the balances are carried over at an instant of the current day.
* Of what forms of the administration site may write: the result, the dates, the
  currency, the period and the snapshot of a ProfitPeriod, and months that are
  entered or deleted by hand; the currency and the stakeholder of a charge; the
  bucket and the month of an allocation, of which a month has one; the allocation
  and the stakeholder of a part.  No stale form changes these, since no service
  does after it has made the row.  `ResultStands` speaks of results that no hand
  has changed.
* A partner's share is one percentage: the dated rules, of which `record_operation`
  takes the one of the operation's day, are constant here, and there is one partner.
* Retries of an idempotent call that return the earlier result change nothing
  and are no step.
* The profit calculation before the journal (`profits/services.py`): nothing but
  tests calls it since `close_period` and `approve_distributions`, which are
  modelled, took its place.
* Imports, audit lines, reports, contracts: see "components" in `PROJECT.json`.
  They are data entry, append-only text and read-only queries.

## 6. Plan

Done, in this order: the cash desk and its vault, operations, sessions, the
outbox, the journal, closing, dividends, the cutover, sign-in, pricing, and the
theorems on each of them.

Next:

1. In `Cutover`, cash accounts created after the cutover, whose services
   `mapped_cash` refuses, and the flag set process by process.
2. Periods in `Cutover`, so that a service meets a locked period.
3. The rounding of a fee that is stored in one currency and revised in another.
4. In `Dividends`, months entered, changed or deleted by hand, and several
   allocations of a month.
