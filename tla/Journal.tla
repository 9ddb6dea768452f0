------------------------------- MODULE Journal ------------------------------
(***************************************************************************)
(* The accounting journal of the finance application (apps/finance):       *)
(* double-entry batches that are prepared, posted and reversed, the        *)
(* balance each account keeps in cache, and the periods that, once locked, *)
(* take no more postings.  The module Closing adds how a period is locked. *)
(*                                                                         *)
(* Every service runs under @ledger_atomic and is one step, as in          *)
(* CashDesk.  A line's side and amount are one signed number: debit > 0 is *)
(* a debit of that amount, debit < 0 a credit.  Instants are business days.*)
(***************************************************************************)
EXTENDS Integers, Sequences, FiniteSetsExt

CONSTANTS
    Users,         \* staff members
    Role,          \* Role[u]: the role of user u
    FinAccounts,   \* FinancialAccount rows, all active
    Nature,        \* Nature[a]: the nature of account a
    Currency,      \* Currency[a]: the currency of account a
    Drafts,        \* lines that the form of a manual batch may submit
    Tokens,        \* idempotency tokens of that form
    PeriodForms,   \* periods that may be created
    LastDay,       \* bound: business days are 0 .. LastDay
    MaxBatches     \* bound: batches

Roles == {"ADMIN", "FINANCE_MANAGER", "AGENT", "PARTNER", "INVESTOR", "SHAREHOLDER"}
Natures == {"ASSET", "LIABILITY", "EQUITY", "INCOME", "EXPENSE"}
Days == 0 .. LastDay

Line == [account : FinAccounts, debit : Int \ {0}]
Period == [type : {"DAY", "WEEK", "MONTH"}, first : Days, last : Days, status : {"OPEN", "LOCKED"}]

ASSUME JournalAssumption ==
    /\ Role \in [Users -> Roles]
    /\ IsFiniteSet(FinAccounts)
    /\ Nature \in [FinAccounts -> Natures]
    /\ Drafts \subseteq Seq(Line)
    /\ Tokens \subseteq Nat
    /\ \A p \in PeriodForms : p \in Period /\ p.first <= p.last /\ p.status = "OPEN"
    /\ LastDay \in Nat
    /\ MaxBatches \in Nat

VARIABLES
    today,         \* the current business date
    cached,        \* cached[a]: FinancialAccount.cached_balance
    batches,       \* JournalBatch rows with their entries, oldest first
    periods        \* FinancialPeriod rows

journalVars == <<today, cached, batches, periods>>

-----------------------------------------------------------------------------
(* Rows *)

\* event_type: what a batch books.
Events == {"MANUAL", "REVERSAL", "LEGACY_OPENING", "OPERATION", "CAPITAL", "CASH_TRANSFER",
           "EXPENSE_RECOGNITION", "EXPENSE_PAYMENT", "PARTNER_PAYMENT",
           "DISTRIBUTION_APPROVE", "DISTRIBUTION_PAY", "DISTRIBUTION_REINVEST"}
\* source_model: the rows that batches are booked for.
Models == {"JournalBatch", "Operation", "GlobalCashAccount", "GlobalCashMovement", "CashAccount",
           "CashFunding", "CashHandover", "Expense", "Distribution"}
\* source_model and source_id; a manual batch has none.
Source == (Models \cup {""}) \X Nat
NoSource == <<"", 0>>
\* An idempotency key: who made it up, for what, and for which event.
Key == (Models \cup {"manual", "manual-reversal", "payment", "cancel"}) \X Nat \X (Events \cup {"opening", ""})

Batch ==
    [key : Key, event : Events, source : Source, day : Days, lines : Seq(Line),
     status : {"DRAFT", "POSTED", "REVERSED"}, reverses : Nat]

\* Batches that count in a balance (ledger_balance): a reversed batch still
\* does, and its reversal with it.
Booked == {"POSTED", "REVERSED"}

DebitPositive(a) == Nature[a] \in {"ASSET", "EXPENSE"}
Natural(a, debit) == IF DebitPositive(a) THEN debit ELSE -debit

\* What lines debit to account a, and to the accounts of a currency.
DebitTo(lines, a) ==
    SumFunction([i \in {j \in DOMAIN lines : lines[j].account = a} |-> lines[i].debit])
DebitIn(lines, c) ==
    SumFunction([i \in {j \in DOMAIN lines : Currency[lines[j].account] = c} |-> lines[i].debit])

\* ledger_balance(account, before=day), over some rows of the journal.
BalanceIn(rows, a, day) ==
    LET counted == {b \in DOMAIN rows : rows[b].status \in Booked /\ rows[b].day < day}
    IN  Natural(a, SumFunction([b \in counted |-> DebitTo(rows[b].lines, a)]))
BalanceBefore(a, day) == BalanceIn(batches, a, day)
LedgerBalance(a) == BalanceBefore(a, LastDay + 1)

-----------------------------------------------------------------------------
(* Guards *)

\* accounts/permissions.py: the capabilities of a role.
CanPrepare(u) == Role[u] \in {"ADMIN", "FINANCE_MANAGER"}
CanApprove(u) == Role[u] = "ADMIN"
CanAdminister(u) == Role[u] = "ADMIN"

\* Fault: the first day of a locked period is left open.
PeriodOpenFirstDay(day, accrual) ==
    \A p \in periods :
        p.status = "LOCKED" /\ p.first < day /\ day <= p.last => accrual /\ p.type # "MONTH"

\* _assert_open_period.  A month being closed may still take its accruals on
\* a day or in a week that is locked already, never in a locked month.
PeriodOpen(day, accrual) ==
    \A p \in periods :
        p.status = "LOCKED" /\ p.first <= day /\ day <= p.last => accrual /\ p.type # "MONTH"

\* Fault: currencies are added up.
BalancedOverall(lines) == SumFunction([i \in DOMAIN lines |-> lines[i].debit]) = 0

Balanced(lines) == \A i \in DOMAIN lines : DebitIn(lines, Currency[lines[i].account]) = 0

\* Fault: the key is not looked up.
FreshSource(key, source, event) ==
    /\ Len(batches) < MaxBatches
    /\ \A b \in DOMAIN batches :
          source # NoSource => <<batches[b].source, batches[b].event>> # <<source, event>>

\* _prepare_batch: a key names one batch, and a source has one batch per
\* event.  A repeated key returns its batch, or is refused: no step.
Fresh(key, source, event) ==
    /\ Len(batches) < MaxBatches
    /\ \A b \in DOMAIN batches :
          /\ batches[b].key # key
          /\ source # NoSource => <<batches[b].source, batches[b].event>> # <<source, event>>

-----------------------------------------------------------------------------
(* Preparing, posting, reversing *)

NewBatch(key, source, event, day, lines, status, reverses) ==
    [key |-> key, event |-> event, source |-> source, day |-> day, lines |-> lines,
     status |-> status, reverses |-> reverses]

\* _post_batch: what must hold of the lines, and the balances it updates.
Post(day, lines, accrual) ==
    /\ PeriodOpen(day, accrual)
    /\ Len(lines) >= 2
    /\ Balanced(lines)
    /\ cached' = [a \in FinAccounts |-> cached[a] + Natural(a, DebitTo(lines, a))]

Opposite(lines) == [i \in DOMAIN lines |-> [lines[i] EXCEPT !.debit = -@]]

\* record_event: prepare and post the batch of a domain event.  Lines of no
\* amount are left out.
RecordEvent(source, event, day, lines, accrual) ==
    /\ Fresh(<<source[1], source[2], event>>, source, event)
    /\ Post(day, lines, accrual)
    /\ batches' = Append(batches, NewBatch(<<source[1], source[2], event>>, source, event,
                                           day, lines, "POSTED", 0))

JournalInit ==
    /\ today = 0
    /\ cached = [a \in FinAccounts |-> 0]
    /\ batches = <<>>
    /\ periods = {}

\* batch_create: a manual batch, balanced or not, of any date.
PrepareBatch(u, token, day, lines) ==
    /\ CanPrepare(u)
    /\ Fresh(<<"manual", token, "">>, NoSource, "MANUAL")
    /\ batches' = Append(batches, NewBatch(<<"manual", token, "">>, NoSource, "MANUAL",
                                           day, lines, "DRAFT", 0))
    /\ UNCHANGED <<today, cached, periods>>

\* batch_action leaves the batches of domain events to their domain.
Manual(b) ==
    /\ batches[b].source = NoSource
    /\ batches[b].event \notin {"EXPENSE_PAYMENT", "PARTNER_PAYMENT"}

\* Faults: a posted batch may be posted again, or a reversed one.
PostBatchTwice(u, b) ==
    /\ CanApprove(u)
    /\ Manual(b)
    /\ batches[b].status # "REVERSED"
    /\ Post(batches[b].day, batches[b].lines, FALSE)
    /\ batches' = [batches EXCEPT ![b].status = "POSTED"]
    /\ UNCHANGED <<today, periods>>

PostBatchReversed(u, b) ==
    /\ CanApprove(u)
    /\ Manual(b)
    /\ batches[b].status # "POSTED"
    /\ Post(batches[b].day, batches[b].lines, FALSE)
    /\ batches' = [batches EXCEPT ![b].status = "POSTED"]
    /\ UNCHANGED <<today, periods>>

PostBatch(u, b) ==
    /\ CanApprove(u)
    /\ Manual(b)
    /\ batches[b].status = "DRAFT"
    /\ Post(batches[b].day, batches[b].lines, FALSE)
    /\ batches' = [batches EXCEPT ![b].status = "POSTED"]
    /\ UNCHANGED <<today, periods>>

\* Fault: the original is not marked.
ReversalUnmarked(b, key) ==
    LET lines == Opposite(batches[b].lines)
        source == <<"JournalBatch", b>>
    IN  /\ batches[b].status = "POSTED"
        /\ Fresh(key, source, "REVERSAL")
        /\ Post(today, lines, FALSE)
        /\ batches' = Append(batches, NewBatch(key, source, "REVERSAL", today, lines, "POSTED", b))

\* reverse_batch: post the opposite lines today.
Reversal(b, key) ==
    LET lines == Opposite(batches[b].lines)
        source == <<"JournalBatch", b>>
    IN  /\ batches[b].status = "POSTED"
        /\ Fresh(key, source, "REVERSAL")
        /\ Post(today, lines, FALSE)
        /\ batches' = Append([batches EXCEPT ![b].status = "REVERSED"],
                             NewBatch(key, source, "REVERSAL", today, lines, "POSTED", b))

ReverseBatch(u, b) ==
    /\ CanApprove(u)
    /\ Manual(b)
    /\ Reversal(b, <<"manual-reversal", b, "">>)
    /\ UNCHANGED <<today, periods>>

\* period_create: one period per type and dates; periods may overlap.
CreatePeriod(u, form) ==
    /\ CanAdminister(u)
    /\ ~\E p \in periods : p.type = form.type /\ p.first = form.first /\ p.last = form.last
    /\ periods' = periods \cup {form}
    /\ UNCHANGED <<today, cached, batches>>

NextDay ==
    /\ today < LastDay
    /\ today' = today + 1
    /\ UNCHANGED <<cached, batches, periods>>

JournalNext ==
    \/ \E u \in Users :
          \/ \E token \in Tokens, day \in Days, lines \in Drafts : PrepareBatch(u, token, day, lines)
          \/ \E b \in DOMAIN batches : PostBatch(u, b) \/ ReverseBatch(u, b)
          \/ \E form \in PeriodForms : CreatePeriod(u, form)
    \/ NextDay

JournalSpec == JournalInit /\ [][JournalNext]_journalVars

-----------------------------------------------------------------------------
(* Properties *)

\* Types; a reversal reverses an earlier batch.
JournalTypeOK ==
    /\ today \in Days
    /\ DOMAIN cached = FinAccounts
    /\ batches \in Seq(Batch)
    /\ periods \subseteq Period
    /\ \A b \in DOMAIN batches : batches[b].reverses < b

\* The cached balance of every account is the balance of its entries: what
\* reconcile_account reports as a difference is always zero.
CachedIsLedger == \A a \in FinAccounts : cached[a] = LedgerBalance(a)

\* Double entry: in each currency debits and credits cancel over all booked
\* batches, reversed ones and their reversals included.
BooksBalance ==
    \A c \in {Currency[a] : a \in FinAccounts} :
        SumFunction([a \in {b \in FinAccounts : Currency[b] = c} |-> Natural(a, LedgerBalance(a))]) = 0

\* A key names one batch and a source has one batch per event, so an event
\* that is submitted again is not booked again.
OneBatchPerEvent ==
    \A b, c \in DOMAIN batches :
        \/ b = c
        \/ /\ batches[b].key # batches[c].key
           /\ batches[b].source # NoSource =>
                  <<batches[b].source, batches[b].event>> # <<batches[c].source, batches[c].event>>

\* A batch is reversed exactly once, by a later posted batch of the opposite
\* lines; a batch that is not reversed has no reversal.
ReversalsPair ==
    \A b \in DOMAIN batches :
        LET reversals == {r \in DOMAIN batches : batches[r].reverses = b} IN
        IF batches[b].status = "REVERSED"
        THEN \E r \in reversals : /\ reversals = {r}
                                  /\ r > b
                                  /\ batches[r].status \in Booked
                                  /\ batches[r].lines = Opposite(batches[b].lines)
        ELSE reversals = {}

\* "Un lot publie est immuable" (finance/models.py:202): once posted a batch
\* changes in nothing, but that it may become reversed.
PostedIsFinal ==
    [][\A b \in DOMAIN batches :
          batches[b].status \in Booked =>
              \/ batches'[b] = batches[b]
              \/ /\ batches[b].status = "POSTED"
                 /\ batches'[b] = [batches[b] EXCEPT !.status = "REVERSED"]]_journalVars

=============================================================================
