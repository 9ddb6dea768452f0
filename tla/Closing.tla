------------------------------- MODULE Closing ------------------------------
(***************************************************************************)
(* How accounting periods are closed (finance/closing.py), with what their *)
(* closing waits for: charges that are approved and recognised             *)
(* (apps/expenses, finance/events.py) and counts of the cash accounts.  A  *)
(* month that is closed accrues the remunerations and fixes its result as  *)
(* a ProfitPeriod.                                                         *)
(*                                                                         *)
(* The administration site also edits charges (expenses/admin.py): its     *)
(* forms write every column of what they read earlier, without a lock, so  *)
(* one may write any values over a row that a service changed meanwhile.   *)
(*                                                                         *)
(* The journal has been opened (FINANCE_LEDGER_ENABLED, cut over before    *)
(* day 0).  Charges and the remuneration are in one currency.              *)
(***************************************************************************)
EXTENDS Journal

CONSTANTS
    CashAccounts,  \* accounts whose type is one of CASH_TYPES
    Charge,        \* the account of recognised charges (EXPENSE)
    Payable,       \* the account of charges that are due (EXPENSE_PAYABLE)
    ChargeForms,   \* <<amount, incurred_on>> that may be submitted
    OnSite,        \* users whom the administration site admits (is_staff)
    ExpenseForms,  \* amount, day, status and batch that its form of a charge may save
    Counts,        \* balances that may be declared
    Salary,        \* the remuneration due each month by a dated rule, 0 for none
    MonthLength,   \* days of a civil month
    MaxExpenses    \* bound: expenses

NotCounted == -1   \* a count recorded without a declared balance

Decisions == {"PENDING", "APPROVED", "REJECTED"}

ASSUME ClosingAssumption ==
    /\ CashAccounts \subseteq FinAccounts
    /\ \A a \in CashAccounts : Nature[a] = "ASSET"
    /\ Charge \in FinAccounts /\ Nature[Charge] = "EXPENSE"
    /\ Payable \in FinAccounts /\ Nature[Payable] = "LIABILITY"
    /\ \A a \in CashAccounts \cup {Payable} : Currency[a] = Currency[Charge]
    /\ ChargeForms \subseteq (Nat \ {0}) \X Days
    /\ ExpenseForms \subseteq [amount : Nat \ {0}, day : Days, status : Decisions, booked : Nat]
    /\ Counts \subseteq Nat
    /\ Salary \in Nat
    /\ MonthLength \in Nat \ {0}
    /\ MaxExpenses \in Nat

VARIABLES
    expenses,      \* Expense rows; an expense is named by its position
    counts,        \* AccountCount rows
    profits        \* ProfitPeriod rows made by a closing

closingVars == <<journalVars, expenses, counts, profits>>

-----------------------------------------------------------------------------
(* Rows *)

\* booked is the position of recognition_batch, 0 for none; decided: an
\* ExpenseApproval exists; accrual is the month of a remuneration, 0 for a
\* charge of another kind; paid is the sum of the ExpensePayment rows.  A
\* deleted charge keeps its position, as its primary key is not used again.
\*
\* Two fields are history, which no guard reads: recognised is the amount that
\* was booked for the charge, and edited says that a form of the
\* administration site wrote it.
Expense ==
    [amount : Nat \ {0}, day : Days, status : Decisions \cup {"DELETED"},
     booked : Nat, decided : BOOLEAN, accrual : Nat, paid : Nat,
     recognised : Nat, edited : BOOLEAN]

PeriodDates == [type : {"DAY", "WEEK", "MONTH"}, first : Days, last : Days]
Dates(p) == [type |-> p.type, first |-> p.first, last |-> p.last]

Count == [period : PeriodDates, account : CashAccounts, theoretical : Int, declared : Counts \cup {NotCounted}]
Currencies == {Currency[a] : a \in FinAccounts}
Profit == [first : Days, last : Days, currency : Currencies, income : Int, expenses : Int, net : Int]

Recognition(e) == <<"Expense", e>>

\* What falls to a period in a currency, income or expenses, in some rows.
Over(rows, p, currency, nature) ==
    SumFunction([a \in {b \in FinAccounts : Nature[b] = nature /\ Currency[b] = currency} |->
                    BalanceIn(rows, a, p.last + 1) - BalanceIn(rows, a, p.first)])

-----------------------------------------------------------------------------
(* Charges *)

ClosingInit ==
    /\ JournalInit
    /\ expenses = <<>>
    /\ counts = {}
    /\ profits = {}

NewExpense(amount, day, status) ==
    [amount |-> amount, day |-> day, status |-> status, booked |-> 0, decided |-> FALSE,
     accrual |-> 0, paid |-> 0, recognised |-> 0, edited |-> FALSE]

\* expense_create: the only one of these services that takes no lock.
CreateExpense(u, form) ==
    /\ CanAdminister(u)
    /\ Len(expenses) < MaxExpenses
    /\ expenses' = Append(expenses, NewExpense(form[1], form[2], "PENDING"))
    /\ UNCHANGED <<journalVars, counts, profits>>

ChargeLines(amount) == <<[account |-> Charge, debit |-> amount], [account |-> Payable, debit |-> -amount]>>

\* decide_expense: one decision per charge.
Undecided(e) == expenses[e].status = "PENDING" /\ ~expenses[e].decided
Decided(e, status) == [expenses[e] EXCEPT !.status = status, !.decided = TRUE]

\* Fault: an approved charge is not booked.
ApproveExpenseUnbooked(u, e) ==
    /\ CanAdminister(u)
    /\ Undecided(e)
    /\ expenses[e].booked = 0
    /\ expenses' = [expenses EXCEPT ![e] = Decided(e, "APPROVED")]
    /\ UNCHANGED <<journalVars, counts, profits>>

\* decide_expense and recognize_expense: an approved charge is booked on the
\* day it was incurred, or the approval fails with its booking.
ApproveExpense(u, e) ==
    /\ CanAdminister(u)
    /\ Undecided(e)
    /\ expenses[e].booked = 0
    /\ expenses' = [expenses EXCEPT ![e] = [Decided(e, "APPROVED") EXCEPT
                        !.booked = Len(batches) + 1, !.recognised = expenses[e].amount]]
    /\ RecordEvent(Recognition(e), "EXPENSE_RECOGNITION", expenses[e].day,
                   ChargeLines(expenses[e].amount), FALSE)
    /\ UNCHANGED <<today, periods, counts, profits>>

\* Another charge has batch b: recognition_batch is unique.
Taken(b, e) == \E f \in DOMAIN expenses \ {e} : expenses[f].booked = b

\* The batch that record_event returns for charge e instead of a new one.
IsRecognition(b, e) ==
    /\ batches[b].source = Recognition(e)
    /\ batches[b].event = "EXPENSE_RECOGNITION"
    /\ batches[b].status = "POSTED"
    /\ batches[b].day = expenses[e].day
    /\ batches[b].lines = ChargeLines(expenses[e].amount)

\* The same for a charge that a form made PENDING again: it keeps the batch it
\* has, or gets back the one that was booked for it with the same content.
ApproveRecognised(u, e, b) ==
    /\ CanAdminister(u)
    /\ Undecided(e)
    /\ \/ expenses[e].booked = b
       \/ expenses[e].booked = 0 /\ IsRecognition(b, e) /\ ~Taken(b, e)
    /\ expenses' = [expenses EXCEPT ![e] = [Decided(e, "APPROVED") EXCEPT !.booked = b]]
    /\ UNCHANGED <<journalVars, counts, profits>>

RejectExpense(u, e) ==
    /\ CanAdminister(u)
    /\ Undecided(e)
    /\ expenses' = [expenses EXCEPT ![e] = Decided(e, "REJECTED")]
    /\ UNCHANGED <<journalVars, counts, profits>>

\* Fault: no ExpensePayment row is left.
PayExpenseUnrecorded(u, e, a, amount, token) ==
    LET key == <<"payment", token, "">>
        lines == <<[account |-> Payable, debit |-> amount], [account |-> a, debit |-> -amount]>>
    IN  /\ CanApprove(u)
        /\ Fresh(key, NoSource, "EXPENSE_PAYMENT")
        /\ expenses[e].status = "APPROVED"
        /\ expenses[e].booked # 0
        /\ amount > 0
        /\ expenses[e].paid + amount <= expenses[e].amount
        /\ LedgerBalance(a) >= amount
        /\ Post(today, lines, FALSE)
        /\ batches' = Append(batches, NewBatch(key, NoSource, "EXPENSE_PAYMENT", today, lines, "POSTED", 0))
        /\ UNCHANGED <<today, periods, expenses, counts, profits>>

\* pay_expense: settle a part of an approved charge from a cash account that
\* holds it, under a token of the form.  Accounts of the cash application
\* mirror the payment there (see Cutover).
PayExpense(u, e, a, amount, token) ==
    LET key == <<"payment", token, "">>
        lines == <<[account |-> Payable, debit |-> amount], [account |-> a, debit |-> -amount]>>
    IN  /\ CanApprove(u)
        /\ Fresh(key, NoSource, "EXPENSE_PAYMENT")
        /\ expenses[e].status = "APPROVED"
        /\ expenses[e].booked # 0
        /\ amount > 0
        /\ expenses[e].paid + amount <= expenses[e].amount
        /\ LedgerBalance(a) >= amount
        /\ Post(today, lines, FALSE)
        /\ batches' = Append(batches, NewBatch(key, NoSource, "EXPENSE_PAYMENT", today, lines, "POSTED", 0))
        /\ expenses' = [expenses EXCEPT ![e].paid = @ + amount]
        /\ UNCHANGED <<today, periods, counts, profits>>

-----------------------------------------------------------------------------
(* Forms of the administration site (expenses/admin.py) *)

SavedExpense(row, form) ==
    [row EXCEPT !.amount = form.amount, !.day = form.day, !.status = form.status,
                !.booked = form.booked, !.edited = TRUE]

\* The batch that a form of charge e names exists and no other charge names it.
Nameable(e, form) == form.booked # 0 => form.booked \in DOMAIN batches /\ ~Taken(form.booked, e)

AddExpense(u, form) ==
    /\ u \in OnSite
    /\ Len(expenses) < MaxExpenses
    /\ Nameable(0, form)
    /\ expenses' = Append(expenses, SavedExpense(NewExpense(form.amount, form.day, form.status), form))
    /\ UNCHANGED <<journalVars, counts, profits>>

\* The whole row is saved, as the form was read or as it was filled in.
SaveExpense(u, e, form) ==
    /\ u \in OnSite
    /\ expenses[e].status # "DELETED"
    /\ Nameable(e, form)
    /\ expenses' = [expenses EXCEPT ![e] = SavedExpense(@, form)]
    /\ UNCHANGED <<journalVars, counts, profits>>

\* A payment restricts the deletion of its charge; the approval goes with it.
DeleteExpense(u, e) ==
    /\ u \in OnSite
    /\ expenses[e].status # "DELETED"
    /\ expenses[e].paid = 0
    /\ expenses' = [expenses EXCEPT ![e] = [@ EXCEPT !.status = "DELETED", !.booked = 0,
                                                     !.decided = FALSE, !.edited = TRUE]]
    /\ UNCHANGED <<journalVars, counts, profits>>

\* Approvals are read-only on the site, but may be deleted.
DeleteApproval(u, e) ==
    /\ u \in OnSite
    /\ expenses[e].decided
    /\ expenses' = [expenses EXCEPT ![e].decided = FALSE]
    /\ UNCHANGED <<journalVars, counts, profits>>

-----------------------------------------------------------------------------
(* Counts and closing *)

\* record_count: what was counted, next to what the ledger says now; a later
\* count of the same account replaces it.
RecordCount(u, p, a, declared, justified) ==
    LET theoretical == BalanceBefore(a, p.last + 1) IN
    /\ CanPrepare(u)
    /\ p.status = "OPEN"
    /\ declared \notin {theoretical, NotCounted} => justified
    /\ counts' = {c \in counts : c.period # Dates(p) \/ c.account # a}
                    \cup {[period |-> Dates(p), account |-> a,
                           theoretical |-> theoretical, declared |-> declared]}
    /\ UNCHANGED <<journalVars, expenses, profits>>

\* accrue_remunerations covers exactly one civil month.
CivilMonth(p) == p.first % MonthLength = 0 /\ p.last = p.first + MonthLength - 1
MonthOf(p) == p.first \div MonthLength + 1

\* The remuneration that closing p accrues, as expenses and as batches.  A
\* month that was accrued already keeps what it has.
Accrues(p) ==
    /\ p.type = "MONTH"
    /\ Salary > 0
    /\ ~\E e \in DOMAIN expenses : expenses[e].accrual = MonthOf(p) /\ expenses[e].status # "DELETED"
AccruedExpenses(p) ==
    IF Accrues(p)
    THEN Append(expenses, [NewExpense(Salary, p.last, "APPROVED") EXCEPT
                              !.booked = Len(batches) + 1, !.decided = TRUE,
                              !.accrual = MonthOf(p), !.recognised = Salary])
    ELSE expenses
\* Fault: the result is computed on the journal before the accrual.
AccruedBatchesEarly(p) == batches

AccruedBatches(p) ==
    LET source == Recognition(Len(expenses) + 1) IN
    IF Accrues(p)
    THEN Append(batches, NewBatch(<<source[1], source[2], "EXPENSE_RECOGNITION">>, source,
                                  "EXPENSE_RECOGNITION", p.last, ChargeLines(Salary), "POSTED", 0))
    ELSE batches

Accrue(p) ==
    /\ p.type = "MONTH" => CivilMonth(p)
    /\ expenses' = AccruedExpenses(p)
    /\ IF Accrues(p)
       THEN RecordEvent(Recognition(Len(expenses) + 1), "EXPENSE_RECOGNITION", p.last, ChargeLines(Salary), TRUE)
       ELSE UNCHANGED <<cached, batches>>

\* period_report: the controls that must all pass.  The accruals touch no
\* cash account, so the counts are those of the ledger before or after them.
Counted(p, a) ==
    LET closing == BalanceBefore(a, p.last + 1) IN
    \E c \in counts : /\ c.period = Dates(p) /\ c.account = a
                      /\ c.theoretical = closing /\ c.declared = closing
Controls(p) ==
    /\ \A a \in CashAccounts : Counted(p, a)
    /\ CachedIsLedger
    /\ ~\E e \in DOMAIN expenses :
          expenses[e].status = "PENDING" /\ p.first <= expenses[e].day /\ expenses[e].day <= p.last
    /\ ~\E b \in DOMAIN batches :
          batches[b].status = "DRAFT" /\ p.first <= batches[b].day /\ batches[b].day <= p.last

ProfitOf(rows, p, currency) ==
    LET income == Over(rows, p, currency, "INCOME")
        expense == Over(rows, p, currency, "EXPENSE")
    IN  [first |-> p.first, last |-> p.last, currency |-> currency,
         income |-> income, expenses |-> expense, net |-> income - expense]

\* close_period: lock a period that is over and passes every control.
ClosePeriod(u, p) ==
    /\ CanApprove(u)
    /\ p.status = "OPEN"
    /\ p.last < today
    /\ Accrue(p)
    /\ Controls(p)
    /\ IF p.type = "MONTH"
       THEN /\ ~\E q \in profits : q.first = p.first /\ q.last = p.last
            /\ profits' = profits \cup {ProfitOf(AccruedBatches(p), p, c) : c \in Currencies}
       ELSE UNCHANGED profits
    /\ periods' = (periods \ {p}) \cup {[p EXCEPT !.status = "LOCKED"]}
    /\ UNCHANGED <<today, counts>>

ClosingNext ==
    \/ JournalNext /\ UNCHANGED <<expenses, counts, profits>>
    \/ \E u \in Users :
          \/ \E form \in ChargeForms : CreateExpense(u, form)
          \/ \E e \in DOMAIN expenses :
                \/ ApproveExpense(u, e)
                \/ \E b \in DOMAIN batches : ApproveRecognised(u, e, b)
                \/ RejectExpense(u, e)
                \/ \E a \in CashAccounts, amount \in Counts, token \in Tokens :
                      PayExpense(u, e, a, amount, token)
                \/ \E form \in ExpenseForms : SaveExpense(u, e, form)
                \/ DeleteExpense(u, e)
                \/ DeleteApproval(u, e)
          \/ \E form \in ExpenseForms : AddExpense(u, form)
          \/ \E p \in periods :
                \/ ClosePeriod(u, p)
                \/ \E a \in CashAccounts, declared \in Counts \cup {NotCounted}, justified \in BOOLEAN :
                      RecordCount(u, p, a, declared, justified)

ClosingSpec == ClosingInit /\ [][ClosingNext]_closingVars

-----------------------------------------------------------------------------
(* Properties *)

\* What is booked for a charge is one batch, ever, for the amount that was
\* recognised, whatever a form of the administration site does to the charge
\* afterwards.  As long as no form wrote it, approval and recognition succeed
\* or fail together: the batch is there exactly when the charge is approved,
\* the charge names it, and it is of its amount and its day.  A remuneration is
\* accrued once however its month is closed.
ApprovedIsRecognised ==
    /\ \A e \in DOMAIN expenses :
          LET x == expenses[e]
              rows == {b \in DOMAIN batches : batches[b].source = Recognition(e)}
          IN  /\ IF x.recognised = 0 THEN rows = {}
                 ELSE \E b \in rows : /\ rows = {b}
                                      /\ batches[b].status = "POSTED"
                                      /\ batches[b].lines = ChargeLines(x.recognised)
              /\ ~x.edited =>
                    /\ rows = (IF x.status = "APPROVED" THEN {x.booked} ELSE {})
                    /\ x.recognised = (IF x.status = "APPROVED" THEN x.amount ELSE 0)
                    /\ \A b \in rows : batches[b].day = x.day
    /\ \A e, f \in DOMAIN expenses :
          expenses[e].accrual = expenses[f].accrual /\ expenses[e].accrual # 0 => e = f

\* The balance of the payable account is what was recognised of charges and is
\* not paid, as long as no manual batch touches it: payments are booked with
\* the row that records them.  They never exceed the charge unless a form
\* wrote it.
DueIsPayable ==
    /\ LedgerBalance(Payable) =
          SumFunction([e \in DOMAIN expenses |-> expenses[e].recognised - expenses[e].paid])
    /\ \A e \in DOMAIN expenses : ~expenses[e].edited => expenses[e].paid <= expenses[e].recognised

\* The result fixed when a month was closed is the result of the journal for
\* that month ever after, whatever is posted or reversed later.
ResultStands ==
    \A q \in profits :
        /\ q.income = Over(batches, q, q.currency, "INCOME")
        /\ q.expenses = Over(batches, q, q.currency, "EXPENSE")
        /\ q.net = q.income - q.expenses

\* "Only the monthly non-cash accrual may follow a cash-day/week closure.  A
\* locked month still forbids every posting" (finance/services.py:44-45): the
\* cash that moved within a locked period, and in a locked month every
\* movement, is fixed.
LockedFlowsFinal ==
    [][\A p \in periods : p.status = "LOCKED" =>
          \A a \in (IF p.type = "MONTH" THEN FinAccounts ELSE CashAccounts) :
              (BalanceBefore(a, p.last + 1) - BalanceBefore(a, p.first))'
                  = BalanceBefore(a, p.last + 1) - BalanceBefore(a, p.first)]_closingVars

=============================================================================
