------------------------------ MODULE Cutover -------------------------------
(***************************************************************************)
(* The cash and operations applications after the accounting journal has   *)
(* taken over (finance/cutover.py and finance/events.py): every service    *)
(* that moves cash also posts a batch, in its own transaction, and refuses *)
(* to go on when the balance of a cash account is not the one in the       *)
(* journal.  FINANCE_LEDGER_ENABLED is set by a deployment; until an       *)
(* administrator has carried the balances over, services that have         *)
(* something to post are refused.                                          *)
(*                                                                         *)
(* No period is locked here (see Closing); each operation may belong to a  *)
(* partner, to whom a share of its fee is due, and forms of the            *)
(* administration site (stakeholders/admin.py) may say so before or after  *)
(* it is booked.  Payments of charges and parts of a result are here for   *)
(* the cash they move: what is owed on them is left to Closing and         *)
(* Dividends.  The form of a manual batch (finance/forms.py:66) leaves out *)
(* the accounts that stand for a cash account, so manual batches are left  *)
(* to Journal.                                                             *)
(***************************************************************************)
EXTENDS Operations, SequencesExt

CONSTANTS
    Safe,          \* the FinancialAccount of the reserve
    Transit,       \* TRANSIT: amounts of transfers under way
    Commission,    \* COMMISSION: fees earned
    Capital,       \* CAPITAL: capital brought in or taken out
    Opening,       \* OPENING-EQUITY: the balances carried over
    Due,           \* PARTNER_PAYABLE: what is due to the partner
    Debts,         \* EXPENSE_PAYABLE and DISTRIBUTION_PAYABLE: other debts
    SharePercent,  \* the partner's share of a fee, in percent
    Tokens,        \* idempotency tokens of the payment forms, and parts of results
    MaxBatches     \* bound: batches

\* The FinancialAccount of a cash account is named as the account.
FinAccounts == Accounts \cup {Safe, Transit, Commission, Capital, Opening, Due, Debts}

\* counterpart: the nature of an account follows its type.
Nature ==
    [a \in FinAccounts |->
        CASE a \in Accounts \cup {Safe} -> "ASSET"
          [] a \in {Transit, Due, Debts} -> "LIABILITY"
          [] a \in {Capital, Opening} -> "EQUITY"
          [] a = Commission -> "INCOME"]

ASSUME CutoverAssumption ==
    /\ IsFiniteSet(Accounts)
    /\ IsInjective(<<Safe, Transit, Commission, Capital, Opening, Due, Debts>>)
    /\ Accounts \cap {Safe, Transit, Commission, Capital, Opening, Due, Debts} = {}
    /\ SharePercent \in 0 .. 100
    /\ Tokens \subseteq Nat
    /\ MaxBatches \in Nat

VARIABLES
    cached,        \* cached[a]: FinancialAccount.cached_balance
    batches,       \* JournalBatch rows with their entries, oldest first
    engine,        \* OFF, SET: the flag is set, ON: and the run is applied
    cut,           \* cutover_at: how many rows of each table are older
    attributed,    \* operations that have a PartnerOperation
    credited       \* history: operations that had one when they were booked

attributions == <<attributed, credited>>
bookVars == <<cached, batches, engine, cut, attributions>>
cutoverVars == <<vars, bookVars>>

J == INSTANCE Journal WITH
        Currency <- [a \in FinAccounts |-> "USD"], Drafts <- {},
        PeriodForms <- {}, periods <- {}

-----------------------------------------------------------------------------
(* Recording an event *)

\* A line, signed; record_event leaves out a line of no amount.
Debit(account, n) == IF n = 0 THEN <<>> ELSE <<[account |-> account, debit |-> n]>>
Transfer(to, from, n) == Debit(to, n) \o Debit(from, -n)

\* The balance that the cash application keeps for account a.
CashBalance(a) == IF a = Safe THEN reserve ELSE balance[a]

\* _assert_projection, once the service has moved the cash.
AssertProjection(accounts) == \A a \in accounts : (J!LedgerBalance(a) = CashBalance(a))'

\* record_event as part of a service: post the lines, or do without while the
\* engine is off.  active_cutover() fails in between.
Record(source, event, day, lines, accounts) ==
    /\ engine # "SET"
    /\ IF engine = "OFF" THEN UNCHANGED <<cached, batches>>
       ELSE /\ J!RecordEvent(source, event, day, lines, FALSE)
            /\ AssertProjection(accounts)

\* The partner's share of a fee; quantize(Decimal("0.01")) rounds half to even.
PartnerFee(fee) ==
    LET q == (fee * SharePercent) \div 100
        r == (fee * SharePercent) % 100
    IN  IF r > 50 \/ (r = 50 /\ q % 2 = 1) THEN q + 1 ELSE q

\* Fault: a share is due whether or not a partner brought the operation.
OperationLinesShared(op, partnered) ==
    LET share == PartnerFee(op.fee)
    IN  Debit(op.account, Impact(op.type, op.amount, op.fee))
            \o Debit(Transit, IF op.type = "SENT_TRANSFER" THEN -op.amount ELSE op.amount)
            \o Debit(Commission, share - op.fee)
            \o Debit(Due, -share)

\* The lines of record_operation for a row of Operation.
OperationLines(op, partnered) ==
    LET share == IF partnered THEN PartnerFee(op.fee) ELSE 0
    IN  Debit(op.account, Impact(op.type, op.amount, op.fee))
            \o Debit(Transit, IF op.type = "SENT_TRANSFER" THEN -op.amount ELSE op.amount)
            \o Debit(Commission, share - op.fee)
            \o Debit(Due, -share)

\* record_operation: an operation older than the cutover is refused.
RecordOperation(o) ==
    /\ engine = "ON" => o > cut.ops
    /\ credited' = IF engine = "ON" /\ o \in attributed' THEN credited \cup {o} ELSE credited
    /\ Record(<<"Operation", o>>, "OPERATION", ops'[o].day,
              OperationLines(ops'[o], o \in attributed'), {ops'[o].account})

-----------------------------------------------------------------------------
(* The cutover *)

CutoverInit ==
    /\ Init
    /\ cached = [a \in FinAccounts |-> 0]
    /\ batches = <<>>
    /\ engine = "OFF"
    /\ cut = [ops |-> 0, rows |-> [a \in Accounts |-> 0]]
    /\ attributed = {}
    /\ credited = {}

\* A deployment sets FINANCE_LEDGER_ENABLED.
EnableLedger ==
    /\ engine = "OFF"
    /\ engine' = "SET"
    /\ UNCHANGED <<vars, cached, batches, cut, attributions>>

\* The cash accounts whose balance is carried over: one without a balance has
\* no batch.
CarriedOver == SetToSeq({a \in Accounts \cup {Safe} : CashBalance(a) # 0})

\* The row that an opening batch names as its source: a model and a primary key.
Legacy(a) ==
    IF a = Safe THEN <<"GlobalCashAccount", 1>>
    ELSE <<"CashAccount", CHOOSE i \in DOMAIN SetToSeq(Accounts) : SetToSeq(Accounts)[i] = a>>

OpeningBatch(a) ==
    J!NewBatch(<<Legacy(a)[1], Legacy(a)[2], "opening">>, Legacy(a), "LEGACY_OPENING", today,
               Transfer(a, Opening, CashBalance(a)), "POSTED", 0)

\* migrate_opening_balances: at an instant of this day after which no cash
\* moved.  Operations that are not PENDING are older, others may be.
MigrateOpeningBalances(u, before) ==
    /\ J!CanAdminister(u)
    /\ engine = "SET"
    /\ \A o \in DOMAIN ops : ops[o].status # "PENDING" => o <= before
    /\ \A a \in Accounts : balance[a] = LastAfter(log[a])
    /\ reserve = LastAfter(reserveLog)
    /\ Len(batches) + Len(CarriedOver) <= MaxBatches
    /\ batches' = batches \o [i \in DOMAIN CarriedOver |-> OpeningBatch(CarriedOver[i])]
    /\ cached' = [a \in FinAccounts |->
                     IF a \in Accounts \cup {Safe} THEN CashBalance(a)
                     ELSE IF a = Opening THEN SumFunction([c \in Accounts \cup {Safe} |-> CashBalance(c)])
                     ELSE cached[a]]
    /\ cut' = [ops |-> before, rows |-> [a \in Accounts |-> Len(log[a])]]
    /\ engine' = "ON"
    /\ UNCHANGED <<vars, attributions>>

-----------------------------------------------------------------------------
(* Services that move cash *)

SameEngine == UNCHANGED <<engine, cut>>
NoEvent == UNCHANGED <<cached, batches>>

\* adjust_global_cash and record_capital.
AdjustCapital(u, amount, direction) ==
    LET n == IF direction = "IN" THEN amount ELSE -amount IN
    /\ AdjustGlobalCash(u, amount, direction)
    /\ Record(<<"GlobalCashMovement", Len(reserveLog) + 1>>, "CAPITAL", today,
              Transfer(Safe, Capital, n), {Safe})
    /\ SameEngine
    /\ UNCHANGED <<opsVars, attributions>>

\* allocate_cash and record_funding.
Fund(u, a, amount) ==
    /\ AllocateCash(u, a, amount)
    /\ Record(<<"CashFunding", Len(reserveLog) + 1>>, "CASH_TRANSFER", today,
              Transfer(a, Safe, amount), {a, Safe})
    /\ SameEngine
    /\ UNCHANGED <<opsVars, attributions>>

\* Fault: the handover is not recorded.
ReceiveHandoverUnrecorded(u, h) ==
    /\ ConfirmHandover(u, h)
    /\ engine # "SET"
    /\ NoEvent
    /\ SameEngine
    /\ UNCHANGED <<opsVars, attributions>>

\* confirm_handover and record_handover, which compares no balance.
ReceiveHandover(u, h) ==
    /\ ConfirmHandover(u, h)
    /\ Record(<<"CashHandover", h>>, "CASH_TRANSFER", today,
              Transfer(Safe, handovers[h].account, handovers[h].amount), {})
    /\ SameEngine
    /\ UNCHANGED <<opsVars, attributions>>

\* The creation of an operation, with or without a PartnerOperation; a
\* completed one is recorded at once.
Attribute(partnered) == attributed' = IF partnered THEN attributed \cup {Len(ops) + 1} ELSE attributed

Create(u, a, amount, fee, key, partnered) ==
    /\ Attribute(partnered)
    /\ \/ /\ CreateSentTransfer(u, a, amount, fee, key) \/ CreateWithdrawal(u, a, amount, fee, key)
          /\ RecordOperation(Len(ops) + 1)
       \/ /\ ReceiveTransfer(u, a, amount, fee, key)
          /\ NoEvent
          /\ UNCHANGED credited
    /\ SameEngine

\* pay_received_transfer and record_operation.
Pay(u, o) ==
    /\ PayReceivedTransfer(u, o)
    /\ UNCHANGED attributed
    /\ RecordOperation(o)
    /\ SameEngine

\* cancel_operation: once the engine is on, the batch of the operation is
\* reversed too, which takes the approval of an administrator.
Cancel(u, o) ==
    /\ CancelOperation(u, o)
    /\ engine # "SET"
    /\ IF engine = "OFF" THEN NoEvent
       ELSE \E b \in DOMAIN batches :
               /\ batches[b].source = <<"Operation", o>>
               /\ batches[b].event = "OPERATION"
               /\ J!CanApprove(u)
               /\ J!Reversal(b, <<"cancel", o, "">>)
    /\ SameEngine
    /\ UNCHANGED attributions

\* Fault: a completed operation may still be revised.
ReviseCompleted(u, o, amount, fee) ==
    /\ ReviseOperation(u, o, amount, fee)
    /\ engine # "SET"
    /\ NoEvent
    /\ SameEngine
    /\ UNCHANGED attributions

\* revise_operation: once the engine is on, only before the payout.
Revise(u, o, amount, fee) ==
    /\ ReviseOperation(u, o, amount, fee)
    /\ engine # "SET"
    /\ engine = "ON" => ops[o].status = "PENDING"
    /\ NoEvent
    /\ SameEngine
    /\ UNCHANGED attributions

\* _validate_cash_payment and _project_payment: a payment that is booked is
\* taken from the cash account that the money account stands for.
PayFrom(a, debt, amount, key, source, event) ==
    LET lines == Transfer(debt, a, amount)
    IN  /\ engine = "ON"
        /\ J!Fresh(key, source, event)
        /\ amount > 0
        /\ amount <= J!LedgerBalance(a)
        /\ J!Post(today, lines, FALSE)
        /\ batches' = Append(batches, J!NewBatch(key, source, event, today, lines, "POSTED", 0))
        /\ IF a = Safe
           THEN ApplyGlobalMovement(-amount, "CAPITAL_OUT", NoAccount, 0) /\ UNCHANGED <<balance, log>>
           ELSE ApplyMovement(a, -amount, "ADJUSTMENT", 0) /\ UNCHANGED <<reserve, reserveLog>>
        /\ AssertProjection({a})
        /\ SameEngine
        /\ UNCHANGED <<today, reserveActive, active, locked, linked, handovers, closures, opsVars,
                       attributions>>

\* pay_partner, pay_expense and pay_distribution.
PayPartner(u, a, amount, token) ==
    /\ J!CanApprove(u)
    /\ amount <= J!LedgerBalance(Due)
    /\ PayFrom(a, Due, amount, <<"payment", token, "">>, J!NoSource, "PARTNER_PAYMENT")

PayExpense(u, a, amount, token) ==
    /\ J!CanApprove(u)
    /\ PayFrom(a, Debts, amount, <<"payment", token, "">>, J!NoSource, "EXPENSE_PAYMENT")

PayDistribution(u, a, amount, d) ==
    /\ J!CanApprove(u)
    /\ PayFrom(a, Debts, amount, <<"Distribution", d, "DISTRIBUTION_PAY">>, <<"Distribution", d>>,
               "DISTRIBUTION_PAY")

\* The form of PartnerOperation adds, rewrites or deletes an attribution, of an
\* operation that is booked as of one that is not.
Attributions ==
    /\ \E o \in DOMAIN ops : attributed' \in {attributed \cup {o}, attributed \ {o}}
    /\ UNCHANGED <<vars, cached, batches, engine, cut, credited>>

\* What leaves the journal alone, whatever the engine: announcing a handover,
\* closing a day, the forms of cash accounts and midnight.
Unrecorded ==
    /\ \/ \E u \in Users, a \in Accounts, amount \in Amounts : HandoverCash(u, a, amount)
       \/ \E u \in Users, a \in Accounts, d \in Days, declared \in Counts, justified \in BOOLEAN :
             CloseCashDay(u, a, d, declared, justified)
       \/ \E a \in Accounts, form \in AccountForms : EditAccount(a, form)
       \/ EditReserve
       \/ NextDay
    /\ UNCHANGED <<opsVars, bookVars>>

CutoverNext ==
    \/ EnableLedger
    \/ \E u \in Users :
          \/ \E before \in 0 .. Len(ops) : MigrateOpeningBalances(u, before)
          \/ \E amount \in Amounts :
                \/ \E direction \in {"IN", "OUT"} : AdjustCapital(u, amount, direction)
                \/ \E a \in Accounts : Fund(u, a, amount)
          \/ \E h \in DOMAIN handovers : ReceiveHandover(u, h)
          \/ \E a \in Accounts, amount \in OpAmounts, fee \in Fees, key \in Keys \cup {NoKey},
                partnered \in BOOLEAN :
                Create(u, a, amount, fee, key, partnered)
          \/ \E o \in DOMAIN ops :
                \/ Pay(u, o)
                \/ Cancel(u, o)
                \/ \E amount \in OpAmounts, fee \in Fees : Revise(u, o, amount, fee)
          \/ \E a \in Accounts \cup {Safe}, amount \in Amounts \cup Fees, token \in Tokens :
                \/ PayPartner(u, a, amount, token)
                \/ PayExpense(u, a, amount, token)
                \/ PayDistribution(u, a, amount, token)
    \/ Attributions
    \/ Unrecorded

CutoverSpec == CutoverInit /\ [][CutoverNext]_cutoverVars

-----------------------------------------------------------------------------
(* Properties *)

\* Types; a partner's operation exists, and rows that are older than the
\* cutover do too.
CutoverTypeOK ==
    /\ TypeOK
    /\ cached \in [FinAccounts -> Int]
    /\ batches \in Seq(J!Batch)
    /\ engine \in {"OFF", "SET", "ON"}
    /\ cut \in [ops : Nat, rows : [Accounts -> Nat]]
    /\ \A a \in Accounts : cut.rows[a] <= Len(log[a])
    /\ attributed \subseteq DOMAIN ops
    /\ credited \subseteq DOMAIN ops

\* What the rows of operation o are in the journal.
BatchesOf(o) == {b \in DOMAIN batches : batches[b].source = <<"Operation", o>>}

\* "les operations ... alimentent le registre dans la meme transaction"
\* (README.md:144-145): an operation that is younger than the cutover is in the
\* journal exactly when it is completed, once, on its day and at its current
\* price, or reversed when it is cancelled.  An older one never is.  Its fee is
\* shared with the partner it had when it was booked, whatever a form of the
\* administration site does to the attribution later.
OperationsAreBooked ==
    engine = "ON" =>
        \A o \in DOMAIN ops :
            IF o <= cut.ops \/ ops[o].status = "PENDING" THEN BatchesOf(o) = {}
            ELSE \E b \in BatchesOf(o) :
                    /\ BatchesOf(o) = {b}
                    /\ batches[b].status = (IF ops[o].status = "COMPLETED" THEN "POSTED" ELSE "REVERSED")
                    /\ batches[b].day = ops[o].day
                    /\ batches[b].lines = OperationLines(ops[o], o \in credited)

Payments ==
    {b \in DOMAIN batches : batches[b].event \in {"PARTNER_PAYMENT", "EXPENSE_PAYMENT", "DISTRIBUTION_PAY"}}

\* What payments debit to account a.
PaidTo(a) == SumFunction([b \in Payments |-> J!DebitTo(batches[b].lines, a)])

\* What closures found since the cutover: the adjustments of no operation that
\* are no payment.
Adjustments(a) == {i \in cut.rows[a] + 1 .. Len(log[a]) : log[a][i].kind = "ADJUSTMENT" /\ log[a][i].op = 0}
Found(a) == DeltaSum(log[a], Adjustments(a)) - PaidTo(a)

\* After the cutover the cash application and the journal agree on every cash
\* account, but for differences found when days were closed, which no event
\* records; on the reserve they agree without exception.
CashFollowsJournal ==
    engine = "ON" =>
        /\ \A a \in Accounts : balance[a] = J!LedgerBalance(a) + Found(a)
        /\ reserve = J!LedgerBalance(Safe)

\* The operations that were booked for the partner, and their shares.
Younger(status) == {o \in credited : ops[o].status = status}
Shares(status) == SumFunction([o \in Younger(status) |-> PartnerFee(ops[o].fee)])

\* What is due to the partner in the journal is the shares of the operations
\* that stand and were booked as the partner's, less what was paid.  Cancelling
\* an operation takes its share back even if it was paid already
\* (operations/services.py:286), and only that makes the partner a debtor: at
\* most for the shares of cancelled operations.
PartnerAccountAddsUp ==
    engine = "ON" =>
        /\ J!LedgerBalance(Due) = Shares("COMPLETED") - PaidTo(Due)
        /\ J!LedgerBalance(Due) >= -Shares("CANCELLED")

\* _assert_projection (finance/events.py:58-60) takes a difference between the
\* two for an error that undoes the transaction: there should be none.
ProjectionHolds ==
    engine = "ON" => \A a \in Accounts \cup {Safe} : J!LedgerBalance(a) = CashBalance(a)

=============================================================================
