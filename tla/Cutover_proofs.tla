--------------------------- MODULE Cutover_proofs ---------------------------
(***************************************************************************)
(* Proofs about Cutover, for any number of cash accounts, operations,      *)
(* payments and bounds, and whatever forms write of attributions: each     *)
(* operation is in the journal as it stands and with the share credited    *)
(* when it was booked, the journal and the cash of each account part only  *)
(* by what closures found, and the partner's account is the shares         *)
(* credited less the payments.                                             *)
(*                                                                         *)
(* JP holds what is proved about any journal (Journal_proofs), for the     *)
(* journal of this module.                                                 *)
(*                                                                         *)
(* The invariant, CutoverInv, adds to the properties what a cancellation   *)
(* needs: it takes back the first movement of an operation and reverses    *)
(* its batch, which cancel only if the movement is at the operation's      *)
(* price (AtPrice), there is one such movement (PaidOnce) and the batch is *)
(* this operation's alone (Sourced).  Once the engine is on every step is  *)
(* silent, an event, or the preparation, completion or cancellation of an  *)
(* operation (StepOn), and each kind keeps the invariant (...Agrees).      *)
(***************************************************************************)
EXTENDS Cutover, Operations_proofs, SequenceTheorems

JP == INSTANCE Journal_proofs WITH
        Currency <- [a \in FinAccounts |-> "USD"], Drafts <- {},
        PeriodForms <- {}, periods <- {}

-----------------------------------------------------------------------------
(* The journal of this module *)

\* The cash accounts and the counterparts are different accounts.
LEMMA AccountsApart ==
  /\ Accounts \subseteq FinAccounts
  /\ {Safe, Transit, Commission, Capital, Opening, Due, Debts} \subseteq FinAccounts
  /\ \A a \in Accounts : a \notin {Safe, Transit, Commission, Capital, Opening, Due, Debts}
  /\ Safe \notin {Transit, Commission, Capital, Opening, Due, Debts}
  /\ Transit \notin {Commission, Capital, Opening, Due, Debts}
  /\ Commission \notin {Capital, Opening, Due, Debts}
  /\ Capital \notin {Opening, Due, Debts}
  /\ Opening \notin {Due, Debts}
  /\ Due # Debts
<1>1. \A a \in Accounts : a \notin {Safe, Transit, Commission, Capital, Opening, Due, Debts}
  BY CutoverAssumption
<1>2. \A i, j \in 1 .. 7 :
         LET all == <<Safe, Transit, Commission, Capital, Opening, Due, Debts>> IN all[i] = all[j] => i = j
  BY CutoverAssumption DEF IsInjective
<1>3. /\ Safe \notin {Transit, Commission, Capital, Opening, Due, Debts}
      /\ Transit \notin {Commission, Capital, Opening, Due, Debts}
      /\ Commission \notin {Capital, Opening, Due, Debts}
      /\ Capital \notin {Opening, Due, Debts}
      /\ Opening \notin {Due, Debts}
      /\ Due # Debts
  BY <1>2
<1> QED
  BY <1>1, <1>3 DEF FinAccounts

\* The accounts of the journal are finitely many.
LEMMA BooksFinite == IsFiniteSet(FinAccounts)
<1>1. IsFiniteSet({Safe, Transit, Commission, Capital, Opening, Due, Debts})
  <2>1. \A S, x : IsFiniteSet(S) => IsFiniteSet(S \cup {x})
    BY FS_AddElement
  <2>2. IsFiniteSet({} \cup {Safe} \cup {Transit} \cup {Commission} \cup {Capital} \cup {Opening} \cup {Due} \cup {Debts})
    BY <2>1, FS_EmptySet, Zenon
  <2>3. {} \cup {Safe} \cup {Transit} \cup {Commission} \cup {Capital} \cup {Opening} \cup {Due} \cup {Debts}
          = {Safe, Transit, Commission, Capital, Opening, Due, Debts}
    OBVIOUS
  <2> QED
    BY <2>2, <2>3
<1> QED
  BY <1>1, CutoverAssumption, FS_Union DEF FinAccounts

\* The assumptions of the journal hold of its accounts here.
LEMMA JournalAssumed == JP!JournalAssumption
<1>1. Nature \in [FinAccounts -> JP!Natures]
  BY AccountsApart DEF Nature, FinAccounts, JP!Natures
<1>2. Role \in [Users -> JP!Roles] /\ LastDay \in Nat
  BY CashAssumption DEF Roles, JP!Roles
<1>3. Tokens \subseteq Nat /\ MaxBatches \in Nat
  BY CutoverAssumption
<1>4. {} \subseteq Seq(JP!Line)
  OBVIOUS
<1>5. \A p \in {} : p \in JP!Period /\ p.first <= p.last /\ p.status = "OPEN"
  OBVIOUS
<1>6. JP!IsFiniteSet(FinAccounts)
  BY BooksFinite DEF IsFiniteSet, JP!IsFiniteSet
<1> QED
  BY <1>1, <1>2, <1>3, <1>4, <1>5, <1>6 DEF JP!JournalAssumption

\* Sums and finite sets are the same everywhere.
LEMMA SameSums ==
  /\ \A f : J!SumFunction(f) = SumFunction(f)
  /\ \A f : JP!SumFunction(f) = SumFunction(f)
  BY DEF SumFunction, SumFunctionOnSet, FoldFunctionOnSet, MapThenFoldSet,
         J!SumFunction, J!SumFunctionOnSet, J!FoldFunctionOnSet, J!MapThenFoldSet,
         JP!SumFunction, JP!SumFunctionOnSet, JP!FoldFunctionOnSet, JP!MapThenFoldSet

\* So are the operators of the journal, read through J or through JP.
LEMMA SameJournal ==
  /\ \A lines, a : J!DebitTo(lines, a) = JP!DebitTo(lines, a)
  /\ \A lines : J!Opposite(lines) = JP!Opposite(lines)
  /\ \A a : J!LedgerBalance(a) = JP!Natural(a, JP!DebitOf(batches, a))
  /\ J!Batch = JP!Batch /\ J!Line = JP!Line
<1>1. \A lines, a : J!DebitTo(lines, a) = JP!DebitTo(lines, a)
  BY SameSums DEF J!DebitTo, JP!DebitTo
<1>2. \A lines : J!Opposite(lines) = JP!Opposite(lines)
  BY DEF J!Opposite, JP!Opposite
<1>3. \A a : J!LedgerBalance(a) = JP!LedgerBalance(a)
  BY <1>1, SameSums DEF J!LedgerBalance, J!BalanceBefore, J!BalanceIn, J!Booked, J!Natural, J!DebitPositive,
                 JP!LedgerBalance, JP!BalanceBefore, JP!BalanceIn, JP!Booked, JP!Natural, JP!DebitPositive
<1>4. J!Batch = JP!Batch /\ J!Line = JP!Line
  BY DEF J!Batch, JP!Batch, J!Line, JP!Line, J!Key, JP!Key, J!Source, JP!Source, J!Models, JP!Models,
         J!Events, JP!Events, J!Days, JP!Days
<1>5. \A a : JP!LedgerBalance(a) = JP!Natural(a, JP!DebitOf(batches, a))
  BY JournalAssumed, JP!BalanceIsDebit
<1> QED
  BY <1>1, <1>2, <1>3, <1>4, <1>5

-----------------------------------------------------------------------------
(* Lines *)

\* What lines debit is a number, and nothing if there are none.
LEMMA DebitNumber ==
  /\ \A lines \in Seq(J!Line) : \A a : J!DebitTo(lines, a) \in Int
  /\ \A a : J!DebitTo(<<>>, a) = 0
<1>1. \A lines \in Seq(JP!Line) : \A a : JP!DebitTo(lines, a) \in Int
  BY JournalAssumed, JP!DebitToInt
<1>2. \A a : JP!DebitTo(<<>>, a) = 0
  BY JournalAssumed, JP!DebitToNothing
<1> QED
  BY <1>1, <1>2, SameJournal

\* One more line, if it is of an amount, debits its account.
LEMMA LineMore ==
  ASSUME NEW lines \in Seq(J!Line), NEW c \in FinAccounts, NEW n \in Int
  PROVE  /\ lines \o Debit(c, n) \in Seq(J!Line)
         /\ \A a : J!DebitTo(lines \o Debit(c, n), a) = J!DebitTo(lines, a) + (IF a = c THEN n ELSE 0)
<1>1. CASE n = 0
  <2>1. lines \o Debit(c, n) = lines
    BY <1>1 DEF Debit
  <2>2. \A a : J!DebitTo(lines, a) \in Int
    BY DebitNumber
  <2>3. \A a : J!DebitTo(lines, a) = J!DebitTo(lines, a) + (IF a = c THEN n ELSE 0)
    BY <1>1, <2>2
  <2> QED
    BY <2>1, <2>3, Zenon
<1>2. CASE n # 0
  <2> DEFINE row == [account |-> c, debit |-> n]
  <2>1. lines \o Debit(c, n) = Append(lines, row)
    BY <1>2 DEF Debit
  <2>2. row \in J!Line /\ row.account = c /\ row.debit = n
    BY <1>2 DEF J!Line
  <2> HIDE DEF row
  <2>3. \A s \in Seq(JP!Line) : \A l \in JP!Line : \A a :
           JP!DebitTo(Append(s, l), a) = JP!DebitTo(s, a) + (IF l.account = a THEN l.debit ELSE 0)
    BY JournalAssumed, JP!DebitToNext
  <2>4. \A a : J!DebitTo(Append(lines, row), a)
                  = J!DebitTo(lines, a) + (IF row.account = a THEN row.debit ELSE 0)
    BY <2>2, <2>3, SameJournal
  <2>5. Append(lines, row) \in Seq(J!Line)
    BY <2>2
  <2> QED
    BY <2>1, <2>2, <2>4, <2>5
<1> QED
  BY <1>1, <1>2

LEMMA FirstLine ==
  ASSUME NEW c \in FinAccounts, NEW n \in Int
  PROVE  /\ Debit(c, n) \in Seq(J!Line)
         /\ \A a : J!DebitTo(Debit(c, n), a) = IF a = c THEN n ELSE 0
<1>1. <<>> \o Debit(c, n) = Debit(c, n)
  BY DEF Debit
<1>2. <<>> \in Seq(J!Line)
  OBVIOUS
<1>3. /\ <<>> \o Debit(c, n) \in Seq(J!Line)
      /\ \A a : J!DebitTo(<<>> \o Debit(c, n), a) = J!DebitTo(<<>>, a) + (IF a = c THEN n ELSE 0)
  BY <1>2, LineMore
<1>4. \A a : J!DebitTo(<<>>, a) = 0
  BY DebitNumber
<1> HIDE DEF Debit
<1> QED
  BY <1>1, <1>3, <1>4

\* A transfer debits one account and credits another.
LEMMA TransferDebits ==
  ASSUME NEW to \in FinAccounts, NEW from \in FinAccounts, NEW n \in Int
  PROVE  /\ Transfer(to, from, n) \in Seq(J!Line)
         /\ \A a : J!DebitTo(Transfer(to, from, n), a)
                      = (IF a = to THEN n ELSE 0) - (IF a = from THEN n ELSE 0)
<1>1. /\ Debit(to, n) \in Seq(J!Line)
      /\ \A a : J!DebitTo(Debit(to, n), a) = IF a = to THEN n ELSE 0
  BY FirstLine
<1>2. -n \in Int
  OBVIOUS
<1>3. /\ Debit(to, n) \o Debit(from, -n) \in Seq(J!Line)
      /\ \A a : J!DebitTo(Debit(to, n) \o Debit(from, -n), a)
                   = J!DebitTo(Debit(to, n), a) + (IF a = from THEN -n ELSE 0)
  BY <1>1, <1>2, LineMore
<1> QED
  BY <1>1, <1>3 DEF Transfer

\* A rounded share of a fee is an amount.
LEMMA ShareIsAmount == \A fee \in Nat : PartnerFee(fee) \in Nat
<1> SUFFICES ASSUME NEW fee \in Nat PROVE PartnerFee(fee) \in Nat
  OBVIOUS
<1>1. PICK p \in Nat : p = fee * SharePercent
  <2>1. SharePercent \in Nat
    BY CutoverAssumption
  <2> QED
    BY <2>1
<1>2. p \div 100 \in Nat /\ p \div 100 + 1 \in Nat
  OBVIOUS
<1> QED
  BY <1>1, <1>2 DEF PartnerFee

\* What an operation debits to its cash account, and to the partner's.
ShareOf(op, partnered) == IF partnered THEN PartnerFee(op.fee) ELSE 0

LEMMA OperationDebits ==
  ASSUME NEW op \in Operation, NEW partnered \in BOOLEAN
  PROVE  /\ OperationLines(op, partnered) \in Seq(J!Line)
         /\ \A a \in Accounts : J!DebitTo(OperationLines(op, partnered), a)
                                   = IF a = op.account THEN Impact(op.type, op.amount, op.fee) ELSE 0
         /\ J!DebitTo(OperationLines(op, partnered), Safe) = 0
         /\ J!DebitTo(OperationLines(op, partnered), Due) = -ShareOf(op, partnered)
<1> DEFINE share == ShareOf(op, partnered)
           one == Debit(op.account, Impact(op.type, op.amount, op.fee))
           k == IF op.type = "SENT_TRANSFER" THEN -op.amount ELSE op.amount
           two == one \o Debit(Transit, k)
           three == two \o Debit(Commission, share - op.fee)
           four == three \o Debit(Due, -share)
<1>1. /\ op.account \in Accounts /\ op.amount \in Nat /\ op.fee \in Nat
      /\ op.account \in FinAccounts /\ Transit \in FinAccounts
      /\ Commission \in FinAccounts /\ Due \in FinAccounts
  BY AccountsApart DEF Operation
<1>2. share \in Int /\ share - op.fee \in Int /\ -share \in Int /\ k \in Int
  BY <1>1, ShareIsAmount DEF ShareOf
<1>3. Impact(op.type, op.amount, op.fee) \in Int
  BY <1>1, ImpactType
<1>4. OperationLines(op, partnered) = four
  BY DEF OperationLines, ShareOf
<1> DEFINE impact == Impact(op.type, op.amount, op.fee)
           less == share - op.fee
           back == -share
<1>5. /\ one \in Seq(J!Line)
      /\ \A a : J!DebitTo(one, a) = IF a = op.account THEN impact ELSE 0
  BY <1>1, <1>3, FirstLine
<1> HIDE DEF one, k
<1>6. /\ two \in Seq(J!Line)
      /\ \A a : J!DebitTo(two, a) = J!DebitTo(one, a) + (IF a = Transit THEN k ELSE 0)
  BY <1>1, <1>2, <1>5, LineMore
<1> HIDE DEF two, less, back
<1>7. /\ three \in Seq(J!Line)
      /\ \A a : J!DebitTo(three, a) = J!DebitTo(two, a) + (IF a = Commission THEN less ELSE 0)
  <2>1. less \in Int
    BY <1>2 DEF less
  <2>2. three = two \o Debit(Commission, less)
    BY DEF less
  <2>3. /\ two \o Debit(Commission, less) \in Seq(J!Line)
        /\ \A a : J!DebitTo(two \o Debit(Commission, less), a)
                     = J!DebitTo(two, a) + (IF a = Commission THEN less ELSE 0)
    BY <1>1, <1>6, <2>1, LineMore
  <2> HIDE DEF three
  <2> QED
    BY <2>2, <2>3
<1> HIDE DEF three
<1>8. /\ four \in Seq(J!Line)
      /\ \A a : J!DebitTo(four, a) = J!DebitTo(three, a) + (IF a = Due THEN back ELSE 0)
  <2>1. back \in Int
    BY <1>2 DEF back
  <2>2. four = three \o Debit(Due, back)
    BY DEF back
  <2>3. /\ three \o Debit(Due, back) \in Seq(J!Line)
        /\ \A a : J!DebitTo(three \o Debit(Due, back), a)
                     = J!DebitTo(three, a) + (IF a = Due THEN back ELSE 0)
    BY <1>1, <1>7, <2>1, LineMore
  <2> HIDE DEF four
  <2> QED
    BY <2>2, <2>3
<1> HIDE DEF four
<1>9. impact \in Int /\ k \in Int /\ less \in Int /\ back \in Int
  BY <1>2, <1>3 DEF less, back
<1> HIDE DEF impact
<1>10. /\ \A a \in Accounts : a # Transit /\ a # Commission /\ a # Due
       /\ Safe # Transit /\ Safe # Commission /\ Safe # Due /\ Safe # op.account
       /\ Due # Transit /\ Due # Commission /\ Due # op.account
  BY <1>1, AccountsApart
<1>11. \A a \in Accounts : J!DebitTo(four, a) = IF a = op.account THEN impact ELSE 0
  BY <1>5, <1>6, <1>7, <1>8, <1>9, <1>10
<1>12. J!DebitTo(four, Safe) = 0
  BY <1>5, <1>6, <1>7, <1>8, <1>9, <1>10
<1>13. J!DebitTo(four, Due) = back
  BY <1>5, <1>6, <1>7, <1>8, <1>9, <1>10
<1> QED
  BY <1>4, <1>8, <1>11, <1>12, <1>13 DEF impact, back

-----------------------------------------------------------------------------
(* Batches: what is booked, and what was paid out *)

\* What batches debit to account a, and what those of payments do.
BookedIn(rows, a) == JP!DebitOf(rows, a)
PaymentEvents == {"PARTNER_PAYMENT", "EXPENSE_PAYMENT", "DISTRIBUTION_PAY"}
PaymentsIn(rows) == {b \in DOMAIN rows : rows[b].event \in PaymentEvents}
PaidIn(rows, a) == SumFunction([b \in PaymentsIn(rows) |-> J!DebitTo(rows[b].lines, a)])

\* The balances of the accounts in these terms.
LEMMA Balances ==
  /\ \A a \in Accounts \cup {Safe} : J!LedgerBalance(a) = BookedIn(batches, a)
  /\ batches \in Seq(J!Batch) => J!LedgerBalance(Due) = -BookedIn(batches, Due)
  /\ \A a : PaidTo(a) = PaidIn(batches, a)
<1>1. \A a \in Accounts \cup {Safe} : Nature[a] = "ASSET"
  BY AccountsApart DEF Nature, FinAccounts
<1>2. Nature[Due] = "LIABILITY"
  BY AccountsApart DEF Nature, FinAccounts
<1>3. \A a : J!LedgerBalance(a) = JP!Natural(a, JP!DebitOf(batches, a))
  BY SameJournal
<1>4. \A a : PaidTo(a) = PaidIn(batches, a)
  BY DEF PaidTo, PaidIn, Payments, PaymentsIn, PaymentEvents
<1>5. \A a \in Accounts \cup {Safe} : J!LedgerBalance(a) = BookedIn(batches, a)
  BY <1>1, <1>3 DEF JP!Natural, JP!DebitPositive, BookedIn
<1>6. J!LedgerBalance(Due) = -BookedIn(batches, Due)
  BY <1>2, <1>3 DEF JP!Natural, JP!DebitPositive, BookedIn
<1> QED
  BY <1>4, <1>5, <1>6

LEMMA BookedInt ==
  ASSUME NEW rows \in Seq(J!Batch), NEW a
  PROVE  BookedIn(rows, a) \in Int
<1>1. \A r \in Seq(JP!Batch) : JP!DebitOf(r, a) \in Int
  BY JournalAssumed, JP!DebitOfInt
<1> QED
  BY <1>1, SameJournal DEF BookedIn

\* What payments debit is a number.
LEMMA PaidInt ==
  ASSUME NEW rows \in Seq(J!Batch), NEW a
  PROVE  /\ IsFiniteSet(PaymentsIn(rows))
         /\ [b \in PaymentsIn(rows) |-> J!DebitTo(rows[b].lines, a)] \in [PaymentsIn(rows) -> Int]
         /\ PaidIn(rows, a) \in Int
<1>1. IsFiniteSet(PaymentsIn(rows))
  <2>1. DOMAIN rows = 1 .. Len(rows) /\ Len(rows) \in Int
    OBVIOUS
  <2>2. IsFiniteSet(1 .. Len(rows))
    BY <2>1, FS_Interval
  <2>3. PaymentsIn(rows) \subseteq 1 .. Len(rows)
    BY <2>1 DEF PaymentsIn
  <2> QED
    BY <2>2, <2>3, FS_Subset
<1> DEFINE f == [b \in PaymentsIn(rows) |-> J!DebitTo(rows[b].lines, a)]
<1>2. f \in [PaymentsIn(rows) -> Int]
  <2>1. \A b \in PaymentsIn(rows) : rows[b] \in J!Batch
    BY DEF PaymentsIn
  <2>2. \A b \in PaymentsIn(rows) : rows[b].lines \in Seq(J!Line)
    BY <2>1 DEF J!Batch
  <2>3. \A b \in PaymentsIn(rows) : J!DebitTo(rows[b].lines, a) \in Int
    BY <2>2, DebitNumber
  <2> QED
    BY <2>3
<1>3. SumFunction(f) \in Int
  <2> HIDE DEF f
  <2> QED
    BY <1>1, <1>2, SumInt
<1> QED
  BY <1>1, <1>2, <1>3 DEF PaidIn

\* A batch more.
LEMMA AddedBatch ==
  ASSUME NEW rows \in Seq(J!Batch), NEW row \in J!Batch, row.status = "POSTED",
         NEW new, new = Append(rows, row)
  PROVE  /\ new \in Seq(J!Batch)
         /\ \A a : BookedIn(new, a) = BookedIn(rows, a) + J!DebitTo(row.lines, a)
         /\ \A a : PaidIn(new, a) = PaidIn(rows, a)
                      + (IF row.event \in PaymentEvents THEN J!DebitTo(row.lines, a) ELSE 0)
<1>1. PICK x, next : x = Len(rows) + 1 /\ next = Append(rows, row) /\ next = new
  OBVIOUS
<1>2. /\ next \in Seq(J!Batch)
      /\ DOMAIN next = DOMAIN rows \cup {x} /\ x \notin DOMAIN rows
      /\ \A b \in DOMAIN rows : next[b] = rows[b]
      /\ next[x] = row
  BY <1>1
<1>3. ASSUME NEW a PROVE BookedIn(next, a) = BookedIn(rows, a) + J!DebitTo(row.lines, a)
  <2>1. row.status \in JP!Booked
    BY DEF JP!Booked
  <2>2. rows \in Seq(JP!Batch) /\ row \in JP!Batch /\ next \in Seq(JP!Batch)
    BY <1>2, SameJournal
  <2>3. JP!OneMore(rows, next, x)
    BY <1>1, <2>1, <2>2, JournalAssumed, JP!AddedBooks
  <2>4. JP!DebitOf(next, a) = JP!DebitOf(rows, a) + JP!DebitTo(next[x].lines, a)
    BY <2>2, <2>3, JournalAssumed, JP!DebitMore
  <2> QED
    BY <1>2, <2>4, SameJournal DEF BookedIn
<1>4. ASSUME NEW a
      PROVE  PaidIn(next, a) = PaidIn(rows, a)
                + (IF row.event \in PaymentEvents THEN J!DebitTo(row.lines, a) ELSE 0)
  <2> DEFINE O == PaymentsIn(rows)
             P == PaymentsIn(next)
             f == [b \in O |-> J!DebitTo(rows[b].lines, a)]
             g == [b \in P |-> J!DebitTo(next[b].lines, a)]
  <2>1. /\ x \notin O /\ (P = O \/ P = O \cup {x}) /\ (x \in P <=> row.event \in PaymentEvents)
        /\ \A b \in O : b \in P /\ g[b] = f[b]
        /\ x \in P => g[x] = J!DebitTo(row.lines, a)
    BY <1>2 DEF PaymentsIn
  <2>2. IsFiniteSet(O) /\ f \in [O -> Int] /\ g \in [P -> Int]
    BY <1>2, PaidInt
  <2>3. SumFunction(f) = PaidIn(rows, a) /\ SumFunction(g) = PaidIn(next, a)
    BY DEF PaidIn
  <2> HIDE DEF O, P, f, g
  <2>4. SumFunction(g) = SumFunction(f) + (IF x \in P THEN g[x] ELSE 0)
    BY <2>1, <2>2, SumNext
  <2> QED
    BY <2>1, <2>3, <2>4
<1> QED
  BY <1>1, <1>2, <1>3, <1>4

\* A batch turned REVERSED is still booked.
Turned(rows, b) == [rows EXCEPT ![b].status = "REVERSED"]

LEMMA TurnedBatch ==
  ASSUME NEW rows \in Seq(J!Batch), NEW b \in DOMAIN rows, rows[b].status = "POSTED",
         NEW new, new = Turned(rows, b)
  PROVE  /\ new \in Seq(J!Batch) /\ DOMAIN new = DOMAIN rows /\ Len(new) = Len(rows)
         /\ \A c \in DOMAIN rows : new[c].lines = rows[c].lines /\ new[c].event = rows[c].event
                                   /\ new[c].source = rows[c].source /\ new[c].day = rows[c].day
         /\ \A c \in DOMAIN rows : c # b => new[c] = rows[c]
         /\ new[b].status = "REVERSED"
         /\ \A a : BookedIn(new, a) = BookedIn(rows, a)
         /\ \A a : PaidIn(new, a) = PaidIn(rows, a)
<1>0. PICK next : next = Turned(rows, b) /\ next = new
  OBVIOUS
<1>1. \A c \in DOMAIN rows : rows[c] \in J!Batch
  OBVIOUS
<1>2. /\ next[b] = [rows[b] EXCEPT !.status = "REVERSED"]
      /\ DOMAIN next = DOMAIN rows
      /\ \A c \in DOMAIN rows : c # b => next[c] = rows[c]
  BY <1>0 DEF Turned
<1>3. /\ next[b] \in J!Batch /\ next[b].status = "REVERSED"
      /\ next[b].lines = rows[b].lines /\ next[b].event = rows[b].event
      /\ next[b].source = rows[b].source /\ next[b].day = rows[b].day
  BY <1>1, <1>2 DEF J!Batch
<1>4. next \in Seq(J!Batch) /\ Len(next) = Len(rows)
  <2>1. \A c \in 1 .. Len(rows) : next[c] \in J!Batch
    BY <1>1, <1>2, <1>3
  <2>2. next = [c \in 1 .. Len(rows) |-> next[c]]
    <3>1. next = [c \in DOMAIN rows |-> IF c = b THEN [rows[b] EXCEPT !.status = "REVERSED"] ELSE rows[c]]
      BY <1>0, Zenon DEF Turned
    <3>2. DOMAIN rows = 1 .. Len(rows)
      OBVIOUS
    <3>3. next = [c \in DOMAIN rows |-> next[c]]
      BY <3>1, Zenon
    <3> QED
      BY <3>2, <3>3, Zenon
  <2>3. next \in [1 .. Len(rows) -> J!Batch]
    BY <2>1, <2>2
  <2> QED
    BY <2>3
<1>5. ASSUME NEW a PROVE BookedIn(next, a) = BookedIn(rows, a)
  <2>1. rows \in Seq(JP!Batch) /\ "REVERSED" \in JP!Booked /\ rows[b].status \in JP!Booked
    BY SameJournal DEF JP!Booked
  <2>2. next = JP!WithTurned(rows, b, "REVERSED")
    BY <1>0 DEF Turned, JP!WithTurned
  <2>3. JP!SameBookings(rows, next)
    BY <2>1, <2>2, JournalAssumed, JP!TurnedBooks
  <2>4. JP!DebitOf(next, a) = JP!DebitOf(rows, a)
    BY <2>3, JournalAssumed, JP!DebitSame
  <2> QED
    BY <2>4 DEF BookedIn
<1>6. ASSUME NEW a PROVE PaidIn(next, a) = PaidIn(rows, a)
  <2>1. PaymentsIn(next) = PaymentsIn(rows)
    <3>1. DOMAIN next = DOMAIN rows /\ \A c \in DOMAIN rows : next[c].event = rows[c].event
      BY <1>2, <1>3
    <3> QED
      BY <3>1 DEF PaymentsIn
  <2>2. [c \in PaymentsIn(next) |-> J!DebitTo(next[c].lines, a)]
          = [c \in PaymentsIn(rows) |-> J!DebitTo(rows[c].lines, a)]
    BY <1>2, <1>3, <2>1 DEF PaymentsIn
  <2> QED
    BY <2>2 DEF PaidIn
<1> QED
  BY <1>0, <1>2, <1>3, <1>4, <1>5, <1>6, Zenon

-----------------------------------------------------------------------------
(* Types *)

\* A payment, whoever it is made to.
Pays(u, a, amount, token) ==
    PayPartner(u, a, amount, token) \/ PayExpense(u, a, amount, token) \/ PayDistribution(u, a, amount, token)

\* What a payment does to the cash: one account or the reserve loses it.
Withdraws(a, amount) ==
    /\ IF a = Safe
       THEN ApplyGlobalMovement(-amount, "CAPITAL_OUT", NoAccount, 0) /\ UNCHANGED <<balance, log>>
       ELSE ApplyMovement(a, -amount, "ADJUSTMENT", 0) /\ UNCHANGED <<reserve, reserveLog>>
    /\ engine = "ON"
    /\ UNCHANGED <<today, reserveActive, active, locked, linked, handovers, closures, opsVars,
                   attributed, credited, engine, cut>>

LEMMA PaymentMoves ==
  ASSUME NEW u, NEW a, NEW amount, NEW token, Pays(u, a, amount, token)
  PROVE  Withdraws(a, amount)
<1>1. ASSUME NEW debt, NEW key, NEW source, NEW event, PayFrom(a, debt, amount, key, source, event)
      PROVE  Withdraws(a, amount)
  BY <1>1 DEF PayFrom, Withdraws, SameEngine, attributions
<1> QED
  BY <1>1 DEF Pays, PayPartner, PayExpense, PayDistribution

\* What a payment is booked as.
PaidWith(debt, key, source, event) ==
    /\ debt \in {Due, Debts}
    /\ key \in J!Key /\ source \in J!Source /\ \A n : source # <<"Operation", n>>
    /\ event \in PaymentEvents

LEMMA PaymentForms ==
  ASSUME NEW u, NEW a, NEW amount, NEW token \in Tokens, Pays(u, a, amount, token)
  PROVE  \E debt, key, source, event :
            /\ PaidWith(debt, key, source, event)
            /\ PayFrom(a, debt, amount, key, source, event)
            /\ debt = Due => amount <= J!LedgerBalance(Due)
<1>1. token \in Nat /\ Due # Debts
  BY CutoverAssumption, AccountsApart
<1>2. \A n : <<"Operation", n>>[1] = "Operation" /\ <<"", 0>>[1] = "" /\ <<"Distribution", token>>[1] = "Distribution"
  OBVIOUS
<1>3. \A n : <<"", 0>> # <<"Operation", n>> /\ <<"Distribution", token>> # <<"Operation", n>>
  <2> SUFFICES ASSUME NEW n, <<"", 0>> = <<"Operation", n>> \/ <<"Distribution", token>> = <<"Operation", n>>
               PROVE  FALSE
    OBVIOUS
  <2> QED
    BY <1>2
<1>4. /\ <<"payment", token, "">> \in J!Key /\ <<"", 0>> \in J!Source
      /\ <<"Distribution", token, "DISTRIBUTION_PAY">> \in J!Key /\ <<"Distribution", token>> \in J!Source
  BY <1>1 DEF J!Key, J!Source, J!Models, J!Events
<1>5. CASE PayPartner(u, a, amount, token)
  <2>1. PaidWith(Due, <<"payment", token, "">>, <<"", 0>>, "PARTNER_PAYMENT")
    BY <1>3, <1>4 DEF PaidWith, PaymentEvents
  <2> QED
    BY <1>5, <2>1, Zenon DEF PayPartner, J!NoSource
<1>6. CASE PayExpense(u, a, amount, token)
  <2>1. PaidWith(Debts, <<"payment", token, "">>, <<"", 0>>, "EXPENSE_PAYMENT")
    BY <1>3, <1>4 DEF PaidWith, PaymentEvents
  <2> QED
    BY <1>1, <1>6, <2>1, Zenon DEF PayExpense, J!NoSource
<1>7. CASE PayDistribution(u, a, amount, token)
  <2>1. PaidWith(Debts, <<"Distribution", token, "DISTRIBUTION_PAY">>, <<"Distribution", token>>, "DISTRIBUTION_PAY")
    BY <1>3, <1>4 DEF PaidWith, PaymentEvents
  <2> QED
    BY <1>1, <1>7, <2>1, Zenon DEF PayDistribution
<1> QED
  BY <1>5, <1>6, <1>7 DEF Pays

\* Every service is one of the applications, but for payments.
LEMMA ServiceOrPayment ==
  ASSUME CutoverNext
  PROVE  \/ [Next]_vars
         \/ \E u \in Users, a \in Accounts \cup {Safe}, amount \in Amounts \cup Fees, token \in Tokens :
               Pays(u, a, amount, token)
<1>1. CASE EnableLedger
  BY <1>1 DEF EnableLedger
<1>2. ASSUME NEW u \in Users, NEW before \in 0 .. Len(ops), MigrateOpeningBalances(u, before) PROVE [Next]_vars
  BY <1>2 DEF MigrateOpeningBalances
<1>3. ASSUME NEW u \in Users, NEW amount \in Amounts, NEW direction \in {"IN", "OUT"},
             AdjustCapital(u, amount, direction)
      PROVE  [Next]_vars
  BY <1>3 DEF AdjustCapital, Next, CashNext
<1>4. ASSUME NEW u \in Users, NEW amount \in Amounts, NEW a \in Accounts, Fund(u, a, amount) PROVE [Next]_vars
  BY <1>4 DEF Fund, Next, CashNext
<1>5. ASSUME NEW u \in Users, NEW h \in DOMAIN handovers, ReceiveHandover(u, h) PROVE [Next]_vars
  BY <1>5 DEF ReceiveHandover, Next, CashNext
<1>6. ASSUME NEW u \in Users, NEW a \in Accounts, NEW amount \in OpAmounts, NEW fee \in Fees,
             NEW key \in Keys \cup {NoKey}, NEW partnered \in BOOLEAN, Create(u, a, amount, fee, key, partnered)
      PROVE  [Next]_vars
  BY <1>6 DEF Create, Next, OperationsNext
<1>7. ASSUME NEW u \in Users, NEW o \in DOMAIN ops, Pay(u, o) PROVE [Next]_vars
  BY <1>7 DEF Pay, Next, OperationsNext
<1>8. ASSUME NEW u \in Users, NEW o \in DOMAIN ops, Cancel(u, o) PROVE [Next]_vars
  BY <1>8 DEF Cancel, Next, OperationsNext
<1>9. ASSUME NEW u \in Users, NEW o \in DOMAIN ops, NEW amount \in OpAmounts, NEW fee \in Fees,
             Revise(u, o, amount, fee)
      PROVE  [Next]_vars
  BY <1>9 DEF Revise, Next, OperationsNext
<1>10. ASSUME Unrecorded PROVE [Next]_vars
  BY <1>10 DEF Unrecorded, Next, CashNext
<1>11. ASSUME Attributions PROVE [Next]_vars
  BY <1>11 DEF Attributions
<1> QED
  BY <1>1, <1>2, <1>3, <1>4, <1>5, <1>6, <1>7, <1>8, <1>9, <1>10, <1>11, Zenon DEF CutoverNext, Pays

\* A payment moves one account or the reserve.
LEMMA PaymentTypeOK ==
  ASSUME TypeOK, NEW u, NEW a \in Accounts \cup {Safe}, NEW amount \in Amounts \cup Fees, NEW token,
         Pays(u, a, amount, token)
  PROVE  TypeOK'
<1>1. amount \in Nat /\ -amount \in Int /\ CashTypeOK
  BY CashAssumption, OperationsAssumption DEF TypeOK
<1>2. UNCHANGED <<today, reserveActive, active, locked, linked, handovers, closures, opsVars>>
  BY PaymentMoves DEF Withdraws
<1>3. CASE a = Safe
  <2>1. ApplyGlobalMovement(-amount, "CAPITAL_OUT", NoAccount, 0) /\ UNCHANGED <<balance, log>>
    BY <1>3, PaymentMoves DEF Withdraws
  <2>2. reserve' \in Nat /\ reserveLog' \in Seq(GlobalMovement)
    BY <1>1, <2>1, GlobalTypeOK DEF GlobalKinds
  <2> QED
    BY <1>1, <1>2, <2>1, <2>2 DEF TypeOK, CashTypeOK, opsVars
<1>4. CASE a # Safe
  <2>1. ApplyMovement(a, -amount, "ADJUSTMENT", 0) /\ UNCHANGED <<reserve, reserveLog>> /\ a \in Accounts
    BY <1>4, PaymentMoves DEF Withdraws
  <2>2. balance' \in [Accounts -> Nat] /\ log' \in [Accounts -> Seq(Movement)]
    BY <1>1, <2>1, PostTypeOK DEF ApplyMovement, MovementKinds
  <2> QED
    BY <1>1, <1>2, <2>1, <2>2 DEF TypeOK, CashTypeOK, opsVars
<1> QED
  BY <1>3, <1>4

LEMMA ServicesTyped ==
  ASSUME TypeOK, [CutoverNext]_cutoverVars
  PROVE  TypeOK'
<1>1. CASE UNCHANGED cutoverVars
  BY <1>1, TypeStep DEF cutoverVars
<1>2. CASE CutoverNext
  BY <1>2, ServiceOrPayment, PaymentTypeOK, TypeStep
<1> QED
  BY <1>1, <1>2

-----------------------------------------------------------------------------
(* The cash of an account, but for what closures found and what was paid *)
(* from it                                                               *)

Adjusted(a) == DeltaSum(log[a], Adjustments(a))
Explained(a) == balance[a] - Adjusted(a)

LEMMA AdjustedInt ==
  ASSUME CutoverTypeOK, NEW a \in Accounts
  PROVE  /\ log[a] \in Seq(Movement) /\ balance[a] \in Int
         /\ \A i \in DOMAIN log[a] : log[a][i].delta \in Int
         /\ Adjustments(a) \in SUBSET DOMAIN log[a]
         /\ cut.rows[a] \in Nat /\ cut.rows[a] <= Len(log[a])
         /\ Adjusted(a) \in Int
<1>1. /\ log[a] \in Seq(Movement) /\ balance[a] \in Int
      /\ cut.rows[a] \in Nat /\ cut.rows[a] <= Len(log[a])
  BY DEF CutoverTypeOK, TypeOK, CashTypeOK
<1>2. \A i \in DOMAIN log[a] : log[a][i] \in Movement
  BY <1>1
<1>3. \A i \in DOMAIN log[a] : log[a][i].delta \in Int
  BY <1>2 DEF Movement
<1>4. Adjustments(a) \in SUBSET DOMAIN log[a]
  BY <1>1 DEF Adjustments
<1>5. Adjusted(a) \in Int
  <2> DEFINE rows == log[a]
             before == Adjustments(a)
  <2>1. rows \in Seq(Movement) /\ \A i \in DOMAIN rows : rows[i].delta \in Int
    BY <1>1, <1>3
  <2>2. before \in SUBSET DOMAIN rows
    BY <1>4
  <2> HIDE DEF rows, before
  <2>3. PICK row : row = [delta |-> 0]
    OBVIOUS
  <2>4. row.delta \in Int
    BY <2>3
  <2>5. DeltaSum(rows, before) \in Int
    BY <2>1, <2>2, <2>4, DeltaNext
  <2> QED
    BY <2>5 DEF Adjusted, rows, before
<1> QED
  BY <1>1, <1>3, <1>4, <1>5

\* A movement changes the cash of its account, unless it is an adjustment of no
\* operation.
LEMMA ExplainedNext ==
  ASSUME CutoverTypeOK, UNCHANGED cut, NEW a \in Accounts, NEW delta \in Int,
         NEW kind \in MovementKinds, NEW op \in Nat, Post(a, delta, kind, op)
  PROVE  /\ \A b \in Accounts : cut'.rows[b] <= Len(log'[b])
         /\ \A b \in Accounts : Explained(b)' =
               Explained(b) + (IF b = a /\ (kind # "ADJUSTMENT" \/ op # 0) THEN delta ELSE 0)
<1>1. PICK row \in Movement : /\ row.kind = kind /\ row.op = op /\ row.delta = delta
                              /\ log' = [log EXCEPT ![a] = Append(log[a], row)]
  BY PostedRow DEF CutoverTypeOK, TypeOK
<1>2. balance' = [balance EXCEPT ![a] = balance[a] + delta]
  BY DEF Post, CutoverTypeOK, TypeOK, CashTypeOK
<1>3. ASSUME NEW b \in Accounts, b # a
      PROVE  cut'.rows[b] <= Len(log'[b]) /\ Explained(b)' = Explained(b)
  <2>1. log'[b] = log[b] /\ balance'[b] = balance[b]
    BY <1>1, <1>2, <1>3 DEF CutoverTypeOK, TypeOK, CashTypeOK
  <2>2. Adjustments(b)' = Adjustments(b)
    BY <2>1 DEF Adjustments
  <2> QED
    BY <2>1, <2>2, AdjustedInt DEF Explained, Adjusted
<1>4. /\ cut'.rows[a] <= Len(log'[a])
      /\ Explained(a)' = Explained(a) + (IF kind # "ADJUSTMENT" \/ op # 0 THEN delta ELSE 0)
  <2> DEFINE rows == log[a]
             before == Adjustments(a)
             after == Adjustments(a)'
             n == Len(rows) + 1
  <2>1. /\ rows \in Seq(Movement) /\ balance[a] \in Int /\ \A i \in DOMAIN rows : rows[i].delta \in Int
        /\ before \in SUBSET DOMAIN rows /\ cut.rows[a] \in Nat /\ cut.rows[a] <= Len(rows)
        /\ DeltaSum(rows, before) \in Int
    BY AdjustedInt DEF Adjusted
  <2>2. log'[a] = Append(rows, row) /\ balance'[a] = balance[a] + delta
    BY <1>1, <1>2 DEF CutoverTypeOK, TypeOK, CashTypeOK
  <2>3. /\ Len(log'[a]) = n /\ n \notin DOMAIN rows /\ DOMAIN rows = 1 .. Len(rows)
        /\ \A i \in DOMAIN rows : log'[a][i] = rows[i]
        /\ log'[a][n] = row
    BY <2>1, <2>2
  <2>4. after = IF kind = "ADJUSTMENT" /\ op = 0 THEN before \cup {n} ELSE before
    <3>1. before = {i \in cut.rows[a] + 1 .. Len(rows) : rows[i].kind = "ADJUSTMENT" /\ rows[i].op = 0}
      BY DEF Adjustments
    <3>2. after = {i \in cut.rows[a] + 1 .. n : log'[a][i].kind = "ADJUSTMENT" /\ log'[a][i].op = 0}
      BY <2>3 DEF Adjustments
    <3>3. Len(rows) \in Nat /\ cut.rows[a] + 1 .. n = (cut.rows[a] + 1 .. Len(rows)) \cup {n}
      BY <2>1
    <3>4. \A i \in cut.rows[a] + 1 .. Len(rows) : i \in DOMAIN rows
      BY <2>1, <2>3
    <3> HIDE DEF before, after, rows, n
    <3> QED
      BY <1>1, <2>3, <3>1, <3>2, <3>3, <3>4
  <2> HIDE DEF rows, before, after, n
  <2>5. row.delta = delta /\ delta \in Int
    BY <1>1
  <2>6. DeltaSum(Append(rows, row), after) = DeltaSum(rows, before) + (IF n \in after THEN row.delta ELSE 0)
    <3>1. after = before \/ after = before \cup {Len(rows) + 1}
      BY <2>4 DEF n
    <3> QED
      BY <2>1, <2>5, <3>1, DeltaNext DEF n
  <2>7. n \in after <=> kind = "ADJUSTMENT" /\ op = 0
    BY <2>1, <2>3, <2>4
  <2>8. Adjusted(a)' = DeltaSum(Append(rows, row), after) /\ Adjusted(a) = DeltaSum(rows, before)
    BY <2>2 DEF Adjusted, after, before, rows
  <2>9. Adjusted(a)' = Adjusted(a) + (IF kind = "ADJUSTMENT" /\ op = 0 THEN delta ELSE 0)
    BY <2>5, <2>6, <2>7, <2>8
  <2>10. Adjusted(a) \in Int /\ balance[a] \in Int
    BY AdjustedInt
  <2>11. cut'.rows[a] <= Len(log'[a])
    BY <2>1, <2>3 DEF n
  <2> QED
    BY <2>2, <2>9, <2>10, <2>11 DEF Explained
<1>5. \A b \in Accounts : Explained(b) \in Int
  BY AdjustedInt DEF Explained
<1> QED
  BY <1>3, <1>4, <1>5

LEMMA ExplainedSame ==
  ASSUME CutoverTypeOK, UNCHANGED <<cut, balance, log>>
  PROVE  /\ \A b \in Accounts : cut'.rows[b] <= Len(log'[b])
         /\ \A b \in Accounts : Explained(b)' = Explained(b)
BY AdjustedInt DEF Explained, Adjusted, Adjustments

-----------------------------------------------------------------------------
(* Carrying the balances over *)

\* The elements of a finite set, in a sequence.
LEMMA ListOfSet ==
  ASSUME NEW S, IsFiniteSet(S)
  PROVE  /\ SetToSeq(S) \in Seq(S)
         /\ DOMAIN SetToSeq(S) = 1 .. Len(SetToSeq(S))
         /\ \A i, j \in DOMAIN SetToSeq(S) : SetToSeq(S)[i] = SetToSeq(S)[j] => i = j
         /\ \A x \in S : \E i \in DOMAIN SetToSeq(S) : SetToSeq(S)[i] = x
<1> DEFINE n == Cardinality(S)
           s == SetToSeq(S)
<1>1. n \in Nat /\ ExistsBijection(1 .. n, S)
  BY FS_CardinalityType
<1>2. \E f \in [1 .. n -> S] : IsInjective(f)
  BY <1>1 DEF ExistsBijection, Bijection, Injection, IsInjective
<1>3. s \in [1 .. n -> S] /\ IsInjective(s)
  BY <1>2 DEF SetToSeq
<1> HIDE DEF s
<1>4. s \in Seq(S) /\ DOMAIN s = 1 .. n /\ Len(s) = n
  BY <1>1, <1>3
<1>5. s \in Injection(1 .. n, S)
  BY <1>3 DEF Injection, IsInjective
<1>6. Cardinality(1 .. n) = Cardinality(S)
  BY <1>1, FS_Interval
<1>7. s \in Surjection(1 .. n, S)
  BY <1>5, <1>6, FS_Injection
<1>8. \A x \in S : \E i \in 1 .. n : s[i] = x
  BY <1>7 DEF Surjection
<1>9. \A i, j \in DOMAIN s : s[i] = s[j] => i = j
  BY <1>3 DEF IsInjective
<1> QED
  BY <1>4, <1>8, <1>9 DEF s

\* The row that an opening batch names is one of the application's.
LEMMA LegacyTyped ==
  ASSUME NEW a \in Accounts \cup {Safe}
  PROVE  /\ Legacy(a)[1] \in {"GlobalCashAccount", "CashAccount"} /\ Legacy(a)[2] \in Nat
         /\ Legacy(a) = <<Legacy(a)[1], Legacy(a)[2]>>
<1>1. CASE a = Safe
  BY <1>1 DEF Legacy
<1>2. CASE a # Safe
  <2> DEFINE s == SetToSeq(Accounts)
             k == CHOOSE i \in DOMAIN s : s[i] = a
  <2>1. a \in Accounts
    BY <1>2
  <2>2. DOMAIN s = 1 .. Len(s) /\ s \in Seq(Accounts) /\ \E i \in DOMAIN s : s[i] = a
    BY <2>1, CutoverAssumption, ListOfSet
  <2>3. Legacy(a) = <<"CashAccount", k>>
    BY <1>2 DEF Legacy
  <2> HIDE DEF s
  <2>4. k \in DOMAIN s
    BY <2>2
  <2>5. k \in Nat
    BY <2>2, <2>4
  <2> HIDE DEF k
  <2> QED
    BY <2>3, <2>5
<1> QED
  BY <1>1, <1>2

LEMMA OpeningTyped ==
  ASSUME CutoverTypeOK, NEW a \in Accounts \cup {Safe}
  PROVE  /\ OpeningBatch(a) \in J!Batch /\ OpeningBatch(a).status = "POSTED"
         /\ OpeningBatch(a).event = "LEGACY_OPENING" /\ OpeningBatch(a).source[1] # "Operation"
         /\ \A c : J!DebitTo(OpeningBatch(a).lines, c) =
               (IF c = a THEN CashBalance(a) ELSE 0) - (IF c = Opening THEN CashBalance(a) ELSE 0)
<1>1. CashBalance(a) \in Int /\ today \in Days
  BY DEF CashBalance, CutoverTypeOK, TypeOK, CashTypeOK
<1>2. a \in FinAccounts /\ Opening \in FinAccounts
  BY AccountsApart
<1>3. /\ Transfer(a, Opening, CashBalance(a)) \in Seq(J!Line)
      /\ \A c : J!DebitTo(Transfer(a, Opening, CashBalance(a)), c) =
            (IF c = a THEN CashBalance(a) ELSE 0) - (IF c = Opening THEN CashBalance(a) ELSE 0)
  BY <1>1, <1>2, TransferDebits
<1>4. Legacy(a) \in J!Source /\ Legacy(a)[1] \in J!Models /\ Legacy(a)[2] \in Nat /\ Legacy(a)[1] # "Operation"
  <2>1. PICK x, n : Legacy(a) = <<x, n>> /\ x \in {"GlobalCashAccount", "CashAccount"} /\ n \in Nat
    BY LegacyTyped
  <2>2. <<x, n>> \in J!Source /\ <<x, n>>[1] = x /\ <<x, n>>[2] = n
    BY <2>1 DEF J!Source, J!Models
  <2> QED
    BY <2>1, <2>2 DEF J!Models
<1>5. <<Legacy(a)[1], Legacy(a)[2], "opening">> \in J!Key
  BY <1>4 DEF J!Key
<1> QED
  BY <1>1, <1>3, <1>4, <1>5 DEF OpeningBatch, J!NewBatch, J!Batch, J!Events, J!Days, Days

\* The opening batches book the balance of each cash account, and none to the
\* partner.
LEMMA OpeningBooks ==
  ASSUME CutoverTypeOK,
         NEW rows, rows = [i \in DOMAIN CarriedOver |-> OpeningBatch(CarriedOver[i])]
  PROVE  /\ rows \in Seq(J!Batch)
         /\ \A b \in DOMAIN rows : rows[b].source[1] # "Operation"
         /\ \A a \in Accounts \cup {Safe} : BookedIn(rows, a) = CashBalance(a)
         /\ BookedIn(rows, Due) = 0
         /\ \A a : PaidIn(rows, a) = 0
<1> DEFINE C == {a \in Accounts \cup {Safe} : CashBalance(a) # 0}
<1>1. PICK s : s = CarriedOver
  OBVIOUS
<1>2. IsFiniteSet(C)
  <2>1. IsFiniteSet(Accounts \cup {Safe})
    BY CutoverAssumption, FS_AddElement
  <2> QED
    BY <2>1, FS_Subset
<1>3. /\ s \in Seq(C) /\ DOMAIN s = 1 .. Len(s)
      /\ \A i, j \in DOMAIN s : s[i] = s[j] => i = j
      /\ \A x \in C : \E i \in DOMAIN s : s[i] = x
  <2> HIDE DEF C
  <2>1. s = SetToSeq(C)
    BY <1>1 DEF CarriedOver, C
  <2> QED
    BY <1>2, <2>1, ListOfSet
<1>4. PICK next : next = [i \in DOMAIN s |-> OpeningBatch(s[i])] /\ next = rows
  BY <1>1
<1>5. /\ DOMAIN next = DOMAIN s
      /\ \A i \in DOMAIN s : /\ s[i] \in Accounts \cup {Safe}
                             /\ next[i] = OpeningBatch(s[i])
                             /\ next[i] \in J!Batch /\ next[i].status = "POSTED"
                             /\ next[i].event = "LEGACY_OPENING" /\ next[i].source[1] # "Operation"
  <2>1. \A i \in DOMAIN s : s[i] \in Accounts \cup {Safe}
    BY <1>3
  <2> QED
    BY <1>4, <2>1, OpeningTyped
<1>6. next \in Seq(J!Batch)
  <2>1. next \in [1 .. Len(s) -> J!Batch] /\ Len(s) \in Nat
    BY <1>3, <1>4, <1>5
  <2> QED
    BY <2>1
<1>7. \A a : PaidIn(next, a) = 0
  <2>1. PaymentsIn(next) = {}
    BY <1>5 DEF PaymentsIn, PaymentEvents
  <2> QED
    BY <2>1, SumEmpty DEF PaidIn
<1>8. ASSUME NEW a
      PROVE  /\ IsFiniteSet(DOMAIN s)
             /\ [b \in DOMAIN s |-> J!DebitTo(next[b].lines, a)] \in [DOMAIN s -> Int]
             /\ BookedIn(next, a) = SumFunction([b \in DOMAIN s |-> J!DebitTo(next[b].lines, a)])
  <2>1. next \in Seq(JP!Batch)
    BY <1>6, SameJournal
  <2>2. JP!Bookings(next) = {b \in DOMAIN next : next[b].status \in JP!Booked}
    BY <2>1, JournalAssumed, JP!BookingsAre
  <2>3. JP!Bookings(next) = DOMAIN s
    BY <1>5, <2>2 DEF JP!Booked
  <2>4. /\ JP!IsFiniteSet(JP!Bookings(next))
        /\ [b \in JP!Bookings(next) |-> JP!DebitTo(next[b].lines, a)] \in [JP!Bookings(next) -> Int]
    BY <2>1, JournalAssumed, JP!DebitOfInt
  <2>5. [b \in JP!Bookings(next) |-> JP!DebitTo(next[b].lines, a)] = [b \in DOMAIN s |-> J!DebitTo(next[b].lines, a)]
    BY <2>3, SameJournal
  <2>6. BookedIn(next, a) = SumFunction([b \in DOMAIN s |-> J!DebitTo(next[b].lines, a)])
    BY <2>5, SameSums DEF BookedIn, JP!DebitOf
  <2>7. IsFiniteSet(DOMAIN s)
    BY <2>3, <2>4 DEF IsFiniteSet, JP!IsFiniteSet
  <2> QED
    BY <2>3, <2>4, <2>5, <2>6, <2>7
<1>9. ASSUME NEW a \in Accounts \cup {Safe} PROVE BookedIn(next, a) = CashBalance(a)
  <2> DEFINE f == [b \in DOMAIN s |-> J!DebitTo(next[b].lines, a)]
  <2>1. IsFiniteSet(DOMAIN s) /\ f \in [DOMAIN s -> Int] /\ BookedIn(next, a) = SumFunction(f)
    BY <1>8
  <2>2. a # Opening /\ CashBalance(a) \in Int
    BY AccountsApart DEF CashBalance, CutoverTypeOK, TypeOK, CashTypeOK
  <2>3. \A b \in DOMAIN s : f[b] = IF s[b] = a THEN CashBalance(a) ELSE 0
    BY <1>5, <2>2, OpeningTyped
  <2> HIDE DEF f
  <2>4. CASE a \in C
    <3>1. PICK k \in DOMAIN s : s[k] = a
      BY <1>3, <2>4
    <3>2. f[k] = CashBalance(a) /\ \A b \in DOMAIN s \ {k} : f[b] = 0
      BY <1>3, <2>3, <3>1
    <3> QED
      BY <2>1, <3>2, SumOnly
  <2>5. CASE a \notin C
    <3>1. CashBalance(a) = 0 /\ \A b \in DOMAIN s : f[b] = 0
      BY <2>3, <2>5
    <3> QED
      BY <2>1, <3>1, SumZero
  <2> QED
    BY <2>4, <2>5
<1>10. BookedIn(next, Due) = 0
  <2> DEFINE f == [b \in DOMAIN s |-> J!DebitTo(next[b].lines, Due)]
  <2>1. IsFiniteSet(DOMAIN s) /\ f \in [DOMAIN s -> Int] /\ BookedIn(next, Due) = SumFunction(f)
    BY <1>8
  <2>2. Due # Opening /\ \A b \in DOMAIN s : s[b] # Due
    BY <1>5, AccountsApart
  <2>3. \A b \in DOMAIN s : f[b] = 0
    BY <1>5, <2>2, OpeningTyped
  <2> HIDE DEF f
  <2> QED
    BY <2>1, <2>3, SumZero
<1> QED
  BY <1>4, <1>5, <1>6, <1>7, <1>9, <1>10

-----------------------------------------------------------------------------
(* Recording an event *)

\* What posting lines does to the cached balances.
LEMMA PostedCache ==
  ASSUME CutoverTypeOK, NEW day, NEW lines \in Seq(J!Line), J!Post(day, lines, FALSE)
  PROVE  cached' \in [FinAccounts -> Int]
<1>1. \A a \in FinAccounts : J!Natural(a, J!DebitTo(lines, a)) \in Int
  BY DebitNumber DEF J!Natural
<1>2. \A a \in FinAccounts : cached[a] \in Int
  BY DEF CutoverTypeOK
<1>3. cached' = [a \in FinAccounts |-> cached[a] + J!Natural(a, J!DebitTo(lines, a))]
  BY DEF J!Post
<1> QED
  BY <1>1, <1>2, <1>3

\* A recorded event is a new batch.
Recorded(row, source, event, day, lines) ==
    /\ row \in J!Batch /\ row.status = "POSTED" /\ row.source = source /\ row.event = event
    /\ row.day = day /\ row.lines = lines

LEMMA RecordOn ==
  ASSUME CutoverTypeOK, engine = "ON", NEW model \in J!Models, NEW n \in Nat, NEW event \in J!Events,
         NEW day \in Days, NEW lines \in Seq(J!Line), NEW accounts,
         Record(<<model, n>>, event, day, lines, accounts)
  PROVE  /\ cached' \in [FinAccounts -> Int]
         /\ \E row \in J!Batch : /\ Recorded(row, <<model, n>>, event, day, lines)
                                 /\ batches' = Append(batches, row)
<1> DEFINE row == J!NewBatch(<<model, n, event>>, <<model, n>>, event, day, lines, "POSTED", 0)
<1>1. /\ J!Post(day, lines, FALSE) /\ batches' = Append(batches, row)
  BY DEF Record, J!RecordEvent
<1>2. cached' \in [FinAccounts -> Int]
  BY <1>1, PostedCache
<1>3. <<model, n, event>> \in J!Key /\ <<model, n>> \in J!Source
  BY DEF J!Key, J!Source
<1>4. Recorded(row, <<model, n>>, event, day, lines)
  BY <1>3 DEF Recorded, J!NewBatch, J!Batch, J!Days, Days
<1>5. row \in J!Batch
  BY <1>4 DEF Recorded
<1> QED
  BY <1>1, <1>2, <1>4, <1>5

\* Until the engine is on there is nothing to record.
LEMMA RecordOff ==
  ASSUME engine # "ON", NEW source, NEW event, NEW day, NEW lines, NEW accounts,
         Record(source, event, day, lines, accounts), engine \in {"OFF", "SET", "ON"}
  PROVE  UNCHANGED <<cached, batches>>
BY DEF Record

\* The batches of an operation when another batch is added, and when its own is.
LEMMA BatchesNext ==
  ASSUME CutoverTypeOK, NEW row \in J!Batch, batches' = Append(batches, row)
  PROVE  /\ \A o : row.source # <<"Operation", o>> => BatchesOf(o)' = BatchesOf(o)
         /\ \A o : row.source = <<"Operation", o>> => BatchesOf(o)' = BatchesOf(o) \cup {Len(batches) + 1}
         /\ \A b \in DOMAIN batches : batches'[b] = batches[b]
         /\ batches'[Len(batches) + 1] = row
<1>1. /\ DOMAIN batches' = DOMAIN batches \cup {Len(batches) + 1}
      /\ Len(batches) + 1 \notin DOMAIN batches
      /\ \A b \in DOMAIN batches : batches'[b] = batches[b]
      /\ batches'[Len(batches) + 1] = row
  BY DEF CutoverTypeOK
<1> QED
  BY <1>1 DEF BatchesOf

-----------------------------------------------------------------------------
(* The shares of the partner *)

LEMMA SharesNat ==
  ASSUME CutoverTypeOK, NEW status
  PROVE  /\ IsFiniteSet(Younger(status))
         /\ [o \in Younger(status) |-> PartnerFee(ops[o].fee)] \in [Younger(status) -> Nat]
         /\ Shares(status) \in Nat
<1>1. IsFiniteSet(Younger(status)) /\ Younger(status) \subseteq DOMAIN ops
  <2>1. DOMAIN ops = 1 .. Len(ops) /\ Len(ops) \in Int /\ 1 \in Int
    BY DEF CutoverTypeOK, TypeOK
  <2>2. IsFiniteSet(DOMAIN ops)
    BY <2>1, FS_Interval
  <2>3. Younger(status) \subseteq DOMAIN ops
    BY DEF Younger, CutoverTypeOK
  <2> QED
    BY <2>2, <2>3, FS_Subset
<1>2. \A o \in Younger(status) : PartnerFee(ops[o].fee) \in Nat
  <2>1. \A o \in DOMAIN ops : ops[o].fee \in Nat
    BY OperationRecord DEF CutoverTypeOK
  <2> QED
    BY <1>1, <2>1, ShareIsAmount
<1>3. [o \in Younger(status) |-> PartnerFee(ops[o].fee)] \in [Younger(status) -> Nat]
  BY <1>2
<1>4. Shares(status) \in Nat
  BY <1>1, <1>3, SumNat DEF Shares
<1> QED
  BY <1>1, <1>3, <1>4

\* Operations whose status and fee are left alone keep their shares.
LEMMA SharesSame ==
  ASSUME NEW status, Younger(status)' = Younger(status),
         \A o \in Younger(status) : ops'[o].fee = ops[o].fee
  PROVE  Shares(status)' = Shares(status)
<1>1. [o \in Younger(status)' |-> PartnerFee(ops'[o].fee)] = [o \in Younger(status) |-> PartnerFee(ops[o].fee)]
  OBVIOUS
<1> QED
  BY <1>1 DEF Shares

\* An operation more, or less, is its share more or less.
LEMMA SharesMore ==
  ASSUME CutoverTypeOK, CutoverTypeOK', NEW status, NEW o, o \notin Younger(status),
         Younger(status)' = Younger(status) \cup {o},
         \A q \in Younger(status) : ops'[q].fee = ops[q].fee
  PROVE  Shares(status)' = Shares(status) + PartnerFee(ops'[o].fee)
<1> DEFINE O == Younger(status)
           P == Younger(status)'
           f == [q \in O |-> PartnerFee(ops[q].fee)]
           g == [q \in P |-> PartnerFee(ops'[q].fee)]
<1>1. IsFiniteSet(O) /\ f \in [O -> Int] /\ g \in [P -> Int]
  <2>1. IsFiniteSet(O) /\ f \in [O -> Nat]
    BY SharesNat
  <2>2. g \in [P -> Nat]
    <3>1. \A q \in DOMAIN ops' : ops'[q].fee \in Nat
      <4>1. ops' \in Seq(Operation)
        BY DEF CutoverTypeOK, TypeOK
      <4>2. \A q \in DOMAIN ops' : ops'[q] \in Operation
        BY <4>1
      <4> QED
        BY <4>2 DEF Operation
    <3>2. \A q \in P : q \in DOMAIN ops'
      BY DEF Younger, CutoverTypeOK
    <3> QED
      BY <3>1, <3>2, ShareIsAmount
  <2> QED
    BY <2>1, <2>2
<1>2. o \notin O /\ P = O \cup {o} /\ o \in P /\ \A q \in O : g[q] = f[q]
  OBVIOUS
<1>3. g[o] = PartnerFee(ops'[o].fee)
  OBVIOUS
<1>4. Shares(status) = SumFunction(f) /\ Shares(status)' = SumFunction(g)
  BY DEF Shares
<1> HIDE DEF O, P, f, g
<1>5. SumFunction(g) = SumFunction(f) + (IF o \in P THEN g[o] ELSE 0)
  BY <1>1, <1>2, SumNext
<1> QED
  BY <1>2, <1>3, <1>4, <1>5

LEMMA SharesLess ==
  ASSUME CutoverTypeOK, CutoverTypeOK', NEW status, NEW o, o \notin Younger(status)',
         Younger(status) = Younger(status)' \cup {o},
         \A q \in Younger(status)' : ops'[q].fee = ops[q].fee
  PROVE  Shares(status) = Shares(status)' + PartnerFee(ops[o].fee) /\ Shares(status)' \in Int
<1> DEFINE O == Younger(status)'
           P == Younger(status)
           f == [q \in O |-> PartnerFee(ops'[q].fee)]
           g == [q \in P |-> PartnerFee(ops[q].fee)]
<1>1. IsFiniteSet(O) /\ f \in [O -> Int] /\ g \in [P -> Int]
  <2>1. IsFiniteSet(P) /\ g \in [P -> Nat]
    BY SharesNat
  <2>2. f \in [O -> Nat]
    <3>1. \A q \in DOMAIN ops' : ops'[q].fee \in Nat
      <4>1. ops' \in Seq(Operation)
        BY DEF CutoverTypeOK, TypeOK
      <4>2. \A q \in DOMAIN ops' : ops'[q] \in Operation
        BY <4>1
      <4> QED
        BY <4>2 DEF Operation
    <3>2. \A q \in O : q \in DOMAIN ops'
      BY DEF Younger, CutoverTypeOK
    <3> QED
      BY <3>1, <3>2, ShareIsAmount
  <2>3. O \in SUBSET P
    OBVIOUS
  <2>4. IsFiniteSet(O)
    BY <2>1, <2>3, FS_Subset
  <2> QED
    BY <2>1, <2>2, <2>4
<1>2. o \notin O /\ P = O \cup {o} /\ o \in P /\ \A q \in O : g[q] = f[q]
  OBVIOUS
<1>3. g[o] = PartnerFee(ops[o].fee)
  OBVIOUS
<1>4. Shares(status)' = SumFunction(f) /\ Shares(status) = SumFunction(g)
  BY DEF Shares
<1> HIDE DEF O, P, f, g
<1>5. SumFunction(g) = SumFunction(f) + (IF o \in P THEN g[o] ELSE 0)
  BY <1>1, <1>2, SumNext
<1>6. SumFunction(f) \in Int
  BY <1>1, SumInt
<1> QED
  BY <1>2, <1>3, <1>4, <1>5, <1>6

-----------------------------------------------------------------------------
(* The inductive invariant *)

\* An operation that a batch names exists.
Sourced == \A b \in DOMAIN batches : \A n \in Nat : batches[b].source = <<"Operation", n>> => n \in DOMAIN ops

\* OperationsAreBooked for one operation; one that is not booked is not credited
\* to the partner yet.
BookedAs(o) ==
    IF o <= cut.ops \/ ops[o].status = "PENDING" THEN BatchesOf(o) = {} /\ o \notin credited
    ELSE \E b \in BatchesOf(o) :
            /\ BatchesOf(o) = {b}
            /\ batches[b].status = (IF ops[o].status = "COMPLETED" THEN "POSTED" ELSE "REVERSED")
            /\ batches[b].day = ops[o].day
            /\ batches[b].lines = OperationLines(ops[o], o \in credited)

\* The movement of a younger operation that stands is at its current price, so
\* that cancelling it takes back what its batch booked.
AtPrice(o) ==
    o > cut.ops /\ ops[o].status = "COMPLETED" =>
        \A i \in Originals(o) :
            log[ops[o].account][i].delta = Impact(ops[o].type, ops[o].amount, ops[o].fee)

\* What the journal says of an account, but for payments from it.
Said(a) == BookedIn(batches, a) - PaidIn(batches, a)

CashMatches == (\A a \in Accounts : Explained(a) = Said(a)) /\ reserve = BookedIn(batches, Safe)

\* The partner was paid no more than the shares of operations that stood.
PartnerMatches ==
    /\ -BookedIn(batches, Due) = Shares("COMPLETED") - PaidIn(batches, Due)
    /\ PaidIn(batches, Due) <= Shares("COMPLETED") + Shares("CANCELLED")

Agreed == (\A o \in DOMAIN ops : BookedAs(o) /\ AtPrice(o)) /\ CashMatches /\ PartnerMatches

CutoverInv ==
    /\ CutoverTypeOK
    /\ PaidOnce
    /\ \A o \in DOMAIN ops : Announced(o)
    /\ Sourced
    /\ engine # "ON" => batches = <<>> /\ credited = {}
    /\ engine = "ON" => Agreed

\* The movements of an operation that is left alone.
AppendsRow(a, r) == log' = [log EXCEPT ![a] = Append(log[a], r)]

LEMMA PriceKept ==
  ASSUME TypeOK, UNCHANGED cut, NEW o \in DOMAIN ops, ops'[o] = ops[o], AtPrice(o),
         UNCHANGED log \/ \E a \in Accounts, r \in Movement : r.op # o /\ AppendsRow(a, r)
  PROVE  AtPrice(o)'
<1>1. SameRows(o)
  BY RowsUnchanged, RowsElsewhere DEF AppendsRow
<1>2. \A i \in Originals(o) : i \in OperationRows(o)
  BY DEF Originals, OperationRows
<1> QED
  BY <1>1, <1>2 DEF AtPrice, SameRows

\* The batch of an operation that is left alone.
LEMMA BatchKept ==
  ASSUME CutoverTypeOK, UNCHANGED cut, NEW o \in DOMAIN ops, ops'[o] = ops[o],
         o \in credited' <=> o \in credited, BookedAs(o),
         \/ UNCHANGED batches
         \/ \E row \in J!Batch : batches' = Append(batches, row) /\ row.source # <<"Operation", o>>
  PROVE  BookedAs(o)'
<1>1. BatchesOf(o)' = BatchesOf(o) /\ \A b \in BatchesOf(o) : batches'[b] = batches[b]
  <2>1. CASE UNCHANGED batches
    BY <2>1 DEF BatchesOf
  <2>2. ASSUME NEW row \in J!Batch, batches' = Append(batches, row), row.source # <<"Operation", o>>
        PROVE  BatchesOf(o)' = BatchesOf(o) /\ \A b \in DOMAIN batches : batches'[b] = batches[b]
    BY <2>2, BatchesNext
  <2> QED
    BY <2>1, <2>2 DEF BatchesOf
<1>2. (o \in credited') = (o \in credited)
  OBVIOUS
<1>3. OperationLines(ops'[o], o \in credited') = OperationLines(ops[o], o \in credited)
  BY <1>2
<1> QED
  BY <1>1, <1>3 DEF BookedAs

LEMMA SourcedKept ==
  ASSUME CutoverTypeOK, Sourced, DOMAIN ops \subseteq DOMAIN ops',
         \/ UNCHANGED batches
         \/ \E row \in J!Batch : /\ batches' = Append(batches, row)
                                 /\ \A n \in Nat : row.source = <<"Operation", n>> => n \in DOMAIN ops'
  PROVE  Sourced'
<1>1. CASE UNCHANGED batches
  BY <1>1 DEF Sourced
<1>2. ASSUME NEW row \in J!Batch, batches' = Append(batches, row),
             \A n \in Nat : row.source = <<"Operation", n>> => n \in DOMAIN ops'
      PROVE  Sourced'
  <2>1. /\ DOMAIN batches' = DOMAIN batches \cup {Len(batches) + 1}
        /\ \A b \in DOMAIN batches : batches'[b] = batches[b]
        /\ batches'[Len(batches) + 1] = row
    BY <1>2 DEF CutoverTypeOK
  <2> QED
    BY <1>2, <2>1 DEF Sourced
<1> QED
  BY <1>1, <1>2

\* What a new batch books.
LEMMA SaidNext ==
  ASSUME CutoverTypeOK, NEW row \in J!Batch, row.status = "POSTED", batches' = Append(batches, row)
  PROVE  /\ batches' \in Seq(J!Batch)
         /\ \A a : /\ BookedIn(batches, a) \in Int /\ PaidIn(batches, a) \in Int
                   /\ J!DebitTo(row.lines, a) \in Int
         /\ \A a : BookedIn(batches', a) = BookedIn(batches, a) + J!DebitTo(row.lines, a)
         /\ \A a : PaidIn(batches', a) = PaidIn(batches, a)
                      + (IF row.event \in PaymentEvents THEN J!DebitTo(row.lines, a) ELSE 0)
<1>1. \A new : new = Append(batches, row) =>
         /\ new \in Seq(J!Batch)
         /\ \A a : BookedIn(new, a) = BookedIn(batches, a) + J!DebitTo(row.lines, a)
         /\ \A a : PaidIn(new, a) = PaidIn(batches, a)
                      + (IF row.event \in PaymentEvents THEN J!DebitTo(row.lines, a) ELSE 0)
  BY AddedBatch DEF CutoverTypeOK
<1>2. \A a : BookedIn(batches, a) \in Int /\ PaidIn(batches, a) \in Int
  BY BookedInt, PaidInt DEF CutoverTypeOK
<1>3. row.lines \in Seq(J!Line)
  BY DEF J!Batch
<1> QED
  BY <1>1, <1>2, <1>3, DebitNumber

-----------------------------------------------------------------------------
(* What a step may do once the engine is on *)

\* Attributions are of operations that exist.
AttributionsTyped == attributed \subseteq DOMAIN ops /\ credited \subseteq DOMAIN ops

\* What every step keeps.
Steady ==
    /\ UNCHANGED <<engine, cut>>
    /\ cached' \in [FinAccounts -> Int]
    /\ \A a \in Accounts : cut'.rows[a] <= Len(log'[a])

QuietLog == UNCHANGED log \/ \E a \in Accounts, r \in Movement : r.op = 0 /\ AppendsRow(a, r)

\* Nothing for the journal; what closures post is not explained by events.
SilentStep ==
    /\ Steady /\ QuietLog
    /\ UNCHANGED <<ops, credited, batches, reserve>>
    /\ \A a \in Accounts : Explained(a)' = Explained(a)

\* An event of the cash application, or a payment.
Payment(row) == row.event \in PaymentEvents

EventStep(row) ==
    /\ Steady /\ QuietLog
    /\ UNCHANGED <<ops, credited>>
    /\ row \in J!Batch /\ row.status = "POSTED"
    /\ \A n : row.source # <<"Operation", n>>
    /\ batches' = Append(batches, row)
    /\ \A a \in Accounts :
          Explained(a)' = Explained(a) + (IF Payment(row) THEN 0 ELSE J!DebitTo(row.lines, a))
    /\ reserve' = reserve + J!DebitTo(row.lines, Safe)
    /\ J!DebitTo(row.lines, Due) # 0 =>
          Payment(row) /\ J!DebitTo(row.lines, Due) <= -BookedIn(batches, Due)

\* Only operation o is made or changed.
Touches(o) ==
    /\ o \in Nat \ {0}
    /\ DOMAIN ops' = DOMAIN ops \cup {o}
    /\ \A q \in DOMAIN ops : q # o => ops'[q] = ops[q]
    /\ \A q \in DOMAIN ops : q # o => (q \in credited' <=> q \in credited)
    /\ credited' \subseteq credited \cup {o}

\* An operation that waits for its payout is made or revised.
PendingStep(o) ==
    /\ Steady /\ Touches(o)
    /\ ops'[o].status = "PENDING"
    /\ o \in DOMAIN ops => ops[o].status = "PENDING"
    /\ UNCHANGED <<batches, log, reserve, credited>>
    /\ \A a \in Accounts : Explained(a)' = Explained(a)

\* An operation is completed: its cash moves and its batch is posted.
CompletedStep(o, op, row, r) ==
    /\ Steady /\ Touches(o)
    /\ op \in Operation /\ op = ops'[o] /\ op.status = "COMPLETED" /\ o > cut.ops
    /\ o \in DOMAIN ops => ops[o].status = "PENDING" /\ ops[o].account = op.account
    /\ Recorded(row, <<"Operation", o>>, "OPERATION", op.day, OperationLines(op, o \in credited'))
    /\ batches' = Append(batches, row)
    /\ r \in Movement /\ r.op = o /\ r.kind = "OPERATION"
    /\ r.delta = Impact(op.type, op.amount, op.fee)
    /\ AppendsRow(op.account, r)
    /\ \A a \in Accounts : Explained(a)' = Explained(a) + (IF a = op.account THEN r.delta ELSE 0)
    /\ UNCHANGED reserve

\* An operation is cancelled: its movement and its batch are reversed.
CancelledStep(o, i, b, row, r) ==
    /\ Steady /\ Touches(o)
    /\ o \in DOMAIN ops /\ ops[o].status = "COMPLETED"
    /\ ops'[o] = [ops[o] EXCEPT !.status = "CANCELLED"]
    /\ b \in DOMAIN batches /\ batches[b].source = <<"Operation", o>> /\ batches[b].status = "POSTED"
    /\ row \in J!Batch /\ row.status = "POSTED" /\ row.event = "REVERSAL"
    /\ \A n : row.source # <<"Operation", n>>
    /\ row.lines = J!Opposite(batches[b].lines)
    /\ batches' = Append(Turned(batches, b), row)
    /\ i \in Originals(o)
    /\ r \in Movement /\ r.op = o /\ r.kind = "ADJUSTMENT"
    /\ AppendsRow(ops[o].account, r)
    /\ \A a \in Accounts :
          Explained(a)' = Explained(a) - (IF a = ops[o].account THEN log[ops[o].account][i].delta ELSE 0)
    /\ UNCHANGED <<reserve, credited>>

LEMMA SteadyTyped ==
  ASSUME CutoverTypeOK, TypeOK', AttributionsTyped', Steady, batches' \in Seq(J!Batch)
  PROVE  CutoverTypeOK'
<1>1. engine' \in {"OFF", "SET", "ON"} /\ cut' \in [ops : Nat, rows : [Accounts -> Nat]]
  BY DEF CutoverTypeOK, Steady
<1> QED
  BY <1>1 DEF CutoverTypeOK, Steady, AttributionsTyped

LEMMA SilentAgrees ==
  ASSUME CutoverTypeOK, TypeOK', AttributionsTyped', Sourced, Agreed, SilentStep
  PROVE  CutoverTypeOK' /\ Sourced' /\ Agreed'
<1>1. CutoverTypeOK'
  BY SteadyTyped DEF SilentStep, CutoverTypeOK
<1>2. Sourced'
  BY DEF SilentStep, Sourced
<1>3. ASSUME NEW o \in DOMAIN ops PROVE BookedAs(o)' /\ AtPrice(o)'
  <2>1. /\ ops'[o] = ops[o] /\ UNCHANGED cut /\ o # 0 /\ UNCHANGED batches
        /\ (o \in credited' <=> o \in credited) /\ BookedAs(o) /\ AtPrice(o) /\ TypeOK
    BY OperationRecord DEF SilentStep, Steady, Agreed, CutoverTypeOK
  <2>2. UNCHANGED log \/ \E a \in Accounts, r \in Movement : r.op # o /\ AppendsRow(a, r)
    BY <2>1 DEF SilentStep, QuietLog
  <2>3. AtPrice(o)'
    BY <2>1, <2>2, PriceKept
  <2>4. BookedAs(o)'
    BY <2>1, BatchKept
  <2> QED
    BY <2>3, <2>4
<1>4. CashMatches'
  BY DEF CashMatches, Said, SilentStep, Agreed
<1>5. PartnerMatches'
  <2>1. UNCHANGED <<ops, credited, cut, batches>>
    BY DEF SilentStep, Steady
  <2>2. \A s \in {"COMPLETED", "CANCELLED"} : Shares(s)' = Shares(s)
    BY <2>1 DEF Shares, Younger
  <2> QED
    BY <2>1, <2>2 DEF Agreed, PartnerMatches
<1>6. DOMAIN ops' = DOMAIN ops
  BY DEF SilentStep
<1> QED
  BY <1>1, <1>2, <1>3, <1>4, <1>5, <1>6 DEF Agreed

LEMMA EventAgrees ==
  ASSUME CutoverTypeOK, TypeOK', AttributionsTyped', Sourced, Agreed, NEW row, EventStep(row)
  PROVE  CutoverTypeOK' /\ Sourced' /\ Agreed'
<1>0. row \in J!Batch /\ row.status = "POSTED" /\ batches' = Append(batches, row)
  BY DEF EventStep
<1>1. CutoverTypeOK'
  BY <1>0, SaidNext, SteadyTyped DEF EventStep
<1>2. Sourced'
  BY <1>0, SourcedKept DEF EventStep
<1>3. ASSUME NEW o \in DOMAIN ops PROVE BookedAs(o)' /\ AtPrice(o)'
  <2>1. /\ ops'[o] = ops[o] /\ UNCHANGED cut /\ o # 0 /\ row.source # <<"Operation", o>>
        /\ (o \in credited' <=> o \in credited) /\ BookedAs(o) /\ AtPrice(o) /\ TypeOK
    BY OperationRecord DEF EventStep, Steady, Agreed, CutoverTypeOK
  <2>2. UNCHANGED log \/ \E a \in Accounts, r \in Movement : r.op # o /\ AppendsRow(a, r)
    BY <2>1 DEF EventStep, QuietLog
  <2>3. AtPrice(o)'
    BY <2>1, <2>2, PriceKept
  <2>4. BookedAs(o)'
    BY <1>0, <2>1, BatchKept
  <2> QED
    BY <2>3, <2>4
<1> DEFINE d(a) == J!DebitTo(row.lines, a)
<1>4. /\ \A a : BookedIn(batches, a) \in Int /\ PaidIn(batches, a) \in Int /\ d(a) \in Int
      /\ \A a : BookedIn(batches', a) = BookedIn(batches, a) + d(a)
      /\ \A a : PaidIn(batches', a) = PaidIn(batches, a) + (IF Payment(row) THEN d(a) ELSE 0)
  BY <1>0, SaidNext DEF Payment
<1>5. /\ \A a \in Accounts : Explained(a)' = Explained(a) + (IF Payment(row) THEN 0 ELSE d(a))
      /\ reserve' = reserve + d(Safe)
      /\ d(Due) # 0 => Payment(row) /\ d(Due) <= -BookedIn(batches, Due)
  BY DEF EventStep
<1> HIDE DEF d
<1>6. CashMatches'
  <2>1. CashMatches
    BY DEF Agreed
  <2>2. \A a \in Accounts : Explained(a) = BookedIn(batches, a) - PaidIn(batches, a)
    BY <2>1 DEF CashMatches, Said
  <2>3. \A a \in Accounts : Explained(a)' = BookedIn(batches', a) - PaidIn(batches', a)
    BY <1>4, <1>5, <2>2
  <2>4. reserve' = BookedIn(batches', Safe)
    BY <1>4, <1>5, <2>1 DEF CashMatches
  <2> QED
    BY <2>3, <2>4 DEF CashMatches, Said
<1>7. PartnerMatches'
  <2>1. UNCHANGED <<ops, credited, cut>>
    BY DEF EventStep, Steady
  <2>2. Shares("COMPLETED")' = Shares("COMPLETED") /\ Shares("CANCELLED")' = Shares("CANCELLED")
    BY <2>1 DEF Shares, Younger
  <2>3. Shares("COMPLETED") \in Nat /\ Shares("CANCELLED") \in Nat
    BY SharesNat
  <2>4. /\ -BookedIn(batches, Due) = Shares("COMPLETED") - PaidIn(batches, Due)
        /\ PaidIn(batches, Due) <= Shares("COMPLETED") + Shares("CANCELLED")
    BY DEF Agreed, PartnerMatches
  <2>5. -BookedIn(batches', Due) = Shares("COMPLETED") - PaidIn(batches', Due)
    BY <1>4, <1>5, <2>3, <2>4
  <2>6. PaidIn(batches', Due) <= Shares("COMPLETED") + Shares("CANCELLED")
    BY <1>4, <1>5, <2>3, <2>4
  <2> QED
    BY <2>2, <2>5, <2>6 DEF PartnerMatches
<1>8. DOMAIN ops' = DOMAIN ops
  BY DEF EventStep
<1> QED
  BY <1>1, <1>2, <1>3, <1>6, <1>7, <1>8 DEF Agreed

\* The shares of a status that o has neither before nor after.
LEMMA SharesElsewhere ==
  ASSUME CutoverTypeOK, UNCHANGED cut, NEW o, Touches(o), NEW status,
         o \in DOMAIN ops => ops[o].status # status, ops'[o].status # status
  PROVE  Shares(status)' = Shares(status)
<1>1. credited \subseteq DOMAIN ops
  BY DEF CutoverTypeOK
<1>2. ASSUME NEW q \in Younger(status) PROVE q \in Younger(status)' /\ ops'[q].fee = ops[q].fee
  BY <1>1 DEF Younger, Touches
<1>3. ASSUME NEW q \in Younger(status)' PROVE q \in Younger(status)
  <2>1. q \in credited' /\ ops'[q].status = status
    BY DEF Younger
  <2>2. q # o
    BY <2>1
  <2>3. q \in credited /\ ops'[q] = ops[q]
    BY <1>1, <2>1, <2>2 DEF Touches
  <2> QED
    BY <2>1, <2>3 DEF Younger
<1>4. Younger(status)' = Younger(status)
  BY <1>2, <1>3
<1> QED
  BY <1>2, <1>4, SharesSame

\* Operations other than o stay booked and at their price.
LEMMA OthersAgree ==
  ASSUME CutoverTypeOK, Agreed, UNCHANGED cut, NEW o, Touches(o), NEW q \in DOMAIN ops, q # o,
         \/ UNCHANGED batches
         \/ \E row \in J!Batch : batches' = Append(batches, row) /\ row.source # <<"Operation", q>>,
         UNCHANGED log \/ \E a \in Accounts, r \in Movement : r.op # q /\ AppendsRow(a, r)
  PROVE  BookedAs(q)' /\ AtPrice(q)'
<1>1. ops'[q] = ops[q] /\ (q \in credited' <=> q \in credited) /\ BookedAs(q) /\ AtPrice(q) /\ TypeOK
  BY DEF Touches, Agreed, CutoverTypeOK
<1> QED
  BY <1>1, PriceKept, BatchKept

LEMMA PendingAgrees ==
  ASSUME CutoverTypeOK, TypeOK', AttributionsTyped', Sourced, Agreed, NEW o, PendingStep(o)
  PROVE  CutoverTypeOK' /\ Sourced' /\ Agreed'
<1>0. Touches(o) /\ UNCHANGED <<batches, log, reserve, cut, credited>>
  BY DEF PendingStep, Steady
<1>1. CutoverTypeOK'
  BY SteadyTyped DEF PendingStep, CutoverTypeOK
<1>2. Sourced'
  BY <1>0, SourcedKept DEF Touches
<1>3. \A q \in DOMAIN ops : q # o => BookedAs(q)' /\ AtPrice(q)'
  BY <1>0, OthersAgree
<1>4. BookedAs(o)' /\ AtPrice(o)'
  <2>1. BatchesOf(o) = {} /\ o \notin credited
    <3>1. CASE o \in DOMAIN ops
      BY <3>1 DEF PendingStep, Agreed, BookedAs
    <3>2. CASE o \notin DOMAIN ops
      BY <1>0, <3>2 DEF Sourced, BatchesOf, Touches, CutoverTypeOK
    <3> QED
      BY <3>1, <3>2
  <2>2. BatchesOf(o)' = {} /\ o \notin credited'
    BY <1>0, <2>1 DEF BatchesOf
  <2> QED
    BY <2>2 DEF BookedAs, AtPrice, PendingStep
<1>5. CashMatches'
  BY <1>0 DEF CashMatches, Said, PendingStep, Agreed
<1>6. PartnerMatches'
  <2>1. \A s \in {"COMPLETED", "CANCELLED"} : Shares(s)' = Shares(s)
    BY <1>0, SharesElsewhere DEF PendingStep
  <2> QED
    BY <1>0, <2>1 DEF Agreed, PartnerMatches
<1>7. DOMAIN ops' = DOMAIN ops \cup {o}
  BY <1>0 DEF Touches
<1> QED
  BY <1>1, <1>2, <1>3, <1>4, <1>5, <1>6, <1>7 DEF Agreed

\* The movement a completed operation is booked with is its only one.
LEMMA CompletedRow ==
  ASSUME TypeOK, PaidOnce, NEW o, NEW op, NEW row, NEW r, CompletedStep(o, op, row, r)
  PROVE  \A i \in Originals(o)' : log'[op.account][i] = r
<1>1. /\ Scoped /\ op \in Operation /\ op = ops'[o] /\ o # 0 /\ r \in Movement
      /\ r.op = o /\ r.kind = "OPERATION" /\ op.account \in Accounts
      /\ log' = [log EXCEPT ![op.account] = Append(log[op.account], r)]
  BY PaidParts DEF CompletedStep, Touches, Operation, AppendsRow
<1>2. CASE o \notin DOMAIN ops
  <2>1. PICK a \in Accounts : a = op.account
    BY <1>1
  <2>2. OnlyRow(o, a, r)
    BY <1>1, <1>2, <2>1, RowsOfNew
  <2> QED
    BY <2>1, <2>2 DEF OnlyRow
<1>3. CASE o \in DOMAIN ops
  <2>1. ops[o].status = "PENDING" /\ ops'[o].account = ops[o].account /\ ops[o].account = op.account
    BY <1>1, <1>3 DEF CompletedStep
  <2>2. Originals(o) = {}
    BY <1>3, <2>1, PaidParts DEF Paid, OperationRows, Originals
  <2>3. PICK a \in Accounts : a = op.account
    BY <1>1
  <2>4. Originals(o)' = {Len(log[a]) + 1}
    BY <1>1, <1>3, <2>1, <2>2, <2>3, RowsAfterAppend
  <2>5. log'[a][Len(log[a]) + 1] = r
    BY <1>1, <2>3 DEF TypeOK, CashTypeOK
  <2> QED
    BY <2>3, <2>4, <2>5
<1> QED
  BY <1>2, <1>3

\* A completed operation is booked as it is.
LEMMA CompletedBook ==
  ASSUME CutoverTypeOK, PaidOnce, Sourced, Agreed, NEW o, NEW op, NEW row, NEW r, CompletedStep(o, op, row, r)
  PROVE  BookedAs(o)' /\ AtPrice(o)'
<1>1. /\ row \in J!Batch /\ row.status = "POSTED" /\ row.source = <<"Operation", o>> /\ row.day = op.day
      /\ row.lines = OperationLines(op, o \in credited') /\ batches' = Append(batches, row)
      /\ op = ops'[o] /\ op.status = "COMPLETED" /\ UNCHANGED cut /\ o > cut.ops /\ o \in Nat
  BY DEF CompletedStep, Recorded, Steady, Touches
<1>2. BatchesOf(o) = {}
  <2>1. CASE o \in DOMAIN ops
    BY <2>1 DEF CompletedStep, Agreed, BookedAs
  <2>2. CASE o \notin DOMAIN ops
    BY <1>1, <2>2 DEF Sourced, BatchesOf
  <2> QED
    BY <2>1, <2>2
<1>3. PICK x : x = Len(batches) + 1
  OBVIOUS
<1>4. BatchesOf(o)' = {x} /\ batches'[x] = row
  BY <1>1, <1>2, <1>3, BatchesNext
<1>5. cut.ops \in Nat /\ ~(o <= cut.ops)
  BY <1>1 DEF CutoverTypeOK
<1>6. BookedAs(o)'
  BY <1>1, <1>4, <1>5 DEF BookedAs
<1>7. AtPrice(o)'
  <2>1. \A i \in Originals(o)' : log'[op.account][i] = r
    BY CompletedRow DEF CutoverTypeOK
  <2>2. r.delta = Impact(op.type, op.amount, op.fee)
    BY DEF CompletedStep
  <2> QED
    BY <1>1, <2>1, <2>2 DEF AtPrice
<1> QED
  BY <1>6, <1>7

\* Its share is due to the partner who brought it.
LEMMA CompletedShare ==
  ASSUME CutoverTypeOK, CutoverTypeOK', NEW o, NEW op, NEW row, NEW r, CompletedStep(o, op, row, r)
  PROVE  /\ Shares("COMPLETED")' = Shares("COMPLETED") + ShareOf(op, o \in credited')
         /\ Shares("CANCELLED")' = Shares("CANCELLED")
         /\ ShareOf(op, o \in credited') \in Nat
<1>1. /\ Touches(o) /\ UNCHANGED cut /\ op = ops'[o] /\ op.status = "COMPLETED" /\ o > cut.ops
      /\ o \in DOMAIN ops => ops[o].status = "PENDING"
      /\ op \in Operation
  BY DEF CompletedStep, Steady
<1>2. Shares("CANCELLED")' = Shares("CANCELLED")
  BY <1>1, SharesElsewhere
<1>3. credited \subseteq DOMAIN ops
  BY DEF CutoverTypeOK
<1>4. o \notin Younger("COMPLETED")
  BY <1>1, <1>3 DEF Younger
<1>5. ASSUME NEW q \in Younger("COMPLETED")
      PROVE  q \in Younger("COMPLETED")' /\ ops'[q].fee = ops[q].fee
  BY <1>1, <1>3, <1>4 DEF Younger, Touches
<1>6. ASSUME NEW q \in Younger("COMPLETED")', q # o PROVE q \in Younger("COMPLETED")
  <2>1. q \in credited' /\ ops'[q].status = "COMPLETED"
    BY <1>1 DEF Younger
  <2>2. q \in credited /\ ops'[q] = ops[q]
    BY <1>1, <1>3, <1>6, <2>1 DEF Touches
  <2> QED
    BY <2>1, <2>2 DEF Younger
<1>7. CASE o \in credited'
  <2>1. Younger("COMPLETED")' = Younger("COMPLETED") \cup {o}
    <3>1. o \in Younger("COMPLETED")'
      BY <1>1, <1>7 DEF Younger
    <3> QED
      BY <1>5, <1>6, <3>1
  <2>2. Shares("COMPLETED")' = Shares("COMPLETED") + PartnerFee(ops'[o].fee)
    BY <1>4, <1>5, <2>1, SharesMore
  <2>3. op.fee \in Nat
    BY <1>1 DEF Operation
  <2> QED
    BY <1>1, <1>2, <1>7, <2>2, <2>3, ShareIsAmount DEF ShareOf
<1>8. CASE o \notin credited'
  <2>1. o \notin Younger("COMPLETED")'
    BY <1>8 DEF Younger
  <2>2. Younger("COMPLETED")' = Younger("COMPLETED")
    BY <1>5, <1>6, <2>1
  <2>3. Shares("COMPLETED")' = Shares("COMPLETED") /\ Shares("COMPLETED") \in Nat
    BY <1>5, <2>2, SharesSame, SharesNat
  <2> QED
    BY <1>2, <1>8, <2>3 DEF ShareOf
<1> QED
  BY <1>7, <1>8

LEMMA CompletedAgrees ==
  ASSUME CutoverTypeOK, TypeOK', AttributionsTyped', PaidOnce, Sourced, Agreed,
         NEW o, NEW op, NEW row, NEW r, CompletedStep(o, op, row, r)
  PROVE  CutoverTypeOK' /\ Sourced' /\ Agreed'
<1>0. /\ row \in J!Batch /\ row.status = "POSTED" /\ row.source = <<"Operation", o>> /\ row.event = "OPERATION"
      /\ row.lines = OperationLines(op, o \in credited') /\ batches' = Append(batches, row)
      /\ Touches(o) /\ UNCHANGED cut /\ op \in Operation /\ r \in Movement /\ r.op = o
      /\ AppendsRow(op.account, r) /\ op.account \in Accounts
  BY DEF CompletedStep, Recorded, Steady, Operation
<1>1. CutoverTypeOK'
  BY <1>0, SaidNext, SteadyTyped DEF CompletedStep
<1>2. Sourced'
  <2>1. \A n \in Nat : row.source = <<"Operation", n>> => n \in DOMAIN ops'
    BY <1>0 DEF Touches
  <2> QED
    BY <1>0, <2>1, SourcedKept DEF Touches
<1>3. ASSUME NEW q \in DOMAIN ops, q # o PROVE BookedAs(q)' /\ AtPrice(q)'
  <2>1. row.source # <<"Operation", q>>
    BY <1>0, <1>3
  <2>2. \E a \in Accounts, s \in Movement : s.op # q /\ AppendsRow(a, s)
    BY <1>0, <1>3
  <2> QED
    BY <1>0, <1>3, <2>1, <2>2, OthersAgree
<1>4. BookedAs(o)' /\ AtPrice(o)'
  BY CompletedBook
<1> DEFINE d(a) == J!DebitTo(row.lines, a)
<1>5. /\ \A a : BookedIn(batches, a) \in Int /\ PaidIn(batches, a) \in Int /\ d(a) \in Int
      /\ \A a : BookedIn(batches', a) = BookedIn(batches, a) + d(a)
      /\ \A a : PaidIn(batches', a) = PaidIn(batches, a) + (IF row.event \in PaymentEvents THEN d(a) ELSE 0)
  BY <1>0, SaidNext
<1>6. \A a : PaidIn(batches', a) = PaidIn(batches, a)
  <2>1. row.event \notin PaymentEvents
    BY <1>0 DEF PaymentEvents
  <2>2. \A a : PaidIn(batches', a) = PaidIn(batches, a) + 0 /\ PaidIn(batches, a) \in Int
    BY <1>5, <2>1
  <2> QED
    BY <2>2
<1>7. /\ \A a \in Accounts : d(a) = IF a = op.account THEN Impact(op.type, op.amount, op.fee) ELSE 0
      /\ d(Safe) = 0 /\ d(Due) = -ShareOf(op, o \in credited')
  <2>1. PICK partnered \in BOOLEAN : partnered = (o \in credited')
    <3>1. CASE o \in credited'
      <4>1. TRUE = (o \in credited')
        BY <3>1
      <4> QED
        BY <4>1
    <3>2. CASE o \notin credited'
      <4>1. FALSE = (o \in credited')
        BY <3>2
      <4> QED
        BY <4>1
    <3> QED
      BY <3>1, <3>2
  <2>2. row.lines = OperationLines(op, partnered)
    BY <1>0, <2>1
  <2> QED
    BY <1>0, <2>1, <2>2, OperationDebits
<1> HIDE DEF d
<1>8. CashMatches'
  <2>1. CashMatches
    BY DEF Agreed
  <2>2. \A a \in Accounts : Explained(a) = BookedIn(batches, a) - PaidIn(batches, a)
    BY <2>1 DEF CashMatches, Said
  <2>3. \A a \in Accounts : Explained(a)' = Explained(a) + d(a)
    <3>1. \A a \in Accounts : Explained(a)' = Explained(a) + (IF a = op.account THEN r.delta ELSE 0)
      BY DEF CompletedStep
    <3>2. r.delta = Impact(op.type, op.amount, op.fee)
      BY DEF CompletedStep
    <3> QED
      BY <1>7, <3>1, <3>2
  <2>4. \A a \in Accounts : Explained(a)' = BookedIn(batches', a) - PaidIn(batches', a)
    BY <1>5, <1>6, <2>2, <2>3
  <2>5. reserve' = BookedIn(batches', Safe)
    BY <1>5, <1>7, <2>1 DEF CashMatches, CompletedStep
  <2> QED
    BY <2>4, <2>5 DEF CashMatches, Said
<1>9. PartnerMatches'
  <2> DEFINE s == ShareOf(op, o \in credited')
  <2>1. /\ Shares("COMPLETED")' = Shares("COMPLETED") + s
        /\ Shares("CANCELLED")' = Shares("CANCELLED") /\ s \in Nat
    BY <1>1, CompletedShare
  <2>2. Shares("COMPLETED") \in Nat /\ Shares("CANCELLED") \in Nat
    BY SharesNat
  <2>3. /\ -BookedIn(batches, Due) = Shares("COMPLETED") - PaidIn(batches, Due)
        /\ PaidIn(batches, Due) <= Shares("COMPLETED") + Shares("CANCELLED")
    BY DEF Agreed, PartnerMatches
  <2>4. d(Due) = -s
    BY <1>7
  <2> HIDE DEF s
  <2>5. -BookedIn(batches', Due) = Shares("COMPLETED")' - PaidIn(batches', Due)
    BY <1>5, <1>6, <2>1, <2>2, <2>3, <2>4
  <2>6. PaidIn(batches', Due) <= Shares("COMPLETED")' + Shares("CANCELLED")'
    BY <1>5, <1>6, <2>1, <2>2, <2>3
  <2> QED
    BY <2>5, <2>6 DEF PartnerMatches
<1>10. DOMAIN ops' = DOMAIN ops \cup {o}
  BY <1>0 DEF Touches
<1> QED
  BY <1>1, <1>2, <1>3, <1>4, <1>8, <1>9, <1>10 DEF Agreed

\* What reversing a batch does to the journal.
LEMMA Reversed ==
  ASSUME CutoverTypeOK, NEW b \in DOMAIN batches, batches[b].status = "POSTED",
         NEW row \in J!Batch, row.status = "POSTED", row.event = "REVERSAL",
         row.lines = J!Opposite(batches[b].lines),
         batches' = Append(Turned(batches, b), row)
  PROVE  /\ batches' \in Seq(J!Batch)
         /\ DOMAIN batches' = DOMAIN batches \cup {Len(batches) + 1}
         /\ \A c \in DOMAIN batches : /\ c # b => batches'[c] = batches[c]
                                      /\ batches'[c].source = batches[c].source
         /\ batches'[b].lines = batches[b].lines /\ batches'[b].day = batches[b].day
         /\ batches'[b].status = "REVERSED"
         /\ batches'[Len(batches) + 1] = row
         /\ \A a : /\ BookedIn(batches, a) \in Int /\ J!DebitTo(batches[b].lines, a) \in Int
                   /\ BookedIn(batches', a) = BookedIn(batches, a) - J!DebitTo(batches[b].lines, a)
                   /\ PaidIn(batches', a) = PaidIn(batches, a)
<1>1. PICK mid : mid = Turned(batches, b)
  OBVIOUS
<1>2. batches \in Seq(J!Batch)
  BY DEF CutoverTypeOK
<1>3. /\ mid \in Seq(J!Batch) /\ DOMAIN mid = DOMAIN batches /\ Len(mid) = Len(batches)
      /\ \A c \in DOMAIN batches : mid[c].lines = batches[c].lines /\ mid[c].event = batches[c].event
                                   /\ mid[c].source = batches[c].source /\ mid[c].day = batches[c].day
      /\ \A c \in DOMAIN batches : c # b => mid[c] = batches[c]
      /\ mid[b].status = "REVERSED"
      /\ \A a : BookedIn(mid, a) = BookedIn(batches, a)
      /\ \A a : PaidIn(mid, a) = PaidIn(batches, a)
  BY <1>1, <1>2, TurnedBatch
<1>4. PICK new : new = Append(mid, row) /\ new = batches'
  BY <1>1
<1>5. /\ new \in Seq(J!Batch)
      /\ \A a : BookedIn(new, a) = BookedIn(mid, a) + J!DebitTo(row.lines, a)
      /\ \A a : PaidIn(new, a) = PaidIn(mid, a)
                   + (IF row.event \in PaymentEvents THEN J!DebitTo(row.lines, a) ELSE 0)
  BY <1>3, <1>4, AddedBatch
<1>6. /\ DOMAIN new = DOMAIN mid \cup {Len(mid) + 1} /\ \A c \in DOMAIN mid : new[c] = mid[c]
      /\ new[Len(mid) + 1] = row /\ Len(mid) = Len(batches)
  <2>1. /\ DOMAIN new = DOMAIN mid \cup {Len(mid) + 1} /\ \A c \in DOMAIN mid : new[c] = mid[c]
        /\ new[Len(mid) + 1] = row
    <3>1. new = Append(mid, row) /\ mid \in Seq(J!Batch)
      BY <1>3, <1>4
    <3> QED
      BY <3>1
  <2> QED
    BY <1>3, <2>1
<1>7. batches[b].lines \in Seq(J!Line)
  <2>1. batches[b] \in J!Batch
    BY <1>2
  <2> QED
    BY <2>1 DEF J!Batch
<1>8. \A a : J!DebitTo(row.lines, a) = -J!DebitTo(batches[b].lines, a)
  <2>1. \A lines \in Seq(JP!Line) : \A a : JP!DebitTo(JP!Opposite(lines), a) = -JP!DebitTo(lines, a)
    BY JournalAssumed, JP!DebitToOpposite
  <2>2. \A a : J!DebitTo(J!Opposite(batches[b].lines), a) = -J!DebitTo(batches[b].lines, a)
    BY <1>7, <2>1, SameJournal
  <2> QED
    BY <2>2
<1>9. \A a : /\ BookedIn(batches, a) \in Int /\ PaidIn(batches, a) \in Int
             /\ J!DebitTo(batches[b].lines, a) \in Int
  BY <1>2, <1>7, BookedInt, PaidInt, DebitNumber
<1>10. \A a : /\ BookedIn(new, a) = BookedIn(batches, a) - J!DebitTo(batches[b].lines, a)
              /\ PaidIn(new, a) = PaidIn(batches, a)
  <2> SUFFICES ASSUME NEW a
               PROVE  /\ BookedIn(new, a) = BookedIn(batches, a) - J!DebitTo(batches[b].lines, a)
                      /\ PaidIn(new, a) = PaidIn(batches, a)
    OBVIOUS
  <2>1. /\ BookedIn(new, a) = BookedIn(batches, a) + J!DebitTo(row.lines, a)
        /\ J!DebitTo(row.lines, a) = -J!DebitTo(batches[b].lines, a)
        /\ BookedIn(batches, a) \in Int /\ J!DebitTo(batches[b].lines, a) \in Int
    BY <1>3, <1>5, <1>8, <1>9
  <2>2. PaidIn(new, a) = PaidIn(mid, a) /\ PaidIn(mid, a) = PaidIn(batches, a)
    <3>1. row.event \notin PaymentEvents
      BY DEF PaymentEvents
    <3>2. PaidIn(new, a) = PaidIn(mid, a) + 0
      BY <1>5, <3>1
    <3>3. PaidIn(mid, a) = PaidIn(batches, a) /\ PaidIn(batches, a) \in Int
      BY <1>3, <1>9
    <3> QED
      BY <3>2, <3>3
  <2> QED
    BY <2>1, <2>2
<1>11. /\ DOMAIN new = DOMAIN batches \cup {Len(batches) + 1} /\ new[Len(batches) + 1] = row
       /\ \A c \in DOMAIN batches : (c # b => new[c] = batches[c]) /\ new[c].source = batches[c].source
       /\ new[b].lines = batches[b].lines /\ new[b].day = batches[b].day /\ new[b].status = "REVERSED"
  BY <1>3, <1>6
<1>12. \A a : /\ BookedIn(batches, a) \in Int /\ J!DebitTo(batches[b].lines, a) \in Int
              /\ BookedIn(new, a) = BookedIn(batches, a) - J!DebitTo(batches[b].lines, a)
              /\ PaidIn(new, a) = PaidIn(batches, a)
  BY <1>9, <1>10, Zenon
<1>13. new \in Seq(J!Batch)
  BY <1>5
<1> QED
  BY <1>4, <1>11, <1>12, <1>13, Zenon

\* Cancelling takes the share back.
LEMMA CancelledShare ==
  ASSUME CutoverTypeOK, CutoverTypeOK', NEW o, NEW i, NEW b, NEW row, NEW r, o > cut.ops,
         CancelledStep(o, i, b, row, r)
  PROVE  /\ Shares("COMPLETED") = Shares("COMPLETED")' + ShareOf(ops[o], o \in credited)
         /\ Shares("CANCELLED")' = Shares("CANCELLED") + ShareOf(ops[o], o \in credited)
         /\ ShareOf(ops[o], o \in credited) \in Nat /\ Shares("COMPLETED")' \in Int
<1>1. /\ Touches(o) /\ UNCHANGED cut /\ o \in DOMAIN ops /\ ops[o].status = "COMPLETED"
      /\ ops'[o] = [ops[o] EXCEPT !.status = "CANCELLED"]
  BY DEF CancelledStep, Steady
<1>2. /\ ops[o] \in Operation /\ ops[o].fee \in Nat
      /\ ops'[o].status = "CANCELLED" /\ ops'[o].fee = ops[o].fee
  <2>1. ops[o] \in Operation /\ ops[o].fee \in Nat
    BY <1>1, OperationRecord DEF CutoverTypeOK
  <2> QED
    BY <1>1, <2>1 DEF Operation
<1>3. credited \subseteq DOMAIN ops
  BY DEF CutoverTypeOK
<1>4. o \in credited' <=> o \in credited
  BY DEF CancelledStep
<1>5. o \notin Younger("COMPLETED")' /\ o \notin Younger("CANCELLED")
  BY <1>1, <1>2 DEF Younger
<1>6. ASSUME NEW status, NEW q, q # o
      PROVE  /\ q \in Younger(status) <=> q \in Younger(status)'
             /\ q \in Younger(status) => ops'[q].fee = ops[q].fee
  <2>1. q \in Younger(status) => q \in Younger(status)' /\ ops'[q].fee = ops[q].fee
    BY <1>1, <1>3, <1>6 DEF Younger, Touches
  <2>2. ASSUME q \in Younger(status)' PROVE q \in Younger(status)
    <3>1. q \in credited' /\ ops'[q].status = status
      BY <1>1, <2>2 DEF Younger
    <3>2. q \in credited /\ ops'[q] = ops[q]
      BY <1>1, <1>3, <1>6, <3>1 DEF Touches
    <3> QED
      BY <3>1, <3>2 DEF Younger
  <2> QED
    BY <2>1, <2>2
<1>7. CASE o \in credited
  <2>1. o \in Younger("COMPLETED") /\ o \in Younger("CANCELLED")'
    <3>1. o \in Younger("COMPLETED")
      BY <1>1, <1>7 DEF Younger
    <3>2. o \in credited' /\ ops'[o].status = "CANCELLED"
      BY <1>1, <1>2, <1>4, <1>7
    <3>3. o \in Younger("CANCELLED")'
      BY <3>2 DEF Younger
    <3> QED
      BY <3>1, <3>3
  <2>2. Younger("COMPLETED") = Younger("COMPLETED")' \cup {o}
    BY <1>5, <1>6, <2>1
  <2>3. Younger("CANCELLED")' = Younger("CANCELLED") \cup {o}
    BY <1>5, <1>6, <2>1
  <2>4. \A q \in Younger("COMPLETED")' : ops'[q].fee = ops[q].fee
    BY <1>5, <1>6
  <2>5. \A q \in Younger("CANCELLED") : ops'[q].fee = ops[q].fee
    BY <1>5, <1>6
  <2>6. Shares("COMPLETED") = Shares("COMPLETED")' + PartnerFee(ops[o].fee) /\ Shares("COMPLETED")' \in Int
    BY <1>5, <2>2, <2>4, SharesLess
  <2>7. Shares("CANCELLED")' = Shares("CANCELLED") + PartnerFee(ops'[o].fee)
    BY <1>5, <2>3, <2>5, SharesMore
  <2> QED
    BY <1>2, <1>7, <2>6, <2>7, ShareIsAmount DEF ShareOf
<1>8. CASE o \notin credited
  <2>1. /\ o \notin Younger("COMPLETED") /\ o \notin Younger("CANCELLED")
        /\ o \notin Younger("COMPLETED")' /\ o \notin Younger("CANCELLED")'
    BY <1>4, <1>8 DEF Younger
  <2>2. ASSUME NEW status, o \notin Younger(status), o \notin Younger(status)'
        PROVE  Younger(status)' = Younger(status)
    BY <1>6, <2>2
  <2>3. \A q \in Younger("COMPLETED") : ops'[q].fee = ops[q].fee
    BY <1>6, <2>1
  <2>4. \A q \in Younger("CANCELLED") : ops'[q].fee = ops[q].fee
    BY <1>6, <2>1
  <2>5. Shares("COMPLETED")' = Shares("COMPLETED") /\ Shares("CANCELLED")' = Shares("CANCELLED")
    BY <2>1, <2>2, <2>3, <2>4, SharesSame
  <2>6. Shares("COMPLETED") \in Nat /\ Shares("CANCELLED") \in Nat
    BY SharesNat
  <2> QED
    BY <1>8, <2>5, <2>6 DEF ShareOf
<1> QED
  BY <1>7, <1>8

\* Cancelling reverses the batch of the operation, and no other.
LEMMA CancelledBook ==
  ASSUME CutoverTypeOK, Agreed, NEW o, NEW i, NEW b, NEW row, NEW r, CancelledStep(o, i, b, row, r)
  PROVE  /\ o > cut.ops
         /\ batches[b].lines = OperationLines(ops[o], o \in credited)
         /\ BookedAs(o)' /\ AtPrice(o)'
         /\ \A q \in DOMAIN ops : q # o => BookedAs(q)' /\ AtPrice(q)'
<1>1. /\ Touches(o) /\ UNCHANGED cut /\ o \in DOMAIN ops /\ ops[o].status = "COMPLETED"
      /\ ops'[o] = [ops[o] EXCEPT !.status = "CANCELLED"]
      /\ b \in DOMAIN batches /\ batches[b].source = <<"Operation", o>> /\ batches[b].status = "POSTED"
      /\ row \in J!Batch /\ row.status = "POSTED" /\ row.event = "REVERSAL"
      /\ row.lines = J!Opposite(batches[b].lines) /\ batches' = Append(Turned(batches, b), row)
      /\ \A n : row.source # <<"Operation", n>>
      /\ r \in Movement /\ r.op = o /\ AppendsRow(ops[o].account, r)
  BY DEF CancelledStep, Steady
<1>2. /\ DOMAIN batches' = DOMAIN batches \cup {Len(batches) + 1}
      /\ \A c \in DOMAIN batches : /\ c # b => batches'[c] = batches[c]
                                   /\ batches'[c].source = batches[c].source
      /\ batches'[b].lines = batches[b].lines /\ batches'[b].day = batches[b].day
      /\ batches'[b].status = "REVERSED"
      /\ batches'[Len(batches) + 1] = row
  BY <1>1, Reversed
<1>3. /\ TypeOK /\ ops[o] \in Operation /\ ops[o].account \in Accounts /\ cut.ops \in Nat /\ o \in Nat
      /\ ops'[o].status = "CANCELLED" /\ ops'[o].day = ops[o].day
      /\ ops'[o].account = ops[o].account /\ ops'[o].type = ops[o].type
      /\ ops'[o].amount = ops[o].amount /\ ops'[o].fee = ops[o].fee
  <2>1. TypeOK /\ ops[o] \in Operation /\ ops[o].account \in Accounts /\ cut.ops \in Nat /\ o \in Nat
    BY <1>1, OperationRecord DEF CutoverTypeOK
  <2> QED
    BY <1>1, <2>1 DEF Operation
<1>4. \A q : BatchesOf(q)' = BatchesOf(q)
  <2>1. \A q : \A c \in DOMAIN batches' : c \in DOMAIN batches \/ batches'[c].source # <<"Operation", q>>
    BY <1>1, <1>2
  <2> QED
    BY <1>2, <2>1 DEF BatchesOf
<1>5. b \in BatchesOf(o) /\ BookedAs(o)
  BY <1>1 DEF BatchesOf, Agreed
<1>6. ~(o <= cut.ops) /\ BatchesOf(o) = {b} /\ batches[b].day = ops[o].day
      /\ batches[b].lines = OperationLines(ops[o], o \in credited)
  BY <1>1, <1>5 DEF BookedAs
<1>7. BookedAs(o)' /\ AtPrice(o)'
  <2>1. (o \in credited') = (o \in credited)
    BY DEF CancelledStep
  <2>2. OperationLines(ops'[o], o \in credited') = OperationLines(ops[o], o \in credited)
    <3>1. \A p : OperationLines(ops'[o], p) = OperationLines(ops[o], p)
      BY <1>3 DEF OperationLines
    <3> QED
      BY <2>1, <3>1
  <2>3. /\ BatchesOf(o)' = {b} /\ batches'[b].status = "REVERSED" /\ batches'[b].day = ops'[o].day
        /\ batches'[b].lines = OperationLines(ops'[o], o \in credited')
    BY <1>2, <1>3, <1>4, <1>6, <2>2
  <2>4. BookedAs(o)'
    BY <1>1, <1>3, <1>6, <2>3 DEF BookedAs
  <2>5. AtPrice(o)'
    BY <1>3 DEF AtPrice
  <2> QED
    BY <2>4, <2>5
<1>8. ASSUME NEW q \in DOMAIN ops, q # o PROVE BookedAs(q)' /\ AtPrice(q)'
  <2>1. ops'[q] = ops[q] /\ (q \in credited') = (q \in credited) /\ BookedAs(q) /\ AtPrice(q)
    BY <1>1, <1>8 DEF Touches, Agreed
  <2>2. \E a \in Accounts, s \in Movement : s.op # q /\ AppendsRow(a, s)
    BY <1>1, <1>3, <1>8
  <2>3. AtPrice(q)'
    BY <1>1, <1>3, <2>1, <2>2, PriceKept
  <2>4. OperationLines(ops'[q], q \in credited') = OperationLines(ops[q], q \in credited)
    BY <2>1
  <2>5. \A c \in BatchesOf(q) : c # b /\ batches'[c] = batches[c]
    BY <1>1, <1>2, <1>8 DEF BatchesOf
  <2>6. BookedAs(q)'
    <3>1. cut'.ops = cut.ops /\ BatchesOf(q)' = BatchesOf(q)
      BY <1>1, <1>4
    <3>2. CASE q <= cut.ops \/ ops[q].status = "PENDING"
      BY <2>1, <3>1, <3>2 DEF BookedAs
    <3>3. CASE ~(q <= cut.ops \/ ops[q].status = "PENDING")
      <4>1. PICK c \in BatchesOf(q) :
               /\ BatchesOf(q) = {c}
               /\ batches[c].status = (IF ops[q].status = "COMPLETED" THEN "POSTED" ELSE "REVERSED")
               /\ batches[c].day = ops[q].day
               /\ batches[c].lines = OperationLines(ops[q], q \in credited)
        BY <2>1, <3>3 DEF BookedAs
      <4>2. batches'[c] = batches[c]
        BY <2>5
      <4> QED
        BY <2>1, <2>4, <3>1, <3>3, <4>1, <4>2 DEF BookedAs
    <3> QED
      BY <3>2, <3>3
  <2> QED
    BY <2>3, <2>6
<1>9. o > cut.ops
  BY <1>3, <1>6
<1> QED
  BY <1>6, <1>7, <1>8, <1>9

LEMMA CancelledAgrees ==
  ASSUME CutoverTypeOK, TypeOK', AttributionsTyped', Sourced, Agreed,
         NEW o, NEW i, NEW b, NEW row, NEW r, CancelledStep(o, i, b, row, r)
  PROVE  CutoverTypeOK' /\ Sourced' /\ Agreed'
<1>0. /\ Touches(o) /\ UNCHANGED cut /\ o \in DOMAIN ops /\ ops[o].status = "COMPLETED"
      /\ b \in DOMAIN batches /\ batches[b].source = <<"Operation", o>> /\ batches[b].status = "POSTED"
      /\ row \in J!Batch /\ row.status = "POSTED" /\ row.event = "REVERSAL"
      /\ row.lines = J!Opposite(batches[b].lines) /\ batches' = Append(Turned(batches, b), row)
      /\ \A n : row.source # <<"Operation", n>>
      /\ i \in Originals(o)
  BY DEF CancelledStep, Steady
<1>1. /\ batches' \in Seq(J!Batch)
      /\ DOMAIN batches' = DOMAIN batches \cup {Len(batches) + 1}
      /\ \A c \in DOMAIN batches : batches'[c].source = batches[c].source
      /\ batches'[Len(batches) + 1] = row
      /\ \A a : /\ BookedIn(batches, a) \in Int /\ J!DebitTo(batches[b].lines, a) \in Int
                /\ BookedIn(batches', a) = BookedIn(batches, a) - J!DebitTo(batches[b].lines, a)
                /\ PaidIn(batches', a) = PaidIn(batches, a)
  BY <1>0, Reversed
<1>2. CutoverTypeOK'
  BY <1>1, SteadyTyped DEF CancelledStep
<1>3. Sourced'
  BY <1>0, <1>1 DEF Sourced, Touches
<1>4. /\ o > cut.ops /\ batches[b].lines = OperationLines(ops[o], o \in credited)
      /\ BookedAs(o)' /\ AtPrice(o)'
      /\ \A q \in DOMAIN ops : q # o => BookedAs(q)' /\ AtPrice(q)'
  BY CancelledBook
<1> DEFINE d(a) == J!DebitTo(batches[b].lines, a)
           acc == ops[o].account
           delta == log[acc][i].delta
           s == ShareOf(ops[o], o \in credited)
<1>5. /\ \A a \in Accounts : d(a) = IF a = acc THEN Impact(ops[o].type, ops[o].amount, ops[o].fee) ELSE 0
      /\ d(Safe) = 0 /\ d(Due) = -s
  <2>1. PICK partnered \in BOOLEAN : partnered = (o \in credited)
    <3>1. CASE o \in credited
      <4>1. TRUE = (o \in credited)
        BY <3>1
      <4> QED
        BY <4>1
    <3>2. CASE o \notin credited
      <4>1. FALSE = (o \in credited)
        BY <3>2
      <4> QED
        BY <4>1
    <3> QED
      BY <3>1, <3>2
  <2>2. batches[b].lines = OperationLines(ops[o], partnered)
    BY <1>4, <2>1
  <2>3. ops[o] \in Operation
    BY <1>0, OperationRecord DEF CutoverTypeOK
  <2> QED
    BY <2>1, <2>2, <2>3, OperationDebits
<1>6. delta = Impact(ops[o].type, ops[o].amount, ops[o].fee)
  BY <1>0, <1>4 DEF Agreed, AtPrice
<1>7. \A a \in Accounts : Explained(a)' = Explained(a) - (IF a = acc THEN delta ELSE 0)
  BY DEF CancelledStep
<1>8. /\ Shares("COMPLETED") = Shares("COMPLETED")' + s /\ Shares("CANCELLED")' = Shares("CANCELLED") + s
      /\ s \in Nat /\ Shares("COMPLETED")' \in Int
  BY <1>2, <1>4, CancelledShare
<1> HIDE DEF d, acc, delta, s
<1>9. CashMatches'
  <2>1. CashMatches
    BY DEF Agreed
  <2>2. \A a \in Accounts : Explained(a) = BookedIn(batches, a) - PaidIn(batches, a)
    BY <2>1 DEF CashMatches, Said
  <2>3. \A a \in Accounts : Explained(a)' = Explained(a) - d(a)
    BY <1>5, <1>6, <1>7
  <2>4. \A a \in Accounts : /\ BookedIn(batches', a) = BookedIn(batches, a) - d(a) /\ d(a) \in Int
                            /\ BookedIn(batches, a) \in Int
                            /\ PaidIn(batches', a) = PaidIn(batches, a) /\ PaidIn(batches, a) \in Int
    BY <1>1, PaidInt DEF d, CutoverTypeOK
  <2>5. \A a \in Accounts : Explained(a)' = BookedIn(batches', a) - PaidIn(batches', a)
    BY <2>2, <2>3, <2>4
  <2>6. BookedIn(batches', Safe) = BookedIn(batches, Safe) - d(Safe) /\ BookedIn(batches, Safe) \in Int
    BY <1>1 DEF d
  <2>7. reserve' = BookedIn(batches', Safe)
    BY <1>5, <2>1, <2>6 DEF CashMatches, CancelledStep
  <2> QED
    BY <2>5, <2>7 DEF CashMatches, Said
<1>10. PartnerMatches'
  <2>1. Shares("COMPLETED") \in Nat /\ Shares("CANCELLED") \in Nat
    BY SharesNat
  <2>2. /\ -BookedIn(batches, Due) = Shares("COMPLETED") - PaidIn(batches, Due)
        /\ PaidIn(batches, Due) <= Shares("COMPLETED") + Shares("CANCELLED")
    BY DEF Agreed, PartnerMatches
  <2>3. /\ BookedIn(batches', Due) = BookedIn(batches, Due) - d(Due) /\ BookedIn(batches, Due) \in Int
        /\ PaidIn(batches', Due) = PaidIn(batches, Due) /\ PaidIn(batches, Due) \in Int
    BY <1>1, PaidInt DEF d, CutoverTypeOK
  <2>4. -BookedIn(batches', Due) = Shares("COMPLETED")' - PaidIn(batches', Due)
    BY <1>5, <1>8, <2>1, <2>2, <2>3
  <2>5. PaidIn(batches', Due) <= Shares("COMPLETED")' + Shares("CANCELLED")'
    BY <1>8, <2>1, <2>2, <2>3
  <2> QED
    BY <2>4, <2>5 DEF PartnerMatches
<1>11. DOMAIN ops' = DOMAIN ops \cup {o}
  BY <1>0 DEF Touches
<1> QED
  BY <1>2, <1>3, <1>4, <1>9, <1>10, <1>11 DEF Agreed

-----------------------------------------------------------------------------
(* What each service is, once the engine is on *)

LEMMA QuietPost ==
  ASSUME CutoverTypeOK, NEW a \in Accounts, NEW delta \in Int, NEW kind \in MovementKinds, Post(a, delta, kind, 0)
  PROVE  QuietLog
<1>1. CashTypeOK /\ 0 \in Nat
  BY DEF CutoverTypeOK, TypeOK
<1>2. \E row \in Movement : /\ row.kind = kind /\ row.op = 0
                            /\ log' = [log EXCEPT ![a] = Append(log[a], row)]
  BY <1>1, PostRow
<1> QED
  BY <1>2 DEF QuietLog, AppendsRow

\* Recording a transfer between accounts other than the partner's.
LEMMA TransferEvent ==
  ASSUME CutoverTypeOK, engine = "ON", SameEngine, UNCHANGED <<ops, credited>>, QuietLog,
         NEW model \in J!Models \ {"Operation"}, NEW n \in Nat, NEW event \in {"CAPITAL", "CASH_TRANSFER"},
         NEW to \in FinAccounts \ {Due}, NEW from \in FinAccounts \ {Due}, NEW k \in Int, NEW accounts,
         Record(<<model, n>>, event, today, Transfer(to, from, k), accounts),
         \A a \in Accounts : cut'.rows[a] <= Len(log'[a]),
         \A a \in Accounts : Explained(a)' = Explained(a) + ((IF a = to THEN k ELSE 0) - (IF a = from THEN k ELSE 0)),
         reserve' = reserve + ((IF Safe = to THEN k ELSE 0) - (IF Safe = from THEN k ELSE 0))
  PROVE  \E row : EventStep(row)
<1>1. PICK lines : lines = Transfer(to, from, k)
  OBVIOUS
<1>2. /\ lines \in Seq(J!Line)
      /\ \A a : J!DebitTo(lines, a) = (IF a = to THEN k ELSE 0) - (IF a = from THEN k ELSE 0)
  BY <1>1, TransferDebits
<1>3. today \in Days /\ event \in J!Events /\ model \in J!Models
  BY DEF CutoverTypeOK, TypeOK, CashTypeOK, J!Events
<1>4. Record(<<model, n>>, event, today, lines, accounts)
  BY <1>1
<1>5. /\ cached' \in [FinAccounts -> Int]
      /\ \E row \in J!Batch : /\ Recorded(row, <<model, n>>, event, today, lines)
                              /\ batches' = Append(batches, row)
  BY <1>2, <1>3, <1>4, RecordOn
<1>6. PICK row \in J!Batch : /\ Recorded(row, <<model, n>>, event, today, lines)
                             /\ batches' = Append(batches, row)
  BY <1>5
<1>7. /\ row.status = "POSTED" /\ row.lines = lines /\ ~Payment(row)
      /\ \A m : row.source # <<"Operation", m>>
  <2>1. event \notin PaymentEvents
    BY DEF PaymentEvents
  <2>2. \A m : <<model, n>> # <<"Operation", m>>
    OBVIOUS
  <2> QED
    BY <1>6, <2>1, <2>2 DEF Recorded, Payment
<1>8. Steady
  BY <1>5 DEF Steady, SameEngine, CutoverTypeOK
<1>9. \A a \in Accounts : Explained(a)' = Explained(a) + J!DebitTo(row.lines, a)
  BY <1>2, <1>7
<1>10. reserve' = reserve + J!DebitTo(row.lines, Safe) /\ J!DebitTo(row.lines, Due) = 0
  BY <1>2, <1>7
<1> QED
  BY <1>6, <1>7, <1>8, <1>9, <1>10 DEF EventStep

LEMMA CapitalEvent ==
  ASSUME CutoverTypeOK, engine = "ON", NEW u, NEW amount \in Amounts, NEW direction,
         AdjustCapital(u, amount, direction)
  PROVE  \E row : EventStep(row)
<1>1. PICK n \in Int : n = IF direction = "IN" THEN amount ELSE -amount
  BY CashAssumption
<1>2. /\ AdjustGlobalCash(u, amount, direction) /\ SameEngine /\ UNCHANGED <<opsVars, credited>>
      /\ Record(<<"GlobalCashMovement", Len(reserveLog) + 1>>, "CAPITAL", today, Transfer(Safe, Capital, n), {Safe})
  BY <1>1 DEF AdjustCapital, attributions
<1>3. reserve' = reserve + n /\ UNCHANGED <<balance, log>>
  BY <1>1, <1>2 DEF AdjustGlobalCash, ApplyGlobalMovement, accountVars
<1>4. Safe \in FinAccounts \ {Due} /\ Capital \in FinAccounts \ {Due} /\ Safe # Capital
      /\ \A a \in Accounts : a # Safe /\ a # Capital
  BY AccountsApart
<1>5. Len(reserveLog) + 1 \in Nat /\ reserve \in Int
  BY DEF CutoverTypeOK, TypeOK, CashTypeOK
<1>6. UNCHANGED <<cut, ops, credited>> /\ QuietLog
  BY <1>2, <1>3 DEF SameEngine, opsVars, QuietLog
<1>7. /\ \A a \in Accounts : cut'.rows[a] <= Len(log'[a])
      /\ \A a \in Accounts : Explained(a)' = Explained(a)
  BY <1>3, <1>6, ExplainedSame
<1>8. \A a \in Accounts : Explained(a)' = Explained(a) + ((IF a = Safe THEN n ELSE 0) - (IF a = Capital THEN n ELSE 0))
  <2>1. \A a \in Accounts : Explained(a) \in Int
    BY AdjustedInt DEF Explained
  <2> QED
    BY <1>4, <1>7, <2>1
<1>9. reserve' = reserve + ((IF Safe = Safe THEN n ELSE 0) - (IF Safe = Capital THEN n ELSE 0))
  BY <1>3, <1>4
<1> QED
  BY <1>2, <1>4, <1>5, <1>6, <1>7, <1>8, <1>9, TransferEvent DEF J!Models

LEMMA FundingEvent ==
  ASSUME CutoverTypeOK, engine = "ON", NEW u, NEW c \in Accounts, NEW amount \in Amounts, Fund(u, c, amount)
  PROVE  \E row : EventStep(row)
<1>1. amount \in Int
  BY CashAssumption
<1>2. /\ AllocateCash(u, c, amount) /\ SameEngine /\ UNCHANGED <<opsVars, credited>>
      /\ Record(<<"CashFunding", Len(reserveLog) + 1>>, "CASH_TRANSFER", today, Transfer(c, Safe, amount), {c, Safe})
  BY DEF Fund, attributions
<1>3. reserve' = reserve + -amount /\ Post(c, amount, "OPENING", 0)
  BY <1>2 DEF AllocateCash, ApplyGlobalMovement, ApplyMovement
<1>4. Safe \in FinAccounts \ {Due} /\ c \in FinAccounts \ {Due} /\ \A a \in Accounts : a # Safe
  BY AccountsApart
<1>5. Len(reserveLog) + 1 \in Nat /\ reserve \in Int
  BY DEF CutoverTypeOK, TypeOK, CashTypeOK
<1>6. UNCHANGED <<cut, ops, credited>> /\ QuietLog
  <2>1. "OPENING" \in MovementKinds
    BY DEF MovementKinds
  <2> QED
    BY <1>1, <1>2, <1>3, <2>1, QuietPost DEF SameEngine, opsVars
<1>7. /\ \A a \in Accounts : cut'.rows[a] <= Len(log'[a])
      /\ \A a \in Accounts : Explained(a)' = Explained(a) +
            (IF a = c /\ ("OPENING" # "ADJUSTMENT" \/ 0 # 0) THEN amount ELSE 0)
  <2>1. "OPENING" \in MovementKinds /\ 0 \in Nat
    BY DEF MovementKinds
  <2> QED
    BY <1>1, <1>3, <1>6, <2>1, ExplainedNext
<1>8. \A a \in Accounts : Explained(a)' = Explained(a) + ((IF a = c THEN amount ELSE 0) - (IF a = Safe THEN amount ELSE 0))
  BY <1>1, <1>4, <1>7
<1>9. reserve' = reserve + ((IF Safe = c THEN amount ELSE 0) - (IF Safe = Safe THEN amount ELSE 0))
  BY <1>1, <1>3, <1>4, <1>5
<1> QED
  BY <1>1, <1>2, <1>4, <1>5, <1>6, <1>7, <1>8, <1>9, TransferEvent DEF J!Models

LEMMA HandoverEvent ==
  ASSUME CutoverTypeOK, engine = "ON", NEW u, NEW h \in DOMAIN handovers, ReceiveHandover(u, h)
  PROVE  \E row : EventStep(row)
<1>1. PICK c, amount : c = handovers[h].account /\ amount = handovers[h].amount
  OBVIOUS
<1>2. c \in Accounts /\ amount \in Int /\ -amount \in Int /\ h \in Nat
  BY <1>1, HandoverRow DEF CutoverTypeOK, TypeOK, CashTypeOK
<1>3. /\ ConfirmHandover(u, h) /\ SameEngine /\ UNCHANGED <<opsVars, credited>>
      /\ Record(<<"CashHandover", h>>, "CASH_TRANSFER", today, Transfer(Safe, c, amount), {})
  BY <1>1 DEF ReceiveHandover, attributions
<1>4. reserve' = reserve + amount /\ Post(c, -amount, "HANDOVER", 0)
  BY <1>1, <1>3 DEF ConfirmHandover, ApplyGlobalMovement, ApplyMovement
<1>5. Safe \in FinAccounts \ {Due} /\ c \in FinAccounts \ {Due} /\ \A a \in Accounts : a # Safe
  BY <1>2, AccountsApart
<1>6. UNCHANGED <<cut, ops, credited>> /\ QuietLog
  <2>1. "HANDOVER" \in MovementKinds
    BY DEF MovementKinds
  <2> QED
    BY <1>2, <1>3, <1>4, <2>1, QuietPost DEF SameEngine, opsVars
<1>7. /\ \A a \in Accounts : cut'.rows[a] <= Len(log'[a])
      /\ \A a \in Accounts : Explained(a)' = Explained(a) +
            (IF a = c /\ ("HANDOVER" # "ADJUSTMENT" \/ 0 # 0) THEN -amount ELSE 0)
  <2>1. "HANDOVER" \in MovementKinds /\ 0 \in Nat
    BY DEF MovementKinds
  <2> QED
    BY <1>2, <1>4, <1>6, <2>1, ExplainedNext
<1>8. \A a \in Accounts : Explained(a)' = Explained(a) + ((IF a = Safe THEN amount ELSE 0) - (IF a = c THEN amount ELSE 0))
  BY <1>2, <1>5, <1>7
<1>9. reserve \in Int /\ reserve' = reserve + ((IF Safe = Safe THEN amount ELSE 0) - (IF Safe = c THEN amount ELSE 0))
  BY <1>2, <1>4, <1>5 DEF CutoverTypeOK, TypeOK, CashTypeOK
<1> QED
  BY <1>2, <1>3, <1>5, <1>6, <1>7, <1>8, <1>9, TransferEvent DEF J!Models

\* A payment is an event of its own.
LEMMA PaymentEvent ==
  ASSUME CutoverTypeOK, NEW u, NEW c \in Accounts \cup {Safe}, NEW amount \in Amounts \cup Fees,
         NEW token \in Tokens, Pays(u, c, amount, token)
  PROVE  \E row : EventStep(row)
<1>1. amount \in Int /\ -amount \in Int
  BY CashAssumption, OperationsAssumption
<1>2. PICK debt, key, source, event : /\ PaidWith(debt, key, source, event)
                                      /\ PayFrom(c, debt, amount, key, source, event)
                                      /\ debt = Due => amount <= J!LedgerBalance(Due)
  BY PaymentForms
<1>3. PICK lines, row : /\ lines = Transfer(debt, c, amount)
                        /\ row = J!NewBatch(key, source, event, today, lines, "POSTED", 0)
  OBVIOUS
<1>4. /\ amount > 0 /\ J!Post(today, lines, FALSE) /\ batches' = Append(batches, row)
      /\ IF c = Safe
         THEN ApplyGlobalMovement(-amount, "CAPITAL_OUT", NoAccount, 0) /\ UNCHANGED <<balance, log>>
         ELSE ApplyMovement(c, -amount, "ADJUSTMENT", 0) /\ UNCHANGED <<reserve, reserveLog>>
      /\ UNCHANGED <<ops, engine, cut, credited>>
  <2>1. amount > 0 /\ J!Post(today, lines, FALSE) /\ batches' = Append(batches, row)
    BY <1>2, <1>3, Zenon DEF PayFrom
  <2> QED
    BY <2>1, PaymentMoves DEF Withdraws, opsVars
<1>5. /\ c \in FinAccounts /\ debt \in FinAccounts /\ debt # c /\ Due # c /\ Safe # debt
      /\ \A a \in Accounts : a # debt /\ a # Safe
  BY <1>2, AccountsApart DEF PaidWith
<1>6. /\ lines \in Seq(J!Line)
      /\ \A a : J!DebitTo(lines, a) = (IF a = debt THEN amount ELSE 0) - (IF a = c THEN amount ELSE 0)
  BY <1>1, <1>3, <1>5, TransferDebits
<1>7. /\ row \in J!Batch /\ row.status = "POSTED" /\ row.lines = lines /\ row.event = event
      /\ row.source = source
  <2>1. today \in Days /\ event \in J!Events
    BY <1>2 DEF CutoverTypeOK, TypeOK, CashTypeOK, PaidWith, PaymentEvents, J!Events
  <2> QED
    BY <1>2, <1>3, <1>6, <2>1 DEF PaidWith, J!NewBatch, J!Batch, J!Days, Days
<1>8. Payment(row) /\ \A n : row.source # <<"Operation", n>>
  BY <1>2, <1>7 DEF Payment, PaidWith
<1>9. /\ QuietLog /\ \A a \in Accounts : cut'.rows[a] <= Len(log'[a])
      /\ \A a \in Accounts : Explained(a)' = Explained(a)
      /\ reserve' = reserve + (IF Safe = c THEN -amount ELSE 0)
  <2>1. reserve \in Int
    BY DEF CutoverTypeOK, TypeOK, CashTypeOK
  <2>2. CASE c = Safe
    <3>1. UNCHANGED <<cut, balance, log>> /\ reserve' = reserve + -amount
      BY <1>4, <2>2 DEF ApplyGlobalMovement
    <3> QED
      BY <2>2, <3>1, ExplainedSame DEF QuietLog
  <2>3. CASE c # Safe
    <3>1. Post(c, -amount, "ADJUSTMENT", 0) /\ UNCHANGED <<reserve, cut>> /\ c \in Accounts
      BY <1>4, <2>3 DEF ApplyMovement
    <3>2. "ADJUSTMENT" \in MovementKinds /\ 0 \in Nat
      BY DEF MovementKinds
    <3>3. QuietLog
      BY <1>1, <3>1, <3>2, QuietPost
    <3>4. /\ \A a \in Accounts : cut'.rows[a] <= Len(log'[a])
          /\ \A a \in Accounts : Explained(a)' = Explained(a) +
                (IF a = c /\ ("ADJUSTMENT" # "ADJUSTMENT" \/ 0 # 0) THEN -amount ELSE 0)
      BY <1>1, <3>1, <3>2, ExplainedNext
    <3>5. \A a \in Accounts : Explained(a) \in Int
      BY AdjustedInt DEF Explained
    <3> QED
      BY <2>1, <2>3, <3>1, <3>3, <3>4, <3>5
  <2> QED
    BY <2>2, <2>3
<1>10. cached' \in [FinAccounts -> Int]
  <2>1. J!Post(today, lines, FALSE)
    BY <1>4
  <2> QED
    BY <1>6, <2>1, PostedCache
<1>11. Steady
  BY <1>4, <1>9, <1>10 DEF Steady, CutoverTypeOK
<1>12. reserve' = reserve + J!DebitTo(row.lines, Safe)
  <2>1. J!DebitTo(row.lines, Safe) = 0 - (IF Safe = c THEN amount ELSE 0)
    BY <1>5, <1>6, <1>7
  <2> QED
    BY <1>1, <1>9, <2>1
<1>13. J!DebitTo(row.lines, Due) # 0 => J!DebitTo(row.lines, Due) <= -BookedIn(batches, Due)
  <2>1. J!DebitTo(row.lines, Due) = (IF Due = debt THEN amount ELSE 0) - (IF Due = c THEN amount ELSE 0)
    BY <1>6, <1>7, Zenon
  <2>2. J!DebitTo(row.lines, Due) = IF Due = debt THEN amount ELSE 0
    BY <1>1, <1>5, <2>1
  <2>3. J!LedgerBalance(Due) = -BookedIn(batches, Due)
    BY Balances DEF CutoverTypeOK
  <2> QED
    BY <1>2, <2>2, <2>3
<1>14. \A a \in Accounts : Explained(a)' = Explained(a) + (IF Payment(row) THEN 0 ELSE J!DebitTo(row.lines, a))
  <2>1. \A a \in Accounts : Explained(a) \in Int
    BY AdjustedInt DEF Explained
  <2> QED
    BY <1>8, <1>9, <2>1
<1> QED
  BY <1>4, <1>7, <1>8, <1>9, <1>11, <1>12, <1>13, <1>14 DEF EventStep

\* A service that completes operation o and records it.
LEMMA CompletedBy ==
  ASSUME CutoverTypeOK, engine = "ON", SameEngine, NEW o, Touches(o), NEW op \in Operation, op = ops'[o],
         op.status = "COMPLETED", o \in DOMAIN ops => ops[o].status = "PENDING" /\ ops[o].account = op.account,
         o \notin credited, RecordOperation(o), ApplyMovement(op.account, Impact(op.type, op.amount, op.fee), "OPERATION", o),
         UNCHANGED reserve
  PROVE  \E row, r : CompletedStep(o, op, row, r)
<1>1. PICK c, delta : c = op.account /\ delta = Impact(op.type, op.amount, op.fee)
  OBVIOUS
<1>2. c \in Accounts /\ op.amount \in Nat /\ op.fee \in Nat /\ op.day \in Days
  BY <1>1 DEF Operation
<1>3. delta \in Int /\ o \in Nat \ {0} /\ "OPERATION" \in MovementKinds /\ UNCHANGED <<engine, cut>>
  BY <1>1, <1>2, ImpactType DEF Touches, MovementKinds, SameEngine
<1>4. Post(c, delta, "OPERATION", o)
  BY <1>1 DEF ApplyMovement
<1>5. PICK r \in Movement : /\ r.kind = "OPERATION" /\ r.op = o /\ r.delta = delta
                            /\ log' = [log EXCEPT ![c] = Append(log[c], r)]
  BY <1>2, <1>3, <1>4, PostedRow DEF CutoverTypeOK, TypeOK
<1>6. /\ \A a \in Accounts : cut'.rows[a] <= Len(log'[a])
      /\ \A a \in Accounts : Explained(a)' = Explained(a) +
            (IF a = c /\ ("OPERATION" # "ADJUSTMENT" \/ o # 0) THEN delta ELSE 0)
  <2>1. UNCHANGED cut /\ o \in Nat
    BY <1>3
  <2> QED
    BY <1>2, <1>3, <1>4, <2>1, ExplainedNext, SMTT(60)
<1>7. OperationLines(op, o \in attributed') = OperationLines(op, o \in credited')
  <2>1. credited' = IF o \in attributed' THEN credited \cup {o} ELSE credited
    BY DEF RecordOperation
  <2>2. o \in attributed' <=> o \in credited'
    BY <2>1
  <2>3. (o \in attributed') = (o \in credited')
    BY <2>2
  <2> QED
    BY <2>3
<1>8. PICK lines : lines = OperationLines(op, o \in credited')
  OBVIOUS
<1>9. lines \in Seq(J!Line)
  <2>1. CASE o \in credited'
    <3>0. TRUE = (o \in credited')
      BY <2>1
    <3>1. lines = OperationLines(op, TRUE)
      BY <1>8, <3>0
    <3> QED
      BY <3>1, OperationDebits
  <2>2. CASE o \notin credited'
    <3>0. FALSE = (o \in credited')
      BY <2>2
    <3>1. lines = OperationLines(op, FALSE)
      BY <1>8, <3>0
    <3> QED
      BY <3>1, OperationDebits
  <2> QED
    BY <2>1, <2>2
<1>10. Record(<<"Operation", o>>, "OPERATION", op.day, lines, {c}) /\ o > cut.ops
  BY <1>1, <1>8, <1>7 DEF RecordOperation
<1>11. /\ cached' \in [FinAccounts -> Int]
       /\ \E row \in J!Batch : /\ Recorded(row, <<"Operation", o>>, "OPERATION", op.day, lines)
                               /\ batches' = Append(batches, row)
  <2>1. "Operation" \in J!Models /\ "OPERATION" \in J!Events /\ o \in Nat
    BY <1>3 DEF J!Models, J!Events
  <2> QED
    BY <1>2, <1>9, <1>10, <2>1, RecordOn
<1>12. PICK row \in J!Batch : /\ Recorded(row, <<"Operation", o>>, "OPERATION", op.day, lines)
                              /\ batches' = Append(batches, row)
  BY <1>11
<1>13. Steady
  BY <1>3, <1>6, <1>11 DEF Steady, Touches, CutoverTypeOK
<1>14. AppendsRow(op.account, r)
  BY <1>1, <1>5 DEF AppendsRow
<1>15. \A a \in Accounts : Explained(a)' = Explained(a) + (IF a = op.account THEN r.delta ELSE 0)
  BY <1>1, <1>5, <1>6
<1>16. Recorded(row, <<"Operation", o>>, "OPERATION", op.day, OperationLines(op, o \in credited'))
  BY <1>8, <1>12
<1>17. r.delta = Impact(op.type, op.amount, op.fee)
  BY <1>1, <1>5
<1> QED
  BY <1>5, <1>10, <1>12, <1>13, <1>14, <1>15, <1>16, <1>17 DEF CompletedStep

\* A creation touches the new operation only.
LEMMA CreatedTouches ==
  ASSUME CutoverTypeOK, NEW u \in Users, NEW a \in Accounts, NEW type \in OpTypes,
         NEW status \in {"PENDING", "COMPLETED"}, NEW amount \in Nat, NEW fee \in Nat, NEW key,
         CreateOperation(u, a, type, status, amount, fee, key), credited' \in {credited, credited \cup {Len(ops) + 1}}
  PROVE  \E o, op : /\ o = Len(ops) + 1 /\ o \notin DOMAIN ops /\ Touches(o)
                    /\ op \in Operation /\ op = ops'[o] /\ op.type = type /\ op.status = status
                    /\ op.account = a /\ op.amount = amount /\ op.fee = fee
<1>1. PICK op : op = [type |-> type, status |-> status, agent |-> u, account |-> a,
                      amount |-> amount, fee |-> fee, day |-> today]
  OBVIOUS
<1>2. /\ op \in Operation /\ op.type = type /\ op.status = status /\ op.account = a
      /\ op.amount = amount /\ op.fee = fee
  BY <1>1 DEF Operation, CutoverTypeOK, TypeOK, CashTypeOK
<1>3. PICK o : o = Len(ops) + 1
  OBVIOUS
<1>4. ops' = Append(ops, op) /\ ops \in Seq(Operation)
  BY <1>1 DEF CreateOperation, CutoverTypeOK, TypeOK
<1>5. /\ o \in Nat \ {0} /\ o \notin DOMAIN ops
      /\ DOMAIN ops' = DOMAIN ops \cup {o} /\ ops'[o] = op
      /\ \A q \in DOMAIN ops : ops'[q] = ops[q]
  BY <1>2, <1>3, <1>4
<1>6. credited' = credited \/ credited' = credited \cup {o}
  BY <1>3
<1>7. Touches(o)
  BY <1>5, <1>6 DEF Touches
<1> QED
  BY <1>2, <1>3, <1>5, <1>7

\* Nothing but the rows of operations changes.
LEMMA PendingBy ==
  ASSUME CutoverTypeOK, SameEngine, NoEvent, UNCHANGED <<balance, log, reserve, credited>>,
         NEW o, Touches(o), ops'[o].status = "PENDING", o \in DOMAIN ops => ops[o].status = "PENDING"
  PROVE  PendingStep(o)
<1>1. UNCHANGED <<engine, cut, cached, batches, balance, log, reserve, credited>>
  BY DEF SameEngine, NoEvent
<1>2. /\ \A a \in Accounts : cut'.rows[a] <= Len(log'[a])
      /\ \A a \in Accounts : Explained(a)' = Explained(a)
  BY <1>1, ExplainedSame
<1>3. Steady
  BY <1>1, <1>2 DEF Steady, Touches, CutoverTypeOK
<1> QED
  BY <1>1, <1>2, <1>3 DEF PendingStep

Completes == \E o, op, row, r : CompletedStep(o, op, row, r)
Prepares == \E o : PendingStep(o)

LEMMA CreateKind ==
  ASSUME CutoverTypeOK, engine = "ON", NEW u \in Users, NEW a \in Accounts, NEW amount \in OpAmounts,
         NEW fee \in Fees, NEW key, NEW partnered, Create(u, a, amount, fee, key, partnered)
  PROVE  Completes \/ Prepares
<1>1. amount \in Nat /\ fee \in Nat /\ SameEngine
  BY OperationsAssumption DEF Create
<1>2. ASSUME NEW type \in {"SENT_TRANSFER", "WITHDRAWAL"}, NEW delta,
             CreateOperation(u, a, type, "COMPLETED", amount, fee, key),
             delta = IF type = "SENT_TRANSFER" THEN amount + fee ELSE fee - amount,
             ApplyMovement(a, delta, "OPERATION", Len(ops) + 1), OnlyMovement, RecordOperation(Len(ops) + 1)
      PROVE  Completes
  <2>1. PICK o, op : /\ o = Len(ops) + 1 /\ o \notin DOMAIN ops /\ Touches(o)
                     /\ op \in Operation /\ op = ops'[o] /\ op.type = type /\ op.status = "COMPLETED"
                     /\ op.account = a /\ op.amount = amount /\ op.fee = fee
    <3>1. credited' \in {credited, credited \cup {Len(ops) + 1}}
      BY <1>2 DEF RecordOperation
    <3> QED
      BY <1>1, <1>2, <3>1, CreatedTouches DEF OpTypes
  <2>2. delta = Impact(op.type, op.amount, op.fee)
    BY <1>1, <1>2, <2>1 DEF Impact
  <2>3. ApplyMovement(op.account, Impact(op.type, op.amount, op.fee), "OPERATION", o) /\ RecordOperation(o)
    BY <1>2, <2>1, <2>2
  <2>4. UNCHANGED reserve /\ o \notin credited
    BY <1>2, <2>1 DEF OnlyMovement, reserveVars, CutoverTypeOK
  <2> QED
    BY <1>1, <2>1, <2>3, <2>4, CompletedBy DEF Completes
<1>3. CASE CreateSentTransfer(u, a, amount, fee, key) /\ RecordOperation(Len(ops) + 1)
  BY <1>2, <1>3 DEF CreateSentTransfer
<1>4. CASE CreateWithdrawal(u, a, amount, fee, key) /\ RecordOperation(Len(ops) + 1)
  BY <1>2, <1>4 DEF CreateWithdrawal
<1>5. CASE ReceiveTransfer(u, a, amount, fee, key) /\ NoEvent /\ UNCHANGED credited
  <2>1. CreateOperation(u, a, "RECEIVED_TRANSFER", "PENDING", amount, fee, key) /\ UNCHANGED <<balance, log, reserve>>
    BY <1>5 DEF ReceiveTransfer, cashVars, reserveVars, accountVars
  <2>2. PICK o, op : /\ o = Len(ops) + 1 /\ o \notin DOMAIN ops /\ Touches(o)
                     /\ op = ops'[o] /\ op.status = "PENDING"
    BY <1>1, <1>5, <2>1, CreatedTouches DEF OpTypes
  <2> QED
    BY <1>1, <1>5, <2>1, <2>2, PendingBy DEF Prepares
<1> QED
  BY <1>3, <1>4, <1>5 DEF Create

\* An operation that is there is changed.
LEMMA ChangedTouches ==
  ASSUME CutoverTypeOK, NEW o \in DOMAIN ops, credited' \in {credited, credited \cup {o}},
         NEW new, ops' = [ops EXCEPT ![o] = new]
  PROVE  Touches(o) /\ ops'[o] = new
<1>1. o \in Nat \ {0} /\ credited \subseteq DOMAIN ops
  BY OperationRecord DEF CutoverTypeOK
<1>2. credited' \subseteq DOMAIN ops /\ \A q : q # o => (q \in credited' <=> q \in credited)
  BY <1>1
<1>3. DOMAIN ops' = DOMAIN ops /\ ops'[o] = new /\ \A q \in DOMAIN ops : q # o => ops'[q] = ops[q]
  BY Zenon
<1>4. DOMAIN ops \cup {o} = DOMAIN ops
  OBVIOUS
<1>5. credited' \subseteq credited \cup {o}
  OBVIOUS
<1> QED
  BY <1>1, <1>2, <1>3, <1>4, <1>5, Zenon DEF Touches

LEMMA PayKind ==
  ASSUME CutoverTypeOK, engine = "ON", NEW u \in Users, NEW o \in DOMAIN ops, Announced(o), BookedAs(o), Pay(u, o)
  PROVE  Completes
<1>1. PICK op : op = [ops[o] EXCEPT !.status = "COMPLETED"]
  OBVIOUS
<1>2. TypeOK /\ ops[o] \in Operation
  BY OperationRecord DEF CutoverTypeOK
<1>3. /\ PayReceivedTransfer(u, o) /\ RecordOperation(o) /\ SameEngine
      /\ ops[o].status = "PENDING"
      /\ credited' \in {credited, credited \cup {o}} /\ o \notin credited
  BY DEF Pay, PayReceivedTransfer, RecordOperation, BookedAs
<1>4. ops' = [ops EXCEPT ![o] = op]
  BY <1>1, <1>2, <1>3, CorrectionRows
<1>5. /\ op \in Operation /\ op.status = "COMPLETED" /\ op.account = ops[o].account
      /\ op.type = ops[o].type /\ op.amount = ops[o].amount /\ op.fee = ops[o].fee
  BY <1>1, <1>2 DEF Operation
<1>6. Touches(o) /\ op = ops'[o]
  BY <1>3, <1>4, ChangedTouches
<1>7. ops[o].fee - ops[o].amount = Impact(op.type, op.amount, op.fee)
  <2>1. ops[o].type = "RECEIVED_TRANSFER" /\ ops[o].fee \in Nat /\ ops[o].amount \in Nat
    BY <1>2, <1>3, OperationRecord DEF Announced
  <2> QED
    BY <1>5, <2>1 DEF Impact
<1>8. ApplyMovement(op.account, Impact(op.type, op.amount, op.fee), "OPERATION", o) /\ UNCHANGED reserve
  BY <1>3, <1>5, <1>7 DEF PayReceivedTransfer, OnlyMovement, reserveVars
<1> QED
  BY <1>3, <1>5, <1>6, <1>8, CompletedBy DEF Completes

LEMMA ReviseKind ==
  ASSUME CutoverTypeOK, engine = "ON", NEW u \in Users, NEW o \in DOMAIN ops, NEW amount, NEW fee,
         Revise(u, o, amount, fee)
  PROVE  Prepares
<1>1. /\ ReviseOperation(u, o, amount, fee) /\ ops[o].status = "PENDING" /\ NoEvent /\ SameEngine
      /\ UNCHANGED credited
  BY DEF Revise, attributions
<1>2. UNCHANGED <<balance, log, reserve>>
  BY <1>1 DEF ReviseOperation, OnlyMovement, reserveVars
<1>3. PICK op : op = [[ops[o] EXCEPT !.amount = amount] EXCEPT !.fee = fee]
  OBVIOUS
<1>4. ops' = [ops EXCEPT ![o] = op] /\ op.status = "PENDING"
  <2>1. TypeOK /\ ops[o] \in Operation
    BY OperationRecord DEF CutoverTypeOK
  <2>2. ops' = [ops EXCEPT ![o] = op]
    <3>1. ops' = [ops EXCEPT ![o] = [[ops[o] EXCEPT !.amount = amount] EXCEPT !.fee = fee]]
      BY <1>1, <2>1 DEF ReviseOperation, Operation, TypeOK
    <3> QED
      BY <1>3, <3>1
  <2>3. op.status = ops[o].status
    BY <1>3, <2>1 DEF Operation
  <2> QED
    BY <1>1, <2>2, <2>3
<1>5. Touches(o) /\ ops'[o] = op
  BY <1>1, <1>4, ChangedTouches
<1> QED
  BY <1>1, <1>2, <1>4, <1>5, PendingBy DEF Prepares

LEMMA CancelKind ==
  ASSUME CutoverTypeOK, engine = "ON", NEW u \in Users, NEW o \in DOMAIN ops, Cancel(u, o)
  PROVE  \E i, b, row, r : CancelledStep(o, i, b, row, r)
<1>1. /\ CancelOperation(u, o) /\ SameEngine /\ UNCHANGED credited
      /\ \E b \in DOMAIN batches : /\ batches[b].source = <<"Operation", o>>
                                   /\ J!Reversal(b, <<"cancel", o, "">>)
  BY DEF Cancel, attributions
<1>2. PICK b \in DOMAIN batches : /\ batches[b].source = <<"Operation", o>>
                                  /\ J!Reversal(b, <<"cancel", o, "">>)
  BY <1>1
<1>3. PICK lines : lines = J!Opposite(batches[b].lines)
  OBVIOUS
<1>4. PICK row : row = J!NewBatch(<<"cancel", o, "">>, <<"JournalBatch", b>>, "REVERSAL", today, lines, "POSTED", b)
  OBVIOUS
<1>5. /\ batches[b].status = "POSTED" /\ J!Post(today, lines, FALSE)
      /\ batches' = Append(Turned(batches, b), row)
  BY <1>2, <1>3, <1>4 DEF J!Reversal, Turned
<1>6. TypeOK /\ ops[o] \in Operation /\ o \in Nat \ {0} /\ ops[o].account \in Accounts /\ b \in Nat /\ today \in Days
  BY OperationRecord DEF CutoverTypeOK, TypeOK, CashTypeOK
<1>7. lines \in Seq(J!Line)
  <2>1. batches[b] \in J!Batch
    BY DEF CutoverTypeOK
  <2>2. batches[b].lines \in Seq(JP!Line)
    BY <2>1, SameJournal DEF J!Batch
  <2>3. \A s \in Seq(JP!Line) : JP!Opposite(s) \in Seq(JP!Line)
    BY JournalAssumed, JP!OppositeTyped
  <2> QED
    BY <1>3, <2>2, <2>3, SameJournal
<1>8. /\ row \in J!Batch /\ row.status = "POSTED" /\ row.event = "REVERSAL" /\ row.lines = lines
      /\ row.source = <<"JournalBatch", b>>
  <2>1. <<"cancel", o, "">> \in J!Key /\ <<"JournalBatch", b>> \in J!Source
    BY <1>6 DEF J!Key, J!Source, J!Models
  <2> QED
    BY <1>4, <1>6, <1>7, <2>1 DEF J!NewBatch, J!Batch, J!Events, J!Days, Days
<1>9. \A n : row.source # <<"Operation", n>>
  <2>1. \A n : <<"Operation", n>>[1] = "Operation" /\ <<"JournalBatch", b>>[1] = "JournalBatch"
    OBVIOUS
  <2>2. \A n : <<"JournalBatch", b>> # <<"Operation", n>>
    <3> SUFFICES ASSUME NEW n, <<"JournalBatch", b>> = <<"Operation", n>> PROVE FALSE
      OBVIOUS
    <3> QED
      BY <2>1
  <2> QED
    BY <1>8, <2>2, Zenon
<1>10. PICK i \in Originals(o) : ApplyMovement(ops[o].account, -log[ops[o].account][i].delta, "ADJUSTMENT", o)
  BY <1>1 DEF CancelOperation
<1>11. PICK c, delta : c = ops[o].account /\ delta = -log[ops[o].account][i].delta
  OBVIOUS
<1>12. c \in Accounts /\ delta \in Int /\ log[ops[o].account][i].delta \in Int
  BY <1>6, <1>11, OriginalDelta
<1>13. Post(c, delta, "ADJUSTMENT", o) /\ "ADJUSTMENT" \in MovementKinds /\ UNCHANGED <<engine, cut>>
  BY <1>1, <1>10, <1>11 DEF ApplyMovement, MovementKinds, SameEngine
<1>14. PICK r \in Movement : /\ r.kind = "ADJUSTMENT" /\ r.op = o /\ r.delta = delta
                             /\ log' = [log EXCEPT ![c] = Append(log[c], r)]
  BY <1>6, <1>12, <1>13, PostedRow DEF TypeOK
<1>15. /\ \A a \in Accounts : cut'.rows[a] <= Len(log'[a])
       /\ \A a \in Accounts : Explained(a)' = Explained(a) +
             (IF a = c /\ ("ADJUSTMENT" # "ADJUSTMENT" \/ o # 0) THEN delta ELSE 0)
  BY <1>6, <1>12, <1>13, ExplainedNext
<1>16. \A a \in Accounts :
          Explained(a)' = Explained(a) - (IF a = ops[o].account THEN log[ops[o].account][i].delta ELSE 0)
  <2>1. \A a \in Accounts : Explained(a) \in Int
    BY AdjustedInt DEF Explained
  <2> QED
    BY <1>6, <1>11, <1>12, <1>15, <2>1
<1>17. cached' \in [FinAccounts -> Int]
  <2>1. J!Post(today, lines, FALSE)
    BY <1>5
  <2> QED
    BY <1>6, <1>7, <2>1, PostedCache
<1>18. ops' = [ops EXCEPT ![o] = [ops[o] EXCEPT !.status = "CANCELLED"]] /\ ops[o].status = "COMPLETED"
  BY <1>1, <1>6, CorrectionRows DEF CancelOperation
<1>19. PICK op : op = [ops[o] EXCEPT !.status = "CANCELLED"]
  OBVIOUS
<1>20. Touches(o) /\ ops'[o] = op
  <2>1. ops' = [ops EXCEPT ![o] = op]
    BY <1>18, <1>19
  <2> QED
    BY <1>1, <2>1, ChangedTouches
<1>21. Steady
  BY <1>13, <1>15, <1>17, <1>20 DEF Steady, Touches, CutoverTypeOK
<1>22. UNCHANGED <<reserve, credited>>
  BY <1>1 DEF CancelOperation, OnlyMovement, reserveVars
<1>23. AppendsRow(ops[o].account, r)
  BY <1>11, <1>14 DEF AppendsRow
<1>24. row.lines = J!Opposite(batches[b].lines)
  BY <1>3, <1>8
<1>25. ops'[o] = [ops[o] EXCEPT !.status = "CANCELLED"]
  BY <1>19, <1>20
<1>26. CancelledStep(o, i, b, row, r)
  BY <1>2, <1>5, <1>8, <1>9, <1>10, <1>14, <1>16, <1>18, <1>20, <1>21, <1>22, <1>23, <1>24, <1>25, Zenon
     DEF CancelledStep
<1> QED
  BY <1>26

\* What leaves the journal alone.
LEMMA SilentKind ==
  ASSUME CutoverTypeOK, Unrecorded \/ Attributions \/ UNCHANGED cutoverVars
  PROVE  SilentStep
<1>1. UNCHANGED <<ops, credited, batches, cached, engine, cut>>
  BY DEF Unrecorded, Attributions, cutoverVars, bookVars, attributions, vars, opsVars
<1>2. /\ QuietLog /\ UNCHANGED reserve
      /\ \A a \in Accounts : cut'.rows[a] <= Len(log'[a])
      /\ \A a \in Accounts : Explained(a)' = Explained(a)
  <2>1. CASE UNCHANGED <<reserve, balance, log>>
    BY <1>1, <2>1, ExplainedSame DEF QuietLog
  <2>2. ASSUME NEW a \in Accounts, NEW delta \in Int, Post(a, delta, "ADJUSTMENT", 0), UNCHANGED reserve
        PROVE  /\ QuietLog /\ UNCHANGED reserve
               /\ \A b \in Accounts : cut'.rows[b] <= Len(log'[b])
               /\ \A b \in Accounts : Explained(b)' = Explained(b)
    <3>1. "ADJUSTMENT" \in MovementKinds /\ 0 \in Nat /\ UNCHANGED cut
      BY <1>1 DEF MovementKinds
    <3>2. QuietLog
      BY <2>2, <3>1, QuietPost
    <3>3. /\ \A b \in Accounts : cut'.rows[b] <= Len(log'[b])
          /\ \A b \in Accounts : Explained(b)' = Explained(b) +
                (IF b = a /\ ("ADJUSTMENT" # "ADJUSTMENT" \/ 0 # 0) THEN delta ELSE 0)
      BY <2>2, <3>1, ExplainedNext
    <3>4. \A b \in Accounts : Explained(b) \in Int
      BY AdjustedInt DEF Explained
    <3> QED
      BY <2>2, <3>2, <3>3, <3>4
  <2>3. ASSUME NEW u \in Users, NEW a \in Accounts, NEW d \in Days, NEW declared \in Counts, NEW justified \in BOOLEAN,
               CloseCashDay(u, a, d, declared, justified)
        PROVE  \/ UNCHANGED <<reserve, balance, log>>
               \/ \E delta \in Int : Post(a, delta, "ADJUSTMENT", 0) /\ UNCHANGED reserve
    <3>1. declared - balance[a] \in Int
      BY CashAssumption DEF CutoverTypeOK, TypeOK, CashTypeOK
    <3> QED
      BY <2>3, <3>1 DEF CloseCashDay, reserveVars
  <2>4. ASSUME \/ \E u \in Users, a \in Accounts, amount \in Amounts : HandoverCash(u, a, amount)
               \/ \E a \in Accounts, form \in AccountForms : EditAccount(a, form)
               \/ EditReserve \/ NextDay \/ Attributions \/ UNCHANGED cutoverVars
        PROVE  UNCHANGED <<reserve, balance, log>>
    BY <2>4 DEF Attributions, HandoverCash, EditAccount, EditReserve, NextDay, cutoverVars, vars, cashVars, reserveVars, accountVars
  <2> QED
    BY <2>1, <2>2, <2>3, <2>4 DEF Unrecorded
<1>3. Steady
  BY <1>1, <1>2 DEF Steady, CutoverTypeOK
<1> QED
  BY <1>1, <1>2, <1>3 DEF SilentStep

\* Once the engine is on, every step is of one of these kinds.
LEMMA StepOn ==
  ASSUME CutoverTypeOK, engine = "ON", \A o \in DOMAIN ops : Announced(o) /\ BookedAs(o),
         [CutoverNext]_cutoverVars
  PROVE  \/ SilentStep
         \/ \E row : EventStep(row)
         \/ Completes \/ Prepares
         \/ \E o, i, b, row, r : CancelledStep(o, i, b, row, r)
<1>1. CASE Unrecorded \/ Attributions \/ UNCHANGED cutoverVars
  BY <1>1, SilentKind
<1>2. CASE EnableLedger \/ \E u \in Users, before \in 0 .. Len(ops) : MigrateOpeningBalances(u, before)
  BY <1>2 DEF EnableLedger, MigrateOpeningBalances
<1>3. ASSUME NEW u \in Users, NEW amount \in Amounts, NEW direction \in {"IN", "OUT"},
             AdjustCapital(u, amount, direction)
      PROVE  \E row : EventStep(row)
  BY <1>3, CapitalEvent
<1>4. ASSUME NEW u \in Users, NEW amount \in Amounts, NEW a \in Accounts, Fund(u, a, amount)
      PROVE  \E row : EventStep(row)
  BY <1>4, FundingEvent
<1>5. ASSUME NEW u \in Users, NEW h \in DOMAIN handovers, ReceiveHandover(u, h) PROVE \E row : EventStep(row)
  BY <1>5, HandoverEvent
<1>6. ASSUME NEW u \in Users, NEW a \in Accounts, NEW amount \in OpAmounts, NEW fee \in Fees,
             NEW key \in Keys \cup {NoKey}, NEW partnered \in BOOLEAN, Create(u, a, amount, fee, key, partnered)
      PROVE  Completes \/ Prepares
  BY <1>6, CreateKind
<1>7. ASSUME NEW u \in Users, NEW o \in DOMAIN ops, Pay(u, o) PROVE Completes
  BY <1>7, PayKind
<1>8. ASSUME NEW u \in Users, NEW o \in DOMAIN ops, Cancel(u, o)
      PROVE  \E i, b, row, r : CancelledStep(o, i, b, row, r)
  BY <1>8, CancelKind
<1>9. ASSUME NEW u \in Users, NEW o \in DOMAIN ops, NEW amount \in OpAmounts, NEW fee \in Fees,
             Revise(u, o, amount, fee)
      PROVE  Prepares
  BY <1>9, ReviseKind
<1>10. ASSUME NEW u \in Users, NEW a \in Accounts \cup {Safe}, NEW amount \in Amounts \cup Fees, NEW token \in Tokens,
              Pays(u, a, amount, token)
       PROVE  \E row : EventStep(row)
  BY <1>10, PaymentEvent
<1> QED
  BY <1>1, <1>2, <1>3, <1>4, <1>5, <1>6, <1>7, <1>8, <1>9, <1>10, Zenon DEF CutoverNext, Pays

-----------------------------------------------------------------------------
(* Until the engine is on *)

\* The ledgers of the cash accounts only grow.
LEMMA LogGrows ==
  ASSUME CutoverTypeOK, [Next]_vars
  PROVE  \A a \in Accounts : cut.rows[a] <= Len(log'[a])
<1>1. TypeOK /\ \A a \in Accounts : cut.rows[a] \in Nat /\ cut.rows[a] <= Len(log[a]) /\ log[a] \in Seq(Movement)
  BY DEF CutoverTypeOK, TypeOK, CashTypeOK
<1>2. CASE UNCHANGED log
  BY <1>1, <1>2
<1>3. ASSUME NEW c \in Accounts, NEW row \in Movement, log' = [log EXCEPT ![c] = Append(log[c], row)]
      PROVE  \A a \in Accounts : cut.rows[a] <= Len(log'[a])
  <2> SUFFICES ASSUME NEW a \in Accounts PROVE cut.rows[a] <= Len(log'[a])
    OBVIOUS
  <2>1. CASE a = c
    <3>1. log'[a] = Append(log[a], row)
      BY <1>1, <1>3, <2>1 DEF TypeOK, CashTypeOK
    <3>2. Len(log'[a]) = Len(log[a]) + 1 /\ Len(log[a]) \in Nat
      BY <1>1, <3>1
    <3> QED
      BY <1>1, <3>2
  <2>2. CASE a # c
    <3>1. log'[a] = log[a]
      BY <1>1, <1>3, <2>2 DEF TypeOK, CashTypeOK
    <3> QED
      BY <1>1, <3>1
  <2> QED
    BY <2>1, <2>2
<1>4. CASE OperationsNext
  <2>1. Moves
    BY <1>1, <1>4, OperationsMove
  <2>2. ASSUME NEW c \in Accounts, NEW delta \in Int, NEW kind \in MovementKinds, NEW op \in Nat,
               ApplyMovement(c, delta, kind, op)
        PROVE  \A a \in Accounts : cut.rows[a] <= Len(log'[a])
    <3>1. Post(c, delta, kind, op) /\ CashTypeOK
      BY <1>1, <2>2 DEF ApplyMovement, TypeOK
    <3>2. \E row \in Movement : /\ row.kind = kind /\ row.op = op
                                /\ log' = [log EXCEPT ![c] = Append(log[c], row)]
      BY <3>1, PostRow
    <3> QED
      BY <1>3, <3>2
  <2> QED
    BY <1>2, <2>1, <2>2 DEF Moves, MovementKinds
<1>5. CASE [CashNext]_cashVars
  BY <1>1, <1>2, <1>3, <1>5, CashRow DEF TypeOK
<1>6. CASE UNCHANGED vars
  BY <1>2, <1>6 DEF vars, cashVars, accountVars
<1> QED
  BY <1>4, <1>5, <1>6 DEF Next

\* The operations that have an attribution, or were credited, exist.
LEMMA AttributedExist ==
  ASSUME CutoverTypeOK, [CutoverNext]_cutoverVars
  PROVE  AttributionsTyped'
<1>1. attributed \subseteq DOMAIN ops /\ credited \subseteq DOMAIN ops /\ TypeOK
  BY DEF CutoverTypeOK
<1>2. CASE UNCHANGED <<ops, attributed, credited>>
  BY <1>1, <1>2 DEF AttributionsTyped
<1>3. ASSUME NEW u \in Users, NEW a \in Accounts, NEW amount \in OpAmounts, NEW fee \in Fees, NEW key,
             NEW partnered \in BOOLEAN, Create(u, a, amount, fee, key, partnered)
      PROVE  AttributionsTyped'
  <2>1. /\ attributed' \subseteq attributed \cup {Len(ops) + 1}
        /\ credited' \subseteq credited \cup {Len(ops) + 1}
    BY <1>3 DEF Create, Attribute, RecordOperation
  <2>2. amount \in Nat /\ fee \in Nat
    BY OperationsAssumption
  <2>3. \E type \in OpTypes, status \in {"PENDING", "COMPLETED"} : CreateOperation(u, a, type, status, amount, fee, key)
    BY <1>3 DEF Create, CreateSentTransfer, CreateWithdrawal, ReceiveTransfer, OpTypes
  <2>4. DOMAIN ops' = DOMAIN ops \cup {Len(ops) + 1}
    BY <1>1, <2>2, <2>3, CreatedRow
  <2> QED
    BY <1>1, <2>1, <2>4 DEF AttributionsTyped
<1>4. ASSUME NEW u \in Users, NEW o \in DOMAIN ops,
             \/ Pay(u, o) \/ Cancel(u, o)
             \/ \E amount \in OpAmounts, fee \in Fees : Revise(u, o, amount, fee)
      PROVE  AttributionsTyped'
  <2>1. UNCHANGED attributed /\ credited' \subseteq credited \cup {o}
    BY <1>4 DEF Pay, Cancel, Revise, RecordOperation, attributions
  <2>2. DOMAIN ops' = DOMAIN ops
    BY <1>4 DEF Pay, Cancel, Revise, PayReceivedTransfer, CancelOperation, ReviseOperation
  <2> QED
    BY <1>1, <2>1, <2>2 DEF AttributionsTyped
<1>5. ASSUME NEW u \in Users, NEW a \in Accounts \cup {Safe}, NEW amount \in Amounts \cup Fees, NEW token \in Tokens,
             Pays(u, a, amount, token)
      PROVE  UNCHANGED <<ops, attributed, credited>>
  BY <1>5, PaymentMoves DEF Withdraws, opsVars
<1>6. ASSUME \/ EnableLedger \/ Unrecorded \/ UNCHANGED cutoverVars
             \/ \E u \in Users, before \in 0 .. Len(ops) : MigrateOpeningBalances(u, before)
             \/ \E u \in Users, amount \in Amounts, direction \in {"IN", "OUT"} : AdjustCapital(u, amount, direction)
             \/ \E u \in Users, amount \in Amounts, a \in Accounts : Fund(u, a, amount)
             \/ \E u \in Users, h \in DOMAIN handovers : ReceiveHandover(u, h)
      PROVE  UNCHANGED <<ops, attributed, credited>>
  BY <1>6 DEF EnableLedger, Unrecorded, MigrateOpeningBalances, AdjustCapital, Fund, ReceiveHandover,
              cutoverVars, bookVars, attributions, vars, opsVars
<1>7. ASSUME Attributions PROVE AttributionsTyped'
  <2>1. UNCHANGED <<ops, credited>> /\ attributed' \subseteq attributed \cup DOMAIN ops
    BY <1>7 DEF Attributions, vars, opsVars
  <2> QED
    BY <1>1, <2>1 DEF AttributionsTyped
<1> QED
  BY <1>2, <1>3, <1>4, <1>5, <1>6, <1>7, Zenon DEF CutoverNext, Pays

\* Nothing is posted until then.
LEMMA StepOff ==
  ASSUME CutoverTypeOK, engine # "ON", [CutoverNext]_cutoverVars
  PROVE  \/ UNCHANGED <<cached, batches, cut, credited>> /\ engine' \in {"OFF", "SET"}
         \/ \E u \in Users, before \in 0 .. Len(ops) : MigrateOpeningBalances(u, before)
<1>1. engine \in {"OFF", "SET"} /\ engine \in {"OFF", "SET", "ON"}
  BY DEF CutoverTypeOK
<1>2. CASE Unrecorded \/ Attributions \/ UNCHANGED cutoverVars
  BY <1>1, <1>2 DEF Unrecorded, Attributions, cutoverVars, bookVars, attributions
<1>3. CASE EnableLedger
  BY <1>1, <1>3 DEF EnableLedger, attributions
<1>4. ASSUME NEW u \in Users, NEW amount \in Amounts, NEW direction \in {"IN", "OUT"},
             AdjustCapital(u, amount, direction)
      PROVE  UNCHANGED <<cached, batches, cut, credited, engine>>
  BY <1>1, <1>4, RecordOff DEF AdjustCapital, SameEngine, attributions
<1>5. ASSUME NEW u \in Users, NEW amount \in Amounts, NEW a \in Accounts, Fund(u, a, amount)
      PROVE  UNCHANGED <<cached, batches, cut, credited, engine>>
  BY <1>1, <1>5, RecordOff DEF Fund, SameEngine, attributions
<1>6. ASSUME NEW u \in Users, NEW h \in DOMAIN handovers, ReceiveHandover(u, h)
      PROVE  UNCHANGED <<cached, batches, cut, credited, engine>>
  BY <1>1, <1>6, RecordOff DEF ReceiveHandover, SameEngine, attributions
<1>7. ASSUME NEW o, RecordOperation(o) PROVE NoEvent /\ UNCHANGED credited
  BY <1>1, <1>7 DEF RecordOperation, Record, NoEvent
<1>8. ASSUME NEW u \in Users, NEW a \in Accounts, NEW amount \in OpAmounts, NEW fee \in Fees,
             NEW key \in Keys \cup {NoKey}, NEW partnered \in BOOLEAN, Create(u, a, amount, fee, key, partnered)
      PROVE  UNCHANGED <<cached, batches, cut, credited, engine>>
  BY <1>7, <1>8 DEF Create, SameEngine, NoEvent
<1>9. ASSUME NEW u \in Users, NEW o \in DOMAIN ops, Pay(u, o) PROVE UNCHANGED <<cached, batches, cut, credited, engine>>
  BY <1>7, <1>9 DEF Pay, SameEngine, NoEvent
<1>10. ASSUME NEW u \in Users, NEW o \in DOMAIN ops, Cancel(u, o) PROVE UNCHANGED <<cached, batches, cut, credited, engine>>
  BY <1>1, <1>10 DEF Cancel, SameEngine, NoEvent, attributions
<1>11. ASSUME NEW u \in Users, NEW o \in DOMAIN ops, NEW amount \in OpAmounts, NEW fee \in Fees,
              Revise(u, o, amount, fee)
       PROVE  UNCHANGED <<cached, batches, cut, credited, engine>>
  BY <1>11 DEF Revise, SameEngine, NoEvent, attributions
<1>12. ASSUME NEW u \in Users, NEW a \in Accounts \cup {Safe}, NEW amount \in Amounts \cup Fees, NEW token \in Tokens,
              Pays(u, a, amount, token)
       PROVE  FALSE
  BY <1>12, PaymentMoves DEF Withdraws
<1>13. UNCHANGED <<cached, batches, cut, credited, engine>> => UNCHANGED <<cached, batches, cut, credited>> /\ engine' \in {"OFF", "SET"}
  BY <1>1
<1> QED
  BY <1>2, <1>3, <1>4, <1>5, <1>6, <1>8, <1>9, <1>10, <1>11, <1>12, <1>13, Zenon DEF CutoverNext, Pays

LEMMA OffTyped ==
  ASSUME CutoverTypeOK, engine # "ON", batches = <<>>, credited = {}, [CutoverNext]_cutoverVars,
         UNCHANGED <<cached, batches, cut, credited>>, engine' \in {"OFF", "SET"}
  PROVE  CutoverTypeOK' /\ Sourced' /\ batches' = <<>> /\ credited' = {} /\ engine' # "ON"
<1>1. TypeOK'
  BY ServicesTyped DEF CutoverTypeOK
<1>2. AttributionsTyped'
  BY AttributedExist
<1>3. [Next]_vars
  <2>1. CASE CutoverNext
    BY <2>1, ServiceOrPayment, PaymentMoves DEF Withdraws
  <2>2. CASE UNCHANGED cutoverVars
    BY <2>2 DEF cutoverVars
  <2> QED
    BY <2>1, <2>2
<1>4. \A a \in Accounts : cut'.rows[a] <= Len(log'[a])
  BY <1>3, LogGrows
<1>5. CutoverTypeOK'
  BY <1>1, <1>2, <1>4 DEF CutoverTypeOK, AttributionsTyped
<1>6. Sourced'
  BY DEF Sourced
<1> QED
  BY <1>5, <1>6

\* Carrying the balances over: the opening batches book what each account has,
\* and nothing has happened since.
LEMMA MigratedTyped ==
  ASSUME CutoverTypeOK, batches = <<>>, credited = {}, NEW u, NEW before \in 0 .. Len(ops),
         MigrateOpeningBalances(u, before)
  PROVE  /\ CutoverTypeOK' /\ Sourced' /\ UNCHANGED <<ops, log, balance, reserve, credited>>
         /\ \A o : BatchesOf(o)' = {}
         /\ \A a \in Accounts \cup {Safe} : BookedIn(batches', a) = CashBalance(a)
         /\ BookedIn(batches', Due) = 0
         /\ \A a : PaidIn(batches', a) = 0
<1>1. UNCHANGED vars /\ UNCHANGED <<attributed, credited>> /\ engine' = "ON"
  BY DEF MigrateOpeningBalances, attributions
<1>2. TypeOK' /\ UNCHANGED <<ops, log, balance, reserve, credited>>
  <2>1. TypeOK'
    BY <1>1, TypeStep DEF CutoverTypeOK
  <2>2. UNCHANGED <<ops, log, balance, reserve>>
    BY <1>1 DEF vars, cashVars, accountVars, reserveVars, opsVars
  <2> QED
    BY <1>1, <2>1, <2>2
<1>3. PICK rows : rows = [i \in DOMAIN CarriedOver |-> OpeningBatch(CarriedOver[i])]
  OBVIOUS
<1>4. /\ rows \in Seq(J!Batch)
      /\ \A b \in DOMAIN rows : rows[b].source[1] # "Operation"
      /\ \A a \in Accounts \cup {Safe} : BookedIn(rows, a) = CashBalance(a)
      /\ BookedIn(rows, Due) = 0
      /\ \A a : PaidIn(rows, a) = 0
  BY <1>3, OpeningBooks
<1>5. batches' = rows
  <2>1. batches' = <<>> \o rows
    BY <1>3 DEF MigrateOpeningBalances
  <2> QED
    BY <1>4, <2>1
<1>6. ASSUME NEW o, NEW b \in DOMAIN rows PROVE rows[b].source # <<"Operation", o>>
  <2>1. <<"Operation", o>>[1] = "Operation"
    OBVIOUS
  <2> QED
    BY <1>4, <2>1
<1>7. Sourced' /\ \A o : BatchesOf(o)' = {}
  BY <1>5, <1>6 DEF Sourced, BatchesOf
<1>8. cached' \in [FinAccounts -> Int]
  <2> DEFINE cash == [c \in Accounts \cup {Safe} |-> CashBalance(c)]
  <2>1. \A c \in Accounts \cup {Safe} : CashBalance(c) \in Int
    BY DEF CashBalance, CutoverTypeOK, TypeOK, CashTypeOK
  <2>2. IsFiniteSet(Accounts \cup {Safe})
    BY CutoverAssumption, FS_AddElement
  <2>3. cash \in [Accounts \cup {Safe} -> Int]
    BY <2>1
  <2> HIDE DEF cash
  <2>4. SumFunction(cash) \in Int
    BY <2>2, <2>3, SumInt
  <2>5. cached' = [a \in FinAccounts |->
                     IF a \in Accounts \cup {Safe} THEN CashBalance(a)
                     ELSE IF a = Opening THEN SumFunction(cash) ELSE cached[a]]
    BY DEF MigrateOpeningBalances, cash
  <2>6. \A a \in FinAccounts : cached[a] \in Int
    BY DEF CutoverTypeOK
  <2> QED
    BY <2>1, <2>4, <2>5, <2>6
<1>9. cut' = [ops |-> before, rows |-> [a \in Accounts |-> Len(log[a])]]
  BY DEF MigrateOpeningBalances
<1>10. \A a \in Accounts : Len(log[a]) \in Nat
  BY DEF CutoverTypeOK, TypeOK, CashTypeOK
<1>11. before \in Nat
  BY DEF CutoverTypeOK, TypeOK
<1>12. cut' \in [ops : Nat, rows : [Accounts -> Nat]] /\ \A a \in Accounts : cut'.rows[a] <= Len(log'[a])
  BY <1>2, <1>9, <1>10, <1>11
<1>13. CutoverTypeOK'
  BY <1>1, <1>2, <1>4, <1>5, <1>8, <1>12 DEF CutoverTypeOK
<1> QED
  BY <1>2, <1>4, <1>5, <1>7, <1>13

LEMMA MigratedAgrees ==
  ASSUME CutoverTypeOK, batches = <<>>, credited = {}, NEW u, NEW before \in 0 .. Len(ops),
         MigrateOpeningBalances(u, before)
  PROVE  CutoverTypeOK' /\ Sourced' /\ Agreed'
<1>1. /\ CutoverTypeOK' /\ Sourced' /\ UNCHANGED <<ops, log, balance, reserve, credited>>
      /\ \A o : BatchesOf(o)' = {}
      /\ \A a \in Accounts \cup {Safe} : BookedIn(batches', a) = CashBalance(a)
      /\ BookedIn(batches', Due) = 0
      /\ \A a : PaidIn(batches', a) = 0
  BY MigratedTyped
<1>2. /\ \A o \in DOMAIN ops : ops[o].status # "PENDING" => o <= before
      /\ cut' = [ops |-> before, rows |-> [a \in Accounts |-> Len(log[a])]]
      /\ before \in Int
  BY DEF MigrateOpeningBalances
<1>3. ASSUME NEW o \in DOMAIN ops PROVE BookedAs(o)' /\ AtPrice(o)'
  <2>1. cut'.ops = before /\ ops' = ops /\ o \in Int
    BY <1>1, <1>2 DEF CutoverTypeOK, TypeOK
  <2>2. o <= cut'.ops \/ ops'[o].status = "PENDING"
    BY <1>2, <2>1
  <2>3. BookedAs(o)'
    BY <1>1, <2>2 DEF BookedAs
  <2>4. AtPrice(o)'
    <3>1. ~(o > cut'.ops /\ ops'[o].status = "COMPLETED")
      BY <1>2, <2>1, <2>2
    <3> QED
      BY <3>1 DEF AtPrice
  <2> QED
    BY <2>3, <2>4
<1>4. CashMatches'
  <2>1. ASSUME NEW a \in Accounts PROVE Explained(a)' = Said(a)'
    <3>1. a # Safe /\ balance[a] \in Int /\ Len(log[a]) \in Int
      BY AccountsApart DEF CutoverTypeOK, TypeOK, CashTypeOK
    <3>2. Adjustments(a)' = {}
      BY <1>1, <1>2, <3>1 DEF Adjustments
    <3>3. Adjusted(a)' = 0
      BY <1>1, <3>2, SumEmpty DEF Adjusted, DeltaSum
    <3>4. Explained(a)' = balance[a]
      BY <1>1, <3>1, <3>3 DEF Explained
    <3>5. Said(a)' = balance[a]
      BY <1>1, <3>1 DEF Said, CashBalance
    <3> QED
      BY <3>4, <3>5
  <2>2. reserve' = BookedIn(batches', Safe)
    BY <1>1 DEF CashBalance
  <2> QED
    BY <2>1, <2>2 DEF CashMatches
<1>5. PartnerMatches'
  <2>1. ASSUME NEW status \in {"COMPLETED", "CANCELLED"} PROVE Shares(status)' = 0
    <3>1. Younger(status)' = {}
      BY <1>1 DEF Younger
    <3> QED
      BY <3>1, SumEmpty DEF Shares
  <2> QED
    BY <1>1, <2>1 DEF PartnerMatches
<1> QED
  BY <1>1, <1>3, <1>4, <1>5 DEF Agreed

-----------------------------------------------------------------------------
(* Operations and the ledgers of the cash accounts *)

\* A payment is no movement of an operation.
LEMMA PaymentPaid ==
  ASSUME TypeOK, PaidOnce, NEW u, NEW a \in Accounts \cup {Safe}, NEW amount \in Amounts \cup Fees, NEW token,
         Pays(u, a, amount, token)
  PROVE  PaidOnce'
<1>1. Scoped /\ \A o \in DOMAIN ops : Paid(o)
  BY PaidParts
<1>2. ops' = ops /\ Kept
  BY PaymentMoves DEF Withdraws, opsVars, Kept
<1>3. CASE UNCHANGED log
  <2>1. Scoped'
    BY <1>1, <1>2, <1>3, ScopedSame
  <2>2. \A o \in DOMAIN ops : Paid(o)'
    BY <1>1, <1>2, <1>3, PaidSame
  <2> QED
    BY <1>2, <2>1, <2>2, PaidParts
<1>4. ASSUME a \in Accounts, ApplyMovement(a, -amount, "ADJUSTMENT", 0)
      PROVE  PaidOnce'
  <2>1. CashTypeOK /\ -amount \in Int /\ "ADJUSTMENT" \in MovementKinds /\ 0 \in Nat
        /\ Post(a, -amount, "ADJUSTMENT", 0)
    BY <1>4, CashAssumption, OperationsAssumption DEF TypeOK, MovementKinds, ApplyMovement
  <2>2. PICK row \in Movement : /\ row.kind = "ADJUSTMENT" /\ row.op = 0
                                /\ log' = [log EXCEPT ![a] = Append(log[a], row)]
    BY <1>4, <2>1, PostRow
  <2>3. Scoped'
    BY <1>1, <1>2, <1>4, <2>2, ScopedAppend
  <2>4. \A o \in DOMAIN ops : Paid(o)'
    BY <1>1, <1>2, <1>4, <2>2, PaidElsewhere, OperationRecord
  <2> QED
    BY <1>2, <2>3, <2>4, PaidParts
<1> QED
  BY <1>3, <1>4, PaymentMoves DEF Withdraws

LEMMA ServicesPaid ==
  ASSUME TypeOK, PaidOnce, [CutoverNext]_cutoverVars
  PROVE  PaidOnce'
<1>1. CASE UNCHANGED cutoverVars
  BY <1>1, PaidStep DEF cutoverVars
<1>2. CASE CutoverNext
  BY <1>2, ServiceOrPayment, PaidStep, PaymentPaid
<1> QED
  BY <1>1, <1>2

\* Only a received transfer waits for its payout.
LEMMA AnnouncedStep ==
  ASSUME TypeOK, \A o \in DOMAIN ops : Announced(o), [Next]_vars
  PROVE  \A o \in DOMAIN ops' : Announced(o)'
<1>1. CASE UNCHANGED ops
  BY <1>1 DEF Announced
<1>2. ASSUME NEW row, ops' = Append(ops, row), row.status = "PENDING" => row.type = "RECEIVED_TRANSFER"
      PROVE  \A o \in DOMAIN ops' : Announced(o)'
  <2>1. /\ DOMAIN ops' = DOMAIN ops \cup {Len(ops) + 1} /\ ops'[Len(ops) + 1] = row
        /\ \A o \in DOMAIN ops : ops'[o] = ops[o]
    BY <1>2 DEF TypeOK
  <2> QED
    BY <1>2, <2>1 DEF Announced
<1>3. ASSUME NEW o \in DOMAIN ops, NEW row, ops' = [ops EXCEPT ![o] = row],
             row.status = "PENDING" => ops[o].status = "PENDING" /\ row.type = ops[o].type
      PROVE  \A q \in DOMAIN ops' : Announced(q)'
  <2>1. /\ DOMAIN ops' = DOMAIN ops /\ ops'[o] = row
        /\ \A q \in DOMAIN ops : q # o => ops'[q] = ops[q]
    BY <1>3 DEF TypeOK
  <2> QED
    BY <1>3, <2>1 DEF Announced
<1>4. ASSUME NEW u \in Users, NEW a \in Accounts, NEW amount \in OpAmounts, NEW fee \in Fees, NEW key,
             NEW type, NEW status, CreateOperation(u, a, type, status, amount, fee, key),
             status = "PENDING" => type = "RECEIVED_TRANSFER"
      PROVE  \A o \in DOMAIN ops' : Announced(o)'
  <2>1. PICK row : row = [type |-> type, status |-> status, agent |-> u, account |-> a,
                          amount |-> amount, fee |-> fee, day |-> today]
    OBVIOUS
  <2>2. ops' = Append(ops, row)
    BY <1>4, <2>1 DEF CreateOperation
  <2>3. row.status = status /\ row.type = type
    BY <2>1
  <2> QED
    BY <1>2, <1>4, <2>2, <2>3
<1>5. ASSUME NEW u \in Users, NEW a \in Accounts, NEW amount \in OpAmounts, NEW fee \in Fees,
             NEW key \in Keys \cup {NoKey},
             \/ CreateSentTransfer(u, a, amount, fee, key) \/ CreateWithdrawal(u, a, amount, fee, key)
             \/ ReceiveTransfer(u, a, amount, fee, key)
      PROVE  \A o \in DOMAIN ops' : Announced(o)'
  BY <1>4, <1>5 DEF CreateSentTransfer, CreateWithdrawal, ReceiveTransfer
<1>6. ASSUME NEW u \in Users, NEW o \in DOMAIN ops, PayReceivedTransfer(u, o) \/ CancelOperation(u, o)
      PROVE  \A q \in DOMAIN ops' : Announced(q)'
  <2>1. ops[o] \in Operation
    BY OperationRecord
  <2>2. PICK row : /\ ops' = [ops EXCEPT ![o] = row]
                   /\ row = [ops[o] EXCEPT !.status = "COMPLETED"] \/ row = [ops[o] EXCEPT !.status = "CANCELLED"]
    BY <1>6, CorrectionRows
  <2>3. row.status # "PENDING"
    BY <2>1, <2>2 DEF Operation
  <2> QED
    BY <1>3, <2>2, <2>3
<1>7. ASSUME NEW u \in Users, NEW o \in DOMAIN ops, NEW amount \in OpAmounts, NEW fee \in Fees,
             ReviseOperation(u, o, amount, fee)
      PROVE  \A q \in DOMAIN ops' : Announced(q)'
  <2>1. ops[o] \in Operation
    BY OperationRecord
  <2>2. ops' = [ops EXCEPT ![o] = [[ops[o] EXCEPT !.amount = amount] EXCEPT !.fee = fee]]
    BY <1>7, <2>1 DEF ReviseOperation, Operation, TypeOK
  <2>3. PICK row : row = [[ops[o] EXCEPT !.amount = amount] EXCEPT !.fee = fee]
    OBVIOUS
  <2>4. ops' = [ops EXCEPT ![o] = row]
    BY <2>2, <2>3
  <2>5. row.status = ops[o].status /\ row.type = ops[o].type
    BY <2>1, <2>3 DEF Operation
  <2> QED
    BY <1>3, <2>4, <2>5
<1>8. ASSUME [CashNext]_cashVars /\ UNCHANGED opsVars PROVE UNCHANGED ops
  BY <1>8 DEF opsVars
<1>9. ASSUME UNCHANGED vars PROVE UNCHANGED ops
  BY <1>9 DEF vars, opsVars
<1> QED
  BY <1>1, <1>5, <1>6, <1>7, <1>8, <1>9 DEF Next, OperationsNext

LEMMA ServicesAnnounced ==
  ASSUME TypeOK, \A o \in DOMAIN ops : Announced(o), [CutoverNext]_cutoverVars
  PROVE  \A o \in DOMAIN ops' : Announced(o)'
<1>1. CASE UNCHANGED cutoverVars
  BY <1>1, AnnouncedStep DEF cutoverVars
<1>2. ASSUME NEW u \in Users, NEW a \in Accounts \cup {Safe}, NEW amount \in Amounts \cup Fees, NEW token \in Tokens,
             Pays(u, a, amount, token)
      PROVE  \A o \in DOMAIN ops' : Announced(o)'
  BY <1>2, PaymentMoves DEF Withdraws, opsVars, Announced
<1>3. CASE CutoverNext
  BY <1>2, <1>3, ServiceOrPayment, AnnouncedStep
<1> QED
  BY <1>1, <1>3

-----------------------------------------------------------------------------
(* The theorems *)

LEMMA CutoverInvInit == CutoverInit => CutoverInv
<1> SUFFICES ASSUME CutoverInit PROVE CutoverInv
  OBVIOUS
<1>1. TypeOK
  BY TypeInit DEF CutoverInit
<1>2. ops = <<>> /\ \A a \in Accounts : log[a] = <<>>
  BY DEF CutoverInit, Init, CashInit
<1>3. PaidOnce
  BY <1>2 DEF PaidOnce
<1>4. CutoverTypeOK
  BY <1>1, <1>2 DEF CutoverInit, CutoverTypeOK
<1> QED
  BY <1>2, <1>3, <1>4 DEF CutoverInit, CutoverInv, Sourced

LEMMA CutoverInvStep == CutoverInv /\ [CutoverNext]_cutoverVars => CutoverInv'
<1> SUFFICES ASSUME CutoverInv, [CutoverNext]_cutoverVars PROVE CutoverInv'
  OBVIOUS
<1>1. /\ CutoverTypeOK /\ TypeOK /\ PaidOnce /\ Sourced
      /\ \A o \in DOMAIN ops : Announced(o)
      /\ engine # "ON" => batches = <<>> /\ credited = {}
      /\ engine = "ON" => Agreed
  BY DEF CutoverInv, CutoverTypeOK
<1>2. TypeOK' /\ AttributionsTyped' /\ PaidOnce' /\ \A o \in DOMAIN ops' : Announced(o)'
  BY <1>1, ServicesTyped, AttributedExist, ServicesPaid, ServicesAnnounced
<1>3. CASE engine # "ON"
  <2>1. ASSUME UNCHANGED <<cached, batches, cut, credited>>, engine' \in {"OFF", "SET"}
        PROVE  CutoverInv'
    <3>1. CutoverTypeOK' /\ Sourced' /\ batches' = <<>> /\ credited' = {} /\ engine' # "ON"
      BY <1>1, <1>3, <2>1, OffTyped
    <3> QED
      BY <1>2, <3>1 DEF CutoverInv
  <2>2. ASSUME NEW u \in Users, NEW before \in 0 .. Len(ops), MigrateOpeningBalances(u, before)
        PROVE  CutoverInv'
    <3>1. CutoverTypeOK' /\ Sourced' /\ Agreed'
      BY <1>1, <1>3, <2>2, MigratedAgrees
    <3>2. engine' = "ON"
      BY <2>2 DEF MigrateOpeningBalances
    <3> QED
      BY <1>2, <3>1, <3>2 DEF CutoverInv
  <2> QED
    BY <1>1, <1>3, <2>1, <2>2, StepOff
<1>4. CASE engine = "ON"
  <2>1. ASSUME CutoverTypeOK' /\ Sourced' /\ Agreed', engine' = "ON"
        PROVE  CutoverInv'
    BY <1>2, <2>1 DEF CutoverInv
  <2>2. Agreed
    BY <1>1, <1>4
  <2>3. ASSUME SilentStep PROVE CutoverInv'
    <3>1. CutoverTypeOK' /\ Sourced' /\ Agreed'
      BY <1>1, <1>2, <2>2, <2>3, SilentAgrees
    <3> QED
      BY <1>4, <2>1, <2>3, <3>1 DEF SilentStep, Steady
  <2>4. ASSUME NEW row, EventStep(row) PROVE CutoverInv'
    <3>1. CutoverTypeOK' /\ Sourced' /\ Agreed'
      BY <1>1, <1>2, <2>2, <2>4, EventAgrees
    <3> QED
      BY <1>4, <2>1, <2>4, <3>1 DEF EventStep, Steady
  <2>5. ASSUME NEW o, NEW op, NEW row, NEW r, CompletedStep(o, op, row, r) PROVE CutoverInv'
    <3>1. CutoverTypeOK' /\ Sourced' /\ Agreed'
      BY <1>1, <1>2, <2>2, <2>5, CompletedAgrees
    <3> QED
      BY <1>4, <2>1, <2>5, <3>1 DEF CompletedStep, Steady
  <2>6. ASSUME NEW o, PendingStep(o) PROVE CutoverInv'
    <3>1. CutoverTypeOK' /\ Sourced' /\ Agreed'
      BY <1>1, <1>2, <2>2, <2>6, PendingAgrees
    <3> QED
      BY <1>4, <2>1, <2>6, <3>1 DEF PendingStep, Steady
  <2>7. ASSUME NEW o, NEW i, NEW b, NEW row, NEW r, CancelledStep(o, i, b, row, r) PROVE CutoverInv'
    <3>1. CutoverTypeOK' /\ Sourced' /\ Agreed'
      BY <1>1, <1>2, <2>2, <2>7, CancelledAgrees
    <3> QED
      BY <1>4, <2>1, <2>7, <3>1 DEF CancelledStep, Steady
  <2>8. \/ SilentStep
        \/ \E row : EventStep(row)
        \/ Completes \/ Prepares
        \/ \E o, i, b, row, r : CancelledStep(o, i, b, row, r)
    BY <1>1, <1>4, <2>2, StepOn DEF Agreed
  <2> QED
    BY <2>3, <2>4, <2>5, <2>6, <2>7, <2>8 DEF Completes, Prepares
<1> QED
  BY <1>3, <1>4

\* What the invariant says of the balances of the accounts.
LEMMA CutoverInvBalances ==
  ASSUME CutoverInv
  PROVE  CashFollowsJournal /\ PartnerAccountAddsUp
<1> SUFFICES ASSUME engine = "ON"
             PROVE  /\ \A a \in Accounts : balance[a] = J!LedgerBalance(a) + Found(a)
                    /\ reserve = J!LedgerBalance(Safe)
                    /\ J!LedgerBalance(Due) = Shares("COMPLETED") - PaidTo(Due)
                    /\ J!LedgerBalance(Due) >= -Shares("CANCELLED")
  BY DEF CashFollowsJournal, PartnerAccountAddsUp
<1>1. CutoverTypeOK /\ batches \in Seq(J!Batch) /\ CashMatches /\ PartnerMatches
  BY DEF CutoverInv, CutoverTypeOK, Agreed
<1>2. \A a : BookedIn(batches, a) \in Int /\ PaidIn(batches, a) \in Int
  BY <1>1, BookedInt, PaidInt
<1>3. /\ \A a \in Accounts \cup {Safe} : J!LedgerBalance(a) = BookedIn(batches, a)
      /\ J!LedgerBalance(Due) = -BookedIn(batches, Due)
      /\ \A a : PaidTo(a) = PaidIn(batches, a)
  BY <1>1, Balances
<1>4. ASSUME NEW a \in Accounts PROVE balance[a] = J!LedgerBalance(a) + Found(a)
  <2>1. balance[a] - Adjusted(a) = BookedIn(batches, a) - PaidIn(batches, a)
    BY <1>1 DEF CashMatches, Explained, Said
  <2>2. balance[a] \in Int /\ Adjusted(a) \in Int
    BY <1>1, AdjustedInt
  <2>3. Found(a) = Adjusted(a) - PaidIn(batches, a)
    BY <1>3 DEF Found, Adjusted
  <2> QED
    BY <1>2, <1>3, <2>1, <2>2, <2>3
<1>5. reserve = J!LedgerBalance(Safe)
  BY <1>1, <1>3 DEF CashMatches
<1>6. Shares("COMPLETED") \in Int /\ Shares("CANCELLED") \in Int
  BY <1>1, SharesNat
<1>7. J!LedgerBalance(Due) = Shares("COMPLETED") - PaidTo(Due)
  BY <1>1, <1>3 DEF PartnerMatches
<1>8. PaidTo(Due) <= Shares("COMPLETED") + Shares("CANCELLED") /\ PaidTo(Due) \in Int
  BY <1>1, <1>2, <1>3 DEF PartnerMatches
<1>9. J!LedgerBalance(Due) >= -Shares("CANCELLED")
  BY <1>6, <1>7, <1>8
<1> QED
  BY <1>4, <1>5, <1>7, <1>9

\* The state of the cutover keeps its types, and the partner's operations exist.
THEOREM CutoverTypeCorrect == CutoverSpec => []CutoverTypeOK
<1>1. CutoverInv => CutoverTypeOK
  BY DEF CutoverInv
<1> QED
  BY <1>1, CutoverInvInit, CutoverInvStep, PTL DEF CutoverSpec

\* Once the engine is on, an operation younger than the cutover is in the journal
\* exactly when it is completed, once, on its day and at its current price, or
\* reversed when it is cancelled; an older one never is.  The share in its batch
\* is that of the attribution it had then, whatever a form does to it later.
THEOREM OperationsAreAlwaysBooked == CutoverSpec => []OperationsAreBooked
<1>1. CutoverInv => OperationsAreBooked
  BY DEF CutoverInv, Agreed, BookedAs, OperationsAreBooked
<1> QED
  BY <1>1, CutoverInvInit, CutoverInvStep, PTL DEF CutoverSpec

\* However services, closures, payments and forms follow one another after the cutover,
\* the cash of an account differs from its balance in the journal by what
\* closures found and by nothing else; that of the reserve does not differ.
THEOREM CashAlwaysFollowsJournal == CutoverSpec => []CashFollowsJournal
<1>1. CutoverInv => CashFollowsJournal
  BY CutoverInvBalances
<1> QED
  BY <1>1, CutoverInvInit, CutoverInvStep, PTL DEF CutoverSpec

\* What is due to the partner is the shares credited for the operations that
\* stand less what was paid, and the partner is a debtor at most for the shares
\* of operations that were cancelled, whatever becomes of the attributions.
THEOREM PartnerAccountAlwaysAddsUp == CutoverSpec => []PartnerAccountAddsUp
<1>1. CutoverInv => PartnerAccountAddsUp
  BY CutoverInvBalances
<1> QED
  BY <1>1, CutoverInvInit, CutoverInvStep, PTL DEF CutoverSpec

-----------------------------------------------------------------------------
(* The cash of the applications while they record in the journal *)

\* A payment moves one till, or the reserve.
LEMMA PaymentReconciles ==
  ASSUME TypeOK, LedgersReconcile, NEW u, NEW a \in Accounts \cup {Safe}, NEW amount \in Amounts \cup Fees, NEW token,
         Pays(u, a, amount, token)
  PROVE  LedgersReconcile'
<1>1. -amount \in Int /\ CashTypeOK /\ "ADJUSTMENT" \in MovementKinds /\ "CAPITAL_OUT" \in GlobalKinds
  BY CashAssumption, OperationsAssumption DEF TypeOK, MovementKinds, GlobalKinds
<1>2. Reconciles(reserveLog, reserve) /\ \A b \in Accounts : Reconciles(log[b], balance[b])
  BY DEF LedgersReconcile
<1>3. CASE a = Safe
  <2>1. ApplyGlobalMovement(-amount, "CAPITAL_OUT", NoAccount, 0) /\ UNCHANGED <<balance, log>>
    BY <1>3, PaymentMoves DEF Withdraws
  <2>2. Reconciles(reserveLog', reserve')
    BY <1>1, <1>2, <2>1, GlobalReconciles
  <2> QED
    BY <1>2, <2>1, <2>2 DEF LedgersReconcile
<1>4. CASE a # Safe
  <2>1. ApplyMovement(a, -amount, "ADJUSTMENT", 0) /\ UNCHANGED <<reserve, reserveLog>> /\ a \in Accounts
    BY <1>4, PaymentMoves DEF Withdraws
  <2>2. \A b \in Accounts : Reconciles(log'[b], balance'[b])
    BY <1>1, <1>2, <2>1, PostReconciles DEF ApplyMovement
  <2> QED
    BY <1>2, <2>1, <2>2 DEF LedgersReconcile
<1> QED
  BY <1>3, <1>4

LEMMA PaymentInVault ==
  ASSUME TypeOK, TypeOK', NEW u, NEW a \in Accounts \cup {Safe}, NEW amount \in Amounts \cup Fees, NEW token,
         Pays(u, a, amount, token)
  PROVE  Vault!Next
<1>1. CASE a = Safe
  BY <1>1, PaymentMoves DEF Withdraws, TypeOK, CashTypeOK, Vault!Next, Vault!CapitalMove
<1>2. CASE a # Safe
  <2>1. Post(a, -amount, "ADJUSTMENT", 0) /\ UNCHANGED reserve /\ a \in Accounts
    BY <1>2, PaymentMoves DEF Withdraws, ApplyMovement
  <2>2. balance' \in [Accounts -> Nat] /\ \A other \in Accounts \ {a} : balance'[other] = balance[other]
    BY <2>1 DEF Post, TypeOK, CashTypeOK
  <2> QED
    BY <2>1, <2>2 DEF Vault!Next, Vault!Business
<1> QED
  BY <1>1, <1>2

LEMMA TypesBefore == CutoverInit => TypeOK
BY TypeInit DEF CutoverInit

\* Every row of the two ledgers carries on from the row before it, and every
\* balance is the one its last row states, with payments among the services: carrying the balances over is never refused for that.
THEOREM LedgersStayReconciled == CutoverSpec => []LedgersReconcile
<1>1. CutoverInit => LedgersReconcile
  BY ReconcileInit DEF CutoverInit, Init
<1>2. TypeOK /\ LedgersReconcile /\ [CutoverNext]_cutoverVars => LedgersReconcile'
  <2> SUFFICES ASSUME TypeOK, LedgersReconcile, [CutoverNext]_cutoverVars PROVE LedgersReconcile'
    OBVIOUS
  <2>1. CASE UNCHANGED cutoverVars
    BY <2>1, OperationsReconcileStep DEF cutoverVars
  <2>2. CASE CutoverNext
    BY <2>2, ServiceOrPayment, OperationsReconcileStep, PaymentReconciles
  <2> QED
    BY <2>1, <2>2
<1> QED
  BY <1>1, <1>2, TypesBefore, ServicesTyped, PTL DEF CutoverSpec

\* An operation is still paid exactly once, in the ledger of its own account,
\* when services also record it in the journal.
THEOREM OperationsStayPaidOnce == CutoverSpec => []PaidOnce
<1>1. CutoverInv => PaidOnce
  BY DEF CutoverInv
<1> QED
  BY <1>1, CutoverInvInit, CutoverInvStep, PTL DEF CutoverSpec

\* The applications with the journal still implement the vault: a payment is
\* business at one till, or capital taken out of the reserve.
THEOREM CutoverImplementsVault == CutoverSpec => ImplementsVault
<1>1. CutoverInit => Vault!Init
  BY VaultInit DEF CutoverInit, Init
<1>2. TypeOK /\ TypeOK' /\ [CutoverNext]_cutoverVars => [Vault!Next]_(Vault!vaultVars)
  <2> SUFFICES ASSUME TypeOK, TypeOK', [CutoverNext]_cutoverVars
               PROVE  [Vault!Next]_(Vault!vaultVars)
    OBVIOUS
  <2>1. CASE UNCHANGED cutoverVars
    BY <2>1, OperationsVaultStep DEF cutoverVars
  <2>2. CASE CutoverNext
    BY <2>2, ServiceOrPayment, OperationsVaultStep, PaymentInVault
  <2> QED
    BY <2>1, <2>2
<1> QED
  BY <1>1, <1>2, TypesBefore, ServicesTyped, PTL DEF CutoverSpec, ImplementsVault, Vault!Spec

=============================================================================
