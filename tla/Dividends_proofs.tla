-------------------------- MODULE Dividends_proofs --------------------------
(***************************************************************************)
(* Proofs about Dividends, and so about the closing of periods and the     *)
(* journal under it, for any accounts, charges, periods, remuneration and  *)
(* proposals.                                                              *)
(*                                                                         *)
(* The services are many and what they do to the journal is little.  So    *)
(* each is read twice, as one of a few kinds of step of the table of       *)
(* batches: Grown says that rows keep what is booked and that a row booked *)
(* now was allowed by the periods then (locked flows, results of months);  *)
(* Follows, that a row at most was added or turned and that the cached     *)
(* balances moved by its lines (keys, reversals, caches, balances).        *)
(*                                                                         *)
(* What a charge or a part is in the journal is found by the source of its *)
(* batch, which names a row that exists (Scoped).  Charged says so of the  *)
(* charges; ManualAway, Owed and Indebted relate the accounts of debts to  *)
(* what charges and parts leave to pay.                                    *)
(***************************************************************************)
EXTENDS Dividends, Journal_proofs

-----------------------------------------------------------------------------
(* What the services book *)

\* Keys and sources, component by component.
LEMMA FirstOfKey == \A k, x, y, z : k = <<x, y, z>> => k[1] = x /\ k[2] = y
  OBVIOUS
LEMMA FirstOfSource == \A s, x, y : s = <<x, y>> => s[1] = x /\ s[2] = y
  OBVIOUS

LEMMA TwoLines ==
  ASSUME NEW a \in FinAccounts, NEW c \in FinAccounts, NEW n \in Int \ {0}
  PROVE  <<[account |-> a, debit |-> n], [account |-> c, debit |-> -n]>> \in Seq(Line)
<1>1. [account |-> a, debit |-> n] \in Line /\ [account |-> c, debit |-> -n] \in Line
  BY DEF Line
<1> QED
  BY <1>1

\* The batch of a domain event is a typed row.
LEMMA EventTyped ==
  ASSUME NEW m \in Models, NEW n \in Nat, NEW event \in Events, NEW day \in Days, NEW lines \in Seq(Line)
  PROVE  NewBatch(<<m, n, event>>, <<m, n>>, event, day, lines, "POSTED", 0) \in Batch
<1>1. <<m, n, event>> \in Key
  BY DEF Key
<1>2. <<m, n>> \in Source
  BY DEF Source
<1> QED
  BY <1>1, <1>2 DEF NewBatch, Batch

LEMMA PaymentTyped ==
  ASSUME NEW token \in Tokens, NEW day \in Days, NEW lines \in Seq(Line)
  PROVE  NewBatch(<<"payment", token, "">>, NoSource, "EXPENSE_PAYMENT", day, lines, "POSTED", 0) \in Batch
<1>1. token \in Nat
  BY JournalAssumption
<1>2. <<"payment", token, "">> \in Key /\ NoSource \in Source
  BY <1>1 DEF Key, NoSource, Source
<1> QED
  BY <1>2 DEF NewBatch, Batch, Events

\* The recognition of a charge, which a closing may accrue on a day that is
\* locked already, debits no cash account.
LEMMA ChargesTouchNoCash ==
  ASSUME NEW n, NEW a \in CashAccounts
  PROVE  DebitTo(ChargeLines(n), a) = 0
<1>1. a # Charge /\ a # Payable
  BY ClosingAssumption
<1>2. {j \in DOMAIN ChargeLines(n) : ChargeLines(n)[j].account = a} = {}
  BY <1>1 DEF ChargeLines
<1> QED
  BY <1>2, SumEmpty DEF DebitTo

LEMMA ChargeTyped ==
  ASSUME NEW n \in Nat \ {0}
  PROVE  ChargeLines(n) \in Seq(Line)
<1>1. Charge \in FinAccounts /\ Payable \in FinAccounts
  BY ClosingAssumption
<1> QED
  BY <1>1, TwoLines DEF ChargeLines

-----------------------------------------------------------------------------
(* How the journal grows *)

\* A row that may be booked: no locked month has its day, and if a locked day
\* or week has it, it moves no cash.
Allowed(row) ==
    \A p \in periods :
        p.status = "LOCKED" /\ p.first <= row.day /\ row.day <= p.last =>
            p.type # "MONTH" /\ \A a \in CashAccounts : DebitTo(row.lines, a) = 0

\* A booked row keeps its day and its lines and stays booked, and what is
\* booked anew may be.
Kept(old, new) ==
    /\ new.day = old.day /\ new.lines = old.lines
    /\ old.status \in Booked => new.status \in Booked
    /\ old.status \notin Booked /\ new.status \in Booked => Allowed(new)

Grown(old, new) ==
    /\ new \in Seq(Batch)
    /\ \A b \in DOMAIN new : new[b].reverses < b
    /\ \A b \in DOMAIN old : b \in DOMAIN new /\ Kept(old[b], new[b])
    /\ \A b \in DOMAIN new : b \notin DOMAIN old /\ new[b].status \in Booked => Allowed(new[b])

LEMMA OpenAllows ==
  ASSUME NEW row, PeriodOpen(row.day, FALSE)
  PROVE  Allowed(row)
  BY DEF PeriodOpen, Allowed

LEMMA AccrualAllowed ==
  ASSUME NEW row, PeriodOpen(row.day, TRUE), \A a \in CashAccounts : DebitTo(row.lines, a) = 0
  PROVE  Allowed(row)
  BY DEF PeriodOpen, Allowed

LEMMA GrownSame == JournalTypeOK => Grown(batches, batches)
  BY DEF JournalTypeOK, Grown, Kept

LEMMA GrownAdded ==
  ASSUME NEW old \in Seq(Batch), \A b \in DOMAIN old : old[b].reverses < b,
         NEW row \in Batch, row.reverses = 0, row.status \in Booked => Allowed(row),
         NEW new, new = Append(old, row)
  PROVE  Grown(old, new)
<1>1. /\ new \in Seq(Batch)
      /\ DOMAIN new = DOMAIN old \cup {Len(old) + 1}
      /\ DOMAIN old = 1 .. Len(old)
      /\ Len(old) \in Nat
      /\ \A c \in DOMAIN old : new[c] = old[c]
      /\ new[Len(old) + 1] = row
  BY RowAdded
<1>2. \A b \in DOMAIN old : b \in DOMAIN new /\ Kept(old[b], new[b])
  BY <1>1 DEF Kept
<1>3. \A b \in DOMAIN new : new[b].reverses < b
  BY <1>1
<1>4. \A b \in DOMAIN new : b \notin DOMAIN old /\ new[b].status \in Booked => Allowed(new[b])
  BY <1>1, Zenon
<1> QED
  BY <1>1, <1>2, <1>3, <1>4 DEF Grown

\* What TurnedBooks does not say.
LEMMA TurnedKeeps ==
  ASSUME NEW rows \in Seq(Batch), NEW b \in DOMAIN rows, NEW s \in Booked, NEW new, new = WithTurned(rows, b, s)
  PROVE  /\ new \in Seq(Batch)
         /\ DOMAIN new = DOMAIN rows
         /\ \A c \in DOMAIN rows : c # b => new[c] = rows[c]
         /\ new[b].status = s /\ new[b].lines = rows[b].lines /\ new[b].day = rows[b].day
         /\ new[b].reverses = rows[b].reverses
<1>0. s \in {"DRAFT", "POSTED", "REVERSED"}
  BY DEF Booked
<1>1. /\ rows[b] \in Batch
      /\ new \in Seq(Batch)
      /\ DOMAIN new = DOMAIN rows
      /\ \A c \in DOMAIN rows : c # b => new[c] = rows[c]
      /\ new[b] = Turned(rows[b], s)
  BY <1>0, StatusSet
<1> QED
  BY <1>0, <1>1, StatusTurned

LEMMA GrownTurned ==
  ASSUME NEW old \in Seq(Batch), \A c \in DOMAIN old : old[c].reverses < c,
         NEW b \in DOMAIN old, NEW s \in Booked,
         old[b].status \in Booked \/ PeriodOpen(old[b].day, FALSE),
         NEW new, new = WithTurned(old, b, s)
  PROVE  Grown(old, new) /\ DOMAIN new = DOMAIN old
<1>1. /\ new \in Seq(Batch)
      /\ DOMAIN new = DOMAIN old
      /\ \A c \in DOMAIN old : c # b => new[c] = old[c]
  BY TurnedKeeps
<1>2. /\ new[b].status = s /\ new[b].lines = old[b].lines /\ new[b].day = old[b].day
      /\ new[b].reverses = old[b].reverses
  BY TurnedKeeps
<1>3. old[b].status \notin Booked => Allowed(new[b])
  BY <1>2, OpenAllows
<1>4. Kept(old[b], new[b])
  BY <1>2, <1>3 DEF Kept
<1>5. \A c \in DOMAIN old : Kept(old[c], new[c])
  <2>1. \A c \in DOMAIN old : c # b => Kept(old[c], new[c])
    BY <1>1 DEF Kept
  <2> QED
    BY <1>4, <2>1
<1>6. \A c \in DOMAIN new : new[c].reverses < c
  BY <1>1, <1>2
<1> QED
  BY <1>1, <1>5, <1>6 DEF Grown


LEMMA AllowedSame ==
  ASSUME NEW row, NEW other, other.day = row.day, other.lines = row.lines, Allowed(row)
  PROVE  Allowed(other)
  BY DEF Allowed

LEMMA GrownOn ==
  ASSUME NEW old, NEW mid, NEW new, Grown(old, mid), Grown(mid, new)
  PROVE  Grown(old, new)
<1>1. \A b \in DOMAIN mid : /\ b \in DOMAIN new /\ new[b].day = mid[b].day /\ new[b].lines = mid[b].lines
                            /\ mid[b].status \in Booked => new[b].status \in Booked
                            /\ mid[b].status \notin Booked /\ new[b].status \in Booked => Allowed(new[b])
  BY DEF Grown, Kept
<1>2. \A b \in DOMAIN old : /\ b \in DOMAIN mid /\ mid[b].day = old[b].day /\ mid[b].lines = old[b].lines
                            /\ old[b].status \in Booked => mid[b].status \in Booked
                            /\ old[b].status \notin Booked /\ mid[b].status \in Booked => Allowed(mid[b])
  BY DEF Grown, Kept
<1>3. \A b \in DOMAIN mid : Allowed(mid[b]) => Allowed(new[b])
  BY <1>1, AllowedSame
<1>4. \A b \in DOMAIN mid : b \notin DOMAIN old /\ mid[b].status \in Booked => Allowed(mid[b])
  BY DEF Grown
<1>5. \A b \in DOMAIN new : b \notin DOMAIN mid /\ new[b].status \in Booked => Allowed(new[b])
  BY DEF Grown
<1>6. \A b \in DOMAIN old : b \in DOMAIN new /\ Kept(old[b], new[b])
  BY <1>1, <1>2, <1>3, Zenon DEF Kept
<1>7. \A b \in DOMAIN new : b \notin DOMAIN old /\ new[b].status \in Booked => Allowed(new[b])
  BY <1>1, <1>3, <1>4, <1>5, Zenon
<1> QED
  BY <1>6, <1>7 DEF Grown

\* Several rows at once.
LEMMA GrownBy ==
  ASSUME NEW old \in Seq(Batch), \A b \in DOMAIN old : old[b].reverses < b,
         NEW more \in Seq(Batch), \A k \in DOMAIN more : more[k].reverses = 0 /\ Allowed(more[k]),
         NEW new, new = old \o more
  PROVE  Grown(old, new)
<1>1. /\ new \in Seq(Batch)
      /\ DOMAIN new = 1 .. Len(old) + Len(more)
      /\ DOMAIN old = 1 .. Len(old) /\ DOMAIN more = 1 .. Len(more)
      /\ Len(old) \in Nat /\ Len(more) \in Nat
      /\ \A b \in DOMAIN old : new[b] = old[b]
      /\ \A b \in DOMAIN new : b \notin DOMAIN old => new[b] = more[b - Len(old)] /\ b - Len(old) \in DOMAIN more
  OBVIOUS
<1>2. \A b \in DOMAIN old : b \in DOMAIN new /\ Kept(old[b], new[b])
  BY <1>1 DEF Kept
<1>3. \A b \in DOMAIN new : b \notin DOMAIN old => new[b].reverses = 0 /\ Allowed(new[b])
  BY <1>1
<1>4. \A b \in DOMAIN new : new[b].reverses < b
  BY <1>1, <1>3
<1> QED
  BY <1>1, <1>2, <1>3, <1>4 DEF Grown

-----------------------------------------------------------------------------
(* The flow of a period *)

Window(rows, i, j) == {b \in DOMAIN rows : rows[b].status \in Booked /\ i <= rows[b].day /\ rows[b].day <= j}
WindowDebit(rows, a, i, j) == SumFunction([b \in Window(rows, i, j) |-> DebitTo(rows[b].lines, a)])
Until(rows, day) == {b \in DOMAIN rows : rows[b].status \in Booked /\ rows[b].day < day}
DebitUntil(rows, a, day) == SumFunction([b \in Until(rows, day) |-> DebitTo(rows[b].lines, a)])

LEMMA RowsDebit ==
  ASSUME NEW rows \in Seq(Batch), NEW a, NEW S \in SUBSET DOMAIN rows
  PROVE  /\ IsFiniteSet(S)
         /\ [b \in S |-> DebitTo(rows[b].lines, a)] \in [S -> Int]
<1>1. IsFiniteSet(S)
  BY PositionsFinite
<1>2. \A b \in S : rows[b] \in Batch
  OBVIOUS
<1>3. \A b \in S : rows[b].lines \in Seq(Line)
  BY <1>2 DEF Batch
<1>4. \A b \in S : DebitTo(rows[b].lines, a) \in Int
  BY <1>3, DebitToInt
<1> QED
  BY <1>1, <1>4

\* What an account moves from one day to another is what the batches of these
\* days debit.
LEMMA FlowIsWindow ==
  ASSUME NEW rows \in Seq(Batch), NEW a, NEW i \in Int, NEW j \in Int, i <= j
  PROVE  /\ BalanceIn(rows, a, j + 1) - BalanceIn(rows, a, i) = Natural(a, WindowDebit(rows, a, i, j))
         /\ BalanceIn(rows, a, i) \in Int /\ BalanceIn(rows, a, j + 1) \in Int
         /\ WindowDebit(rows, a, i, j) \in Int
<1> DEFINE S == Until(rows, j + 1)
           T == Until(rows, i)
           W == Window(rows, i, j)
           f == [b \in S |-> DebitTo(rows[b].lines, a)]
<1>1. S \in SUBSET DOMAIN rows
  BY DEF Until
<1>2. \A b \in DOMAIN rows : rows[b].day \in Int
  <2>1. \A b \in DOMAIN rows : rows[b] \in Batch
    OBVIOUS
  <2>2. \A r \in Batch : r.day \in Int
    BY DEF Batch, Days
  <2> QED
    BY <2>1, <2>2
<1>3. T \in SUBSET S /\ S \ T = W
  BY <1>2 DEF Until, Window
<1>4. IsFiniteSet(S) /\ f \in [S -> Int]
  BY <1>1, RowsDebit
<1>5. /\ Restrict(f, T) = [b \in T |-> DebitTo(rows[b].lines, a)]
      /\ Restrict(f, S \ T) = [b \in W |-> DebitTo(rows[b].lines, a)]
  BY <1>3 DEF Restrict
<1>6. /\ SumFunction(f) = SumFunction(Restrict(f, T)) + SumFunction(Restrict(f, S \ T))
      /\ SumFunction(Restrict(f, T)) \in Int /\ SumFunction(Restrict(f, S \ T)) \in Int
      /\ SumFunction(f) \in Int
  <2> HIDE DEF f, S, T
  <2> QED
    BY <1>3, <1>4, SumSplit, SumInt
<1>7. /\ DebitUntil(rows, a, j + 1) = DebitUntil(rows, a, i) + WindowDebit(rows, a, i, j)
      /\ DebitUntil(rows, a, i) \in Int /\ WindowDebit(rows, a, i, j) \in Int
      /\ DebitUntil(rows, a, j + 1) \in Int
  <2> HIDE DEF S, T, W
  <2>1. SumFunction(f) = DebitUntil(rows, a, j + 1)
    BY DEF S, DebitUntil
  <2>2. SumFunction(Restrict(f, T)) = DebitUntil(rows, a, i)
    BY <1>5 DEF T, DebitUntil
  <2>3. SumFunction(Restrict(f, S \ T)) = WindowDebit(rows, a, i, j)
    BY <1>5 DEF W, WindowDebit
  <2> QED
    BY <1>6, <2>1, <2>2, <2>3
<1>8. \A day : BalanceIn(rows, a, day) = Natural(a, DebitUntil(rows, a, day))
  BY DEF BalanceIn, DebitUntil, Until
<1> QED
  BY <1>7, <1>8 DEF Natural

\* No step changes what moved within a locked period: in a month in no
\* account, on a day or in a week in no cash account.
LEMMA WindowStays ==
  ASSUME NEW old \in Seq(Batch), NEW new, Grown(old, new),
         NEW p \in periods, p.status = "LOCKED",
         NEW a, p.type = "MONTH" \/ a \in CashAccounts
  PROVE  WindowDebit(new, a, p.first, p.last) = WindowDebit(old, a, p.first, p.last)
<1> DEFINE S == Window(new, p.first, p.last)
           T == Window(old, p.first, p.last)
           f == [b \in S |-> DebitTo(new[b].lines, a)]
<1>1. new \in Seq(Batch) /\ S \in SUBSET DOMAIN new
  BY DEF Grown, Window
<1>2. \A b \in DOMAIN old : /\ b \in DOMAIN new /\ new[b].day = old[b].day /\ new[b].lines = old[b].lines
                            /\ old[b].status \in Booked => new[b].status \in Booked
                            /\ old[b].status \notin Booked /\ new[b].status \in Booked => Allowed(new[b])
  BY DEF Grown, Kept
<1>3. \A b \in DOMAIN new : b \notin DOMAIN old /\ new[b].status \in Booked => Allowed(new[b])
  BY DEF Grown
<1>4. T \in SUBSET S
  BY <1>2 DEF Window
<1>5. \A b \in S \ T : Allowed(new[b]) /\ p.first <= new[b].day /\ new[b].day <= p.last
  BY <1>2, <1>3, Zenon DEF Window
<1>6. \A b \in S \ T : DebitTo(new[b].lines, a) = 0
  BY <1>5 DEF Allowed
<1>7. f \in [S -> Int] /\ IsFiniteSet(S)
  BY <1>1, RowsDebit
<1>8. SumFunction(f) = SumFunction(Restrict(f, T))
  <2>1. \A b \in S \ T : f[b] = 0
    BY <1>6
  <2> HIDE DEF f, S, T
  <2> QED
    BY <1>4, <1>7, <2>1, SumBeyond
<1>9. Restrict(f, T) = [b \in T |-> DebitTo(old[b].lines, a)]
  <2>1. \A b \in T : new[b].lines = old[b].lines
    BY <1>2 DEF Window
  <2> QED
    BY <1>4, <2>1 DEF Restrict
<1> QED
  BY <1>8, <1>9 DEF WindowDebit


-----------------------------------------------------------------------------
(* Every step only makes the journal grow *)

GrowStep == Grown(batches, batches')

LEMMA RowGrows ==
  ASSUME JournalTypeOK, NEW row \in Batch, row.reverses = 0, row.status \in Booked => Allowed(row),
         batches' = Append(batches, row)
  PROVE  GrowStep
<1>1. batches \in Seq(Batch) /\ \A b \in DOMAIN batches : batches[b].reverses < b
  BY DEF JournalTypeOK
<1> QED
  BY <1>1, GrownAdded DEF GrowStep

LEMMA EventGrows ==
  ASSUME JournalTypeOK, NEW m \in Models, NEW n \in Nat, NEW event \in Events, NEW day \in Days,
         NEW lines \in Seq(Line), NEW accrual \in BOOLEAN,
         RecordEvent(<<m, n>>, event, day, lines, accrual),
         accrual => \A a \in CashAccounts : DebitTo(lines, a) = 0
  PROVE  GrowStep
<1> DEFINE row == NewBatch(<<m, n, event>>, <<m, n>>, event, day, lines, "POSTED", 0)
<1>1. row \in Batch
  BY EventTyped
<1>2. batches' = Append(batches, row) /\ PeriodOpen(day, accrual)
  BY DEF RecordEvent, Post
<1>3. row.reverses = 0 /\ row.day = day /\ row.lines = lines
  BY DEF NewBatch
<1> HIDE DEF row
<1>4. Allowed(row)
  <2>1. CASE accrual
    <3>1. PeriodOpen(row.day, TRUE)
      BY <1>2, <1>3, <2>1
    <3>2. \A a \in CashAccounts : DebitTo(row.lines, a) = 0
      BY <1>3, <2>1
    <3> QED
      BY <3>1, <3>2, AccrualAllowed
  <2>2. CASE ~ accrual
    <3>1. PeriodOpen(row.day, FALSE)
      BY <1>2, <1>3, <2>2
    <3> QED
      BY <3>1, OpenAllows
  <2> QED
    BY <2>1, <2>2
<1> QED
  BY <1>1, <1>2, <1>3, <1>4, RowGrows

LEMMA JournalGrows ==
  ASSUME JournalTypeOK, [JournalNext]_journalVars
  PROVE  GrowStep
<1>0. batches \in Seq(Batch) /\ today \in Days /\ \A b \in DOMAIN batches : batches[b].reverses < b
  BY DEF JournalTypeOK
<1>1. ASSUME batches' = batches PROVE GrowStep
  BY <1>1, GrownSame DEF GrowStep
<1>2. ASSUME NEW u \in Users, NEW token \in Tokens, NEW day \in Days, NEW lines \in Drafts,
             PrepareBatch(u, token, day, lines)
      PROVE  GrowStep
  <2> DEFINE row == NewBatch(<<"manual", token, "">>, NoSource, "MANUAL", day, lines, "DRAFT", 0)
  <2>1. row \in Batch /\ row.reverses = 0 /\ row.status \notin Booked
    BY DraftTyped DEF NewBatch, Booked
  <2>2. batches' = Append(batches, row)
    BY <1>2 DEF PrepareBatch
  <2> HIDE DEF row
  <2> QED
    BY <2>1, <2>2, RowGrows
<1>3. ASSUME NEW u \in Users, NEW b \in DOMAIN batches, PostBatch(u, b)
      PROVE  GrowStep
  <2>1. /\ batches' = WithTurned(batches, b, "POSTED")
        /\ PeriodOpen(batches[b].day, FALSE)
        /\ "POSTED" \in Booked
    BY <1>3 DEF PostBatch, Post, WithTurned, Booked
  <2> QED
    BY <1>0, <2>1, GrownTurned DEF GrowStep
<1>4. ASSUME NEW u \in Users, NEW b \in DOMAIN batches, ReverseBatch(u, b)
      PROVE  GrowStep
  <2> DEFINE row == NewBatch(<<"manual-reversal", b, "">>, <<"JournalBatch", b>>, "REVERSAL",
                             today, Opposite(batches[b].lines), "POSTED", b)
             marked == WithTurned(batches, b, "REVERSED")
  <2>1. /\ batches' = Append(marked, row)
        /\ batches[b].status \in Booked /\ "REVERSED" \in Booked
        /\ PeriodOpen(today, FALSE)
    BY <1>4 DEF ReverseBatch, Reversal, Post, WithTurned, Booked
  <2>2. row \in Batch /\ row.reverses = b /\ row.day = today
    <3>1. row \in Batch
      BY <1>0, ReversalTyped
    <3> QED
      BY <3>1 DEF NewBatch
  <2>3. marked \in Seq(Batch) /\ Grown(batches, marked) /\ DOMAIN marked = DOMAIN batches
    <3>1. Grown(batches, marked) /\ DOMAIN marked = DOMAIN batches
      BY <1>0, <2>1, GrownTurned
    <3> QED
      BY <3>1 DEF Grown
  <2> HIDE DEF row, marked
  <2>4. Allowed(row)
    <3>1. PeriodOpen(row.day, FALSE)
      BY <2>1, <2>2
    <3> QED
      BY <3>1, OpenAllows
  <2>5. Grown(marked, batches')
    <3>1. /\ batches' \in Seq(Batch)
          /\ DOMAIN batches' = DOMAIN marked \cup {Len(marked) + 1}
          /\ DOMAIN marked = 1 .. Len(marked)
          /\ Len(marked) \in Nat
          /\ \A c \in DOMAIN marked : batches'[c] = marked[c]
          /\ batches'[Len(marked) + 1] = row
      BY <2>1, <2>2, <2>3, RowAdded
    <3>2. \A c \in DOMAIN marked : marked[c].reverses < c
      BY <2>3 DEF Grown
    <3>3. b < Len(marked) + 1
      BY <2>3, <3>1
    <3>4. \A c \in DOMAIN batches' : batches'[c].reverses < c
      BY <2>2, <3>1, <3>2, <3>3
    <3>5. \A c \in DOMAIN marked : c \in DOMAIN batches' /\ Kept(marked[c], batches'[c])
      BY <3>1 DEF Kept
    <3>6. \A c \in DOMAIN batches' : c \notin DOMAIN marked /\ batches'[c].status \in Booked => Allowed(batches'[c])
      BY <2>4, <3>1, Zenon
    <3> QED
      BY <3>1, <3>4, <3>5, <3>6 DEF Grown
  <2> QED
    BY <2>3, <2>5, GrownOn DEF GrowStep
<1>5. ASSUME NEW u \in Users, NEW form \in PeriodForms, CreatePeriod(u, form) PROVE GrowStep
  BY <1>1, <1>5 DEF CreatePeriod
<1>6. CASE NextDay
  BY <1>1, <1>6 DEF NextDay
<1>7. CASE UNCHANGED journalVars
  BY <1>1, <1>7 DEF journalVars
<1> QED
  BY <1>2, <1>3, <1>4, <1>5, <1>6, <1>7 DEF JournalNext


-----------------------------------------------------------------------------
(* Charges and closings *)

LEMMA ExpenseRow ==
  ASSUME DividendsTypeOK, NEW e \in DOMAIN expenses
  PROVE  /\ expenses[e] \in Expense
         /\ expenses[e].amount \in Nat \ {0} /\ expenses[e].day \in Days /\ expenses[e].paid \in Nat
         /\ expenses[e].recognised \in Nat /\ expenses[e].booked \in Nat /\ expenses[e].accrual \in Nat
         /\ e \in Nat \ {0} /\ Len(expenses) \in Nat
<1>1. expenses[e] \in Expense /\ e \in Nat \ {0} /\ Len(expenses) \in Nat
  BY DEF DividendsTypeOK
<1>2. \A row \in Expense : /\ row.amount \in Nat \ {0} /\ row.day \in Days /\ row.paid \in Nat
                           /\ row.recognised \in Nat /\ row.booked \in Nat /\ row.accrual \in Nat
  BY DEF Expense
<1> QED
  BY <1>1, <1>2

LEMMA ApproveExpenseGrows ==
  ASSUME DividendsTypeOK, NEW u \in Users, NEW e \in DOMAIN expenses, ApproveExpense(u, e)
  PROVE  GrowStep
<1>1. expenses[e].amount \in Nat \ {0} /\ expenses[e].day \in Days /\ e \in Nat
  BY ExpenseRow
<1>2. ChargeLines(expenses[e].amount) \in Seq(Line)
  BY <1>1, ChargeTyped
<1>3. RecordEvent(<<"Expense", e>>, "EXPENSE_RECOGNITION", expenses[e].day,
                  ChargeLines(expenses[e].amount), FALSE)
  BY DEF ApproveExpense, Recognition
<1>4. JournalTypeOK
  BY DEF DividendsTypeOK
<1>5. "Expense" \in Models /\ "EXPENSE_RECOGNITION" \in Events
  BY DEF Models, Events
<1>6. \A lines \in Seq(Line), day \in Days :
         RecordEvent(<<"Expense", e>>, "EXPENSE_RECOGNITION", day, lines, FALSE) => GrowStep
  BY <1>1, <1>4, <1>5, EventGrows
<1> QED
  BY <1>1, <1>2, <1>3, <1>6

LEMMA PayExpenseGrows ==
  ASSUME DividendsTypeOK, NEW u \in Users, NEW e \in DOMAIN expenses, NEW a \in CashAccounts,
         NEW amount \in Counts, NEW token \in Tokens, PayExpense(u, e, a, amount, token)
  PROVE  GrowStep
<1> DEFINE lines == <<[account |-> Payable, debit |-> amount], [account |-> a, debit |-> -amount]>>
           row == NewBatch(<<"payment", token, "">>, NoSource, "EXPENSE_PAYMENT", today, lines, "POSTED", 0)
<1>1. amount \in Int \ {0} /\ a \in FinAccounts /\ Payable \in FinAccounts
  <2>1. amount > 0
    BY DEF PayExpense
  <2>2. amount \in Nat /\ a \in FinAccounts /\ Payable \in FinAccounts
    BY ClosingAssumption
  <2> QED
    BY <2>1, <2>2
<1>2. lines \in Seq(Line)
  BY <1>1, TwoLines
<1>3. today \in Days /\ JournalTypeOK
  BY DEF DividendsTypeOK, JournalTypeOK
<1>4. batches' = Append(batches, row) /\ PeriodOpen(today, FALSE)
  BY DEF PayExpense, Post
<1> HIDE DEF lines
<1>5. row \in Batch /\ row.reverses = 0 /\ row.day = today
  <2>1. row \in Batch
    BY <1>2, <1>3, PaymentTyped
  <2> QED
    BY <2>1 DEF NewBatch
<1> HIDE DEF row
<1>6. Allowed(row)
  <2>1. PeriodOpen(row.day, FALSE)
    BY <1>4, <1>5
  <2> QED
    BY <2>1, OpenAllows
<1> QED
  BY <1>3, <1>4, <1>5, <1>6, RowGrows

LEMMA ClosePeriodGrows ==
  ASSUME DividendsTypeOK, NEW u \in Users, NEW p \in periods, ClosePeriod(u, p)
  PROVE  GrowStep
<1>1. JournalTypeOK /\ p.last \in Days /\ Len(expenses) + 1 \in Nat
  <2>1. p \in Period
    BY DEF DividendsTypeOK, JournalTypeOK
  <2>2. p.last \in Days
    BY <2>1 DEF Period
  <2>3. expenses \in Seq(Expense)
    BY DEF DividendsTypeOK
  <2> QED
    BY <2>2, <2>3 DEF DividendsTypeOK
<1>2. CASE Accrues(p)
  <2>1. Salary \in Nat \ {0}
    BY <1>2, ClosingAssumption DEF Accrues
  <2>2. ChargeLines(Salary) \in Seq(Line)
    BY <2>1, ChargeTyped
  <2>3. RecordEvent(<<"Expense", Len(expenses) + 1>>, "EXPENSE_RECOGNITION", p.last, ChargeLines(Salary), TRUE)
    BY <1>2 DEF ClosePeriod, Accrue, Recognition
  <2>4. "Expense" \in Models /\ "EXPENSE_RECOGNITION" \in Events
    BY DEF Models, Events
  <2>5. \A a \in CashAccounts : DebitTo(ChargeLines(Salary), a) = 0
    BY ChargesTouchNoCash
  <2>6. \A n \in Nat :
           RecordEvent(<<"Expense", n>>, "EXPENSE_RECOGNITION", p.last, ChargeLines(Salary), TRUE) => GrowStep
    BY <1>1, <2>2, <2>4, <2>5, EventGrows
  <2> QED
    BY <1>1, <2>3, <2>6
<1>3. CASE ~ Accrues(p)
  <2>1. batches' = batches
    BY <1>3 DEF ClosePeriod, Accrue
  <2> QED
    BY <1>1, <2>1, GrownSame DEF GrowStep
<1> QED
  BY <1>2, <1>3

-----------------------------------------------------------------------------
(* Distributions *)

LEMMA ShareTyped ==
  ASSUME NEW n \in Int, NEW i \in 1 .. 4
  PROVE  Quarter(n) \in Int /\ Share(n, i) \in Int
  BY DEF Quarter, Share

LEMMA PartiesTyped == \A i \in 1 .. 4 : Shareholders[i] \in Parties
  BY DEF Parties

\* A row that an approval books.
Approved(row) ==
    /\ row \in Batch /\ row.reverses = 0 /\ row.day = today /\ row.status = "POSTED"
    /\ row.source[1] = "Distribution"
ApprovedRows == {row \in Batch : Approved(row)}

LEMMA ApprovalBatchTyped ==
  ASSUME DividendsTypeOK, NEW q \in profits, NEW amount \in Int, NEW i \in 1 .. 4
  PROVE  ApprovalBatch(q, amount, i) \in Seq(ApprovedRows)
<1>1. CASE Share(amount, i) = 0
  BY <1>1 DEF ApprovalBatch
<1>2. CASE Share(amount, i) # 0
  <2> DEFINE d == Len(parts) + i
             lines == ApprovalLines(q, amount, i)
             row == NewBatch(<<"Distribution", d, "DISTRIBUTION_APPROVE">>, <<"Distribution", d>>,
                             "DISTRIBUTION_APPROVE", today, lines, "POSTED", 0)
  <2>1. ApprovalBatch(q, amount, i) = <<row>>
    BY <1>2 DEF ApprovalBatch, DistributionRow
  <2>2. d \in Nat /\ today \in Days /\ q \in Profit
    <3>1. parts \in Seq(Part)
      BY DEF DividendsTypeOK
    <3> QED
      BY <3>1 DEF DividendsTypeOK, JournalTypeOK
  <2>3. Capital[q.currency] \in FinAccounts /\ DividendPayable[<<q.currency, Shareholders[i]>>] \in FinAccounts
    <3>1. q.currency \in Currencies
      BY <2>2 DEF Profit
    <3> QED
      BY <3>1, PartiesTyped, DividendsAssumption
  <2>4. lines \in Seq(Line)
    <3>1. Share(amount, i) \in Int \ {0}
      BY <1>2, ShareTyped
    <3> QED
      BY <2>3, <3>1, TwoLines DEF ApprovalLines, From
  <2>5. "Distribution" \in Models /\ "DISTRIBUTION_APPROVE" \in Events
    BY DEF Models, Events
  <2> HIDE DEF lines, d
  <2>6. row \in Batch
    BY <2>2, <2>4, <2>5, EventTyped
  <2>7. /\ row.reverses = 0 /\ row.day = today /\ row.status = "POSTED"
        /\ row.source = <<"Distribution", d>>
    BY DEF NewBatch
  <2> HIDE DEF row
  <2>8. row \in ApprovedRows
    <3>1. row.source[1] = "Distribution"
      BY <2>7, FirstOfSource
    <3> QED
      BY <2>6, <2>7, <3>1 DEF ApprovedRows, Approved
  <2> QED
    BY <2>1, <2>8
<1> QED
  BY <1>1, <1>2

LEMMA ApprovalBatchesTyped ==
  ASSUME DividendsTypeOK, NEW q \in profits, NEW amount \in Int
  PROVE  ApprovalBatches(q, amount) \in Seq(ApprovedRows)
<1>1. /\ ApprovalBatch(q, amount, 1) \in Seq(ApprovedRows)
      /\ ApprovalBatch(q, amount, 2) \in Seq(ApprovedRows)
      /\ ApprovalBatch(q, amount, 3) \in Seq(ApprovedRows)
      /\ ApprovalBatch(q, amount, 4) \in Seq(ApprovedRows)
  BY ApprovalBatchTyped
<1> QED
  BY <1>1 DEF ApprovalBatches

LEMMA ApproveGrows ==
  ASSUME DividendsTypeOK, NEW u \in Users, NEW q \in profits, NEW amount \in Proposals \cup AmountForms,
         ApproveDistributions(u, q, amount)
  PROVE  GrowStep
<1> DEFINE more == ApprovalBatches(q, amount)
<1>1. more \in Seq(ApprovedRows)
  BY ApprovalBatchesTyped, DividendsAssumption
<1>2. batches' = batches \o more /\ PeriodOpen(today, FALSE)
  BY DEF ApproveDistributions, Post
<1>3. batches \in Seq(Batch) /\ \A b \in DOMAIN batches : batches[b].reverses < b
  BY DEF DividendsTypeOK, JournalTypeOK
<1> HIDE DEF more
<1>4. \A row \in ApprovedRows : row \in Batch /\ row.reverses = 0 /\ row.day = today
  BY DEF ApprovedRows, Approved
<1>5. \A row \in ApprovedRows : Allowed(row)
  BY <1>2, <1>4 DEF PeriodOpen, Allowed
<1>6. more \in Seq(Batch) /\ \A k \in DOMAIN more : more[k] \in ApprovedRows
  <2>1. ApprovedRows \subseteq Batch
    BY <1>4
  <2> QED
    BY <1>1, <2>1
<1> QED
  BY <1>2, <1>3, <1>4, <1>5, <1>6, GrownBy DEF GrowStep


LEMMA PartRow ==
  ASSUME DividendsTypeOK, NEW d \in DOMAIN parts
  PROVE  /\ parts[d] \in Part /\ parts[d].profit \in profits
         /\ parts[d].profit.currency \in Currencies /\ parts[d].party \in Parties
         /\ parts[d].amount \in Int /\ parts[d].left \in Int /\ d \in Nat \ {0}
<1>1. parts[d] \in Part /\ parts[d].profit \in profits /\ d \in Nat \ {0}
  BY DEF DividendsTypeOK
<1>2. \A row \in Part : /\ row.party \in Parties /\ row.amount \in Int /\ row.left \in Int
                        /\ row.profit.currency \in Currencies
  BY DEF Part, Profit
<1> QED
  BY <1>1, <1>2

LEMMA SettleGrows ==
  ASSUME DividendsTypeOK, NEW d \in DOMAIN parts, NEW event \in Events, NEW account \in FinAccounts, NEW status,
         Settle(d, event, account, status)
  PROVE  GrowStep
<1> DEFINE payable == DividendPayable[<<parts[d].profit.currency, parts[d].party>>]
           lines == From(payable, account, parts[d].amount)
<1>1. payable \in FinAccounts
  <2>1. <<parts[d].profit.currency, parts[d].party>> \in Currencies \X Parties
    BY PartRow
  <2> QED
    BY <2>1, DividendsAssumption
<1>2. RecordEvent(<<"Distribution", d>>, event, today, lines, FALSE) /\ parts[d].amount > 0
  BY DEF Settle, DistributionRow
<1> HIDE DEF payable
<1>3. lines \in Seq(Line)
  <2>1. parts[d].amount \in Int \ {0}
    BY <1>2, PartRow
  <2> QED
    BY <1>1, <2>1, TwoLines DEF From
<1>4. JournalTypeOK /\ today \in Days /\ d \in Nat /\ "Distribution" \in Models
  BY DEF DividendsTypeOK, JournalTypeOK, Models
<1> HIDE DEF lines
<1> QED
  BY <1>2, <1>3, <1>4, EventGrows

LEMMA ReinvestedIn ==
  ASSUME DividendsTypeOK, NEW d \in DOMAIN parts
  PROVE  /\ CapitalOf[<<parts[d].profit.currency, parts[d].party>>] \in FinAccounts
         /\ Nature[CapitalOf[<<parts[d].profit.currency, parts[d].party>>]] # "LIABILITY"
<1>1. <<parts[d].profit.currency, parts[d].party>> \in Currencies \X Parties
  BY PartRow
<1>2. \A x \in Currencies \X Parties : CapitalOf[x] \in FinAccounts /\ Nature[CapitalOf[x]] = "EQUITY"
  BY DividendsAssumption, CounterpartAssumption
<1> QED
  BY <1>1, <1>2

\* A part is settled towards one account or another, no debt.
SettleStep ==
    \E d \in DOMAIN parts, event \in Events, account \in FinAccounts, status \in {"PAID", "REINVESTED"} :
        Settle(d, event, account, status) /\ Nature[account] # "LIABILITY"

LEMMA PayOutSettles ==
  ASSUME NEW u \in Users, NEW d \in DOMAIN parts, NEW a \in CashAccounts, PayOut(u, d, a)
  PROVE  SettleStep
<1>1. Settle(d, "DISTRIBUTION_PAY", a, "PAID")
  BY DEF PayOut
<1>2. "DISTRIBUTION_PAY" \in Events /\ a \in FinAccounts /\ Nature[a] # "LIABILITY"
  BY ClosingAssumption DEF Events
<1> QED
  BY <1>1, <1>2, Zenon DEF SettleStep

LEMMA ReinvestSettles ==
  ASSUME DividendsTypeOK, NEW u \in Users, NEW d \in DOMAIN parts, Reinvest(u, d)
  PROVE  SettleStep
<1> DEFINE account == CapitalOf[<<parts[d].profit.currency, parts[d].party>>]
<1>1. Settle(d, "DISTRIBUTION_REINVEST", account, "REINVESTED")
  BY DEF Reinvest
<1>2. "DISTRIBUTION_REINVEST" \in Events /\ account \in FinAccounts /\ Nature[account] # "LIABILITY"
  BY ReinvestedIn DEF Events
<1> HIDE DEF account
<1> QED
  BY <1>1, <1>2, Zenon DEF SettleStep

-----------------------------------------------------------------------------
(* The steps *)

\* What the journal does, with the rest as it is.
JournalStep == [JournalNext]_journalVars /\ UNCHANGED <<expenses, counts, profits, proposals, allocations, parts>>
ExpenseStep ==
    /\ \E u \in Users : \/ \E form \in ChargeForms : CreateExpense(u, form)
                        \/ \E e \in DOMAIN expenses :
                              \/ ApproveExpense(u, e) \/ RejectExpense(u, e)
                              \/ \E a \in CashAccounts, amount \in Counts, token \in Tokens :
                                    PayExpense(u, e, a, amount, token)
    /\ UNCHANGED <<proposals, allocations, parts>>
\* The forms of a charge, and an approval that finds its batch: only the rows
\* of charges change.
ExpenseFormStep ==
    /\ \E u \in Users : \/ \E form \in ExpenseForms : AddExpense(u, form)
                        \/ \E e \in DOMAIN expenses :
                              \/ \E b \in DOMAIN batches : ApproveRecognised(u, e, b)
                              \/ \E form \in ExpenseForms : SaveExpense(u, e, form)
                              \/ DeleteExpense(u, e) \/ DeleteApproval(u, e)
    /\ UNCHANGED <<proposals, allocations, parts>>
CountStep ==
    /\ \E u \in Users, p \in periods, a \in CashAccounts, declared \in Counts \cup {NotCounted}, justified \in BOOLEAN :
          RecordCount(u, p, a, declared, justified)
    /\ UNCHANGED <<proposals, allocations, parts>>
CloseStep ==
    /\ \E u \in Users, p \in periods : ClosePeriod(u, p)
    /\ UNCHANGED <<proposals, allocations, parts>>
Offers == Proposals \cup AmountForms
ProposeStep == \E u \in Users, q \in profits, amount \in Offers : ProposeDistribution(u, q, amount)
ApproveStep == \E u \in Users, q \in profits, amount \in Offers : ApproveDistributions(u, q, amount)
\* The forms of results and allocations, and those of parts.
AmountFormStep ==
    \E u \in Users, q \in profits :
        \/ \E amount \in AmountForms : SaveProposal(u, q, amount) \/ SaveAllocation(u, q, amount)
        \/ ClearProposal(u, q) \/ DeleteAllocation(u, q)
PartFormStep ==
    \E u \in Users :
        \/ \E form \in PartForms, q \in profits, s \in Parties : AddPart(u, q, s, form)
        \/ \E d \in DOMAIN parts : DeletePart(u, d) \/ \E form \in PartForms : SavePart(u, d, form)

LEMMA OffersTyped == \A amount \in Offers : amount \in Int
  BY DividendsAssumption DEF Offers

LEMMA ExpenseFormQuiet ==
  ASSUME ExpenseFormStep
  PROVE  /\ UNCHANGED <<journalVars, cached, batches, periods, today>>
         /\ UNCHANGED <<counts, profits, proposals, allocations, parts>>
<1>1. UNCHANGED <<journalVars, counts, profits>>
  BY DEF ExpenseFormStep, AddExpense, SaveExpense, DeleteExpense, DeleteApproval, ApproveRecognised
<1> QED
  BY <1>1 DEF ExpenseFormStep, journalVars

LEMMA AmountFormQuiet ==
  ASSUME AmountFormStep
  PROVE  /\ UNCHANGED <<journalVars, cached, batches, periods, today>>
         /\ UNCHANGED <<closingVars, expenses, counts, profits, parts>>
<1>1. UNCHANGED <<closingVars, parts>>
  BY DEF AmountFormStep, SaveProposal, SaveAllocation, ClearProposal, DeleteAllocation
<1> QED
  BY <1>1 DEF closingVars, journalVars

LEMMA PartFormQuiet ==
  ASSUME PartFormStep
  PROVE  /\ UNCHANGED <<journalVars, cached, batches, periods, today>>
         /\ UNCHANGED <<closingVars, expenses, counts, profits, proposals, allocations>>
<1>1. UNCHANGED <<closingVars, proposals, allocations>>
  BY DEF PartFormStep, AddPart, SavePart, DeletePart
<1> QED
  BY <1>1 DEF closingVars, journalVars

LEMMA Steps ==
  ASSUME DividendsTypeOK, [DividendsNext]_dividendVars
  PROVE  \/ JournalStep \/ ExpenseStep \/ ExpenseFormStep \/ CountStep \/ CloseStep
         \/ ProposeStep \/ ApproveStep \/ AmountFormStep \/ PartFormStep \/ SettleStep
<1>1. CASE UNCHANGED dividendVars
  BY <1>1 DEF dividendVars, closingVars, JournalStep
<1>2. CASE ClosingNext /\ UNCHANGED <<proposals, allocations, parts>>
  BY <1>2 DEF ClosingNext, JournalStep, ExpenseStep, ExpenseFormStep, CountStep, CloseStep
<1>3. ASSUME NEW u \in Users, NEW q \in profits, NEW amount \in Offers,
             ProposeDistribution(u, q, amount) \/ ApproveDistributions(u, q, amount)
      PROVE  ProposeStep \/ ApproveStep
  BY <1>3 DEF ProposeStep, ApproveStep
<1>4. ASSUME NEW u \in Users, NEW d \in DOMAIN parts, NEW a \in CashAccounts, PayOut(u, d, a) PROVE SettleStep
  BY <1>4, PayOutSettles
<1>5. ASSUME NEW u \in Users, NEW d \in DOMAIN parts, Reinvest(u, d) PROVE SettleStep
  BY <1>5, ReinvestSettles
<1>6. ASSUME NEW u \in Users, NEW q \in profits,
             \/ \E amount \in AmountForms : SaveProposal(u, q, amount) \/ SaveAllocation(u, q, amount)
             \/ ClearProposal(u, q) \/ DeleteAllocation(u, q)
      PROVE  AmountFormStep
  BY <1>6 DEF AmountFormStep
<1>7. ASSUME NEW u \in Users,
             \/ \E form \in PartForms, q \in profits, s \in Parties : AddPart(u, q, s, form)
             \/ \E d \in DOMAIN parts : DeletePart(u, d) \/ \E form \in PartForms : SavePart(u, d, form)
      PROVE  PartFormStep
  BY <1>7 DEF PartFormStep
<1> QED
  BY <1>1, <1>2, <1>3, <1>4, <1>5, <1>6, <1>7 DEF DividendsNext, Offers

LEMMA StepGrows ==
  ASSUME DividendsTypeOK, [DividendsNext]_dividendVars
  PROVE  GrowStep
<1>0. JournalTypeOK
  BY DEF DividendsTypeOK
<1>1. ASSUME UNCHANGED journalVars PROVE GrowStep
  BY <1>0, <1>1, JournalGrows
<1>2. CASE JournalStep
  BY <1>0, <1>2, JournalGrows DEF JournalStep
<1>3. CASE ExpenseStep
  <2>1. ASSUME NEW u \in Users, NEW form \in ChargeForms, CreateExpense(u, form) PROVE GrowStep
    BY <1>1, <2>1 DEF CreateExpense
  <2>2. ASSUME NEW u \in Users, NEW e \in DOMAIN expenses, RejectExpense(u, e) PROVE GrowStep
    BY <1>1, <2>2 DEF RejectExpense
  <2>3. ASSUME NEW u \in Users, NEW e \in DOMAIN expenses, ApproveExpense(u, e) PROVE GrowStep
    BY <2>3, ApproveExpenseGrows
  <2>4. ASSUME NEW u \in Users, NEW e \in DOMAIN expenses, NEW a \in CashAccounts,
               NEW amount \in Counts, NEW token \in Tokens, PayExpense(u, e, a, amount, token)
        PROVE  GrowStep
    BY <2>4, PayExpenseGrows
  <2> QED
    BY <1>3, <2>1, <2>2, <2>3, <2>4 DEF ExpenseStep
<1>4. CASE CountStep
  BY <1>1, <1>4 DEF CountStep, RecordCount
<1>5. CASE CloseStep
  BY <1>5, ClosePeriodGrows DEF CloseStep
<1>6. CASE ProposeStep
  BY <1>1, <1>6 DEF ProposeStep, ProposeDistribution, closingVars, journalVars
<1>7. CASE ApproveStep
  BY <1>7, ApproveGrows DEF ApproveStep, Offers
<1>8. CASE SettleStep
  BY <1>8, SettleGrows DEF SettleStep
<1>9. CASE ExpenseFormStep
  BY <1>1, <1>9, ExpenseFormQuiet
<1>10. CASE AmountFormStep
  BY <1>1, <1>10, AmountFormQuiet
<1>11. CASE PartFormStep
  BY <1>1, <1>11, PartFormQuiet
<1> QED
  BY <1>2, <1>3, <1>4, <1>5, <1>6, <1>7, <1>8, <1>9, <1>10, <1>11, Steps


-----------------------------------------------------------------------------
(* Types *)

ExpensesOK == expenses \in Seq(Expense)

LEMMA PeriodRow ==
  ASSUME DividendsTypeOK, NEW p \in periods
  PROVE  /\ p \in Period /\ p.first \in Days /\ p.last \in Days /\ p.first <= p.last
         /\ p.first \in Nat /\ p.last \in Nat
<1>1. p \in Period /\ p.first <= p.last
  BY DEF DividendsTypeOK, JournalTypeOK
<1>2. p.first \in Days /\ p.last \in Days
  BY <1>1 DEF Period
<1> QED
  BY <1>1, <1>2 DEF Days

LEMMA MonthTyped ==
  ASSUME NEW n \in Nat, NEW m \in Nat \ {0}
  PROVE  n \div m \in Nat
  OBVIOUS

LEMMA NewExpenseTyped ==
  ASSUME NEW amount \in Nat \ {0}, NEW day \in Days, NEW status \in Decisions
  PROVE  /\ NewExpense(amount, day, status) \in Expense
         /\ NewExpense(amount, day, status).recognised = 0
         /\ NewExpense(amount, day, status).paid = 0
         /\ NewExpense(amount, day, status).accrual = 0
         /\ NewExpense(amount, day, status).booked = 0
         /\ NewExpense(amount, day, status).edited = FALSE
         /\ NewExpense(amount, day, status).status = status
         /\ NewExpense(amount, day, status).amount = amount
         /\ NewExpense(amount, day, status).day = day
  BY DEF NewExpense, Expense

LEMMA RowDecided ==
  ASSUME NEW row \in Expense, NEW status \in {"APPROVED", "REJECTED"}
  PROVE  /\ [row EXCEPT !.status = status, !.decided = TRUE] \in Expense
         /\ \A b \in Nat : [[row EXCEPT !.status = status, !.decided = TRUE] EXCEPT !.booked = b] \in Expense
         /\ \A b \in Nat, n \in Nat :
               [[row EXCEPT !.status = status, !.decided = TRUE] EXCEPT !.booked = b, !.recognised = n] \in Expense
  BY DEF Expense, Decisions

\* A service or a form writes one charge.
LEMMA ExpenseWritten ==
  ASSUME DividendsTypeOK, NEW e \in DOMAIN expenses, NEW row \in Expense,
         expenses' = [expenses EXCEPT ![e] = row]
  PROVE  /\ ExpensesOK'
         /\ DOMAIN expenses' = DOMAIN expenses /\ expenses'[e] = row
         /\ \A f \in DOMAIN expenses : f # e => expenses'[f] = expenses[f]
  BY DEF DividendsTypeOK, ExpensesOK

LEMMA ExpenseAppended ==
  ASSUME DividendsTypeOK, NEW row \in Expense, expenses' = Append(expenses, row)
  PROVE  /\ ExpensesOK'
         /\ Len(expenses) \in Nat /\ DOMAIN expenses = 1 .. Len(expenses)
         /\ DOMAIN expenses' = DOMAIN expenses \cup {Len(expenses) + 1}
         /\ expenses'[Len(expenses) + 1] = row
         /\ \A f \in DOMAIN expenses : expenses'[f] = expenses[f]
<1>1. expenses \in Seq(Expense)
  BY DEF DividendsTypeOK
<1> QED
  BY <1>1 DEF ExpensesOK

\* What each service makes of the row of a charge.
ApprovedExpense(e) ==
    [[expenses[e] EXCEPT !.status = "APPROVED", !.decided = TRUE]
        EXCEPT !.booked = Len(batches) + 1, !.recognised = expenses[e].amount]
RejectedExpense(e) == [expenses[e] EXCEPT !.status = "REJECTED", !.decided = TRUE]
PaidExpense(e, n) == [expenses[e] EXCEPT !.paid = expenses[e].paid + n]
AccruedExpense(p) ==
    [NewExpense(Salary, p.last, "APPROVED") EXCEPT
        !.booked = Len(batches) + 1, !.decided = TRUE, !.accrual = MonthOf(p), !.recognised = Salary]

LEMMA ApprovedExpenseIs ==
  ASSUME DividendsTypeOK, NEW u \in Users, NEW e \in DOMAIN expenses, ApproveExpense(u, e)
  PROVE  /\ expenses' = [expenses EXCEPT ![e] = ApprovedExpense(e)]
         /\ ApprovedExpense(e) \in Expense
         /\ ApprovedExpense(e).status = "APPROVED" /\ ApprovedExpense(e).amount = expenses[e].amount
         /\ ApprovedExpense(e).day = expenses[e].day /\ ApprovedExpense(e).paid = expenses[e].paid
         /\ ApprovedExpense(e).accrual = expenses[e].accrual /\ ApprovedExpense(e).edited = expenses[e].edited
         /\ ApprovedExpense(e).booked = Len(batches) + 1 /\ ApprovedExpense(e).recognised = expenses[e].amount
<1>1. expenses' = [expenses EXCEPT ![e] = ApprovedExpense(e)]
  BY DEF ApproveExpense, Decided, ApprovedExpense
<1>2. expenses[e] \in Expense /\ expenses[e].amount \in Nat /\ Len(batches) + 1 \in Nat
  <2>1. batches \in Seq(Batch)
    BY DEF DividendsTypeOK, JournalTypeOK
  <2> QED
    BY <2>1, ExpenseRow
<1>3. ApprovedExpense(e) \in Expense
  BY <1>2, RowDecided DEF ApprovedExpense
<1>4. \A row \in Expense, b \in Nat, n \in Nat :
         LET x == [[row EXCEPT !.status = "APPROVED", !.decided = TRUE] EXCEPT !.booked = b, !.recognised = n]
         IN  /\ x.status = "APPROVED" /\ x.amount = row.amount /\ x.day = row.day /\ x.paid = row.paid
             /\ x.accrual = row.accrual /\ x.edited = row.edited /\ x.booked = b /\ x.recognised = n
  BY DEF Expense
<1> QED
  BY <1>1, <1>2, <1>3, <1>4 DEF ApprovedExpense

LEMMA RejectedExpenseIs ==
  ASSUME DividendsTypeOK, NEW u \in Users, NEW e \in DOMAIN expenses, RejectExpense(u, e)
  PROVE  /\ expenses' = [expenses EXCEPT ![e] = RejectedExpense(e)]
         /\ RejectedExpense(e) \in Expense
         /\ RejectedExpense(e).status = "REJECTED" /\ RejectedExpense(e).amount = expenses[e].amount
         /\ RejectedExpense(e).paid = expenses[e].paid
         /\ RejectedExpense(e).accrual = expenses[e].accrual /\ RejectedExpense(e).edited = expenses[e].edited
         /\ RejectedExpense(e).booked = expenses[e].booked
         /\ RejectedExpense(e).recognised = expenses[e].recognised
<1>1. expenses' = [expenses EXCEPT ![e] = RejectedExpense(e)]
  BY DEF RejectExpense, Decided, RejectedExpense
<1>2. expenses[e] \in Expense
  BY ExpenseRow
<1>3. RejectedExpense(e) \in Expense
  BY <1>2, RowDecided DEF RejectedExpense
<1>4. \A row \in Expense :
         LET x == [row EXCEPT !.status = "REJECTED", !.decided = TRUE]
         IN  /\ x.status = "REJECTED" /\ x.amount = row.amount /\ x.paid = row.paid /\ x.accrual = row.accrual
             /\ x.edited = row.edited /\ x.booked = row.booked /\ x.recognised = row.recognised
  BY DEF Expense
<1> QED
  BY <1>1, <1>2, <1>3, <1>4 DEF RejectedExpense

LEMMA PaidExpenseIs ==
  ASSUME DividendsTypeOK, NEW u \in Users, NEW e \in DOMAIN expenses, NEW a \in CashAccounts,
         NEW amount \in Counts, NEW token \in Tokens, PayExpense(u, e, a, amount, token)
  PROVE  /\ expenses' = [expenses EXCEPT ![e] = PaidExpense(e, amount)]
         /\ amount \in Nat \ {0} /\ expenses[e].paid + amount <= expenses[e].amount
         /\ expenses[e].status = "APPROVED"
         /\ PaidExpense(e, amount) \in Expense
         /\ PaidExpense(e, amount).paid = expenses[e].paid + amount
         /\ PaidExpense(e, amount).status = expenses[e].status /\ PaidExpense(e, amount).amount = expenses[e].amount
         /\ PaidExpense(e, amount).day = expenses[e].day /\ PaidExpense(e, amount).accrual = expenses[e].accrual
         /\ PaidExpense(e, amount).edited = expenses[e].edited
         /\ PaidExpense(e, amount).booked = expenses[e].booked
         /\ PaidExpense(e, amount).recognised = expenses[e].recognised
<1>1. expenses' = [expenses EXCEPT ![e] = PaidExpense(e, amount)]
  BY DEF PayExpense, PaidExpense
<1>2. expenses[e] \in Expense /\ expenses[e].paid \in Nat
  BY ExpenseRow
<1>3. /\ amount \in Nat \ {0} /\ expenses[e].paid + amount <= expenses[e].amount
      /\ expenses[e].status = "APPROVED"
  <2>1. amount \in Nat
    BY ClosingAssumption
  <2>2. amount > 0 /\ expenses[e].paid + amount <= expenses[e].amount /\ expenses[e].status = "APPROVED"
    BY DEF PayExpense
  <2> QED
    BY <2>1, <2>2
<1>4. \A row \in Expense, n \in Nat :
         LET x == [row EXCEPT !.paid = n]
         IN  /\ x \in Expense /\ x.paid = n /\ x.status = row.status /\ x.amount = row.amount /\ x.day = row.day
             /\ x.accrual = row.accrual /\ x.edited = row.edited /\ x.booked = row.booked
             /\ x.recognised = row.recognised
  BY DEF Expense
<1>5. expenses[e].paid + amount \in Nat
  BY <1>2, <1>3
<1> QED
  BY <1>1, <1>2, <1>3, <1>4, <1>5 DEF PaidExpense

LEMMA AccruedExpenseIs ==
  ASSUME DividendsTypeOK, NEW u \in Users, NEW p \in periods, ClosePeriod(u, p)
  PROVE  /\ ~ Accrues(p) => expenses' = expenses
         /\ Accrues(p) =>
               /\ expenses' = Append(expenses, AccruedExpense(p))
               /\ AccruedExpense(p) \in Expense
               /\ AccruedExpense(p).status = "APPROVED" /\ AccruedExpense(p).amount = Salary
               /\ AccruedExpense(p).day = p.last /\ AccruedExpense(p).paid = 0
               /\ AccruedExpense(p).accrual = MonthOf(p) /\ AccruedExpense(p).edited = FALSE
               /\ AccruedExpense(p).booked = Len(batches) + 1 /\ AccruedExpense(p).recognised = Salary
<1>1. expenses' = AccruedExpenses(p)
  BY DEF ClosePeriod, Accrue
<1>2. Accrues(p) => expenses' = Append(expenses, AccruedExpense(p))
  BY <1>1 DEF AccruedExpenses, AccruedExpense
<1>3. p.last \in Days /\ MonthOf(p) \in Nat
  BY PeriodRow, MonthTyped, ClosingAssumption DEF MonthOf
<1>4. Len(batches) + 1 \in Nat
  <2>1. batches \in Seq(Batch)
    BY DEF DividendsTypeOK, JournalTypeOK
  <2> QED
    BY <2>1
<1>5. ASSUME Accrues(p)
      PROVE  NewExpense(Salary, p.last, "APPROVED") \in Expense /\ Salary \in Nat
  <2>1. Salary \in Nat \ {0}
    BY <1>5, ClosingAssumption DEF Accrues
  <2> QED
    BY <1>3, <2>1, NewExpenseTyped DEF Decisions
<1>7. /\ NewExpense(Salary, p.last, "APPROVED").status = "APPROVED"
      /\ NewExpense(Salary, p.last, "APPROVED").amount = Salary
      /\ NewExpense(Salary, p.last, "APPROVED").day = p.last
      /\ NewExpense(Salary, p.last, "APPROVED").paid = 0
      /\ NewExpense(Salary, p.last, "APPROVED").edited = FALSE
  BY DEF NewExpense
<1>8. ~ Accrues(p) => expenses' = expenses
  BY <1>1 DEF AccruedExpenses
<1>9. ASSUME Accrues(p)
      PROVE  /\ AccruedExpense(p) \in Expense
             /\ AccruedExpense(p).status = "APPROVED" /\ AccruedExpense(p).amount = Salary
             /\ AccruedExpense(p).day = p.last /\ AccruedExpense(p).paid = 0
             /\ AccruedExpense(p).accrual = MonthOf(p) /\ AccruedExpense(p).edited = FALSE
             /\ AccruedExpense(p).booked = Len(batches) + 1 /\ AccruedExpense(p).recognised = Salary
  <2> DEFINE new == NewExpense(Salary, p.last, "APPROVED")
  <2>1. new \in Expense /\ Salary \in Nat
    BY <1>5, <1>9
  <2>2. AccruedExpense(p) = [new EXCEPT !.booked = Len(batches) + 1, !.decided = TRUE,
                                        !.accrual = MonthOf(p), !.recognised = Salary]
    BY DEF AccruedExpense
  <2>3. new.status = "APPROVED" /\ new.amount = Salary /\ new.day = p.last /\ new.paid = 0 /\ new.edited = FALSE
    BY <1>7
  <2> HIDE DEF new
  <2>4. AccruedExpense(p) \in Expense
    BY <1>3, <1>4, <2>1, <2>2 DEF Expense
  <2>5. new \in Expense => DOMAIN new = {"amount", "day", "status", "booked", "decided", "accrual", "paid", "recognised", "edited"}
    BY DEF Expense
  <2> QED
    BY <2>1, <2>2, <2>3, <2>4, <2>5
<1> QED
  BY <1>2, <1>8, <1>9

\* What a form adds: nothing of it is booked or paid.
FormAdds(row) ==
    /\ row \in Expense /\ expenses' = Append(expenses, row)
    /\ row.edited /\ row.recognised = 0 /\ row.paid = 0 /\ row.accrual = 0
\* What a form makes of a charge: what was booked and paid of it stays, and it
\* is marked unless only its approval was deleted.
FormWrites(e, row) ==
    /\ row \in Expense /\ expenses' = [expenses EXCEPT ![e] = row]
    /\ row.recognised = expenses[e].recognised /\ row.paid = expenses[e].paid /\ row.accrual = expenses[e].accrual
    /\ \/ row.edited
       \/ /\ row.edited = expenses[e].edited /\ row.status = expenses[e].status
          /\ row.amount = expenses[e].amount /\ row.day = expenses[e].day /\ row.booked = expenses[e].booked
       \/ \E u \in Users, b \in DOMAIN batches :
             /\ ApproveRecognised(u, e, b) /\ row.edited = expenses[e].edited

LEMMA FormTyped ==
  ASSUME NEW row \in Expense, NEW form \in ExpenseForms
  PROVE  /\ SavedExpense(row, form) \in Expense /\ SavedExpense(row, form).edited
         /\ SavedExpense(row, form).recognised = row.recognised
         /\ SavedExpense(row, form).paid = row.paid /\ SavedExpense(row, form).accrual = row.accrual
<1>1. form \in [amount : Nat \ {0}, day : Days, status : Decisions, booked : Nat]
  BY ClosingAssumption
<1> QED
  BY <1>1 DEF SavedExpense, Expense

LEMMA ExpenseFormRow ==
  ASSUME DividendsTypeOK, ExpenseFormStep
  PROVE  (\E row : FormAdds(row)) \/ \E e \in DOMAIN expenses : \E row : FormWrites(e, row)
<1>1. ASSUME NEW u \in Users, NEW form \in ExpenseForms, AddExpense(u, form)
      PROVE  \E row : FormAdds(row)
  <2> DEFINE new == NewExpense(form.amount, form.day, form.status)
             row == SavedExpense(new, form)
  <2>1. form.amount \in Nat \ {0} /\ form.day \in Days /\ form.status \in Decisions
    <3>1. form \in [amount : Nat \ {0}, day : Days, status : Decisions, booked : Nat]
      BY ClosingAssumption
    <3> QED
      BY <3>1
  <2>2. new \in Expense /\ new.recognised = 0 /\ new.paid = 0 /\ new.accrual = 0
    BY <2>1 DEF NewExpense, Expense
  <2>3. expenses' = Append(expenses, row)
    BY <1>1 DEF AddExpense
  <2> HIDE DEF new
  <2>4. row \in Expense /\ row.edited /\ row.recognised = 0 /\ row.paid = 0 /\ row.accrual = 0
    BY <2>2, FormTyped
  <2> HIDE DEF row
  <2> QED
    BY <2>3, <2>4 DEF FormAdds
<1>2. ASSUME NEW u \in Users, NEW e \in DOMAIN expenses, NEW form \in ExpenseForms, SaveExpense(u, e, form)
      PROVE  \E row : FormWrites(e, row)
  <2> DEFINE row == SavedExpense(expenses[e], form)
  <2>1. expenses[e] \in Expense
    BY ExpenseRow
  <2>2. expenses' = [expenses EXCEPT ![e] = row]
    BY <1>2 DEF SaveExpense
  <2>3. /\ row \in Expense /\ row.edited /\ row.recognised = expenses[e].recognised
        /\ row.paid = expenses[e].paid /\ row.accrual = expenses[e].accrual
    BY <2>1, FormTyped
  <2> HIDE DEF row
  <2> QED
    BY <2>2, <2>3 DEF FormWrites
<1>3. ASSUME NEW u \in Users, NEW e \in DOMAIN expenses, DeleteExpense(u, e)
      PROVE  \E row : FormWrites(e, row)
  <2> DEFINE row == [expenses[e] EXCEPT !.status = "DELETED", !.booked = 0, !.decided = FALSE, !.edited = TRUE]
  <2>1. expenses[e] \in Expense
    BY ExpenseRow
  <2>2. expenses' = [expenses EXCEPT ![e] = row]
    BY <1>3 DEF DeleteExpense
  <2>3. /\ row \in Expense /\ row.edited /\ row.recognised = expenses[e].recognised
        /\ row.paid = expenses[e].paid /\ row.accrual = expenses[e].accrual
    BY <2>1 DEF Expense
  <2> HIDE DEF row
  <2> QED
    BY <2>2, <2>3 DEF FormWrites
<1>4. ASSUME NEW u \in Users, NEW e \in DOMAIN expenses, DeleteApproval(u, e)
      PROVE  \E row : FormWrites(e, row)
  <2> DEFINE row == [expenses[e] EXCEPT !.decided = FALSE]
  <2>1. expenses[e] \in Expense
    BY ExpenseRow
  <2>2. expenses' = [expenses EXCEPT ![e] = row]
    BY <1>4 DEF DeleteApproval
  <2>3. /\ row \in Expense /\ row.edited = expenses[e].edited /\ row.recognised = expenses[e].recognised
        /\ row.paid = expenses[e].paid /\ row.accrual = expenses[e].accrual
        /\ row.status = expenses[e].status /\ row.amount = expenses[e].amount
        /\ row.day = expenses[e].day /\ row.booked = expenses[e].booked
    BY <2>1 DEF Expense
  <2> HIDE DEF row
  <2> QED
    BY <2>2, <2>3 DEF FormWrites
<1>5. ASSUME NEW u \in Users, NEW e \in DOMAIN expenses, NEW b \in DOMAIN batches, ApproveRecognised(u, e, b)
      PROVE  \E row : FormWrites(e, row)
  <2> DEFINE row == [[expenses[e] EXCEPT !.status = "APPROVED", !.decided = TRUE] EXCEPT !.booked = b]
  <2>1. expenses[e] \in Expense /\ b \in Nat
    <3>1. batches \in Seq(Batch)
      BY DEF DividendsTypeOK, JournalTypeOK
    <3> QED
      BY <3>1, ExpenseRow
  <2>2. expenses' = [expenses EXCEPT ![e] = row]
    BY <1>5 DEF ApproveRecognised, Decided
  <2>3. row \in Expense
    BY <2>1, RowDecided
  <2>4. /\ row.edited = expenses[e].edited /\ row.recognised = expenses[e].recognised
        /\ row.paid = expenses[e].paid /\ row.accrual = expenses[e].accrual
    BY <2>1 DEF Expense
  <2> HIDE DEF row
  <2> QED
    BY <1>5, <2>2, <2>3, <2>4 DEF FormWrites
<1> QED
  BY <1>1, <1>2, <1>3, <1>4, <1>5 DEF ExpenseFormStep

LEMMA ExpensesStep ==
  ASSUME DividendsTypeOK, [DividendsNext]_dividendVars
  PROVE  ExpensesOK'
<1>0. ExpensesOK
  BY DEF DividendsTypeOK, ExpensesOK
<1>1. ASSUME expenses' = expenses PROVE ExpensesOK'
  BY <1>0, <1>1 DEF ExpensesOK
<1>2. CASE ExpenseStep
  <2>1. ASSUME NEW u \in Users, NEW form \in ChargeForms, CreateExpense(u, form) PROVE ExpensesOK'
    <3>1. form[1] \in Nat \ {0} /\ form[2] \in Days
      BY ClosingAssumption
    <3>2. expenses' = Append(expenses, NewExpense(form[1], form[2], "PENDING"))
      BY <2>1 DEF CreateExpense
    <3>3. NewExpense(form[1], form[2], "PENDING") \in Expense
      BY <3>1, NewExpenseTyped DEF Decisions
    <3> QED
      BY <3>2, <3>3, ExpenseAppended
  <2>2. ASSUME NEW u \in Users, NEW e \in DOMAIN expenses, RejectExpense(u, e) PROVE ExpensesOK'
    BY <2>2, RejectedExpenseIs, ExpenseWritten
  <2>3. ASSUME NEW u \in Users, NEW e \in DOMAIN expenses, ApproveExpense(u, e) PROVE ExpensesOK'
    BY <2>3, ApprovedExpenseIs, ExpenseWritten
  <2>4. ASSUME NEW u \in Users, NEW e \in DOMAIN expenses, NEW a \in CashAccounts,
               NEW amount \in Counts, NEW token \in Tokens, PayExpense(u, e, a, amount, token)
        PROVE  ExpensesOK'
    BY <2>4, PaidExpenseIs, ExpenseWritten
  <2> QED
    BY <1>2, <2>1, <2>2, <2>3, <2>4 DEF ExpenseStep
<1>3. ASSUME NEW u \in Users, NEW p \in periods, ClosePeriod(u, p) PROVE ExpensesOK'
  BY <1>1, <1>3, AccruedExpenseIs, ExpenseAppended
<1>4. CASE CloseStep
  BY <1>3, <1>4 DEF CloseStep
<1>5. CASE ExpenseFormStep
  BY <1>5, ExpenseFormRow, ExpenseAppended, ExpenseWritten DEF FormAdds, FormWrites
<1>6. ASSUME JournalStep \/ CountStep \/ ProposeStep \/ ApproveStep \/ SettleStep PROVE expenses' = expenses
  BY <1>6 DEF JournalStep, CountStep, RecordCount, ProposeStep, ProposeDistribution, closingVars,
              ApproveStep, ApproveDistributions, SettleStep, Settle
<1>7. ASSUME AmountFormStep \/ PartFormStep PROVE expenses' = expenses
  BY <1>7, AmountFormQuiet, PartFormQuiet
<1> QED
  BY <1>1, <1>2, <1>4, <1>5, <1>6, <1>7, Steps


LEMMA BalanceTyped ==
  ASSUME NEW rows \in Seq(Batch), NEW a, NEW day \in Int
  PROVE  BalanceIn(rows, a, day) \in Int
<1>1. day <= day
  OBVIOUS
<1>2. BalanceIn(rows, a, day) \in Int
  BY <1>1, FlowIsWindow
<1> QED
  BY <1>2

LEMMA OverTyped ==
  ASSUME NEW rows \in Seq(Batch), NEW p, p.first \in Int, p.last \in Int, NEW c, NEW nature
  PROVE  Over(rows, p, c, nature) \in Int
<1> DEFINE S == {b \in FinAccounts : Nature[b] = nature /\ Currency[b] = c}
           f == [a \in S |-> BalanceIn(rows, a, p.last + 1) - BalanceIn(rows, a, p.first)]
<1>1. IsFiniteSet(S)
  <2>1. S \in SUBSET FinAccounts
    OBVIOUS
  <2> HIDE DEF S
  <2> QED
    BY <2>1, JournalAssumption, FS_Subset
<1>2. \A a : BalanceIn(rows, a, p.last + 1) \in Int /\ BalanceIn(rows, a, p.first) \in Int
  <2>1. p.last + 1 \in Int
    OBVIOUS
  <2> QED
    BY <2>1, BalanceTyped
<1>3. f \in [S -> Int]
  BY <1>2
<1>4. SumFunction(f) \in Int
  <2> HIDE DEF f, S
  <2> QED
    BY <1>1, <1>3, SumInt
<1> QED
  BY <1>4 DEF Over

CountsOK == counts \subseteq Count

LEMMA CountsStep ==
  ASSUME DividendsTypeOK, [DividendsNext]_dividendVars
  PROVE  CountsOK'
<1>0. CountsOK
  BY DEF DividendsTypeOK, CountsOK
<1>1. ASSUME counts' = counts PROVE CountsOK'
  BY <1>0, <1>1 DEF CountsOK
<1>2. ASSUME NEW u \in Users, NEW p \in periods, NEW a \in CashAccounts, NEW declared \in Counts \cup {NotCounted},
             NEW justified, RecordCount(u, p, a, declared, justified)
      PROVE  CountsOK'
  <2> DEFINE theoretical == BalanceBefore(a, p.last + 1)
             row == [period |-> Dates(p), account |-> a, theoretical |-> theoretical, declared |-> declared]
  <2>1. theoretical \in Int
    <3>1. batches \in Seq(Batch) /\ p.last + 1 \in Int
      <4>1. p.last \in Nat
        BY PeriodRow
      <4> QED
        BY <4>1 DEF DividendsTypeOK, JournalTypeOK
    <3> QED
      BY <3>1, BalanceTyped DEF BalanceBefore
  <2>2. Dates(p) \in PeriodDates
    BY PeriodRow DEF Dates, PeriodDates, Period
  <2>3. counts' = {c \in counts : c.period # Dates(p) \/ c.account # a} \cup {row}
    BY <1>2 DEF RecordCount
  <2> HIDE DEF theoretical
  <2>4. row \in Count
    BY <2>1, <2>2 DEF Count
  <2> HIDE DEF row
  <2> QED
    BY <1>0, <2>3, <2>4 DEF CountsOK
<1>3. CASE CountStep
  BY <1>2, <1>3 DEF CountStep
<1>4. CASE ExpenseStep
  BY <1>1, <1>4 DEF ExpenseStep, CreateExpense, RejectExpense, ApproveExpense, PayExpense
<1>5. CASE CloseStep
  BY <1>1, <1>5 DEF CloseStep, ClosePeriod
<1>6. CASE JournalStep
  BY <1>1, <1>6 DEF JournalStep
<1>7. CASE ProposeStep
  BY <1>1, <1>7 DEF ProposeStep, ProposeDistribution, closingVars
<1>8. CASE ApproveStep
  BY <1>1, <1>8 DEF ApproveStep, ApproveDistributions
<1>9. CASE SettleStep
  BY <1>1, <1>9 DEF SettleStep, Settle
<1>10. CASE ExpenseFormStep \/ AmountFormStep \/ PartFormStep
  BY <1>1, <1>10, ExpenseFormQuiet, AmountFormQuiet, PartFormQuiet
<1> QED
  BY <1>3, <1>4, <1>5, <1>6, <1>7, <1>8, <1>9, <1>10, Steps

\* What a closing writes is computed on the journal it leaves.
LEMMA ClosedOn ==
  ASSUME NEW u, NEW p, ClosePeriod(u, p)
  PROVE  batches' = AccruedBatches(p)
  BY DEF ClosePeriod, Accrue, RecordEvent, AccruedBatches

LEMMA ProfitTyped ==
  ASSUME DividendsTypeOK, NEW p \in periods, NEW rows \in Seq(Batch), NEW c \in Currencies
  PROVE  ProfitOf(rows, p, c) \in Profit
<1>1. /\ Over(rows, p, c, "INCOME") \in Int
      /\ Over(rows, p, c, "EXPENSE") \in Int
  BY PeriodRow, OverTyped
<1>2. p.first \in Days /\ p.last \in Days
  BY PeriodRow
<1> QED
  BY <1>1, <1>2 DEF ProfitOf, Profit

\* The results that a closing adds.
Fixed(p, rows) == {ProfitOf(rows, p, c) : c \in Currencies}

ProfitsStep ==
    \/ profits' = profits
    \/ \E p \in periods : /\ p.type = "MONTH" /\ p.status = "OPEN"
                          /\ ~\E q \in profits : q.first = p.first /\ q.last = p.last
                          /\ profits' = profits \cup Fixed(p, batches')
                          /\ [p EXCEPT !.status = "LOCKED"] \in periods'

LEMMA ProfitsGrow ==
  ASSUME DividendsTypeOK, [DividendsNext]_dividendVars
  PROVE  ProfitsStep
<1>1. ASSUME profits' = profits PROVE ProfitsStep
  BY <1>1 DEF ProfitsStep
<1>2. ASSUME NEW u \in Users, NEW p \in periods, ClosePeriod(u, p) PROVE ProfitsStep
  <2>1. batches' = AccruedBatches(p)
    BY <1>2, ClosedOn
  <2>2. CASE p.type = "MONTH"
    <3>1. /\ p.status = "OPEN"
          /\ ~\E q \in profits : q.first = p.first /\ q.last = p.last
          /\ profits' = profits \cup Fixed(p, AccruedBatches(p))
          /\ [p EXCEPT !.status = "LOCKED"] \in periods'
      BY <1>2, <2>2 DEF ClosePeriod, Fixed
    <3> QED
      BY <2>1, <2>2, <3>1 DEF ProfitsStep
  <2>3. CASE p.type # "MONTH"
    BY <1>1, <1>2, <2>3 DEF ClosePeriod
  <2> QED
    BY <2>2, <2>3
<1>3. CASE CountStep
  BY <1>1, <1>3 DEF CountStep, RecordCount
<1>4. CASE ExpenseStep
  BY <1>1, <1>4 DEF ExpenseStep, CreateExpense, RejectExpense, ApproveExpense, PayExpense
<1>5. CASE CloseStep
  BY <1>2, <1>5 DEF CloseStep
<1>6. CASE JournalStep
  BY <1>1, <1>6 DEF JournalStep
<1>7. CASE ProposeStep
  BY <1>1, <1>7 DEF ProposeStep, ProposeDistribution, closingVars
<1>8. CASE ApproveStep
  BY <1>1, <1>8 DEF ApproveStep, ApproveDistributions
<1>9. CASE SettleStep
  BY <1>1, <1>9 DEF SettleStep, Settle
<1>10. CASE ExpenseFormStep \/ AmountFormStep \/ PartFormStep
  BY <1>1, <1>10, ExpenseFormQuiet, AmountFormQuiet, PartFormQuiet
<1> QED
  BY <1>3, <1>4, <1>5, <1>6, <1>7, <1>8, <1>9, <1>10, Steps

\* Whatever is approved, the results stay.
LEMMA ProfitsTyped ==
  ASSUME DividendsTypeOK, [DividendsNext]_dividendVars
  PROVE  profits' \subseteq Profit /\ profits \subseteq profits'
<1>0. profits \subseteq Profit
  BY DEF DividendsTypeOK
<1>1. batches' \in Seq(Batch)
  BY StepGrows DEF GrowStep, Grown
<1>2. ASSUME NEW p \in periods PROVE Fixed(p, batches') \subseteq Profit
  <2>1. \A c \in Currencies : ProfitOf(batches', p, c) \in Profit
    BY <1>1, ProfitTyped
  <2> QED
    BY <2>1 DEF Fixed
<1>3. ProfitsStep
  BY ProfitsGrow
<1> QED
  BY <1>0, <1>2, <1>3 DEF ProfitsStep


\* A column of amounts: the proposals or the allocations.
Column(column, known) == DOMAIN column \subseteq known /\ column \in [DOMAIN column -> Amount]

AmountsOK == Column(proposals, profits) /\ Column(allocations, profits)

LEMMA AfterWriting ==
  ASSUME NEW column, NEW q, NEW amount, NEW byForm
  PROVE  /\ DOMAIN Written(column, q, amount, byForm) = DOMAIN column \cup {q}
         /\ Written(column, q, amount, byForm)[q] = [amount |-> amount, edited |-> byForm]
         /\ \A p \in DOMAIN column : p # q => Written(column, q, amount, byForm)[p] = column[p]
  BY DEF Written

LEMMA ColumnWritten ==
  ASSUME NEW column, NEW known, Column(column, known), NEW q \in known, NEW amount \in Int, NEW byForm \in BOOLEAN
  PROVE  Column(Written(column, q, amount, byForm), known)
<1> DEFINE new == Written(column, q, amount, byForm)
<1>1. [amount |-> amount, edited |-> byForm] \in Amount
  BY DEF Amount
<1>2. \A p \in DOMAIN column \cup {q} :
         (IF p = q THEN [amount |-> amount, edited |-> byForm] ELSE column[p]) \in Amount
  BY <1>1 DEF Column
<1>3. new \in [DOMAIN column \cup {q} -> Amount]
  BY <1>2 DEF Written
<1>4. DOMAIN new = DOMAIN column \cup {q}
  BY AfterWriting
<1> HIDE DEF new
<1>5. Column(new, known)
  BY <1>3, <1>4 DEF Column
<1> QED
  BY <1>5 DEF new

LEMMA ColumnLess ==
  ASSUME NEW column, NEW known, Column(column, known), NEW q
  PROVE  Column([p \in DOMAIN column \ {q} |-> column[p]], known)
  BY DEF Column

\* What a service keeps when it leaves the shares alone.
LEMMA SharesAlone ==
  ASSUME JournalStep \/ ExpenseStep \/ ExpenseFormStep \/ CountStep \/ CloseStep
  PROVE  UNCHANGED <<proposals, allocations, parts>>
  BY DEF JournalStep, ExpenseStep, ExpenseFormStep, CountStep, CloseStep

LEMMA AmountFormKinds ==
  ASSUME AmountFormStep
  PROVE  \E q \in profits :
            \/ \E amount \in Int : /\ proposals' = Written(proposals, q, amount, TRUE)
                                   /\ UNCHANGED allocations
            \/ \E amount \in Int : /\ allocations' = Written(allocations, q, amount, TRUE)
                                   /\ UNCHANGED proposals
            \/ /\ proposals' = [p \in DOMAIN proposals \ {q} |-> proposals[p]]
               /\ UNCHANGED allocations
            \/ /\ \A d \in PartsOf(q) : parts[d].status = "DELETED"
               /\ allocations' = [p \in DOMAIN allocations \ {q} |-> allocations[p]]
               /\ UNCHANGED proposals
<1>1. AmountForms \subseteq Int
  BY DividendsAssumption
<1> QED
  BY <1>1 DEF AmountFormStep, SaveProposal, SaveAllocation, ClearProposal, DeleteAllocation

LEMMA AmountsTyped ==
  ASSUME DividendsTypeOK, [DividendsNext]_dividendVars
  PROVE  AmountsOK'
<1>0. AmountsOK /\ profits \subseteq profits'
  BY ProfitsTyped DEF DividendsTypeOK, AmountsOK, Column
<1>1. Column(proposals, profits') /\ Column(allocations, profits')
  BY <1>0 DEF AmountsOK, Column
<1>2. ASSUME UNCHANGED <<proposals, allocations>> PROVE AmountsOK'
  BY <1>1, <1>2 DEF AmountsOK
<1>3. CASE ProposeStep
  <2>1. PICK q \in profits, amount \in Int :
           proposals' = Written(proposals, q, amount, FALSE) /\ UNCHANGED allocations
    BY <1>3, OffersTyped DEF ProposeStep, ProposeDistribution
  <2>2. Column(Written(proposals, q, amount, FALSE), profits')
    BY <1>0, <1>1, ColumnWritten
  <2> QED
    BY <1>1, <2>1, <2>2 DEF AmountsOK
<1>4. CASE ApproveStep
  <2>1. PICK q \in profits, amount \in Int :
           /\ proposals' = Written(proposals, q, amount, FALSE)
           /\ allocations' = Written(allocations, q, amount, FALSE)
    BY <1>4, OffersTyped DEF ApproveStep, ApproveDistributions
  <2>2. Column(Written(proposals, q, amount, FALSE), profits')
    BY <1>0, <1>1, ColumnWritten
  <2>3. Column(Written(allocations, q, amount, FALSE), profits')
    BY <1>0, <1>1, ColumnWritten
  <2> QED
    BY <2>1, <2>2, <2>3 DEF AmountsOK
<1>5. CASE AmountFormStep
  <2>1. PICK q \in profits :
            \/ \E amount \in Int : proposals' = Written(proposals, q, amount, TRUE) /\ UNCHANGED allocations
            \/ \E amount \in Int : allocations' = Written(allocations, q, amount, TRUE) /\ UNCHANGED proposals
            \/ proposals' = [p \in DOMAIN proposals \ {q} |-> proposals[p]] /\ UNCHANGED allocations
            \/ allocations' = [p \in DOMAIN allocations \ {q} |-> allocations[p]] /\ UNCHANGED proposals
    BY <1>5, AmountFormKinds
  <2>2. \A amount \in Int : /\ Column(Written(proposals, q, amount, TRUE), profits')
                            /\ Column(Written(allocations, q, amount, TRUE), profits')
    BY <1>0, <1>1, ColumnWritten
  <2>3. /\ Column([p \in DOMAIN proposals \ {q} |-> proposals[p]], profits')
        /\ Column([p \in DOMAIN allocations \ {q} |-> allocations[p]], profits')
    BY <1>1, ColumnLess
  <2> QED
    BY <1>1, <2>1, <2>2, <2>3 DEF AmountsOK
<1>6. CASE SettleStep
  BY <1>2, <1>6 DEF SettleStep, Settle
<1>7. CASE PartFormStep
  BY <1>2, <1>7, PartFormQuiet
<1> QED
  BY <1>2, <1>3, <1>4, <1>5, <1>6, <1>7, SharesAlone, Steps

\* A part of a result.
PartOf(row, known) ==
    /\ row \in Part /\ row.profit \in known
    /\ ~row.edited => /\ row.booked # 0 => row.amount # 0
                      /\ row.paid # 0 => row.booked # 0

PartsOK == parts \in Seq(Part) /\ \A d \in DOMAIN parts : PartOf(parts[d], profits)

\* The part of shareholder i in an amount that is approved.
NewPart(row, q, amount, i) ==
    /\ PartOf(row, profits)
    /\ row.profit = q /\ row.party = Shareholders[i]
    /\ row.amount = Share(amount, i) /\ row.left = Share(amount, i)
    /\ row.booked # 0 <=> Share(amount, i) # 0
    /\ row.paid = 0 /\ row.status = "DUE" /\ row.edited = FALSE

LEMMA NewPartTyped ==
  ASSUME DividendsTypeOK, NEW q \in profits, NEW amount \in Int, NEW i \in 1 .. 4
  PROVE  NewPart(NewParts(q, amount)[i], q, amount, i)
<1> DEFINE n == Cardinality({j \in 1 .. i : Share(amount, j) # 0})
           row == [profit |-> q, party |-> Shareholders[i], amount |-> Share(amount, i), status |-> "DUE",
                   booked |-> IF Share(amount, i) = 0 THEN 0 ELSE Len(batches) + n,
                   paid |-> 0, left |-> Share(amount, i), edited |-> FALSE]
<1>1. n \in Nat /\ (Share(amount, i) # 0 => n # 0)
  <2> DEFINE S == {j \in 1 .. i : Share(amount, j) # 0}
  <2>1. S \in SUBSET (1 .. i) /\ IsFiniteSet(1 .. i) /\ (Share(amount, i) # 0 => i \in S)
    BY FS_Interval
  <2> HIDE DEF S
  <2>2. IsFiniteSet(S)
    BY <2>1, FS_Subset
  <2> QED
    BY <2>1, <2>2, FS_CardinalityType, FS_EmptySet DEF S
<1>2. NewParts(q, amount)[i] = row
  BY DEF NewParts
<1> HIDE DEF n
<1>3. Share(amount, i) \in Int /\ Shareholders[i] \in Parties /\ q \in Profit /\ Len(batches) \in Nat
  BY ShareTyped, PartiesTyped DEF DividendsTypeOK, JournalTypeOK
<1>4. row \in Part
  BY <1>1, <1>3 DEF Part, PartStatuses
<1>5. /\ row.profit = q /\ row.amount = Share(amount, i) /\ row.paid = 0 /\ (row.booked # 0 => row.amount # 0)
      /\ row.left = Share(amount, i) /\ row.edited = FALSE /\ row.party = Shareholders[i]
      /\ row.status = "DUE"
  OBVIOUS
<1>6. row.booked # 0 <=> Share(amount, i) # 0
  BY <1>1, <1>3
<1> HIDE DEF row
<1> QED
  BY <1>2, <1>4, <1>5, <1>6 DEF PartOf, NewPart

LEMMA NewPartsTyped ==
  ASSUME DividendsTypeOK, NEW q \in profits, NEW amount \in Int
  PROVE  /\ NewParts(q, amount) \in Seq(Part)
         /\ Len(NewParts(q, amount)) = 4 /\ DOMAIN NewParts(q, amount) = 1 .. 4
<1>1. DOMAIN NewParts(q, amount) = 1 .. 4 /\ NewParts(q, amount) \in [1 .. 4 -> Part]
  <2>1. \A i \in 1 .. 4 : NewParts(q, amount)[i] \in Part
    BY NewPartTyped DEF PartOf, NewPart
  <2>2. DOMAIN NewParts(q, amount) = 1 .. 4 /\ NewParts(q, amount) = [i \in 1 .. 4 |-> NewParts(q, amount)[i]]
    BY DEF NewParts
  <2> HIDE DEF NewParts
  <2> QED
    BY <2>1, <2>2
<1>2. NewParts(q, amount) \in Seq(Part)
  BY <1>1, SeqDef
<1> QED
  BY <1>1, <1>2, LenProperties

\* Settling a part changes its status, its payment and what is left of it.
Settled(row, status, n) == [row EXCEPT !.status = status, !.paid = n, !.left = row.left - row.amount]

LEMMA SettledRow ==
  ASSUME NEW row \in Part, NEW status \in PartStatuses, NEW n \in Nat
  PROVE  /\ Settled(row, status, n) \in Part
         /\ Settled(row, status, n).profit = row.profit
         /\ Settled(row, status, n).party = row.party
         /\ Settled(row, status, n).amount = row.amount
         /\ Settled(row, status, n).booked = row.booked
         /\ Settled(row, status, n).edited = row.edited
         /\ Settled(row, status, n).status = status
         /\ Settled(row, status, n).paid = n
         /\ Settled(row, status, n).left = row.left - row.amount
<1>1. row.left - row.amount \in Int
  BY DEF Part
<1> QED
  BY <1>1 DEF Settled, Part, PartStatuses

LEMMA AfterSettling ==
  ASSUME DividendsTypeOK, SettleStep
  PROVE  \E d \in DOMAIN parts, status \in {"PAID", "REINVESTED"}, n \in Nat \ {0} :
            /\ parts[d].paid = 0 /\ parts[d].booked # 0 /\ parts[d].amount > 0
            /\ parts' \in Seq(Part)
            /\ DOMAIN parts' = DOMAIN parts
            /\ \A c \in DOMAIN parts : c # d => parts'[c] = parts[c]
            /\ parts'[d] = Settled(parts[d], status, n)
            /\ UNCHANGED <<profits, proposals, allocations>>
<1>1. PICK d \in DOMAIN parts, status \in {"PAID", "REINVESTED"} :
         /\ parts[d].paid = 0 /\ parts[d].booked # 0 /\ parts[d].amount > 0
         /\ parts' = [parts EXCEPT ![d].status = status, ![d].paid = Len(batches) + 1,
                                   ![d].left = @ - parts[d].amount]
         /\ UNCHANGED <<profits, proposals, allocations>>
  BY DEF SettleStep, Settle
<1>2. PICK n \in Nat \ {0} : n = Len(batches) + 1
  <2>1. Len(batches) \in Nat
    BY DEF DividendsTypeOK, JournalTypeOK
  <2> QED
    BY <2>1
<1>4. parts \in Seq(Part) /\ parts[d] \in Part
  BY DEF DividendsTypeOK
<1>3. parts' = [parts EXCEPT ![d] = Settled(parts[d], status, n)]
  BY <1>1, <1>2, <1>4 DEF Settled
<1>5. Settled(parts[d], status, n) \in Part
  BY <1>4, SettledRow DEF PartStatuses
<1>6. /\ parts' \in Seq(Part) /\ DOMAIN parts' = DOMAIN parts
      /\ \A c \in DOMAIN parts : c # d => parts'[c] = parts[c]
      /\ parts'[d] = Settled(parts[d], status, n)
  BY <1>3, <1>4, <1>5
<1> QED
  BY <1>1, <1>6

\* What a form makes of the parts: nothing is approved or settled by it.
FormAddsPart(row) ==
    /\ row \in Part /\ row.profit \in profits /\ parts' = Append(parts, row)
    /\ row.edited /\ row.left = 0
FormWritesPart(d, row) ==
    /\ row \in Part /\ parts' = [parts EXCEPT ![d] = row]
    /\ row.profit = parts[d].profit /\ row.party = parts[d].party
    /\ row.edited /\ row.left = parts[d].left

LEMMA PartFormRow ==
  ASSUME DividendsTypeOK, PartFormStep
  PROVE  (\E row : FormAddsPart(row)) \/ \E d \in DOMAIN parts : \E row : FormWritesPart(d, row)
<1>0. ASSUME NEW form \in PartForms
      PROVE  form.amount \in Int /\ form.status \in PartStatuses /\ form.booked \in Nat /\ form.paid \in Nat
  <2>1. form \in [amount : Int, status : PartStatuses, booked : Nat, paid : Nat]
    BY DividendsAssumption
  <2> QED
    BY <2>1
<1>1. ASSUME NEW u \in Users, NEW form \in PartForms, NEW q \in profits, NEW s \in Parties, AddPart(u, q, s, form)
      PROVE  \E row : FormAddsPart(row)
  <2> DEFINE row == [profit |-> q, party |-> s, amount |-> form.amount, status |-> form.status,
                     booked |-> form.booked, paid |-> form.paid, left |-> 0, edited |-> TRUE]
  <2>1. parts' = Append(parts, row)
    BY <1>1 DEF AddPart
  <2>2. row \in Part
    <3>1. q \in Profit
      BY DEF DividendsTypeOK
    <3> QED
      BY <1>0, <3>1 DEF Part
  <2>3. row.profit = q /\ row.edited /\ row.left = 0
    OBVIOUS
  <2> HIDE DEF row
  <2> QED
    BY <2>1, <2>2, <2>3 DEF FormAddsPart
<1>2. ASSUME NEW u \in Users, NEW form \in PartForms, NEW d \in DOMAIN parts, SavePart(u, d, form)
      PROVE  \E row : FormWritesPart(d, row)
  <2> DEFINE row == [parts[d] EXCEPT !.amount = form.amount, !.status = form.status,
                                     !.booked = form.booked, !.paid = form.paid, !.edited = TRUE]
  <2>1. parts' = [parts EXCEPT ![d] = row]
    BY <1>2 DEF SavePart
  <2>2. parts[d] \in Part
    BY PartRow
  <2>3. row \in Part /\ row.profit = parts[d].profit /\ row.party = parts[d].party
        /\ row.edited /\ row.left = parts[d].left
    BY <1>0, <2>2 DEF Part
  <2> HIDE DEF row
  <2> QED
    BY <2>1, <2>3 DEF FormWritesPart
<1>3. ASSUME NEW u \in Users, NEW d \in DOMAIN parts, DeletePart(u, d)
      PROVE  \E row : FormWritesPart(d, row)
  <2> DEFINE row == [parts[d] EXCEPT !.status = "DELETED", !.booked = 0, !.paid = 0, !.edited = TRUE]
  <2>1. parts' = [parts EXCEPT ![d] = row]
    BY <1>3 DEF DeletePart
  <2>2. parts[d] \in Part
    BY PartRow
  <2>3. row \in Part /\ row.profit = parts[d].profit /\ row.party = parts[d].party
        /\ row.edited /\ row.left = parts[d].left
    BY <2>2 DEF Part
  <2> HIDE DEF row
  <2> QED
    BY <2>1, <2>3 DEF FormWritesPart
<1> QED
  BY <1>1, <1>2, <1>3 DEF PartFormStep

LEMMA AfterPartAdded ==
  ASSUME DividendsTypeOK, NEW row, FormAddsPart(row)
  PROVE  /\ parts' \in Seq(Part)
         /\ Len(parts) \in Nat /\ DOMAIN parts = 1 .. Len(parts)
         /\ DOMAIN parts' = DOMAIN parts \cup {Len(parts) + 1}
         /\ \A d \in DOMAIN parts : parts'[d] = parts[d]
         /\ parts'[Len(parts) + 1] = row
<1>1. parts \in Seq(Part)
  BY DEF DividendsTypeOK
<1> QED
  BY <1>1 DEF FormAddsPart

LEMMA AfterPartWritten ==
  ASSUME DividendsTypeOK, NEW d \in DOMAIN parts, NEW row, FormWritesPart(d, row)
  PROVE  /\ parts' \in Seq(Part)
         /\ DOMAIN parts' = DOMAIN parts
         /\ \A c \in DOMAIN parts : c # d => parts'[c] = parts[c]
         /\ parts'[d] = row
<1>1. parts \in Seq(Part)
  BY DEF DividendsTypeOK
<1> QED
  BY <1>1 DEF FormWritesPart


LEMMA RowsAdded ==
  ASSUME NEW S, NEW old \in Seq(S), NEW more \in Seq(S), NEW n, n = Len(more), NEW new, new = old \o more
  PROVE  /\ new \in Seq(S)
         /\ Len(old) \in Nat /\ DOMAIN old = 1 .. Len(old)
         /\ DOMAIN new = 1 .. Len(old) + n
         /\ \A d \in DOMAIN old : new[d] = old[d]
         /\ \A d \in DOMAIN new : d \notin DOMAIN old =>
               d - Len(old) \in 1 .. n /\ new[d] = more[d - Len(old)]
  OBVIOUS

\* An approval adds its four parts.
LEMMA AfterApproval ==
  ASSUME DividendsTypeOK, ApproveStep
  PROVE  \E q \in profits, amount \in Int :
            /\ ~IsApproved(q)
            /\ q \in DOMAIN proposals /\ proposals[q].amount = amount /\ 0 < amount /\ amount <= q.net
            /\ proposals' = Written(proposals, q, amount, FALSE)
            /\ allocations' = Written(allocations, q, amount, FALSE)
            /\ parts' \in Seq(Part)
            /\ Len(parts) \in Nat /\ DOMAIN parts = 1 .. Len(parts)
            /\ DOMAIN parts' = 1 .. Len(parts) + 4
            /\ \A d \in DOMAIN parts : parts'[d] = parts[d]
            /\ \A d \in DOMAIN parts' : d \notin DOMAIN parts =>
                  d - Len(parts) \in 1 .. 4 /\ NewPart(parts'[d], q, amount, d - Len(parts))
            /\ UNCHANGED profits
<1>1. PICK q \in profits, amount \in Offers :
         /\ ~IsApproved(q)
         /\ q \in DOMAIN proposals /\ proposals[q].amount = amount /\ 0 < amount /\ amount <= q.net
         /\ proposals' = Written(proposals, q, amount, FALSE)
         /\ allocations' = Written(allocations, q, amount, FALSE)
         /\ parts' = parts \o NewParts(q, amount)
         /\ UNCHANGED profits
  BY DEF ApproveStep, ApproveDistributions
<1> DEFINE more == NewParts(q, amount)
<1>2. amount \in Int
  BY OffersTyped
<1>3. more \in Seq(Part) /\ Len(more) = 4 /\ DOMAIN more = 1 .. 4
  BY <1>2, NewPartsTyped
<1>4. \A i \in 1 .. 4 : NewPart(more[i], q, amount, i)
  BY <1>2, NewPartTyped
<1>5. parts \in Seq(Part)
  BY DEF DividendsTypeOK
<1> HIDE DEF more
<1>6. parts' = parts \o more
  BY <1>1 DEF more
<1>7. /\ parts' \in Seq(Part)
      /\ Len(parts) \in Nat /\ DOMAIN parts = 1 .. Len(parts)
      /\ DOMAIN parts' = 1 .. Len(parts) + 4
      /\ \A d \in DOMAIN parts : parts'[d] = parts[d]
      /\ \A d \in DOMAIN parts' : d \notin DOMAIN parts =>
            d - Len(parts) \in 1 .. 4 /\ parts'[d] = more[d - Len(parts)]
  <2>1. /\ parts' \in Seq(Part)
        /\ Len(parts) \in Nat /\ DOMAIN parts = 1 .. Len(parts)
        /\ DOMAIN parts' = 1 .. Len(parts) + Len(more)
        /\ \A d \in DOMAIN parts : parts'[d] = parts[d]
        /\ \A d \in DOMAIN parts' : d \notin DOMAIN parts =>
              d - Len(parts) \in 1 .. Len(more) /\ parts'[d] = more[d - Len(parts)]
    <3>1. more \in Seq(Part) /\ parts \in Seq(Part) /\ parts' = parts \o more
      BY <1>3, <1>5, <1>6
    <3> QED
      BY <3>1, RowsAdded
  <2> QED
    BY <1>3, <2>1
<1>8. \A d \in DOMAIN parts' : d \notin DOMAIN parts =>
         d - Len(parts) \in 1 .. 4 /\ NewPart(parts'[d], q, amount, d - Len(parts))
  BY <1>4, <1>7
<1> QED
  BY <1>1, <1>2, <1>7, <1>8

LEMMA PartsTyped ==
  ASSUME DividendsTypeOK, [DividendsNext]_dividendVars
  PROVE  PartsOK'
<1>0. PartsOK /\ profits \subseteq profits'
  BY ProfitsTyped DEF DividendsTypeOK, PartsOK, PartOf
<1>1. ASSUME parts' = parts PROVE PartsOK'
  BY <1>0, <1>1 DEF PartsOK, PartOf
<1>2. CASE ApproveStep
  <2>1. PICK q \in profits, amount \in Int :
            /\ parts' \in Seq(Part)
            /\ \A d \in DOMAIN parts : parts'[d] = parts[d]
            /\ \A d \in DOMAIN parts' : d \notin DOMAIN parts => PartOf(parts'[d], profits)
            /\ profits' = profits
    BY <1>2, AfterApproval DEF NewPart
  <2> QED
    BY <1>0, <2>1 DEF PartsOK
<1>3. CASE SettleStep
  <2>1. PICK d \in DOMAIN parts, status \in {"PAID", "REINVESTED"}, n \in Nat \ {0} :
            /\ parts[d].paid = 0 /\ parts[d].booked # 0
            /\ parts' \in Seq(Part)
            /\ DOMAIN parts' = DOMAIN parts
            /\ \A c \in DOMAIN parts : c # d => parts'[c] = parts[c]
            /\ parts'[d] = Settled(parts[d], status, n)
            /\ profits' = profits
    BY <1>3, AfterSettling
  <2>2. PartOf(parts[d], profits)
    BY <1>0 DEF PartsOK
  <2>5. parts[d] \in Part
    BY <2>2 DEF PartOf
  <2>6. /\ parts'[d] \in Part /\ parts'[d].profit = parts[d].profit
        /\ parts'[d].amount = parts[d].amount /\ parts'[d].booked = parts[d].booked
        /\ parts'[d].edited = parts[d].edited
    <3> DEFINE row == Settled(parts[d], status, n)
    <3>1. /\ row \in Part /\ row.profit = parts[d].profit
          /\ row.amount = parts[d].amount /\ row.booked = parts[d].booked
          /\ row.edited = parts[d].edited
      <4>1. status \in PartStatuses
        BY DEF PartStatuses
      <4> QED
        BY <2>5, <4>1, SettledRow
    <3>2. parts'[d] = row
      BY <2>1
    <3> HIDE DEF row
    <3> QED
      BY <3>1, <3>2
  <2>3. PartOf(parts'[d], profits)
    BY <2>1, <2>2, <2>6 DEF PartOf
  <2> QED
    BY <1>0, <2>1, <2>3 DEF PartsOK
<1>4. CASE PartFormStep
  <2>1. profits' = profits
    BY <1>4, PartFormQuiet
  <2>2. ASSUME NEW row, FormAddsPart(row) PROVE PartsOK'
    <3>1. PartOf(row, profits)
      BY <2>2 DEF FormAddsPart, PartOf
    <3> QED
      BY <1>0, <2>1, <2>2, <3>1, AfterPartAdded DEF PartsOK
  <2>3. ASSUME NEW d \in DOMAIN parts, NEW row, FormWritesPart(d, row) PROVE PartsOK'
    <3>1. PartOf(row, profits)
      BY <1>0, <2>3 DEF FormWritesPart, PartOf, PartsOK
    <3> QED
      BY <1>0, <2>1, <2>3, <3>1, AfterPartWritten DEF PartsOK
  <2> QED
    BY <1>4, <2>2, <2>3, PartFormRow
<1>5. CASE AmountFormStep
  BY <1>1, <1>5, AmountFormQuiet
<1>6. CASE ProposeStep
  BY <1>1, <1>6 DEF ProposeStep, ProposeDistribution
<1> QED
  BY <1>1, <1>2, <1>3, <1>4, <1>5, <1>6, SharesAlone, Steps

\* The periods: a step keeps them, adds one that is open, or locks one.
PeriodsStep ==
    \/ periods' = periods
    \/ \E form \in PeriodForms : periods' = periods \cup {form}
    \/ \E p \in periods : p.status = "OPEN" /\ periods' = (periods \ {p}) \cup {[p EXCEPT !.status = "LOCKED"]}

LEMMA PeriodsChange ==
  ASSUME DividendsTypeOK, [DividendsNext]_dividendVars
  PROVE  PeriodsStep /\ today' \in Days /\ DOMAIN cached' = FinAccounts
<1>0. today \in Days /\ DOMAIN cached = FinAccounts /\ JournalTypeOK
  BY DEF DividendsTypeOK, JournalTypeOK
<1> DEFINE Goal == PeriodsStep /\ today' \in Days /\ DOMAIN cached' = FinAccounts
<1>1. ASSUME UNCHANGED journalVars PROVE Goal
  BY <1>0, <1>1 DEF journalVars, PeriodsStep
<1>2. ASSUME UNCHANGED <<today, periods>>, NEW day, NEW lines, NEW accrual, Post(day, lines, accrual) PROVE Goal
  BY <1>0, <1>2 DEF Post, PeriodsStep
<1>3. CASE JournalStep
  <2>1. today' \in Days /\ DOMAIN cached' = FinAccounts
    BY <1>0, <1>3, JournalTypeStep DEF JournalStep, JournalTypeOK
  <2>2. PeriodsStep
    BY <1>3 DEF JournalStep, JournalNext, PrepareBatch, PostBatch, ReverseBatch, CreatePeriod, NextDay,
                journalVars, PeriodsStep
  <2> QED
    BY <2>1, <2>2
<1>4. CASE ExpenseStep
  <2>1. ASSUME NEW u \in Users, NEW form \in ChargeForms, CreateExpense(u, form) PROVE Goal
    BY <1>1, <2>1 DEF CreateExpense
  <2>2. ASSUME NEW u \in Users, NEW e \in DOMAIN expenses, RejectExpense(u, e) PROVE Goal
    BY <1>1, <2>2 DEF RejectExpense
  <2>3. ASSUME NEW u \in Users, NEW e \in DOMAIN expenses, ApproveExpense(u, e) PROVE Goal
    BY <1>2, <2>3 DEF ApproveExpense, RecordEvent
  <2>4. ASSUME NEW u \in Users, NEW e \in DOMAIN expenses, NEW a \in CashAccounts,
               NEW amount \in Counts, NEW token \in Tokens, PayExpense(u, e, a, amount, token)
        PROVE  Goal
    BY <1>2, <2>4 DEF PayExpense
  <2> QED
    BY <1>4, <2>1, <2>2, <2>3, <2>4 DEF ExpenseStep
<1>5. CASE CountStep
  BY <1>1, <1>5 DEF CountStep, RecordCount
<1>6. CASE CloseStep
  <2>1. PICK u \in Users, p \in periods : ClosePeriod(u, p)
    BY <1>6 DEF CloseStep
  <2>2. DOMAIN cached' = FinAccounts
    BY <1>0, <2>1 DEF ClosePeriod, Accrue, RecordEvent, Post
  <2>3. /\ p.status = "OPEN" /\ periods' = (periods \ {p}) \cup {[p EXCEPT !.status = "LOCKED"]}
        /\ today' = today
    BY <2>1 DEF ClosePeriod
  <2> QED
    BY <1>0, <2>2, <2>3 DEF PeriodsStep
<1>7. CASE ProposeStep
  BY <1>1, <1>7 DEF ProposeStep, ProposeDistribution, closingVars, journalVars
<1>8. CASE ApproveStep
  BY <1>2, <1>8 DEF ApproveStep, ApproveDistributions
<1>9. CASE SettleStep
  BY <1>2, <1>9 DEF SettleStep, Settle, RecordEvent
<1>10. CASE ExpenseFormStep \/ AmountFormStep \/ PartFormStep
  BY <1>1, <1>10, ExpenseFormQuiet, AmountFormQuiet, PartFormQuiet
<1> QED
  BY <1>3, <1>4, <1>5, <1>6, <1>7, <1>8, <1>9, <1>10, Steps

LEMMA PeriodsTyped ==
  ASSUME DividendsTypeOK, PeriodsStep
  PROVE  periods' \subseteq Period /\ \A p \in periods' : p.first <= p.last
<1>0. periods \subseteq Period /\ \A p \in periods : p.first <= p.last
  BY DEF DividendsTypeOK, JournalTypeOK
<1>1. \A form \in PeriodForms : form \in Period /\ form.first <= form.last
  BY JournalAssumption
<1>2. \A p \in Period : /\ [p EXCEPT !.status = "LOCKED"] \in Period
                        /\ [p EXCEPT !.status = "LOCKED"].first = p.first
                        /\ [p EXCEPT !.status = "LOCKED"].last = p.last
  BY DEF Period
<1>3. CASE periods' = periods
  BY <1>0, <1>3
<1>4. ASSUME NEW form \in PeriodForms, periods' = periods \cup {form}
      PROVE  periods' \subseteq Period /\ \A p \in periods' : p.first <= p.last
  BY <1>0, <1>1, <1>4
<1>5. ASSUME NEW p \in periods, periods' = (periods \ {p}) \cup {[p EXCEPT !.status = "LOCKED"]}
      PROVE  periods' \subseteq Period /\ \A r \in periods' : r.first <= r.last
  <2> DEFINE locked == [p EXCEPT !.status = "LOCKED"]
  <2>1. locked \in Period /\ locked.first <= locked.last
    BY <1>0, <1>2
  <2>2. periods' = (periods \ {p}) \cup {locked}
    BY <1>5
  <2> HIDE DEF locked
  <2> QED
    BY <1>0, <2>1, <2>2
<1> QED
  BY <1>3, <1>4, <1>5 DEF PeriodsStep

LEMMA DividendsTypeStep ==
  ASSUME DividendsTypeOK, [DividendsNext]_dividendVars
  PROVE  DividendsTypeOK'
<1>1. /\ today' \in Days /\ DOMAIN cached' = FinAccounts
      /\ periods' \subseteq Period /\ \A p \in periods' : p.first <= p.last
  BY PeriodsChange, PeriodsTyped
<1>2. batches' \in Seq(Batch) /\ \A b \in DOMAIN batches' : batches'[b].reverses < b
  BY StepGrows DEF GrowStep, Grown
<1>3. expenses' \in Seq(Expense)
  BY ExpensesStep DEF ExpensesOK
<1>4. counts' \subseteq Count
  BY CountsStep DEF CountsOK
<1>5. profits' \subseteq Profit
  BY ProfitsTyped
<1>6. /\ DOMAIN proposals' \subseteq profits' /\ proposals' \in [DOMAIN proposals' -> Amount]
      /\ DOMAIN allocations' \subseteq profits' /\ allocations' \in [DOMAIN allocations' -> Amount]
  BY AmountsTyped DEF AmountsOK, Column
<1>7. /\ parts' \in Seq(Part)
      /\ \A d \in DOMAIN parts' : /\ parts'[d].profit \in profits'
                                  /\ ~parts'[d].edited => /\ parts'[d].booked # 0 => parts'[d].amount # 0
                                                          /\ parts'[d].paid # 0 => parts'[d].booked # 0
  BY PartsTyped DEF PartsOK, PartOf
<1>8. JournalTypeOK'
  BY <1>1, <1>2 DEF JournalTypeOK
<1> QED
  BY <1>1, <1>3, <1>4, <1>5, <1>6, <1>7, <1>8 DEF DividendsTypeOK

LEMMA DividendsTypeInit == DividendsInit => DividendsTypeOK
<1> SUFFICES ASSUME DividendsInit PROVE DividendsTypeOK
  OBVIOUS
<1>1. JournalTypeOK
  BY JournalAssumption DEF DividendsInit, ClosingInit, JournalInit, JournalTypeOK, Days
<1>2. /\ periods = {} /\ expenses = <<>> /\ counts = {} /\ profits = {} /\ proposals = <<>> /\ parts = <<>>
      /\ allocations = <<>>
  BY DEF DividendsInit, ClosingInit, JournalInit
<1>3. /\ proposals \in [DOMAIN proposals -> Amount] /\ DOMAIN proposals = {}
      /\ allocations \in [DOMAIN allocations -> Amount] /\ DOMAIN allocations = {}
  BY <1>2
<1> QED
  BY <1>1, <1>2, <1>3 DEF DividendsTypeOK

\* Whatever is booked, counted, closed, proposed, approved and paid, the rows
\* of the journal, of the charges and of the distributions are well formed; and
\* a part that no form wrote is settled only if it was booked.
THEOREM DividendsTypeCorrect == DividendsSpec => []DividendsTypeOK
  BY DividendsTypeInit, DividendsTypeStep, PTL DEF DividendsSpec


-----------------------------------------------------------------------------
(* Locked periods and results *)

LEMMA FlowStays ==
  ASSUME DividendsTypeOK, GrowStep, NEW p \in periods, p.status = "LOCKED",
         NEW a, p.type = "MONTH" \/ a \in CashAccounts
  PROVE  BalanceIn(batches', a, p.last + 1) - BalanceIn(batches', a, p.first)
            = BalanceIn(batches, a, p.last + 1) - BalanceIn(batches, a, p.first)
<1>1. batches \in Seq(Batch) /\ batches' \in Seq(Batch) /\ Grown(batches, batches')
  BY DEF DividendsTypeOK, JournalTypeOK, GrowStep, Grown
<1>2. WindowDebit(batches', a, p.first, p.last) = WindowDebit(batches, a, p.first, p.last)
  BY <1>1, WindowStays
<1>3. p.first \in Int /\ p.last \in Int /\ p.first <= p.last
  BY PeriodRow
<1>4. BalanceIn(batches, a, p.last + 1) - BalanceIn(batches, a, p.first)
         = Natural(a, WindowDebit(batches, a, p.first, p.last))
  BY <1>1, <1>3, FlowIsWindow
<1>5. BalanceIn(batches', a, p.last + 1) - BalanceIn(batches', a, p.first)
         = Natural(a, WindowDebit(batches', a, p.first, p.last))
  BY <1>1, <1>3, FlowIsWindow
<1> QED
  BY <1>2, <1>4, <1>5

\* What moved within a locked period never changes again: the cash of a day or
\* of a week, whatever a month accrues on it, and of a month every account.
THEOREM LockedFlowsStayFinal == DividendsSpec => LockedFlowsFinal
<1>1. ASSUME DividendsTypeOK, [DividendsNext]_dividendVars
      PROVE  \A p \in periods : p.status = "LOCKED" =>
                \A a \in (IF p.type = "MONTH" THEN FinAccounts ELSE CashAccounts) :
                    (BalanceBefore(a, p.last + 1) - BalanceBefore(a, p.first))'
                        = BalanceBefore(a, p.last + 1) - BalanceBefore(a, p.first)
  <2>1. ASSUME NEW p \in periods, p.status = "LOCKED",
               NEW a \in (IF p.type = "MONTH" THEN FinAccounts ELSE CashAccounts)
        PROVE  BalanceIn(batches', a, p.last + 1) - BalanceIn(batches', a, p.first)
                  = BalanceIn(batches, a, p.last + 1) - BalanceIn(batches, a, p.first)
    <3>1. p.type = "MONTH" \/ a \in CashAccounts
      BY <2>1
    <3>2. GrowStep
      BY <1>1, StepGrows
    <3> QED
      BY <1>1, <2>1, <3>1, <3>2, FlowStays
  <2> QED
    BY <2>1 DEF BalanceBefore
<1> QED
  BY <1>1, DividendsTypeCorrect, PTL DEF DividendsSpec, LockedFlowsFinal

\* The month of every result is locked.
ResultsClosed == \A q \in profits : IsClosed(q)

LEMMA ClosedStays ==
  ASSUME DividendsTypeOK, PeriodsStep, NEW p \in periods, p.status = "LOCKED"
  PROVE  p \in periods'
<1>1. \A r \in periods : r.status = "OPEN" => r # p
  OBVIOUS
<1> QED
  BY <1>1 DEF PeriodsStep

LEMMA ResultsClosedStep ==
  ASSUME DividendsTypeOK, [DividendsNext]_dividendVars, ResultsClosed
  PROVE  ResultsClosed'
<1>1. \A p \in periods : p.status = "LOCKED" => p \in periods'
  BY PeriodsChange, ClosedStays
<1>2. \A q \in profits : IsClosed(q)'
  BY <1>1 DEF ResultsClosed, IsClosed
<1>3. CASE profits' = profits
  BY <1>2, <1>3 DEF ResultsClosed
<1>4. ASSUME NEW p \in periods, p.type = "MONTH", profits' = profits \cup Fixed(p, batches'),
             [p EXCEPT !.status = "LOCKED"] \in periods'
      PROVE  ResultsClosed'
  <2> DEFINE locked == [p EXCEPT !.status = "LOCKED"]
  <2>1. locked.type = "MONTH" /\ locked.status = "LOCKED" /\ locked.first = p.first /\ locked.last = p.last
    <3>1. p \in Period
      BY PeriodRow
    <3> QED
      BY <1>4, <3>1 DEF Period
  <2>2. \A q \in Fixed(p, batches') : q.first = p.first /\ q.last = p.last
    BY DEF Fixed, ProfitOf
  <2>3. locked \in periods'
    BY <1>4
  <2> HIDE DEF locked
  <2>4. \A q \in Fixed(p, batches') : IsClosed(q)'
    BY <2>1, <2>2, <2>3 DEF IsClosed
  <2> QED
    BY <1>2, <1>4, <2>4 DEF ResultsClosed
<1> QED
  BY <1>3, <1>4, ProfitsGrow DEF ProfitsStep

LEMMA OverStays ==
  ASSUME DividendsTypeOK, GrowStep, NEW q, IsClosed(q), NEW c, NEW nature
  PROVE  Over(batches', q, c, nature) = Over(batches, q, c, nature)
<1>1. PICK p \in periods : p.type = "MONTH" /\ p.status = "LOCKED" /\ p.first = q.first /\ p.last = q.last
  BY DEF IsClosed
<1>2. ASSUME NEW a
      PROVE  BalanceIn(batches', a, p.last + 1) - BalanceIn(batches', a, p.first)
                = BalanceIn(batches, a, p.last + 1) - BalanceIn(batches, a, p.first)
  BY <1>1, FlowStays
<1>3. ASSUME NEW a
      PROVE  BalanceIn(batches', a, q.last + 1) - BalanceIn(batches', a, q.first)
                = BalanceIn(batches, a, q.last + 1) - BalanceIn(batches, a, q.first)
  BY <1>1, <1>2
<1> QED
  BY <1>3 DEF Over

LEMMA ResultsStep ==
  ASSUME DividendsTypeOK, [DividendsNext]_dividendVars, ResultsClosed, ResultStands
  PROVE  ResultStands'
<1> DEFINE Stands(q) == /\ q.income = Over(batches', q, q.currency, "INCOME")
                        /\ q.expenses = Over(batches', q, q.currency, "EXPENSE")
                        /\ q.net = q.income - q.expenses
<1>1. ASSUME NEW q \in profits PROVE Stands(q)
  <2>1. IsClosed(q) /\ GrowStep
    BY StepGrows DEF ResultsClosed
  <2>2. /\ Over(batches', q, q.currency, "INCOME") = Over(batches, q, q.currency, "INCOME")
        /\ Over(batches', q, q.currency, "EXPENSE") = Over(batches, q, q.currency, "EXPENSE")
    BY <2>1, OverStays
  <2> QED
    BY <2>2 DEF ResultStands
<1>2. ASSUME NEW p \in periods, NEW c \in Currencies PROVE Stands(ProfitOf(batches', p, c))
  BY DEF ProfitOf, Over
<1>3. \A p \in periods : \A q \in Fixed(p, batches') : Stands(q)
  <2> HIDE DEF Stands
  <2> QED
    BY <1>2 DEF Fixed
<1>4. \A q \in profits' : Stands(q)
  <2> HIDE DEF Stands
  <2> QED
    BY <1>1, <1>3, ProfitsGrow DEF ProfitsStep
<1> QED
  BY <1>4 DEF ResultStands

\* The result that was fixed when a month was closed is the result of the
\* journal for that month ever after.
THEOREM ResultsStand == DividendsSpec => []ResultStands
<1>1. DividendsInit => ResultsClosed /\ ResultStands
  BY DEF DividendsInit, ClosingInit, ResultsClosed, ResultStands
<1>2. DividendsTypeOK /\ (ResultsClosed /\ ResultStands) /\ [DividendsNext]_dividendVars
         => (ResultsClosed /\ ResultStands)'
  BY ResultsClosedStep, ResultsStep
<1> QED
  BY <1>1, <1>2, DividendsTypeCorrect, PTL DEF DividendsSpec


-----------------------------------------------------------------------------
(* Approvals *)

\* A step keeps proposals, allocations and parts, proposes the amount of a
\* result that is not approved, approves one, settles a part, or is a form.
LEMMA DistributionSteps ==
  ASSUME DividendsTypeOK, [DividendsNext]_dividendVars
  PROVE  \/ UNCHANGED <<proposals, allocations, parts>>
         \/ ProposeStep
         \/ ApproveStep
         \/ AmountFormStep
         \/ PartFormStep
         \/ SettleStep
  BY Steps, SharesAlone

LEMMA AfterProposal ==
  ASSUME DividendsTypeOK, ProposeStep
  PROVE  \E q \in profits, amount \in Int :
            /\ q \notin DOMAIN allocations /\ 0 < amount /\ amount <= q.net
            /\ proposals' = Written(proposals, q, amount, FALSE)
            /\ UNCHANGED <<profits, allocations, parts>>
<1>1. PICK q \in profits, amount \in Offers :
         /\ ~IsApproved(q) /\ 0 < amount /\ amount <= q.net
         /\ proposals' = Written(proposals, q, amount, FALSE)
         /\ UNCHANGED <<profits, allocations, parts>>
  BY DEF ProposeStep, ProposeDistribution, closingVars
<1>2. amount \in Int
  BY OffersTyped
<1> QED
  BY <1>1, <1>2 DEF IsApproved

\* What a step does to the parts that were there: a part that no form wrote
\* keeps all but what its settlement writes.
PartStands(old, new) ==
    /\ new.profit = old.profit /\ new.party = old.party
    /\ ~new.edited => /\ new = [old EXCEPT !.status = new.status, !.paid = new.paid, !.left = new.left]
                      /\ old.paid # 0 => new = old
                      /\ ~old.edited /\ new.amount = old.amount
    /\ new.status = "DELETED" => new.edited \/ new = old

LEMMA PartSame ==
  ASSUME NEW row \in Part
  PROVE  PartStands(row, row)
  BY DEF PartStands, Part

LEMMA PartSettled ==
  ASSUME NEW row \in Part, row.paid = 0, NEW status \in {"PAID", "REINVESTED"}, NEW n \in Nat
  PROVE  PartStands(row, Settled(row, status, n))
<1> DEFINE new == Settled(row, status, n)
<1>1. /\ new.profit = row.profit /\ new.party = row.party /\ new.amount = row.amount
      /\ new.edited = row.edited /\ new.status = status /\ new.paid = n
      /\ new.left = row.left - row.amount
  <2>1. status \in PartStatuses
    BY DEF PartStatuses
  <2> QED
    BY <2>1, SettledRow
<1>2. new = [row EXCEPT !.status = new.status, !.paid = new.paid, !.left = new.left]
  <2>1. new = [row EXCEPT !.status = status, !.paid = n, !.left = row.left - row.amount]
    BY DEF Settled
  <2> HIDE DEF new
  <2> QED
    BY <1>1, <2>1
<1> HIDE DEF new
<1>3. PartStands(row, new)
  BY <1>1, <1>2 DEF PartStands
<1> QED
  BY <1>3 DEF new

\* The parts that are new: those of an approval, or one that a form added.
LEMMA PartsStand ==
  ASSUME DividendsTypeOK, [DividendsNext]_dividendVars
  PROVE  /\ \A d \in DOMAIN parts : d \in DOMAIN parts' /\ PartStands(parts[d], parts'[d])
         /\ ApproveStep \/ \A d \in DOMAIN parts' : d \notin DOMAIN parts => parts'[d].edited
<1> DEFINE Goal == /\ \A d \in DOMAIN parts : d \in DOMAIN parts' /\ PartStands(parts[d], parts'[d])
                   /\ ApproveStep \/ \A d \in DOMAIN parts' : d \notin DOMAIN parts => parts'[d].edited
<1>0. \A d \in DOMAIN parts : parts[d] \in Part /\ PartStands(parts[d], parts[d])
  BY PartRow, PartSame
<1>1. ASSUME parts' = parts PROVE Goal
  BY <1>0, <1>1
<1>2. CASE ApproveStep
  <2>1. /\ Len(parts) \in Nat /\ DOMAIN parts = 1 .. Len(parts)
        /\ DOMAIN parts' = 1 .. Len(parts) + 4
        /\ \A d \in DOMAIN parts : parts'[d] = parts[d]
    BY <1>2, AfterApproval
  <2>2. \A d \in DOMAIN parts : d \in DOMAIN parts'
    BY <2>1
  <2> QED
    BY <1>0, <1>2, <2>1, <2>2
<1>3. CASE SettleStep
  <2>1. PICK d \in DOMAIN parts, status \in {"PAID", "REINVESTED"}, n \in Nat \ {0} :
            /\ parts[d].paid = 0
            /\ DOMAIN parts' = DOMAIN parts
            /\ \A c \in DOMAIN parts : c # d => parts'[c] = parts[c]
            /\ parts'[d] = Settled(parts[d], status, n)
    BY <1>3, AfterSettling
  <2>2. PartStands(parts[d], parts'[d])
    BY <1>0, <2>1, PartSettled
  <2> QED
    BY <1>0, <2>1, <2>2
<1>4. CASE PartFormStep
  <2>1. ASSUME NEW row, FormAddsPart(row) PROVE Goal
    <3>1. row.edited
      BY <2>1 DEF FormAddsPart
    <3> QED
      BY <1>0, <2>1, <3>1, AfterPartAdded
  <2>2. ASSUME NEW d \in DOMAIN parts, NEW row, FormWritesPart(d, row) PROVE Goal
    <3>1. PartStands(parts[d], row)
      BY <2>2 DEF FormWritesPart, PartStands
    <3> QED
      BY <1>0, <2>2, <3>1, AfterPartWritten
  <2> QED
    BY <1>4, <2>1, <2>2, PartFormRow
<1>5. CASE ProposeStep
  BY <1>1, <1>5, AfterProposal
<1>6. CASE AmountFormStep
  BY <1>1, <1>6, AmountFormQuiet
<1> QED
  BY <1>1, <1>2, <1>3, <1>4, <1>5, <1>6, DistributionSteps

\* What a step does to the amount of an approved result.
AmountStands(q) ==
    /\ \/ q \in DOMAIN allocations' /\ (allocations'[q] = allocations[q] \/ allocations'[q].edited)
       \/ q \notin DOMAIN allocations' /\ \A d \in PartsOf(q) : parts[d].status = "DELETED"
    /\ q \in DOMAIN proposals' =>
          proposals'[q].edited \/ (q \in DOMAIN proposals /\ proposals'[q] = proposals[q])

LEMMA AmountsStand ==
  ASSUME DividendsTypeOK, [DividendsNext]_dividendVars, NEW q \in DOMAIN allocations
  PROVE  AmountStands(q)
<1>1. CASE UNCHANGED <<proposals, allocations>>
  BY <1>1 DEF AmountStands
<1>2. CASE ProposeStep
  <2>1. PICK p \in profits, amount \in Int :
           /\ p \notin DOMAIN allocations
           /\ proposals' = Written(proposals, p, amount, FALSE) /\ UNCHANGED allocations
    BY <1>2, AfterProposal
  <2> QED
    BY <2>1 DEF AmountStands, Written
<1>3. CASE ApproveStep
  <2>1. PICK p \in profits, amount \in Int :
           /\ p \notin DOMAIN allocations
           /\ proposals' = Written(proposals, p, amount, FALSE)
           /\ allocations' = Written(allocations, p, amount, FALSE)
    BY <1>3, AfterApproval DEF IsApproved
  <2> QED
    BY <2>1 DEF AmountStands, Written
<1>4. CASE AmountFormStep
  <2>1. PICK p \in profits :
            \/ \E amount \in Int : /\ proposals' = Written(proposals, p, amount, TRUE)
                                   /\ UNCHANGED allocations
            \/ \E amount \in Int : /\ allocations' = Written(allocations, p, amount, TRUE)
                                   /\ UNCHANGED proposals
            \/ /\ proposals' = [r \in DOMAIN proposals \ {p} |-> proposals[r]]
               /\ UNCHANGED allocations
            \/ /\ \A d \in PartsOf(p) : parts[d].status = "DELETED"
               /\ allocations' = [r \in DOMAIN allocations \ {p} |-> allocations[r]]
               /\ UNCHANGED proposals
    BY <1>4, AmountFormKinds
  <2>2. ASSUME NEW amount \in Int, proposals' = Written(proposals, p, amount, TRUE), UNCHANGED allocations
        PROVE  AmountStands(q)
    BY <2>2 DEF AmountStands, Written
  <2>3. ASSUME NEW amount \in Int, allocations' = Written(allocations, p, amount, TRUE), UNCHANGED proposals
        PROVE  AmountStands(q)
    BY <2>3 DEF AmountStands, Written
  <2>4. ASSUME proposals' = [r \in DOMAIN proposals \ {p} |-> proposals[r]], UNCHANGED allocations
        PROVE  AmountStands(q)
    BY <2>4 DEF AmountStands
  <2>5. ASSUME \A d \in PartsOf(p) : parts[d].status = "DELETED",
               allocations' = [r \in DOMAIN allocations \ {p} |-> allocations[r]], UNCHANGED proposals
        PROVE  AmountStands(q)
    BY <2>5 DEF AmountStands
  <2> QED
    BY <2>1, <2>2, <2>3, <2>4, <2>5
<1>5. CASE SettleStep
  BY <1>1, <1>5, AfterSettling
<1>6. CASE PartFormStep
  BY <1>1, <1>6, PartFormQuiet
<1> QED
  BY <1>1, <1>2, <1>3, <1>4, <1>5, <1>6, DistributionSteps

\* Once approved, the amount of a distribution and its parts are final for the
\* services, and once settled a part keeps its destination and batch: whatever
\* changes them again is a form of the administration site, and an allocation
\* goes away only after its parts.
THEOREM ApprovalsStand == DividendsSpec => ApprovalStands
<1>1. ASSUME DividendsTypeOK, [DividendsNext]_dividendVars
      PROVE  /\ \A q \in DOMAIN allocations : AmountStands(q)
             /\ \A d \in DOMAIN parts :
                   /\ d \in DOMAIN parts'
                   /\ ~parts'[d].edited =>
                         /\ parts'[d] = [parts[d] EXCEPT !.status = parts'[d].status, !.paid = parts'[d].paid,
                                                         !.left = parts'[d].left]
                         /\ parts[d].paid # 0 => parts'[d] = parts[d]
  BY <1>1, AmountsStand, PartsStand DEF PartStands
<1> QED
  BY <1>1, DividendsTypeCorrect, PTL DEF DividendsSpec, ApprovalStands, AmountStands


-----------------------------------------------------------------------------
(* The parts of a result *)

\* What rounding leaves of an amount.
LEMMA Quarters ==
  ASSUME NEW n \in Nat
  PROVE  /\ Quarter(n) \in Nat
         /\ 3 * Quarter(n) <= n
         /\ 4 * Quarter(n) - n \in -2 .. 2
<1> DEFINE k == n \div 4
           r == n % 4
<1>1. k \in Nat /\ r \in 0 .. 3 /\ n = 4 * k + r
  OBVIOUS
<1>2. k % 2 \in 0 .. 1 /\ (k = 0 => k % 2 = 0)
  BY <1>1
<1>3. Quarter(n) = IF r = 3 \/ (r = 2 /\ k % 2 = 1) THEN k + 1 ELSE k
  BY DEF Quarter
<1> HIDE DEF k, r
<1>4. CASE r = 3 \/ (r = 2 /\ k % 2 = 1)
  <2>1. Quarter(n) = k + 1 /\ r \in 2 .. 3 /\ (r = 2 => k # 0)
    BY <1>1, <1>2, <1>3, <1>4
  <2> QED
    BY <1>1, <2>1
<1>5. CASE ~(r = 3 \/ (r = 2 /\ k % 2 = 1))
  <2>1. Quarter(n) = k /\ r \in 0 .. 2
    BY <1>1, <1>3, <1>5
  <2> QED
    BY <1>1, <2>1
<1> QED
  BY <1>4, <1>5

\* A sum without one of its summands.
LEMMA SumWithout ==
  ASSUME NEW S, IsFiniteSet(S), NEW f \in [S -> Int], NEW A \in SUBSET S, NEW x \in A, NEW B, B = A \ {x}
  PROVE  SumFunction(Restrict(f, A)) = f[x] + SumFunction(Restrict(f, B))
<1>1. \A y \in A : SumFunction(Restrict(f, A)) = f[y] + SumFunction(Restrict(f, A \ {y}))
  BY SumOver
<1> QED
  BY <1>1

LEMMA SumFour ==
  ASSUME NEW n \in Nat, NEW f \in [n + 1 .. n + 4 -> Int]
  PROVE  SumFunction(f) = f[n + 1] + f[n + 2] + f[n + 3] + f[n + 4]
<1> DEFINE S == n + 1 .. n + 4
           A == n + 2 .. n + 4
           B == n + 3 .. n + 4
           C == n + 4 .. n + 4
<1>1. IsFiniteSet(S) /\ f \in [S -> Int]
  BY FS_Interval
<1>2. /\ A = S \ {n + 1} /\ B = A \ {n + 2} /\ C = B \ {n + 3} /\ {} = C \ {n + 4}
      /\ A \in SUBSET S /\ B \in SUBSET S /\ C \in SUBSET S
      /\ n + 1 \in S /\ n + 2 \in A /\ n + 3 \in B /\ n + 4 \in C
  OBVIOUS
<1>3. f[n + 1] \in Int /\ f[n + 2] \in Int /\ f[n + 3] \in Int /\ f[n + 4] \in Int
  OBVIOUS
<1> HIDE DEF S, A, B, C
<1>4. SumFunction(f) = f[n + 1] + SumFunction(Restrict(f, A))
  BY <1>1, <1>2, SumPoint
<1>5. SumFunction(Restrict(f, A)) = f[n + 2] + SumFunction(Restrict(f, B))
  BY <1>1, <1>2, SumWithout
<1>6. SumFunction(Restrict(f, B)) = f[n + 3] + SumFunction(Restrict(f, C))
  BY <1>1, <1>2, SumWithout
<1>7. SumFunction(Restrict(f, C)) = f[n + 4] + SumFunction(Restrict(f, {}))
  BY <1>1, <1>2, SumWithout
<1>8. SumFunction(Restrict(f, {})) = 0
  BY SumNone
<1> QED
  BY <1>3, <1>4, <1>5, <1>6, <1>7, <1>8

\* The parts of an approved result are four rows in a row, with the shares of
\* its amount.
SharedFrom(q, amount, n) ==
    /\ PartsOf(q) = n + 1 .. n + 4
    /\ \A i \in 1 .. 4 : parts[n + i].amount = Share(amount, i)

\* Parts that outlive their allocation were deleted, by a form.
Shared(q) ==
    /\ q \notin DOMAIN allocations => \A d \in PartsOf(q) : parts[d].edited
    /\ q \in DOMAIN allocations /\ ~allocations[q].edited =>
          /\ 0 < allocations[q].amount /\ allocations[q].amount <= q.net
          /\ q \in DOMAIN proposals => proposals[q].edited \/ proposals[q].amount = allocations[q].amount
          /\ (\A d \in PartsOf(q) : ~parts[d].edited) =>
                \E n \in Nat : SharedFrom(q, allocations[q].amount, n)

LEMMA SharesAddUp ==
  ASSUME DividendsTypeOK, NEW q, NEW m \in Nat, NEW n \in Nat, SharedFrom(q, m, n)
  PROVE  /\ Cardinality(PartsOf(q)) = 4
         /\ SumFunction([d \in PartsOf(q) |-> parts[d].amount]) = m
         /\ \A d \in PartsOf(q) : /\ parts[d].amount >= 0
                                  /\ 4 * parts[d].amount - m \in -6 .. 6
<1> DEFINE f == [d \in n + 1 .. n + 4 |-> parts[d].amount]
<1>1. m \in Nat
  OBVIOUS
<1>2. /\ Quarter(m) \in Nat /\ 3 * Quarter(m) <= m /\ 4 * Quarter(m) - m \in -2 .. 2
  BY <1>1, Quarters
<1>3. PartsOf(q) = n + 1 .. n + 4 /\ \A i \in 1 .. 4 : parts[n + i].amount = Share(m, i)
  BY DEF SharedFrom
<1>4. /\ parts[n + 1].amount = Quarter(m) /\ parts[n + 2].amount = Quarter(m)
      /\ parts[n + 3].amount = Quarter(m) /\ parts[n + 4].amount = m - 3 * Quarter(m)
  BY <1>3 DEF Share
<1>5. \A d \in n + 1 .. n + 4 : d = n + 1 \/ d = n + 2 \/ d = n + 3 \/ d = n + 4
  OBVIOUS
<1>6. \A d \in n + 1 .. n + 4 : parts[d].amount \in Int /\ parts[d].amount >= 0 /\ 4 * parts[d].amount - m \in -6 .. 6
  <2>1. /\ Quarter(m) \in Int /\ Quarter(m) >= 0 /\ 4 * Quarter(m) - m \in -6 .. 6
        /\ m - 3 * Quarter(m) \in Int /\ m - 3 * Quarter(m) >= 0 /\ 4 * (m - 3 * Quarter(m)) - m \in -6 .. 6
    BY <1>1, <1>2
  <2> QED
    BY <1>4, <1>5, <2>1, Zenon
<1>7. f \in [n + 1 .. n + 4 -> Int]
  BY <1>6
<1>8. f[n + 1] = Quarter(m) /\ f[n + 2] = Quarter(m) /\ f[n + 3] = Quarter(m) /\ f[n + 4] = m - 3 * Quarter(m)
  BY <1>4
<1>9. SumFunction(f) = m
  <2> HIDE DEF f
  <2>1. SumFunction(f) = f[n + 1] + f[n + 2] + f[n + 3] + f[n + 4]
    BY <1>7, SumFour
  <2> QED
    BY <1>1, <1>2, <1>8, <2>1
<1>10. Cardinality(n + 1 .. n + 4) = 4
  <2>1. n + 1 \in Int /\ n + 4 \in Int /\ n + 4 - (n + 1) + 1 = 4 /\ ~(n + 1 > n + 4)
    OBVIOUS
  <2>2. Cardinality(n + 1 .. n + 4) = IF n + 1 > n + 4 THEN 0 ELSE n + 4 - (n + 1) + 1
    BY <2>1, FS_Interval
  <2> QED
    BY <2>1, <2>2
<1>11. [d \in PartsOf(q) |-> parts[d].amount] = f
  BY <1>3
<1> HIDE DEF f
<1> QED
  BY <1>3, <1>6, <1>9, <1>10, <1>11


LEMMA SharedKept ==
  ASSUME NEW q, Shared(q),
         \A d \in DOMAIN parts : d \in DOMAIN parts' /\ PartStands(parts[d], parts'[d]),
         \A d \in DOMAIN parts' : d \notin DOMAIN parts => parts'[d].edited \/ parts'[d].profit # q,
         q \in DOMAIN allocations' => \/ allocations'[q].edited
                                      \/ q \in DOMAIN allocations /\ allocations'[q] = allocations[q],
         q \notin DOMAIN allocations' => q \notin DOMAIN allocations \/ \A d \in PartsOf(q) : parts[d].edited,
         q \in DOMAIN allocations' /\ q \in DOMAIN proposals' =>
            proposals'[q].edited \/ (q \in DOMAIN proposals /\ proposals'[q] = proposals[q])
  PROVE  Shared(q)'
<1>1. ASSUME \A d \in PartsOf(q) : parts[d].edited, NEW d \in PartsOf(q)'
      PROVE  parts'[d].edited
  BY <1>1 DEF PartsOf, PartStands
<1>2. ASSUME \A d \in PartsOf(q)' : ~parts'[d].edited
      PROVE  /\ PartsOf(q)' = PartsOf(q)
             /\ \A d \in PartsOf(q) : ~parts[d].edited /\ parts'[d].amount = parts[d].amount
  <2>1. \A d \in PartsOf(q) : d \in PartsOf(q)'
    BY DEF PartsOf, PartStands
  <2>2. \A d \in PartsOf(q)' : d \in PartsOf(q)
    BY <1>2 DEF PartsOf, PartStands
  <2>3. \A d \in PartsOf(q) : ~parts[d].edited /\ parts'[d].amount = parts[d].amount
    BY <1>2, <2>1 DEF PartsOf, PartStands
  <2> QED
    BY <2>1, <2>2, <2>3
<1>3. ASSUME q \notin DOMAIN allocations' PROVE \A d \in PartsOf(q)' : parts'[d].edited
  BY <1>1, <1>3 DEF Shared
<1>4. ASSUME q \in DOMAIN allocations', ~allocations'[q].edited
      PROVE  /\ 0 < allocations'[q].amount /\ allocations'[q].amount <= q.net
             /\ q \in DOMAIN proposals' => proposals'[q].edited \/ proposals'[q].amount = allocations'[q].amount
             /\ (\A d \in PartsOf(q)' : ~parts'[d].edited) =>
                   \E n \in Nat : SharedFrom(q, allocations[q].amount, n)'
  <2>1. q \in DOMAIN allocations /\ allocations'[q] = allocations[q] /\ ~allocations[q].edited
    BY <1>4
  <2>2. /\ 0 < allocations'[q].amount /\ allocations'[q].amount <= q.net
        /\ q \in DOMAIN proposals' => proposals'[q].edited \/ proposals'[q].amount = allocations'[q].amount
    BY <1>4, <2>1 DEF Shared
  <2>3. ASSUME \A d \in PartsOf(q)' : ~parts'[d].edited
        PROVE  \E n \in Nat : SharedFrom(q, allocations[q].amount, n)'
    <3>1. PartsOf(q)' = PartsOf(q) /\ \A d \in PartsOf(q) : ~parts[d].edited /\ parts'[d].amount = parts[d].amount
      BY <1>2, <2>3
    <3>2. PICK n \in Nat : SharedFrom(q, allocations[q].amount, n)
      BY <2>1, <3>1 DEF Shared
    <3>3. \A i \in 1 .. 4 : n + i \in n + 1 .. n + 4
      OBVIOUS
    <3>4. \A i \in 1 .. 4 : parts'[n + i].amount = Share(allocations[q].amount, i)
      BY <3>1, <3>2, <3>3 DEF SharedFrom
    <3>5. SharedFrom(q, allocations[q].amount, n)'
      BY <2>1, <3>1, <3>2, <3>4 DEF SharedFrom
    <3> QED
      BY <3>5
  <2> QED
    BY <2>2, <2>3
<1> QED
  BY <1>3, <1>4 DEF Shared

\* A result that has no part yet has none but those that are added.
LEMMA SharedByApproval ==
  ASSUME DividendsTypeOK, [DividendsNext]_dividendVars, ApproveStep, \A q : Shared(q), NEW q
  PROVE  Shared(q)'
<1>1. PICK new \in profits, amount \in Int :
            /\ ~IsApproved(new)
            /\ 0 < amount /\ amount <= new.net
            /\ proposals' = Written(proposals, new, amount, FALSE)
            /\ allocations' = Written(allocations, new, amount, FALSE)
            /\ Len(parts) \in Nat /\ DOMAIN parts = 1 .. Len(parts)
            /\ DOMAIN parts' = 1 .. Len(parts) + 4
            /\ \A d \in DOMAIN parts : parts'[d] = parts[d]
            /\ \A d \in DOMAIN parts' : d \notin DOMAIN parts =>
                  d - Len(parts) \in 1 .. 4 /\ NewPart(parts'[d], new, amount, d - Len(parts))
  BY AfterApproval
<1>2. /\ DOMAIN proposals' = DOMAIN proposals \cup {new}
      /\ DOMAIN allocations' = DOMAIN allocations \cup {new}
      /\ \A p \in DOMAIN proposals : p # new => proposals'[p] = proposals[p]
      /\ \A p \in DOMAIN allocations : p # new => allocations'[p] = allocations[p]
      /\ proposals'[new] = [amount |-> amount, edited |-> FALSE]
      /\ allocations'[new] = [amount |-> amount, edited |-> FALSE]
  BY <1>1 DEF Written
<1>3. CASE q # new
  <2>1. \A d \in DOMAIN parts' : d \notin DOMAIN parts => parts'[d].profit # q
    BY <1>1, <1>3 DEF NewPart
  <2>2. \A d \in DOMAIN parts : d \in DOMAIN parts' /\ PartStands(parts[d], parts'[d])
    BY PartsStand
  <2> QED
    BY <1>2, <1>3, <2>1, <2>2, SharedKept
<1>4. CASE q = new
  <2>1. \A d \in PartsOf(new) : parts[d].edited
    BY <1>1 DEF Shared, IsApproved
  <2>2. ASSUME \A d \in PartsOf(new)' : ~parts'[d].edited
        PROVE  \E n \in Nat : SharedFrom(new, allocations[new].amount, n)'
    <3>1. PICK n \in Nat : n = Len(parts)
      BY <1>1
    <3>2. \A d \in DOMAIN parts : d \in DOMAIN parts' /\ parts[d].profit # new
      BY <1>1, <2>1, <2>2 DEF PartsOf
    <3>3. \A d \in DOMAIN parts' : parts'[d].profit = new <=> d \notin DOMAIN parts
      BY <1>1, <3>2 DEF NewPart
    <3>4. \A d : d \in DOMAIN parts' /\ d \notin DOMAIN parts <=> d \in n + 1 .. n + 4
      BY <1>1, <3>1
    <3>5. PartsOf(new)' = n + 1 .. n + 4
      BY <3>3, <3>4 DEF PartsOf
    <3>6. \A i \in 1 .. 4 : n + i \in DOMAIN parts' /\ n + i \notin DOMAIN parts /\ n + i - n = i
      <4>1. \A i \in 1 .. 4 : n + i \in n + 1 .. n + 4 /\ n + i - n = i
        OBVIOUS
      <4> QED
        BY <3>4, <4>1
    <3>7. \A i \in 1 .. 4 : parts'[n + i].amount = Share(amount, i)
      BY <1>1, <3>1, <3>6 DEF NewPart
    <3>8. SharedFrom(new, allocations[new].amount, n)'
      BY <1>2, <3>5, <3>7 DEF SharedFrom
    <3> QED
      BY <3>8
  <2>3. new \in DOMAIN allocations' /\ allocations'[new].amount = amount /\ proposals'[new].amount = amount
    BY <1>2
  <2>4. /\ 0 < allocations'[new].amount /\ allocations'[new].amount <= new.net
        /\ new \in DOMAIN proposals' => proposals'[new].edited \/ proposals'[new].amount = allocations'[new].amount
    BY <1>1, <2>3
  <2>5. Shared(new)'
    BY <2>2, <2>3, <2>4 DEF Shared
  <2> QED
    BY <1>4, <2>5
<1> QED
  BY <1>3, <1>4

AllShared ==
    /\ \A q : Shared(q)
    /\ \A d \in DOMAIN parts : parts[d].status = "DELETED" => parts[d].edited

LEMMA SharedStep ==
  ASSUME DividendsTypeOK, [DividendsNext]_dividendVars, AllShared
  PROVE  AllShared'
<1>0. /\ \A d \in DOMAIN parts : d \in DOMAIN parts' /\ PartStands(parts[d], parts'[d])
      /\ ApproveStep \/ \A d \in DOMAIN parts' : d \notin DOMAIN parts => parts'[d].edited
  BY PartsStand
<1>1. ASSUME NEW d \in DOMAIN parts', parts'[d].status = "DELETED"
      PROVE  parts'[d].edited
  <2>1. CASE d \in DOMAIN parts
    BY <1>0, <1>1, <2>1 DEF PartStands, AllShared
  <2>2. CASE d \notin DOMAIN parts /\ ApproveStep
    <3>1. PICK q \in profits, amount \in Int : NewPart(parts'[d], q, amount, d - Len(parts))
      BY <2>2, AfterApproval
    <3> QED
      BY <1>1, <3>1 DEF NewPart
  <2> QED
    BY <1>0, <2>1, <2>2
<1>2. ASSUME NEW q PROVE Shared(q)'
  <2>1. Shared(q)
    BY DEF AllShared
  <2>2. CASE ApproveStep
    BY <2>2, SharedByApproval DEF AllShared
  <2>3. CASE q \in DOMAIN allocations /\ ~ApproveStep
    <3>1. AmountStands(q)
      BY <2>3, AmountsStand
    <3>2. \A d \in PartsOf(q) : parts[d].status = "DELETED" => parts[d].edited
      BY DEF AllShared, PartsOf
    <3> QED
      BY <1>0, <2>1, <2>3, <3>1, <3>2, SharedKept DEF AmountStands
  <2>4. CASE q \notin DOMAIN allocations /\ ~ApproveStep
    <3>1. q \in DOMAIN allocations' => allocations'[q].edited /\ UNCHANGED proposals
      <4>1. CASE AmountFormStep
        <5>1. PICK p \in profits :
            \/ UNCHANGED allocations
            \/ \E amount \in Int : allocations' = Written(allocations, p, amount, TRUE) /\ UNCHANGED proposals
            \/ allocations' = [r \in DOMAIN allocations \ {p} |-> allocations[r]]
          BY <4>1, AmountFormKinds
        <5> QED
          BY <2>4, <5>1 DEF Written
      <4>2. CASE UNCHANGED allocations
        BY <2>4, <4>2
      <4>3. UNCHANGED allocations \/ AmountFormStep
        BY <2>4, DistributionSteps, AfterProposal, AfterSettling, PartFormQuiet
      <4> QED
        BY <4>1, <4>2, <4>3
    <3>2. q \in DOMAIN allocations' /\ q \in DOMAIN proposals' =>
             proposals'[q].edited \/ (q \in DOMAIN proposals /\ proposals'[q] = proposals[q])
      BY <3>1
    <3> QED
      BY <1>0, <2>1, <2>4, <3>1, <3>2, SharedKept
  <2> QED
    BY <2>2, <2>3, <2>4
<1> QED
  BY <1>1, <1>2 DEF AllShared

\* As long as no form wrote its allocation or its parts, what is shared out of
\* a result is the amount that was proposed last, all of it, in four parts that
\* are fair but for the rounding, and never more than the result.
THEOREM PartsAlwaysAddUp == DividendsSpec => []PartsAddUp
<1>1. DividendsInit => AllShared
  BY DEF DividendsInit, AllShared, Shared, PartsOf
<1>2. DividendsTypeOK /\ AllShared /\ [DividendsNext]_dividendVars => AllShared'
  BY SharedStep
<1>3. ASSUME DividendsTypeOK, AllShared PROVE PartsAddUp
  <2>1. ASSUME NEW q \in DOMAIN allocations, ~allocations[q].edited
        PROVE  /\ allocations[q].amount <= q.net
               /\ q \in DOMAIN proposals => proposals[q].edited \/ proposals[q].amount = allocations[q].amount
    BY <1>3, <2>1 DEF AllShared, Shared
  <2>2. ASSUME NEW q \in DOMAIN allocations, ~allocations[q].edited, \A d \in PartsOf(q) : ~parts[d].edited
        PROVE  /\ Cardinality(PartsOf(q)) = 4
               /\ SumFunction([d \in PartsOf(q) |-> parts[d].amount]) = allocations[q].amount
               /\ \A d \in PartsOf(q) : /\ parts[d].amount >= 0
                                        /\ 4 * parts[d].amount - allocations[q].amount \in -6 .. 6
    <3>1. PICK n \in Nat : SharedFrom(q, allocations[q].amount, n)
      BY <1>3, <2>2 DEF AllShared, Shared
    <3>2. allocations[q].amount \in Nat
      <4>1. allocations[q] \in Amount
        BY <1>3 DEF DividendsTypeOK
      <4>2. allocations[q].amount \in Int /\ 0 < allocations[q].amount
        BY <1>3, <2>2, <4>1 DEF AllShared, Shared, Amount
      <4> QED
        BY <4>2
    <3> QED
      BY <1>3, <3>1, <3>2, SharesAddUp
  <2> QED
    BY <2>1, <2>2 DEF PartsAddUp
<1> QED
  BY <1>1, <1>2, <1>3, DividendsTypeCorrect, PTL DEF DividendsSpec


-----------------------------------------------------------------------------
(* The journal under all services: rows that are booked at once *)

\* What OneBatchPerEvent and ReversalsPair say, of a table of rows.
Reversed(rows, b, r) ==
    /\ r > b
    /\ rows[r].reverses = b
    /\ rows[r].status \in Booked
    /\ rows[r].lines = Opposite(rows[b].lines)
    /\ \A q \in DOMAIN rows : rows[q].reverses = b => q = r
PairedIn(rows, b) ==
    /\ rows[b].status # "REVERSED" => \A r \in DOMAIN rows : rows[r].reverses # b
    /\ rows[b].status = "REVERSED" => \E r \in DOMAIN rows : Reversed(rows, b, r)
Table(rows) ==
    /\ rows \in Seq(Batch)
    /\ \A b \in DOMAIN rows : rows[b].reverses < b
    /\ \A b, c \in DOMAIN rows : b = c \/ Apart(rows[b], rows[c])
    /\ \A b \in DOMAIN rows : PairedIn(rows, b)

LEMMA TableIs ==
  ASSUME JournalTypeOK
  PROVE  Table(batches) <=> OneBatchPerEvent /\ ReversalsPair
<1>1. OneBatchPerEvent <=> \A b, c \in DOMAIN batches : b = c \/ Apart(batches[b], batches[c])
  BY DEF OneBatchPerEvent, Apart
<1>2. ReversalsPair <=> \A b \in DOMAIN batches : PairedIn(batches, b)
  BY PairedIsPair DEF Paired, Unreversed, ReversedBy, PairedIn, Reversed
<1> QED
  BY <1>1, <1>2 DEF Table, JournalTypeOK

\* A posted row that is no reversal, with a key and an event of its own, is
\* added; and what an approval adds for one part, which may be nothing.
Added(old, new, row) ==
    /\ row \in Batch /\ row.status = "POSTED" /\ row.reverses = 0
    /\ \A c \in DOMAIN old : Apart(row, old[c]) /\ Apart(old[c], row)
    /\ new = Append(old, row)

MayBook(old, new, lines) ==
    \/ new = old /\ lines = <<>>
    \/ \E row \in Batch : Added(old, new, row) /\ row.lines = lines

Follows(old, new, lines) ==
    /\ Table(new)
    /\ \A b \in DOMAIN old : b \in DOMAIN new /\ new[b] = old[b]
    /\ \A a : DebitOf(new, a) = DebitOf(old, a) + DebitTo(lines, a)

LEMMA PairedAdded ==
  ASSUME NEW old, Table(old), NEW row, NEW new, Added(old, new, row)
  PROVE  \A b \in DOMAIN new : PairedIn(new, b)
<1>1. /\ DOMAIN new = DOMAIN old \cup {Len(old) + 1}
      /\ DOMAIN old = 1 .. Len(old) /\ Len(old) \in Nat
      /\ \A c \in DOMAIN old : new[c] = old[c]
      /\ new[Len(old) + 1] = row
  BY RowAdded DEF Added, Table
<1>2. /\ \A c \in DOMAIN old : old[c].reverses < c /\ PairedIn(old, c) /\ old[c] \in Batch
      /\ row.status = "POSTED" /\ row.reverses = 0
  BY DEF Table, Added
<1>3. ASSUME NEW b \in DOMAIN old PROVE PairedIn(new, b)
  <2>1. ASSUME new[b].status # "REVERSED", NEW r \in DOMAIN new PROVE new[r].reverses # b
    BY <1>1, <1>2, <2>1 DEF PairedIn
  <2>2. ASSUME new[b].status = "REVERSED" PROVE \E r \in DOMAIN new : Reversed(new, b, r)
    <3>1. PICK r \in DOMAIN old : Reversed(old, b, r)
      BY <1>1, <1>2, <2>2 DEF PairedIn
    <3>2. Reversed(new, b, r)
      BY <1>1, <1>2, <3>1 DEF Reversed
    <3> QED
      BY <1>1, <3>2
  <2> QED
    BY <2>1, <2>2 DEF PairedIn
<1>4. ASSUME NEW n, n = Len(old) + 1 PROVE PairedIn(new, n)
  <2>1. \A c \in DOMAIN old : old[c].reverses \in Nat
    BY <1>2 DEF Batch
  <2> QED
    BY <1>1, <1>2, <1>4, <2>1 DEF PairedIn
<1> QED
  BY <1>1, <1>3, <1>4

LEMMA BookedFollows ==
  ASSUME NEW old, Table(old), NEW new, NEW lines, MayBook(old, new, lines)
  PROVE  Follows(old, new, lines)
<1>0. old \in Seq(Batch)
  BY DEF Table
<1>1. CASE new = old /\ lines = <<>>
  <2>1. \A a : DebitOf(old, a) \in Int
    BY <1>0, DebitOfInt
  <2> QED
    BY <1>1, <2>1, DebitToNothing DEF Follows
<1>2. ASSUME NEW row \in Batch, Added(old, new, row), row.lines = lines
      PROVE  Follows(old, new, lines)
  <2>1. /\ new \in Seq(Batch)
        /\ DOMAIN new = DOMAIN old \cup {Len(old) + 1}
        /\ DOMAIN old = 1 .. Len(old) /\ Len(old) \in Nat
        /\ \A c \in DOMAIN old : new[c] = old[c]
        /\ new[Len(old) + 1] = row
    BY <1>0, <1>2, RowAdded DEF Added
  <2>2. \A b \in DOMAIN new : new[b].reverses < b
    BY <1>2, <2>1 DEF Table, Added
  <2>3. \A b, c \in DOMAIN new : b = c \/ Apart(new[b], new[c])
    <3>1. \A b, c \in DOMAIN old : b = c \/ Apart(old[b], old[c])
      BY DEF Table
    <3>2. \A c \in DOMAIN old : Apart(row, old[c]) /\ Apart(old[c], row)
      BY <1>2 DEF Added
    <3> QED
      BY <2>1, <3>1, <3>2, Zenon
  <2>4. Table(new)
    BY <1>2, <2>1, <2>2, <2>3, PairedAdded DEF Table
  <2>5. PICK x : x = Len(old) + 1
    OBVIOUS
  <2>6. OneMore(old, new, x)
    <3>1. row.status \in Booked /\ new = Append(old, row)
      BY <1>2 DEF Added, Booked
    <3> QED
      BY <1>0, <2>5, <3>1, AddedBooks
  <2>7. \A a : DebitOf(new, a) = DebitOf(old, a) + DebitTo(new[x].lines, a)
    BY <1>0, <2>1, <2>6, DebitMore
  <2>8. new[x].lines = lines
    BY <1>2, <2>1, <2>5
  <2> QED
    BY <2>1, <2>4, <2>7, <2>8 DEF Follows
<1> QED
  BY <1>1, <1>2 DEF MayBook

LEMMA DebitToPair ==
  ASSUME NEW lines \in Seq(Line), NEW k \in Line, NEW l \in Line, NEW a
  PROVE  /\ DebitTo(lines \o <<k, l>>, a) = DebitTo(lines, a) + DebitTo(<<k, l>>, a)
         /\ DebitTo(<<k, l>>, a) = (IF k.account = a THEN k.debit ELSE 0) + (IF l.account = a THEN l.debit ELSE 0)
<1>1. /\ lines \o <<k, l>> = Append(Append(lines, k), l) /\ Append(lines, k) \in Seq(Line)
      /\ <<k, l>> = Append(Append(<<>>, k), l) /\ Append(<<>>, k) \in Seq(Line) /\ <<>> \in Seq(Line)
  OBVIOUS
<1>2. k.debit \in Int /\ l.debit \in Int /\ DebitTo(lines, a) \in Int
  BY DebitToInt DEF Line
<1>3. /\ DebitTo(Append(lines, k), a) = DebitTo(lines, a) + (IF k.account = a THEN k.debit ELSE 0)
      /\ DebitTo(Append(Append(lines, k), l), a)
            = DebitTo(Append(lines, k), a) + (IF l.account = a THEN l.debit ELSE 0)
  BY <1>1, DebitToNext
<1>4. /\ DebitTo(Append(<<>>, k), a) = DebitTo(<<>>, a) + (IF k.account = a THEN k.debit ELSE 0)
      /\ DebitTo(Append(Append(<<>>, k), l), a)
            = DebitTo(Append(<<>>, k), a) + (IF l.account = a THEN l.debit ELSE 0)
  BY <1>1, DebitToNext
<1>5. DebitTo(<<>>, a) = 0
  BY DebitToNothing
<1>6. /\ DebitTo(lines \o <<k, l>>, a) = DebitTo(Append(Append(lines, k), l), a)
      /\ DebitTo(<<k, l>>, a) = DebitTo(Append(Append(<<>>, k), l), a)
  BY <1>1, Zenon
<1>7. DebitTo(lines \o <<k, l>>, a) = DebitTo(lines, a) + (IF k.account = a THEN k.debit ELSE 0)
                                         + (IF l.account = a THEN l.debit ELSE 0)
  BY <1>3, <1>6
<1>8. DebitTo(<<k, l>>, a) = (IF k.account = a THEN k.debit ELSE 0) + (IF l.account = a THEN l.debit ELSE 0)
  BY <1>2, <1>4, <1>5, <1>6
<1> QED
  BY <1>2, <1>7, <1>8


\* Rows of model m are numbered up to n: a row of the next number is apart.
Names(row, m, n) == (row.key[1] = m => row.key[2] <= n) /\ (row.source[1] = m => row.source[2] <= n)
Named(rows, m, n) == \A b \in DOMAIN rows : Names(rows[b], m, n)

LEMMA NamesTyped ==
  ASSUME NEW row \in Batch
  PROVE  row.key[2] \in Nat /\ row.source[2] \in Nat
<1>1. row.key \in Key /\ row.source \in Source
  BY DEF Batch
<1>2. \A k \in Key : k[2] \in Nat
  BY DEF Key
<1>3. \A k \in Source : k[2] \in Nat
  BY DEF Source
<1> QED
  BY <1>1, <1>2, <1>3

LEMMA NamesMore ==
  ASSUME NEW row \in Batch, NEW m, NEW n \in Nat, NEW k \in Nat, n <= k, Names(row, m, n)
  PROVE  Names(row, m, k)
  BY NamesTyped DEF Names

LEMMA NamedAdded ==
  ASSUME NEW old \in Seq(Batch), NEW row \in Batch, NEW new, new = Append(old, row),
         NEW m, NEW n \in Nat, Named(old, m, n), NEW k \in Nat, n <= k, Names(row, m, k)
  PROVE  Named(new, m, k)
<1>1. /\ DOMAIN new = DOMAIN old \cup {Len(old) + 1}
      /\ \A c \in DOMAIN old : new[c] = old[c]
      /\ new[Len(old) + 1] = row
  BY RowAdded
<1>2. \A c \in DOMAIN old : old[c] \in Batch /\ Names(old[c], m, n)
  BY DEF Named
<1>3. \A c \in DOMAIN old : Names(old[c], m, k)
  BY <1>2, NamesMore
<1> QED
  BY <1>1, <1>3, Zenon DEF Named

LEMMA NamesTurned ==
  ASSUME NEW row \in Batch, NEW s \in {"DRAFT", "POSTED", "REVERSED"}, NEW m, NEW n
  PROVE  Names(row, m, n) <=> Names(Turned(row, s), m, n)
  BY StatusTurned DEF Names

\* The journal names its own rows otherwise.
LEMMA NamedJournal ==
  ASSUME JournalTypeOK, [JournalNext]_journalVars,
         NEW m \in {"Expense", "Distribution"}, NEW n, Named(batches, m, n)
  PROVE  Named(batches', m, n)
<1>1. \A c \in DOMAIN batches : Names(batches[c], m, n)
  BY DEF Named
<1>2. CASE Unchanged
  BY <1>2 DEF Unchanged
<1>3. CASE AddsDraft
  <2>1. PICK row \in Batch, token \in Tokens :
           /\ row.key = <<"manual", token, "">> /\ row.source = NoSource
           /\ DOMAIN batches' = DOMAIN batches \cup {Len(batches) + 1}
           /\ \A c \in DOMAIN batches : batches'[c] = batches[c]
           /\ batches'[Len(batches) + 1] = row
    BY <1>3, AfterDraft
  <2>2. Names(row, m, n)
    <3>0. row.key = <<"manual", token, "">> /\ row.source = <<"", 0>>
      BY <2>1 DEF NoSource
    <3>1. row.key[1] = "manual" /\ row.source[1] = ""
      BY <3>0, FirstOfKey, FirstOfSource
    <3> QED
      BY <3>1 DEF Names
  <2> QED
    BY <1>1, <2>1, <2>2, Zenon DEF Named
<1>4. CASE PostsDraft
  <2>1. PICK b \in DOMAIN batches :
           /\ batches[b] \in Batch
           /\ DOMAIN batches' = DOMAIN batches
           /\ \A c \in DOMAIN batches : c # b => batches'[c] = batches[c]
           /\ batches'[b] = Turned(batches[b], "POSTED")
    BY <1>4, AfterPosting
  <2>2. Names(batches'[b], m, n)
    <3>1. Names(batches[b], m, n) <=> Names(Turned(batches[b], "POSTED"), m, n)
      BY <2>1, NamesTurned
    <3> QED
      BY <1>1, <2>1, <3>1
  <2> QED
    BY <1>1, <2>1, <2>2, Zenon DEF Named
<1>5. CASE Reverses
  <2>1. PICK b \in DOMAIN batches, row \in Batch :
           /\ batches[b] \in Batch
           /\ row.key = <<"manual-reversal", b, "">> /\ row.source = <<"JournalBatch", b>>
           /\ DOMAIN batches' = DOMAIN batches \cup {Len(batches) + 1}
           /\ \A c \in DOMAIN batches : c # b => batches'[c] = batches[c]
           /\ batches'[b] = Turned(batches[b], "REVERSED")
           /\ batches'[Len(batches) + 1] = row
    BY <1>5, AfterReversal
  <2>2. Names(batches'[b], m, n)
    <3>1. Names(batches[b], m, n) <=> Names(Turned(batches[b], "REVERSED"), m, n)
      BY <2>1, NamesTurned
    <3> QED
      BY <1>1, <2>1, <3>1
  <2>3. Names(row, m, n)
    <3>0. row.key = <<"manual-reversal", b, "">> /\ row.source = <<"JournalBatch", b>>
      BY <2>1
    <3>1. row.key[1] = "manual-reversal" /\ row.source[1] = "JournalBatch"
      BY <3>0, FirstOfKey, FirstOfSource
    <3> QED
      BY <3>1 DEF Names
  <2> QED
    BY <1>1, <2>1, <2>2, <2>3, Zenon DEF Named
<1> QED
  BY <1>2, <1>3, <1>4, <1>5, StepKinds

-----------------------------------------------------------------------------
(* The rows that the services book *)

\* One row reaches the table and the balances.
BooksRow(row) ==
    /\ Added(batches, batches', row)
    /\ Balanced(row.lines)
    /\ cached' = [a \in FinAccounts |-> cached[a] + Natural(a, DebitTo(row.lines, a))]

EventRow(m, n, event, day, lines) == NewBatch(<<m, n, event>>, <<m, n>>, event, day, lines, "POSTED", 0)
ChargeRow(e, day, amount) == EventRow("Expense", e, "EXPENSE_RECOGNITION", day, ChargeLines(amount))

PaidFrom(a, amount) == <<[account |-> Payable, debit |-> amount], [account |-> a, debit |-> -amount]>>
PaymentRow(token, a, amount) ==
    NewBatch(<<"payment", token, "">>, NoSource, "EXPENSE_PAYMENT", today, PaidFrom(a, amount), "POSTED", 0)

LEMMA EventBooks ==
  ASSUME NEW m \in Models, NEW n \in Nat, NEW event \in Events, NEW day \in Days,
         NEW lines \in Seq(Line), NEW accrual,
         RecordEvent(<<m, n>>, event, day, lines, accrual)
  PROVE  BooksRow(EventRow(m, n, event, day, lines))
<1> DEFINE row == EventRow(m, n, event, day, lines)
<1>1. row \in Batch
  BY EventTyped DEF EventRow
<1>2. /\ row.key = <<m, n, event>> /\ row.source = <<m, n>> /\ row.event = event
      /\ row.lines = lines /\ row.status = "POSTED" /\ row.reverses = 0
  BY DEF EventRow, NewBatch
<1>3. /\ Fresh(row.key, row.source, row.event)
      /\ batches' = Append(batches, row)
      /\ Balanced(row.lines)
      /\ cached' = [a \in FinAccounts |-> cached[a] + Natural(a, DebitTo(row.lines, a))]
  BY <1>2 DEF RecordEvent, Post, EventRow
<1> HIDE DEF row
<1>4. \A c \in DOMAIN batches : Apart(row, batches[c]) /\ Apart(batches[c], row)
  BY <1>3, FreshApart
<1>5. BooksRow(row)
  BY <1>1, <1>2, <1>3, <1>4, Zenon DEF BooksRow, Added
<1> QED
  BY <1>5 DEF row

LEMMA ApproveExpenseBooks ==
  ASSUME DividendsTypeOK, NEW u \in Users, NEW e \in DOMAIN expenses, ApproveExpense(u, e)
  PROVE  BooksRow(ChargeRow(e, expenses[e].day, expenses[e].amount))
<1>1. expenses[e].amount \in Nat \ {0} /\ expenses[e].day \in Days /\ e \in Nat
  BY ExpenseRow
<1>2. ChargeLines(expenses[e].amount) \in Seq(Line)
  BY <1>1, ChargeTyped
<1>3. RecordEvent(<<"Expense", e>>, "EXPENSE_RECOGNITION", expenses[e].day,
                  ChargeLines(expenses[e].amount), FALSE)
  BY DEF ApproveExpense, Recognition
<1>4. "Expense" \in Models /\ "EXPENSE_RECOGNITION" \in Events
  BY DEF Models, Events
<1>5. \A lines \in Seq(Line), day \in Days :
         RecordEvent(<<"Expense", e>>, "EXPENSE_RECOGNITION", day, lines, FALSE)
            => BooksRow(EventRow("Expense", e, "EXPENSE_RECOGNITION", day, lines))
  BY <1>1, <1>4, EventBooks
<1> QED
  BY <1>1, <1>2, <1>3, <1>5 DEF ChargeRow

LEMMA AccrualBooks ==
  ASSUME DividendsTypeOK, NEW u \in Users, NEW p \in periods, ClosePeriod(u, p), Accrues(p)
  PROVE  BooksRow(ChargeRow(Len(expenses) + 1, p.last, Salary)) /\ Salary \in Nat \ {0} /\ p.last \in Days
<1>1. p.last \in Days /\ Len(expenses) + 1 \in Nat
  BY PeriodRow DEF DividendsTypeOK
<1>2. Salary \in Nat \ {0}
  BY ClosingAssumption DEF Accrues
<1>3. ChargeLines(Salary) \in Seq(Line)
  BY <1>2, ChargeTyped
<1>4. RecordEvent(<<"Expense", Len(expenses) + 1>>, "EXPENSE_RECOGNITION", p.last, ChargeLines(Salary), TRUE)
  BY DEF ClosePeriod, Accrue, Recognition
<1>5. "Expense" \in Models /\ "EXPENSE_RECOGNITION" \in Events
  BY DEF Models, Events
<1>6. \A n \in Nat, day \in Days :
         RecordEvent(<<"Expense", n>>, "EXPENSE_RECOGNITION", day, ChargeLines(Salary), TRUE)
            => BooksRow(EventRow("Expense", n, "EXPENSE_RECOGNITION", day, ChargeLines(Salary)))
  BY <1>3, <1>5, EventBooks
<1> QED
  BY <1>1, <1>2, <1>4, <1>6 DEF ChargeRow

LEMMA PayExpenseBooks ==
  ASSUME DividendsTypeOK, NEW u \in Users, NEW e \in DOMAIN expenses, NEW a \in CashAccounts,
         NEW amount \in Counts, NEW token \in Tokens, PayExpense(u, e, a, amount, token)
  PROVE  BooksRow(PaymentRow(token, a, amount)) /\ amount \in Nat \ {0}
<1> DEFINE row == PaymentRow(token, a, amount)
<1>1. amount \in Nat \ {0} /\ a \in FinAccounts /\ Payable \in FinAccounts
  <2>1. amount > 0
    BY DEF PayExpense
  <2>2. amount \in Nat /\ a \in FinAccounts /\ Payable \in FinAccounts
    BY ClosingAssumption
  <2> QED
    BY <2>1, <2>2
<1>2. PaidFrom(a, amount) \in Seq(Line)
  BY <1>1, TwoLines DEF PaidFrom
<1>3. row \in Batch
  <2>1. today \in Days
    BY DEF DividendsTypeOK, JournalTypeOK
  <2> QED
    BY <1>2, <2>1, PaymentTyped DEF PaymentRow
<1>4. /\ row.key = <<"payment", token, "">> /\ row.source = NoSource /\ row.event = "EXPENSE_PAYMENT"
      /\ row.lines = PaidFrom(a, amount) /\ row.status = "POSTED" /\ row.reverses = 0
  BY DEF PaymentRow, NewBatch
<1>5. /\ Fresh(row.key, row.source, row.event)
      /\ batches' = Append(batches, row)
      /\ Balanced(row.lines)
      /\ cached' = [c \in FinAccounts |-> cached[c] + Natural(c, DebitTo(row.lines, c))]
  BY <1>4 DEF PayExpense, Post, PaymentRow, PaidFrom
<1> HIDE DEF row
<1>6. \A c \in DOMAIN batches : Apart(row, batches[c]) /\ Apart(batches[c], row)
  BY <1>5, FreshApart
<1>7. BooksRow(row)
  BY <1>3, <1>4, <1>5, <1>6, Zenon DEF BooksRow, Added
<1> QED
  BY <1>1, <1>7 DEF row

\* What a part pays or reinvests leaves its payable.
PayableOf(d) == DividendPayable[<<parts[d].profit.currency, parts[d].party>>]
SettlementRow(d, event, account) ==
    EventRow("Distribution", d, event, today, From(PayableOf(d), account, parts[d].amount))

LEMMA SettleBooks ==
  ASSUME DividendsTypeOK, NEW d \in DOMAIN parts, NEW event \in Events, NEW account \in FinAccounts, NEW status,
         Settle(d, event, account, status)
  PROVE  BooksRow(SettlementRow(d, event, account))
<1> DEFINE lines == From(PayableOf(d), account, parts[d].amount)
<1>1. PayableOf(d) \in FinAccounts
  <2>1. <<parts[d].profit.currency, parts[d].party>> \in Currencies \X Parties
    BY PartRow
  <2> QED
    BY <2>1, DividendsAssumption DEF PayableOf
<1>2. RecordEvent(<<"Distribution", d>>, event, today, lines, FALSE) /\ parts[d].amount > 0
  BY DEF Settle, DistributionRow, PayableOf
<1>3. lines \in Seq(Line)
  <2>1. parts[d].amount \in Int \ {0}
    BY <1>2, PartRow
  <2> QED
    BY <1>1, <2>1, TwoLines DEF From
<1>4. today \in Days /\ d \in Nat /\ "Distribution" \in Models
  BY DEF DividendsTypeOK, JournalTypeOK, Models
<1>5. \A more \in Seq(Line) :
         RecordEvent(<<"Distribution", d>>, event, today, more, FALSE)
            => BooksRow(EventRow("Distribution", d, event, today, more))
  BY <1>4, EventBooks
<1> QED
  BY <1>2, <1>3, <1>5 DEF SettlementRow


\* A row that a service books leaves the table in order, is the lines that the
\* balances take, and is numbered as its source.
LEMMA RowFollows ==
  ASSUME JournalTypeOK, Table(batches), NEW row, BooksRow(row)
  PROVE  Follows(batches, batches', row.lines) /\ BookStep /\ row.lines \in Seq(Line)
<1>1. MayBook(batches, batches', row.lines) /\ row \in Batch
  BY DEF BooksRow, MayBook, Added
<1>2. Follows(batches, batches', row.lines)
  BY <1>1, BookedFollows
<1>3. row.lines \in Seq(Line)
  BY <1>1 DEF Batch
<1>4. BooksLines(row.lines)
  BY <1>2 DEF Follows, BooksLines, BooksRow
<1> QED
  BY <1>2, <1>3, <1>4 DEF BookStep, BooksRow

LEMMA RowNamed ==
  ASSUME JournalTypeOK, NEW row, BooksRow(row), NEW m, NEW n \in Nat, NEW k \in Nat, n <= k,
         Named(batches, m, n), Names(row, m, k)
  PROVE  Named(batches', m, k)
<1>1. batches \in Seq(Batch) /\ row \in Batch /\ batches' = Append(batches, row)
  BY DEF JournalTypeOK, BooksRow, Added
<1> QED
  BY <1>1, NamedAdded

LEMMA EventNamed ==
  ASSUME NEW m, NEW n, NEW event, NEW day, NEW lines, NEW other, NEW k
  PROVE  /\ other # m => Names(EventRow(m, n, event, day, lines), other, k)
         /\ n <= k => Names(EventRow(m, n, event, day, lines), m, k)
<1> DEFINE row == EventRow(m, n, event, day, lines)
<1>1. row.key = <<m, n, event>> /\ row.source = <<m, n>>
  BY DEF EventRow, NewBatch
<1> HIDE DEF row
<1>2. row.key[1] = m /\ row.key[2] = n
  BY <1>1, FirstOfKey
<1>3. row.source[1] = m /\ row.source[2] = n
  BY <1>1, FirstOfSource
<1>4. (other # m => Names(row, other, k)) /\ (n <= k => Names(row, m, k))
  BY <1>2, <1>3 DEF Names
<1> QED
  BY <1>4 DEF row

LEMMA PaymentNamed ==
  ASSUME NEW token, NEW a, NEW amount, NEW m \in {"Expense", "Distribution"}, NEW k
  PROVE  Names(PaymentRow(token, a, amount), m, k)
<1> DEFINE row == PaymentRow(token, a, amount)
<1>1. row.key = <<"payment", token, "">> /\ row.source = <<"", 0>>
  BY DEF PaymentRow, NewBatch, NoSource
<1> HIDE DEF row
<1>2. row.key[1] = "payment"
  BY <1>1, FirstOfKey
<1>3. row.source[1] = ""
  BY <1>1, FirstOfSource
<1>4. Names(row, m, k)
  BY <1>2, <1>3 DEF Names
<1> QED
  BY <1>4 DEF row

-----------------------------------------------------------------------------
(* An approval books its parts one after the other *)

\* Lines of one part: two or none.
Pairs == {lines \in Seq(Line) : Len(lines) \in {0, 2}}

LEMMA PairsTyped == \A lines \in Pairs : lines \in Seq(Line)
  BY DEF Pairs

LEMMA PairsAre ==
  /\ <<>> \in Pairs
  /\ \A k \in Line, l \in Line : <<k, l>> \in Pairs
  /\ \A lines \in Pairs : lines = <<>> \/ \E k \in Line, l \in Line : lines = <<k, l>>
<1>1. <<>> \in Pairs /\ \A k \in Line, l \in Line : <<k, l>> \in Pairs
  BY DEF Pairs
<1>2. ASSUME NEW lines \in Seq(Line), Len(lines) = 0 PROVE lines = <<>>
  BY <1>2
<1>3. ASSUME NEW lines \in Seq(Line), Len(lines) = 2 PROVE \E k \in Line, l \in Line : lines = <<k, l>>
  <2>1. lines[1] \in Line /\ lines[2] \in Line /\ lines = <<lines[1], lines[2]>>
    BY <1>3
  <2> QED
    BY <2>1
<1> QED
  BY <1>1, <1>2, <1>3 DEF Pairs

LEMMA DebitToBoth ==
  ASSUME NEW lines \in Seq(Line), NEW more \in Pairs, NEW a
  PROVE  DebitTo(lines \o more, a) = DebitTo(lines, a) + DebitTo(more, a)
<1>1. CASE more = <<>>
  <2>1. lines \o more = lines /\ DebitTo(lines, a) \in Int
    BY <1>1, DebitToInt
  <2> QED
    BY <1>1, <2>1, DebitToNothing
<1>2. ASSUME NEW k \in Line, NEW l \in Line, more = <<k, l>>
      PROVE  DebitTo(lines \o more, a) = DebitTo(lines, a) + DebitTo(more, a)
  BY <1>2, DebitToPair
<1> QED
  BY <1>1, <1>2, PairsAre

LEMMA FollowsOn ==
  ASSUME NEW old \in Seq(Batch), NEW mid, NEW new, NEW lines \in Seq(Line), NEW more \in Pairs,
         Follows(old, mid, lines), Follows(mid, new, more)
  PROVE  Follows(old, new, lines \o more) /\ lines \o more \in Seq(Line)
<1>1. \A b \in DOMAIN old : b \in DOMAIN new /\ new[b] = old[b]
  BY DEF Follows
<1>2. ASSUME NEW a PROVE DebitOf(new, a) = DebitOf(old, a) + DebitTo(lines \o more, a)
  <2>1. DebitTo(lines \o more, a) = DebitTo(lines, a) + DebitTo(more, a)
    BY DebitToBoth
  <2>2. DebitOf(old, a) \in Int /\ DebitTo(lines, a) \in Int /\ DebitTo(more, a) \in Int
    BY DebitOfInt, DebitToInt, PairsTyped
  <2>3. DebitOf(mid, a) = DebitOf(old, a) + DebitTo(lines, a) /\ DebitOf(new, a) = DebitOf(mid, a) + DebitTo(more, a)
    BY DEF Follows
  <2> QED
    BY <2>1, <2>2, <2>3
<1>3. lines \o more \in Seq(Line)
  BY PairsTyped
<1> QED
  BY <1>1, <1>2, <1>3 DEF Follows

\* The i-th part: nothing, or one row of the next number.
PartBooked(q, amount, i, old, new) ==
    /\ Follows(old, new, ApprovalLines(q, amount, i))
    /\ ApprovalLines(q, amount, i) \in Pairs
    /\ Named(new, "Distribution", Len(parts) + i)
    /\ \A n \in Nat : Named(old, "Expense", n) => Named(new, "Expense", n)

LEMMA PartBooks ==
  ASSUME DividendsTypeOK, NEW q \in profits, NEW amount \in Int, NEW i \in 1 .. 4,
         NEW old, Table(old), Named(old, "Distribution", Len(parts) + i - 1),
         NEW new, new = old \o ApprovalBatch(q, amount, i)
  PROVE  PartBooked(q, amount, i, old, new)
<1>0. old \in Seq(Batch) /\ Len(parts) \in Nat
  BY DEF Table, DividendsTypeOK
<1>1. CASE Share(amount, i) = 0
  <2>1. new = old /\ ApprovalLines(q, amount, i) = <<>>
    BY <1>0, <1>1 DEF ApprovalBatch, ApprovalLines
  <2>2. Follows(old, new, <<>>)
    BY <2>1, BookedFollows DEF MayBook
  <2>3. \A c \in DOMAIN old : old[c] \in Batch /\ Names(old[c], "Distribution", Len(parts) + i - 1)
    BY <1>0 DEF Named
  <2>4. \A row \in Batch : Names(row, "Distribution", Len(parts) + i - 1) => Names(row, "Distribution", Len(parts) + i)
    <3>1. Len(parts) + i - 1 \in Nat /\ Len(parts) + i \in Nat /\ Len(parts) + i - 1 <= Len(parts) + i
      BY <1>0
    <3> QED
      BY <3>1, NamesMore
  <2> QED
    BY <2>1, <2>2, <2>3, <2>4, PairsAre DEF Named, PartBooked
<1>2. CASE Share(amount, i) # 0
  <2> DEFINE d == Len(parts) + i
             lines == ApprovalLines(q, amount, i)
             row == EventRow("Distribution", d, "DISTRIBUTION_APPROVE", today, lines)
  <2>1. ApprovalBatch(q, amount, i) = <<row>>
    BY <1>2 DEF ApprovalBatch, DistributionRow, EventRow
  <2>2. d \in Nat /\ d - 1 \in Nat /\ today \in Days /\ q \in Profit
    BY <1>0 DEF DividendsTypeOK, JournalTypeOK
  <2>3. Capital[q.currency] \in FinAccounts /\ DividendPayable[<<q.currency, Shareholders[i]>>] \in FinAccounts
    <3>1. q.currency \in Currencies
      BY <2>2 DEF Profit
    <3> QED
      BY <3>1, PartiesTyped, DividendsAssumption
  <2>4. lines \in Pairs
    <3>1. Share(amount, i) \in Int \ {0}
      BY <1>2, ShareTyped
    <3>2. /\ [account |-> Capital[q.currency], debit |-> Share(amount, i)] \in Line
          /\ [account |-> DividendPayable[<<q.currency, Shareholders[i]>>], debit |-> -Share(amount, i)] \in Line
      BY <2>3, <3>1 DEF Line
    <3>3. lines = <<[account |-> Capital[q.currency], debit |-> Share(amount, i)],
                    [account |-> DividendPayable[<<q.currency, Shareholders[i]>>], debit |-> -Share(amount, i)]>>
      BY <1>2 DEF ApprovalLines, From
    <3> HIDE DEF lines
    <3> QED
      BY <3>2, <3>3, PairsAre
  <2>5. "Distribution" \in Models /\ "DISTRIBUTION_APPROVE" \in Events
    BY DEF Models, Events
  <2> HIDE DEF lines
  <2>6. row \in Batch
    <3> HIDE DEF d
    <3> QED
      BY <2>2, <2>4, <2>5, EventTyped, PairsTyped DEF EventRow
  <2>7. /\ row.key = <<"Distribution", d, "DISTRIBUTION_APPROVE">> /\ row.source = <<"Distribution", d>>
        /\ row.lines = lines /\ row.status = "POSTED" /\ row.reverses = 0
    BY DEF EventRow, NewBatch
  <2>8. Names(row, "Distribution", d) /\ \A n : Names(row, "Expense", n)
    <3>1. d <= d
      BY <2>2
    <3> QED
      BY <3>1, EventNamed
  <2> HIDE DEF row
  <2>9. new = Append(old, row)
    BY <1>0, <2>1, <2>6
  <2>10. ASSUME NEW c \in DOMAIN old PROVE Apart(row, old[c]) /\ Apart(old[c], row)
    <3>1. old[c] \in Batch /\ Names(old[c], "Distribution", d - 1)
      BY <1>0 DEF Named
    <3>2. ~(d <= d - 1)
      BY <2>2
    <3>3. old[c].key # row.key
      <4>1. row.key[1] = "Distribution" /\ row.key[2] = d
        BY <2>7, FirstOfKey
      <4> QED
        BY <3>1, <3>2, <4>1 DEF Names
    <3>4. old[c].source # row.source
      <4>1. row.source[1] = "Distribution" /\ row.source[2] = d
        BY <2>7, FirstOfSource
      <4> QED
        BY <3>1, <3>2, <4>1 DEF Names
    <3>5. <<row.source, row.event>> # <<old[c].source, old[c].event>>
      BY <3>4
    <3>6. <<old[c].source, old[c].event>> # <<row.source, row.event>>
      BY <3>4
    <3> QED
      BY <3>3, <3>5, <3>6 DEF Apart
  <2>11. MayBook(old, new, lines)
    BY <2>6, <2>7, <2>9, <2>10 DEF MayBook, Added
  <2>12. Follows(old, new, lines)
    BY <2>11, BookedFollows
  <2>13. Named(new, "Distribution", d)
    <3>1. d - 1 <= d /\ Named(old, "Distribution", d - 1)
      BY <2>2
    <3> HIDE DEF d
    <3> QED
      BY <1>0, <2>2, <2>6, <2>8, <2>9, <3>1, NamedAdded
  <2>14. ASSUME NEW n \in Nat, Named(old, "Expense", n) PROVE Named(new, "Expense", n)
    <3>1. n <= n
      OBVIOUS
    <3> QED
      BY <1>0, <2>6, <2>8, <2>9, <2>14, <3>1, NamedAdded
  <2> QED
    BY <2>4, <2>12, <2>13, <2>14 DEF lines, PartBooked
<1> QED
  BY <1>1, <1>2

LEMMA ApprovalFollows ==
  ASSUME DividendsTypeOK, Table(batches), Named(batches, "Distribution", Len(parts)),
         NEW u \in Users, NEW q \in profits, NEW amount \in Offers, ApproveDistributions(u, q, amount)
  PROVE  /\ Follows(batches, batches', ApprovedLines(q, amount))
         /\ ApprovedLines(q, amount) \in Seq(Line)
         /\ BookStep
         /\ Named(batches', "Distribution", Len(parts) + 4)
         /\ \A n \in Nat : Named(batches, "Expense", n) => Named(batches', "Expense", n)
<1> DEFINE b1 == ApprovalBatch(q, amount, 1)
           b2 == ApprovalBatch(q, amount, 2)
           b3 == ApprovalBatch(q, amount, 3)
           b4 == ApprovalBatch(q, amount, 4)
           l1 == ApprovalLines(q, amount, 1)
           l2 == ApprovalLines(q, amount, 2)
           l3 == ApprovalLines(q, amount, 3)
           l4 == ApprovalLines(q, amount, 4)
           t1 == batches \o b1
           t2 == t1 \o b2
           t3 == t2 \o b3
           t4 == t3 \o b4
           n0 == Len(parts)
<1>0. amount \in Int /\ batches \in Seq(Batch) /\ n0 \in Nat
  BY OffersTyped DEF DividendsTypeOK, JournalTypeOK
<1>1. /\ b1 \in Seq(Batch) /\ b2 \in Seq(Batch) /\ b3 \in Seq(Batch) /\ b4 \in Seq(Batch)
  <2>1. /\ b1 \in Seq(ApprovedRows) /\ b2 \in Seq(ApprovedRows)
        /\ b3 \in Seq(ApprovedRows) /\ b4 \in Seq(ApprovedRows)
    BY <1>0, ApprovalBatchTyped
  <2>2. ApprovedRows \subseteq Batch
    BY DEF ApprovedRows
  <2>3. \A s \in Seq(ApprovedRows) : s \in Seq(Batch)
    BY <2>2
  <2> HIDE DEF b1, b2, b3, b4
  <2> QED
    BY <2>1, <2>3
<1>2. batches' = t4
  <2>1. batches' = batches \o (((b1 \o b2) \o b3) \o b4)
    BY DEF ApproveDistributions, ApprovalBatches
  <2> HIDE DEF b1, b2, b3, b4
  <2> QED
    BY <1>0, <1>1, <2>1
<1>3. /\ Follows(batches, t1, l1) /\ l1 \in Pairs /\ Named(t1, "Distribution", n0 + 1)
      /\ \A n \in Nat : Named(batches, "Expense", n) => Named(t1, "Expense", n)
  <2>1. Table(batches) /\ Named(batches, "Distribution", n0 + 1 - 1) /\ 1 \in 1 .. 4
    <3>1. n0 + 1 - 1 = n0
      BY <1>0
    <3> QED
      BY <3>1
  <2>2. PartBooked(q, amount, 1, batches, batches \o ApprovalBatch(q, amount, 1))
    BY <1>0, <2>1, PartBooks
  <2> QED
    BY <2>2 DEF PartBooked
<1>4. /\ Follows(t1, t2, l2) /\ l2 \in Pairs /\ Named(t2, "Distribution", n0 + 2)
      /\ \A n \in Nat : Named(t1, "Expense", n) => Named(t2, "Expense", n)
  <2>1. Table(t1) /\ Named(t1, "Distribution", n0 + 2 - 1) /\ 2 \in 1 .. 4
    <3>1. n0 + 2 - 1 = n0 + 1
      BY <1>0
    <3> QED
      BY <3>1, <1>3 DEF Follows
  <2>2. PartBooked(q, amount, 2, t1, t1 \o ApprovalBatch(q, amount, 2))
    <3> HIDE DEF t1
    <3> QED
      BY <1>0, <2>1, PartBooks
  <2> QED
    BY <2>2 DEF PartBooked
<1>5. /\ Follows(t2, t3, l3) /\ l3 \in Pairs /\ Named(t3, "Distribution", n0 + 3)
      /\ \A n \in Nat : Named(t2, "Expense", n) => Named(t3, "Expense", n)
  <2>1. Table(t2) /\ Named(t2, "Distribution", n0 + 3 - 1) /\ 3 \in 1 .. 4
    <3>1. n0 + 3 - 1 = n0 + 2
      BY <1>0
    <3> QED
      BY <3>1, <1>4 DEF Follows
  <2>2. PartBooked(q, amount, 3, t2, t2 \o ApprovalBatch(q, amount, 3))
    <3> HIDE DEF t2
    <3> QED
      BY <1>0, <2>1, PartBooks
  <2> QED
    BY <2>2 DEF PartBooked
<1>6. /\ Follows(t3, t4, l4) /\ l4 \in Pairs /\ Named(t4, "Distribution", n0 + 4)
      /\ \A n \in Nat : Named(t3, "Expense", n) => Named(t4, "Expense", n)
  <2>1. Table(t3) /\ Named(t3, "Distribution", n0 + 4 - 1) /\ 4 \in 1 .. 4
    <3>1. n0 + 4 - 1 = n0 + 3
      BY <1>0
    <3> QED
      BY <3>1, <1>5 DEF Follows
  <2>2. PartBooked(q, amount, 4, t3, t3 \o ApprovalBatch(q, amount, 4))
    <3> HIDE DEF t3
    <3> QED
      BY <1>0, <2>1, PartBooks
  <2> QED
    BY <2>2 DEF PartBooked
<1>7. ApprovedLines(q, amount) = ((l1 \o l2) \o l3) \o l4
  BY DEF ApprovedLines
<1> HIDE DEF b1, b2, b3, b4, l1, l2, l3, l4, t1, t2, t3, t4
<1>8. Follows(batches, t2, l1 \o l2) /\ l1 \o l2 \in Seq(Line)
  BY <1>0, <1>3, <1>4, PairsTyped, FollowsOn
<1>9. Follows(batches, t3, (l1 \o l2) \o l3) /\ (l1 \o l2) \o l3 \in Seq(Line)
  BY <1>0, <1>5, <1>8, FollowsOn
<1>10. Follows(batches, t4, ((l1 \o l2) \o l3) \o l4) /\ ((l1 \o l2) \o l3) \o l4 \in Seq(Line)
  BY <1>0, <1>6, <1>9, FollowsOn
<1>11. BookStep
  <2>1. /\ Balanced(ApprovedLines(q, amount))
        /\ cached' = [a \in FinAccounts |-> cached[a] + Natural(a, DebitTo(ApprovedLines(q, amount), a))]
    BY DEF ApproveDistributions, Post
  <2>2. BooksLines(ApprovedLines(q, amount))
    BY <1>2, <1>7, <1>10, <2>1 DEF BooksLines, Follows
  <2> QED
    BY <1>7, <1>10, <2>1, <2>2 DEF BookStep
<1> QED
  BY <1>2, <1>3, <1>4, <1>5, <1>6, <1>7, <1>10, <1>11


-----------------------------------------------------------------------------
(* The journal under all services: the properties of Journal *)

\* Batches are numbered after rows that exist.
Scoped == Named(batches, "Expense", Len(expenses)) /\ Named(batches, "Distribution", Len(parts))

\* Rows that exist stay as they are.
RowsStay == \A b \in DOMAIN batches : b \in DOMAIN batches' /\ batches'[b] = batches[b]

Orderly == Table(batches') /\ BookStep /\ Scoped' /\ (JournalStep \/ RowsStay)

LEMMA NamedOn ==
  ASSUME NEW rows \in Seq(Batch), NEW m, NEW n \in Nat, NEW k \in Nat, n <= k, Named(rows, m, n)
  PROVE  Named(rows, m, k)
<1>1. \A b \in DOMAIN rows : rows[b] \in Batch /\ Names(rows[b], m, n)
  BY DEF Named
<1>2. \A b \in DOMAIN rows : Names(rows[b], m, k)
  BY <1>1, NamesMore
<1> QED
  BY <1>2 DEF Named

LEMMA QuietOrderly ==
  ASSUME JournalTypeOK, Table(batches), Scoped, UNCHANGED <<cached, batches>>,
         Len(expenses) \in Nat, Len(expenses') \in Nat, Len(expenses) <= Len(expenses'),
         Len(parts) \in Nat, Len(parts') \in Nat, Len(parts) <= Len(parts')
  PROVE  Orderly
<1>1. batches \in Seq(Batch)
  BY DEF JournalTypeOK
<1>2. Named(batches, "Expense", Len(expenses')) /\ Named(batches, "Distribution", Len(parts'))
  BY <1>1, NamedOn DEF Scoped
<1>3. BookStep
  BY DEF BookStep, BooksNothing
<1> QED
  BY <1>2, <1>3 DEF Orderly, RowsStay, Scoped

LEMMA RowOrderly ==
  ASSUME JournalTypeOK, Table(batches), Scoped, NEW row, BooksRow(row),
         Len(expenses) \in Nat, Len(expenses') \in Nat, Len(expenses) <= Len(expenses'),
         Len(parts) \in Nat, Len(parts') = Len(parts),
         Names(row, "Expense", Len(expenses')), Names(row, "Distribution", Len(parts))
  PROVE  Orderly
<1>1. Follows(batches, batches', row.lines) /\ BookStep
  BY RowFollows
<1>2. Named(batches', "Expense", Len(expenses'))
  BY RowNamed DEF Scoped
<1>3. Named(batches', "Distribution", Len(parts))
  <2>1. Len(parts) <= Len(parts)
    OBVIOUS
  <2> QED
    BY <2>1, RowNamed DEF Scoped
<1> QED
  BY <1>1, <1>2, <1>3 DEF Orderly, Follows, RowsStay, Scoped

LEMMA TableNext ==
  ASSUME JournalTypeOK', OneBatchPerEvent', ReversalsPair'
  PROVE  Table(batches')
<1>1. \A b, c \in DOMAIN batches' : b = c \/ Apart(batches'[b], batches'[c])
  BY DEF OneBatchPerEvent, Apart
<1>2. \A b \in DOMAIN batches' : Paired(b)'
  BY DEF ReversalsPair, Paired, Unreversed, ReversedBy
<1>3. \A b \in DOMAIN batches' : PairedIn(batches', b)
  BY <1>2 DEF Paired, Unreversed, ReversedBy, PairedIn, Reversed
<1> QED
  BY <1>1, <1>3 DEF Table, JournalTypeOK

LEMMA JoinLength ==
  ASSUME NEW S, NEW s \in Seq(S), NEW t \in Seq(S)
  PROVE  Len(s \o t) = Len(s) + Len(t)
  OBVIOUS

LEMMA LenKept ==
  ASSUME NEW S, NEW s \in Seq(S), NEW t \in Seq(S), DOMAIN t = DOMAIN s
  PROVE  Len(t) = Len(s) /\ Len(s) \in Nat
  OBVIOUS

LEMMA StepOrderly ==
  ASSUME DividendsTypeOK, Table(batches), Scoped, [DividendsNext]_dividendVars
  PROVE  Orderly
<1>0. /\ JournalTypeOK /\ DividendsTypeOK' /\ JournalTypeOK'
      /\ Len(expenses) \in Nat /\ Len(parts) \in Nat /\ Len(expenses') \in Nat
      /\ expenses \in Seq(Expense) /\ expenses' \in Seq(Expense)
      /\ parts \in Seq(Part) /\ parts' \in Seq(Part)
      /\ Len(expenses) <= Len(expenses) /\ Len(expenses) <= Len(expenses) + 1
      /\ Len(parts') \in Nat /\ Len(parts) <= Len(parts)
  BY DividendsTypeStep DEF DividendsTypeOK
<1>1. ASSUME UNCHANGED <<cached, batches, parts>>,
             Len(expenses') = Len(expenses) \/ Len(expenses') = Len(expenses) + 1
      PROVE  Orderly
  BY <1>0, <1>1, QuietOrderly
<1>2. CASE JournalStep
  <2>1. OneBatchPerEvent /\ ReversalsPair
    BY <1>0, TableIs
  <2>2. OneBatchPerEvent' /\ ReversalsPair'
    BY <1>0, <1>2, <2>1, OneBatchStep, PairStep DEF JournalStep
  <2>3. Table(batches')
    BY <1>0, <2>2, TableNext
  <2>4. BookStep
    BY <1>0, <1>2, BookSteps DEF JournalStep
  <2>5. Scoped'
    <3>1. Named(batches', "Expense", Len(expenses)) /\ Named(batches', "Distribution", Len(parts))
      BY <1>0, <1>2, NamedJournal DEF JournalStep, Scoped
    <3> QED
      BY <1>2, <3>1 DEF JournalStep, Scoped
  <2> QED
    BY <1>2, <2>3, <2>4, <2>5 DEF Orderly
<1>3. ASSUME NEW u \in Users, NEW form \in ChargeForms, CreateExpense(u, form), UNCHANGED <<proposals, allocations, parts>>
      PROVE  Orderly
  BY <1>0, <1>1, <1>3 DEF CreateExpense, journalVars
<1>4. ASSUME NEW u \in Users, NEW e \in DOMAIN expenses, RejectExpense(u, e), UNCHANGED <<proposals, allocations, parts>>
      PROVE  Orderly
  <2>1. DOMAIN expenses' = DOMAIN expenses
    BY <1>4 DEF RejectExpense
  <2>2. Len(expenses') = Len(expenses)
    BY <1>0, <2>1, LenKept
  <2> QED
    BY <1>1, <1>4, <2>2 DEF RejectExpense, journalVars
<1>5. ASSUME NEW u \in Users, NEW e \in DOMAIN expenses, ApproveExpense(u, e), UNCHANGED <<proposals, allocations, parts>>
      PROVE  Orderly
  <2> DEFINE row == ChargeRow(e, expenses[e].day, expenses[e].amount)
  <2>1. DOMAIN expenses' = DOMAIN expenses
    BY <1>5 DEF ApproveExpense
  <2>2. Len(expenses') = Len(expenses) /\ e <= Len(expenses)
    BY <1>0, <2>1, LenKept
  <2>3. BooksRow(row)
    BY <1>5, ApproveExpenseBooks
  <2>4. Names(row, "Expense", Len(expenses')) /\ Names(row, "Distribution", Len(parts))
    BY <2>2, EventNamed DEF ChargeRow
  <2> HIDE DEF row
  <2> QED
    BY <1>0, <1>5, <2>2, <2>3, <2>4, RowOrderly
<1>6. ASSUME NEW u \in Users, NEW e \in DOMAIN expenses, NEW a \in CashAccounts, NEW amount \in Counts,
             NEW token \in Tokens, PayExpense(u, e, a, amount, token), UNCHANGED <<proposals, allocations, parts>>
      PROVE  Orderly
  <2> DEFINE row == PaymentRow(token, a, amount)
  <2>1. DOMAIN expenses' = DOMAIN expenses
    BY <1>6 DEF PayExpense
  <2>2. Len(expenses') = Len(expenses)
    BY <1>0, <2>1, LenKept
  <2>3. BooksRow(row)
    BY <1>6, PayExpenseBooks
  <2>4. Names(row, "Expense", Len(expenses')) /\ Names(row, "Distribution", Len(parts))
    BY PaymentNamed
  <2> HIDE DEF row
  <2> QED
    BY <1>0, <1>6, <2>2, <2>3, <2>4, RowOrderly
<1>7. ASSUME NEW u \in Users, NEW p \in periods, ClosePeriod(u, p), UNCHANGED <<proposals, allocations, parts>>
      PROVE  Orderly
  <2>1. CASE Accrues(p)
    <3> DEFINE row == ChargeRow(Len(expenses) + 1, p.last, Salary)
    <3>1. Len(expenses') = Len(expenses) + 1
      BY <1>0, <1>7, <2>1 DEF ClosePeriod, Accrue, AccruedExpenses
    <3>2. BooksRow(row)
      BY <1>7, <2>1, AccrualBooks
    <3>3. Names(row, "Expense", Len(expenses')) /\ Names(row, "Distribution", Len(parts))
      <4>1. Len(expenses) + 1 <= Len(expenses')
        BY <1>0, <3>1
      <4> QED
        BY <4>1, EventNamed DEF ChargeRow
    <3> HIDE DEF row
    <3> QED
      BY <1>0, <1>7, <3>1, <3>2, <3>3, RowOrderly
  <2>2. CASE ~ Accrues(p)
    BY <1>0, <1>1, <1>7, <2>2 DEF ClosePeriod, Accrue, AccruedExpenses
  <2> QED
    BY <2>1, <2>2
<1>8. CASE CountStep
  BY <1>0, <1>1, <1>8 DEF CountStep, RecordCount, journalVars
<1>9. CASE ProposeStep
  BY <1>0, <1>1, <1>9 DEF ProposeStep, ProposeDistribution, closingVars, journalVars
<1>10. ASSUME NEW u \in Users, NEW q \in profits, NEW amount \in Offers, ApproveDistributions(u, q, amount)
       PROVE  Orderly
  <2>1. /\ Follows(batches, batches', ApprovedLines(q, amount)) /\ BookStep
        /\ Named(batches', "Distribution", Len(parts) + 4)
        /\ Named(batches', "Expense", Len(expenses))
    BY <1>0, <1>10, ApprovalFollows DEF Scoped
  <2>2. parts' = parts \o NewParts(q, amount) /\ expenses' = expenses
    BY <1>10 DEF ApproveDistributions
  <2>3. Len(parts') = Len(parts) + 4
    <3>1. amount \in Int
      BY OffersTyped
    <3>2. NewParts(q, amount) \in Seq(Part) /\ Len(NewParts(q, amount)) = 4
      BY <3>1, NewPartsTyped
    <3>3. \A more \in Seq(Part) : Len(parts \o more) = Len(parts) + Len(more)
      BY <1>0, JoinLength
    <3>4. Len(parts') = Len(parts) + Len(NewParts(q, amount))
      BY <2>2, <3>2, <3>3
    <3> QED
      BY <3>2, <3>4
  <2> QED
    BY <2>1, <2>2, <2>3 DEF Orderly, Follows, RowsStay, Scoped
<1>11. ASSUME NEW d \in DOMAIN parts, NEW event \in Events, NEW account \in FinAccounts,
              NEW status \in {"PAID", "REINVESTED"}, Settle(d, event, account, status)
       PROVE  Orderly
  <2> DEFINE row == SettlementRow(d, event, account)
  <2>1. DOMAIN parts' = DOMAIN parts /\ expenses' = expenses
    BY <1>11 DEF Settle
  <2>2. Len(parts') = Len(parts) /\ d <= Len(parts)
    BY <1>0, <2>1, LenKept
  <2>3. BooksRow(row)
    BY <1>11, SettleBooks
  <2>4. Names(row, "Expense", Len(expenses')) /\ Names(row, "Distribution", Len(parts))
    BY <2>2, EventNamed DEF SettlementRow
  <2> HIDE DEF row
  <2> QED
    BY <1>0, <2>1, <2>2, <2>3, <2>4, RowOrderly
<1>12. CASE ExpenseStep
  BY <1>3, <1>4, <1>5, <1>6, <1>12 DEF ExpenseStep
<1>13. CASE CloseStep
  BY <1>7, <1>13 DEF CloseStep
<1>14. CASE ApproveStep
  BY <1>10, <1>14 DEF ApproveStep
<1>15. CASE SettleStep
  BY <1>11, <1>15 DEF SettleStep
<1>16. CASE ExpenseFormStep
  <2>1. UNCHANGED <<cached, batches, parts>>
    BY <1>16, ExpenseFormQuiet
  <2>2. ASSUME NEW row, FormAdds(row) PROVE Len(expenses') = Len(expenses) + 1
    BY <1>0, <2>2 DEF FormAdds
  <2>3. ASSUME NEW e \in DOMAIN expenses, NEW row, FormWrites(e, row) PROVE Len(expenses') = Len(expenses)
    BY <1>0, <2>3, LenKept DEF FormWrites
  <2> QED
    BY <1>1, <1>16, <2>1, <2>2, <2>3, ExpenseFormRow
<1>17. CASE AmountFormStep
  <2>1. UNCHANGED <<cached, batches, expenses, parts>>
    BY <1>17, AmountFormQuiet
  <2> QED
    BY <1>1, <2>1
<1>18. CASE PartFormStep
  <2>1. UNCHANGED <<cached, batches, expenses>>
    BY <1>18, PartFormQuiet
  <2>2. \A d \in DOMAIN parts : d \in DOMAIN parts'
    BY PartsStand
  <2>3. Len(parts) <= Len(parts')
    BY <1>0, <2>2
  <2> QED
    BY <1>0, <2>1, <2>3, QuietOrderly
<1> QED
  BY <1>2, <1>8, <1>9, <1>12, <1>13, <1>14, <1>15, <1>16, <1>17, <1>18, Steps

JournalKept == Table(batches) /\ Scoped

LEMMA JournalKeptInit ==
  ASSUME DividendsInit
  PROVE  JournalKept
<1>1. batches = <<>>
  BY DEF DividendsInit, ClosingInit, JournalInit
<1> QED
  BY <1>1 DEF JournalKept, Scoped, Named, Table

LEMMA JournalKeptStep ==
  ASSUME DividendsTypeOK, JournalKept, [DividendsNext]_dividendVars
  PROVE  JournalKept'
<1>1. Orderly
  BY StepOrderly DEF JournalKept
<1> QED
  BY <1>1 DEF Orderly, JournalKept

LEMMA JournalIsKept == DividendsSpec => [](DividendsTypeOK /\ JournalKept)
<1>1. DividendsInit => JournalKept
  BY JournalKeptInit
<1>2. DividendsTypeOK /\ JournalKept /\ [DividendsNext]_dividendVars => JournalKept'
  BY JournalKeptStep
<1> QED
  BY <1>1, <1>2, DividendsTypeCorrect, PTL DEF DividendsSpec

\* Whoever books it, a request that is repeated is booked once: a key names
\* one batch, and a charge, a part or a batch has one batch per event.
THEOREM EventsStayBookedOnce == DividendsSpec => []OneBatchPerEvent
<1>1. DividendsTypeOK /\ JournalKept => OneBatchPerEvent
  BY TableIs DEF JournalKept, DividendsTypeOK
<1> QED
  BY <1>1, JournalIsKept, PTL

\* The bookings of charges and distributions are reversed by nothing, and
\* disturb no reversal of a manual batch.
THEOREM ReversalsStayPaired == DividendsSpec => []ReversalsPair
<1>1. DividendsTypeOK /\ JournalKept => ReversalsPair
  BY TableIs DEF JournalKept, DividendsTypeOK
<1> QED
  BY <1>1, JournalIsKept, PTL

\* No service changes a posted batch, but that one may become reversed.
THEOREM PostedRowsStayFinal == DividendsSpec => PostedIsFinal
<1>1. ASSUME DividendsTypeOK, JournalKept, [DividendsNext]_dividendVars
      PROVE  [\A b \in DOMAIN batches :
                 batches[b].status \in Booked =>
                     \/ batches'[b] = batches[b]
                     \/ /\ batches[b].status = "POSTED"
                        /\ batches'[b] = [batches[b] EXCEPT !.status = "REVERSED"]]_journalVars
  <2>1. CASE JournalStep
    <3>1. JournalTypeOK /\ [JournalNext]_journalVars
      BY <1>1, <2>1 DEF JournalStep, DividendsTypeOK
    <3> QED
      BY <3>1, PostedStep
  <2>2. CASE RowsStay
    BY <2>2 DEF RowsStay
  <2> QED
    BY <1>1, <2>1, <2>2, StepOrderly DEF JournalKept, Orderly
<1> QED
  BY <1>1, JournalIsKept, PTL DEF DividendsSpec, PostedIsFinal

\* Under all services the balance an account keeps in cache is that of its
\* entries: the control of a closing that compares the two never fails.
THEOREM CacheStaysTrue == DividendsSpec => []CachedIsLedger
<1>1. DividendsInit => CachedIsLedger
  BY JournalAssumption, NoBookings DEF DividendsInit, ClosingInit, JournalInit, CachedIsLedger
<1>2. ASSUME DividendsTypeOK, JournalKept, CachedIsLedger, [DividendsNext]_dividendVars
      PROVE  CachedIsLedger'
  <2>1. JournalTypeOK /\ JournalTypeOK'
    BY <1>2, DividendsTypeStep DEF DividendsTypeOK
  <2>2. BookStep
    BY <1>2, StepOrderly DEF JournalKept, Orderly
  <2> QED
    BY <1>2, <2>1, <2>2, CachedStep
<1> QED
  BY <1>1, <1>2, JournalIsKept, PTL DEF DividendsSpec

\* Under all services debits and credits cancel in every currency.
THEOREM BooksStayBalanced == DividendsSpec => []BooksBalance
<1>1. DividendsInit => DebitsCancel
  BY CancelInit DEF DividendsInit, ClosingInit, JournalInit
<1>2. ASSUME DividendsTypeOK, JournalKept, DebitsCancel, [DividendsNext]_dividendVars
      PROVE  DebitsCancel'
  <2>1. batches \in Seq(Batch) /\ batches' \in Seq(Batch)
    BY <1>2, DividendsTypeStep DEF DividendsTypeOK, JournalTypeOK
  <2>2. BookStep
    BY <1>2, StepOrderly DEF JournalKept, Orderly
  <2> QED
    BY <1>2, <2>1, <2>2, CancelStep
<1>3. DividendsTypeOK /\ DebitsCancel => BooksBalance
  BY BooksAreDebits DEF DividendsTypeOK, JournalTypeOK
<1> QED
  BY <1>1, <1>2, <1>3, JournalIsKept, PTL DEF DividendsSpec


-----------------------------------------------------------------------------
(* Charges and their recognition *)

\* What ApprovedIsRecognised says of charge x, in place e, and some rows.
Unbooked(rows, e) == \A b \in DOMAIN rows : rows[b].source # Recognition(e)
Recognises(row, e, amount) ==
    /\ row.source = Recognition(e) /\ row.event = "EXPENSE_RECOGNITION"
    /\ row.status = "POSTED" /\ row.lines = ChargeLines(amount)
RecognisedAs(rows, e, x) ==
    /\ x.recognised = 0 => Unbooked(rows, e)
    /\ x.recognised # 0 =>
          \E b \in DOMAIN rows : /\ Recognises(rows[b], e, x.recognised)
                                 /\ x.edited \/ (b = x.booked /\ rows[b].day = x.day)
                                 /\ \A c \in DOMAIN rows : rows[c].source = Recognition(e) => c = b

\* As long as no form wrote a charge, it is recognised exactly when it is
\* approved, and a charge that waits names no batch.
Unaltered(x) ==
    \/ x.edited
    \/ x.status = "APPROVED" /\ x.recognised = x.amount
    \/ x.status # "APPROVED" /\ x.recognised = 0 /\ x.booked = 0

\* The result of the month of a remuneration was fixed.
MonthIn(results, m) == \E q \in results : CivilMonth(q) /\ MonthOf(q) = m

AllRecognised == \A e \in DOMAIN expenses : RecognisedAs(batches, e, expenses[e]) /\ Unaltered(expenses[e])
AccruedOnce ==
    \A e, f \in DOMAIN expenses : expenses[e].accrual = expenses[f].accrual /\ expenses[e].accrual # 0 => e = f
AccrualsClosed == \A e \in DOMAIN expenses : expenses[e].accrual # 0 => MonthIn(profits, expenses[e].accrual)
Charged == AllRecognised /\ AccruedOnce /\ AccrualsClosed

LEMMA ChargedIs ==
  ASSUME DividendsTypeOK, Charged
  PROVE  ApprovedIsRecognised
<1> DEFINE Rows(e) == {b \in DOMAIN batches : batches[b].source = Recognition(e)}
<1>1. ASSUME NEW e \in DOMAIN expenses
      PROVE  LET x == expenses[e] IN
             /\ IF x.recognised = 0 THEN Rows(e) = {}
                ELSE \E b \in Rows(e) : /\ Rows(e) = {b}
                                        /\ batches[b].status = "POSTED"
                                        /\ batches[b].lines = ChargeLines(x.recognised)
             /\ ~x.edited =>
                   /\ Rows(e) = (IF x.status = "APPROVED" THEN {x.booked} ELSE {})
                   /\ x.recognised = (IF x.status = "APPROVED" THEN x.amount ELSE 0)
                   /\ \A b \in Rows(e) : batches[b].day = x.day
  <2>1. RecognisedAs(batches, e, expenses[e]) /\ Unaltered(expenses[e]) /\ expenses[e].amount # 0
    BY ExpenseRow DEF Charged, AllRecognised
  <2>2. CASE expenses[e].recognised = 0
    <3>1. Rows(e) = {}
      BY <2>1, <2>2 DEF RecognisedAs, Unbooked
    <3>2. expenses[e].edited \/ expenses[e].status # "APPROVED"
      BY <2>1, <2>2 DEF Unaltered
    <3> QED
      BY <2>2, <3>1, <3>2
  <2>3. CASE expenses[e].recognised # 0
    <3>1. PICK b \in DOMAIN batches :
             /\ Recognises(batches[b], e, expenses[e].recognised)
             /\ expenses[e].edited \/ (b = expenses[e].booked /\ batches[b].day = expenses[e].day)
             /\ \A c \in DOMAIN batches : batches[c].source = Recognition(e) => c = b
      BY <2>1, <2>3 DEF RecognisedAs
    <3>2. Rows(e) = {b} /\ batches[b].status = "POSTED" /\ batches[b].lines = ChargeLines(expenses[e].recognised)
      BY <3>1 DEF Recognises
    <3>3. expenses[e].edited \/ (expenses[e].status = "APPROVED" /\ expenses[e].recognised = expenses[e].amount)
      BY <2>1, <2>3 DEF Unaltered
    <3> HIDE DEF Rows
    <3> QED
      BY <2>3, <3>1, <3>2, <3>3
  <2> QED
    BY <2>2, <2>3
<1> QED
  BY <1>1 DEF Charged, AccruedOnce, ApprovedIsRecognised

\* No batch of a charge is touched or added.
KeepsCharges ==
    /\ \A b \in DOMAIN batches :
          /\ b \in DOMAIN batches'
          /\ \/ batches'[b] = batches[b]
             \/ batches[b].source[1] # "Expense" /\ batches'[b].source[1] # "Expense"
    /\ \A b \in DOMAIN batches' : b \notin DOMAIN batches => batches'[b].source[1] # "Expense"

LEMMA NoSourceIsNone == NoSource[1] # "Expense"
<1>1. NoSource = <<"", 0>>
  BY DEF NoSource
<1>2. NoSource[1] = ""
  BY <1>1, FirstOfSource
<1> QED
  BY <1>2

\* A charge keeps its batch whatever else is written of it, if a form wrote it
\* or it names that batch as before.
LEMMA RecognitionsKept ==
  ASSUME KeepsCharges, NEW e, NEW x, NEW y, RecognisedAs(batches, e, x), y.recognised = x.recognised,
         y.edited \/ (~x.edited /\ y.booked = x.booked /\ y.day = x.day)
  PROVE  RecognisedAs(batches', e, y)
<1>1. \A r : r = Recognition(e) => r[1] = "Expense"
  BY FirstOfSource DEF Recognition
<1>2. \A b \in DOMAIN batches' : batches'[b].source = Recognition(e) =>
         b \in DOMAIN batches /\ batches'[b] = batches[b]
  BY <1>1 DEF KeepsCharges
<1>3. \A b \in DOMAIN batches : batches[b].source = Recognition(e) =>
         b \in DOMAIN batches' /\ batches'[b] = batches[b]
  BY <1>1 DEF KeepsCharges
<1>4. CASE x.recognised # 0
  <2>1. PICK b \in DOMAIN batches :
           /\ Recognises(batches[b], e, x.recognised)
           /\ x.edited \/ (b = x.booked /\ batches[b].day = x.day)
           /\ \A c \in DOMAIN batches : batches[c].source = Recognition(e) => c = b
    BY <1>4 DEF RecognisedAs
  <2>2. b \in DOMAIN batches' /\ batches'[b] = batches[b]
    BY <1>3, <2>1 DEF Recognises
  <2>3. Recognises(batches'[b], e, y.recognised)
    BY <2>1, <2>2
  <2>4. y.edited \/ (b = y.booked /\ batches'[b].day = y.day)
    BY <2>1, <2>2
  <2>5. \A c \in DOMAIN batches' : batches'[c].source = Recognition(e) => c = b
    BY <1>2, <2>1
  <2> QED
    BY <1>4, <2>2, <2>3, <2>4, <2>5 DEF RecognisedAs
<1>5. CASE x.recognised = 0
  <2>1. Unbooked(batches, e)
    BY <1>5 DEF RecognisedAs
  <2> QED
    BY <1>2, <1>5, <2>1 DEF RecognisedAs, Unbooked
<1> QED
  BY <1>4, <1>5

LEMMA RecognitionSame ==
  ASSUME KeepsCharges, NEW e, NEW x, RecognisedAs(batches, e, x)
  PROVE  RecognisedAs(batches', e, x)
<1>1. x.edited \/ (~x.edited /\ x.booked = x.booked /\ x.day = x.day)
  OBVIOUS
<1> QED
  BY <1>1, RecognitionsKept

\* A charge that is booked gets its batch, the last one; the others keep what
\* they have.
LEMMA RecognitionAdded ==
  ASSUME JournalTypeOK, NEW e \in Nat, NEW x, BooksRow(ChargeRow(e, x.day, x.recognised)), x.recognised # 0,
         x.booked = Len(batches) + 1, Unbooked(batches, e)
  PROVE  /\ RecognisedAs(batches', e, x)
         /\ \A f, y : f # e /\ RecognisedAs(batches, f, y) => RecognisedAs(batches', f, y)
<1> DEFINE row == ChargeRow(e, x.day, x.recognised)
           n == Len(batches) + 1
<1>1. row.source = <<"Expense", e>> /\ Recognises(row, e, x.recognised) /\ row.day = x.day
  BY DEF ChargeRow, EventRow, NewBatch, Recognises, Recognition
<1> HIDE DEF row
<1>2. /\ DOMAIN batches' = DOMAIN batches \cup {n}
      /\ n \notin DOMAIN batches /\ n = x.booked
      /\ \A c \in DOMAIN batches : batches'[c] = batches[c]
      /\ batches'[n] = row
  <2>1. batches \in Seq(Batch) /\ row \in Batch /\ batches' = Append(batches, row)
    BY DEF JournalTypeOK, BooksRow, Added, row
  <2>2. /\ DOMAIN batches' = DOMAIN batches \cup {Len(batches) + 1}
        /\ DOMAIN batches = 1 .. Len(batches) /\ Len(batches) \in Nat
        /\ \A c \in DOMAIN batches : batches'[c] = batches[c]
        /\ batches'[Len(batches) + 1] = row
    BY <2>1, RowAdded
  <2> QED
    BY <2>2
<1> HIDE DEF n
<1>3. RecognisedAs(batches', e, x)
  <2>1. \A c \in DOMAIN batches' : batches'[c].source = Recognition(e) => c = n
    BY <1>2 DEF Unbooked
  <2>2. Recognises(batches'[n], e, x.recognised) /\ n = x.booked /\ batches'[n].day = x.day /\ n \in DOMAIN batches'
    BY <1>1, <1>2
  <2> QED
    BY <2>1, <2>2 DEF RecognisedAs
<1>4. ASSUME NEW f, NEW y, f # e, RecognisedAs(batches, f, y) PROVE RecognisedAs(batches', f, y)
  <2>1. row.source # Recognition(f)
    BY <1>1, <1>4, FirstOfSource DEF Recognition
  <2>2. CASE y.recognised # 0
    <3>1. PICK b \in DOMAIN batches :
             /\ Recognises(batches[b], f, y.recognised)
             /\ y.edited \/ (b = y.booked /\ batches[b].day = y.day)
             /\ \A c \in DOMAIN batches : batches[c].source = Recognition(f) => c = b
      BY <1>4, <2>2 DEF RecognisedAs
    <3>2. b \in DOMAIN batches' /\ batches'[b] = batches[b]
      BY <1>2
    <3>3. \A c \in DOMAIN batches' : batches'[c].source = Recognition(f) => c = b
      BY <1>2, <2>1, <3>1
    <3> QED
      BY <2>2, <3>1, <3>2, <3>3 DEF RecognisedAs
  <2>3. CASE y.recognised = 0
    BY <1>2, <1>4, <2>1, <2>3 DEF RecognisedAs, Unbooked
  <2> QED
    BY <2>2, <2>3
<1> QED
  BY <1>3, <1>4

\* A charge that is booked now was not booked before.
LEMMA BookedWas ==
  ASSUME NEW e, NEW x, NEW day, NEW n, BooksRow(ChargeRow(e, day, n)), RecognisedAs(batches, e, x)
  PROVE  Unbooked(batches, e)
<1> DEFINE row == ChargeRow(e, day, n)
<1>1. row.source = Recognition(e) /\ row.event = "EXPENSE_RECOGNITION"
  BY DEF ChargeRow, EventRow, NewBatch, Recognition
<1>2. \A c \in DOMAIN batches : Apart(row, batches[c])
  BY DEF BooksRow, Added
<1> HIDE DEF row
<1>3. Recognition(e) # NoSource
  <2>1. \A r : r = Recognition(e) => r[1] = "Expense"
    BY FirstOfSource DEF Recognition
  <2> QED
    BY <2>1, NoSourceIsNone
<1>4. \A c \in DOMAIN batches : ~ Recognises(batches[c], e, x.recognised)
  BY <1>1, <1>2, <1>3 DEF Apart, Recognises
<1> QED
  BY <1>4 DEF RecognisedAs

\* A row of something else than a charge.
LEMMA RowKeepsCharges ==
  ASSUME JournalTypeOK, NEW row, BooksRow(row), row.source[1] # "Expense"
  PROVE  KeepsCharges
<1>1. batches \in Seq(Batch) /\ row \in Batch /\ batches' = Append(batches, row)
  BY DEF JournalTypeOK, BooksRow, Added
<1>2. /\ DOMAIN batches' = DOMAIN batches \cup {Len(batches) + 1}
      /\ \A c \in DOMAIN batches : batches'[c] = batches[c]
      /\ batches'[Len(batches) + 1] = row
  BY <1>1, RowAdded
<1> QED
  BY <1>2 DEF KeepsCharges

\* The journal turns and reverses manual batches only.
LEMMA JournalKeepsCharges ==
  ASSUME JournalTypeOK, [JournalNext]_journalVars
  PROVE  KeepsCharges
<1>1. \A b : Manual(b) => batches[b].source[1] # "Expense"
  BY NoSourceIsNone DEF Manual
<1>2. CASE Unchanged
  BY <1>2 DEF Unchanged, KeepsCharges
<1>3. CASE AddsDraft
  <2>1. PICK row \in Batch :
           /\ row.source = NoSource
           /\ DOMAIN batches' = DOMAIN batches \cup {Len(batches) + 1}
           /\ \A c \in DOMAIN batches : batches'[c] = batches[c]
           /\ batches'[Len(batches) + 1] = row
    BY <1>3, AfterDraft
  <2>2. row.source[1] # "Expense"
    BY <2>1, NoSourceIsNone
  <2> QED
    BY <2>1, <2>2 DEF KeepsCharges
<1>4. CASE PostsDraft
  <2>1. PICK b \in DOMAIN batches :
           /\ batches[b] \in Batch /\ Manual(b)
           /\ DOMAIN batches' = DOMAIN batches
           /\ \A c \in DOMAIN batches : c # b => batches'[c] = batches[c]
           /\ batches'[b] = Turned(batches[b], "POSTED")
    BY <1>4, AfterPosting
  <2>2. batches'[b].source = batches[b].source
    BY <2>1, StatusTurned
  <2> QED
    BY <1>1, <2>1, <2>2 DEF KeepsCharges
<1>5. CASE Reverses
  <2>1. PICK b \in DOMAIN batches, row \in Batch :
           /\ batches[b] \in Batch /\ Manual(b)
           /\ row.source = <<"JournalBatch", b>>
           /\ DOMAIN batches' = DOMAIN batches \cup {Len(batches) + 1}
           /\ \A c \in DOMAIN batches : c # b => batches'[c] = batches[c]
           /\ batches'[b] = Turned(batches[b], "REVERSED")
           /\ batches'[Len(batches) + 1] = row
    BY <1>5, AfterReversal
  <2>2. batches'[b].source = batches[b].source
    BY <2>1, StatusTurned
  <2>3. row.source[1] # "Expense"
    BY <2>1, FirstOfSource
  <2> QED
    BY <1>1, <2>1, <2>2, <2>3 DEF KeepsCharges
<1> QED
  BY <1>2, <1>3, <1>4, <1>5, StepKinds

LEMMA ApprovalKeepsCharges ==
  ASSUME DividendsTypeOK, NEW u \in Users, NEW q \in profits, NEW amount \in Offers,
         ApproveDistributions(u, q, amount)
  PROVE  KeepsCharges
<1>1. ApprovalBatches(q, amount) \in Seq(ApprovedRows)
  BY ApprovalBatchesTyped, OffersTyped
<1>2. batches' = batches \o ApprovalBatches(q, amount) /\ batches \in Seq(Batch)
  BY DEF ApproveDistributions, DividendsTypeOK, JournalTypeOK
<1>3. \A row \in ApprovedRows : row \in Batch /\ row.source[1] # "Expense"
  BY DEF ApprovedRows, Approved
<1>4. PICK more \in Seq(ApprovedRows) : more = ApprovalBatches(q, amount)
  BY <1>1
<1>5. more \in Seq(Batch) /\ \A k \in DOMAIN more : more[k] \in ApprovedRows
  <2>1. ApprovedRows \subseteq Batch
    BY <1>3
  <2> QED
    BY <2>1
<1>6. PICK n : n = Len(more)
  OBVIOUS
<1>7. /\ DOMAIN batches = 1 .. Len(batches) /\ Len(batches) \in Nat
      /\ DOMAIN batches' = 1 .. Len(batches) + n /\ n \in Nat
      /\ \A b \in DOMAIN batches : batches'[b] = batches[b]
      /\ \A b \in DOMAIN batches' : b \notin DOMAIN batches =>
            b - Len(batches) \in 1 .. n /\ batches'[b] = more[b - Len(batches)]
  BY <1>2, <1>4, <1>5, <1>6, RowsAdded
<1>8. DOMAIN more = 1 .. n
  BY <1>5, <1>6
<1>9. \A b \in DOMAIN batches : b \in DOMAIN batches'
  BY <1>7
<1> QED
  BY <1>3, <1>5, <1>7, <1>8, <1>9 DEF KeepsCharges

LEMMA PaymentKeepsCharges ==
  ASSUME NEW token, NEW a, NEW amount
  PROVE  PaymentRow(token, a, amount).source[1] # "Expense"
<1>1. PaymentRow(token, a, amount).source = NoSource
  BY DEF PaymentRow, NewBatch
<1> QED
  BY <1>1, NoSourceIsNone

LEMMA SettlementKeepsCharges ==
  ASSUME NEW d, NEW event, NEW account
  PROVE  SettlementRow(d, event, account).source[1] # "Expense"
<1>1. SettlementRow(d, event, account).source = <<"Distribution", d>>
  BY DEF SettlementRow, EventRow, NewBatch
<1> QED
  BY <1>1, FirstOfSource

\* No batch is booked for a charge that does not exist yet.
LEMMA NextUnbooked ==
  ASSUME Scoped, NEW n \in Nat, n > Len(expenses), Len(expenses) \in Nat
  PROVE  Unbooked(batches, n)
<1> SUFFICES ASSUME NEW b \in DOMAIN batches, batches[b].source = <<"Expense", n>> PROVE FALSE
  BY DEF Unbooked, Recognition
<1>1. batches[b].source[1] = "Expense" /\ batches[b].source[2] = n
  BY FirstOfSource
<1>2. n <= Len(expenses)
  BY <1>1 DEF Scoped, Named, Names
<1> QED
  BY <1>2

-----------------------------------------------------------------------------
(* What a step does to the charges *)

LEMMA ClosedOnwards ==
  ASSUME profits \subseteq profits', NEW m, MonthIn(profits, m)
  PROVE  MonthIn(profits', m)
  BY DEF MonthIn

LEMMA ChargesKept ==
  ASSUME Charged, KeepsCharges, profits \subseteq profits', expenses' = expenses
  PROVE  Charged'
<1>1. \A e \in DOMAIN expenses : RecognisedAs(batches', e, expenses[e]) /\ Unaltered(expenses[e])
  BY RecognitionSame DEF Charged, AllRecognised
<1>2. AllRecognised'
  BY <1>1 DEF AllRecognised
<1>3. AccruedOnce' /\ AccrualsClosed'
  BY ClosedOnwards DEF Charged, AccruedOnce, AccrualsClosed
<1> QED
  BY <1>2, <1>3 DEF Charged

\* One charge is written.
LEMMA ChargeWritten ==
  ASSUME expenses \in Seq(Expense), Charged, profits \subseteq profits',
         NEW e \in DOMAIN expenses, NEW row, expenses' = [expenses EXCEPT ![e] = row],
         RecognisedAs(batches', e, row), Unaltered(row), row.accrual = expenses[e].accrual,
         \A f \in DOMAIN expenses : f # e => RecognisedAs(batches', f, expenses[f])
  PROVE  Charged'
<1>1. /\ DOMAIN expenses' = DOMAIN expenses
      /\ \A f \in DOMAIN expenses : f # e => expenses'[f] = expenses[f]
      /\ expenses'[e] = row
  OBVIOUS
<1>2. \A f \in DOMAIN expenses : Unaltered(expenses[f])
  BY DEF Charged, AllRecognised
<1>3. AllRecognised'
  BY <1>1, <1>2 DEF AllRecognised
<1>4. \A f \in DOMAIN expenses : expenses'[f].accrual = expenses[f].accrual
  BY <1>1
<1>5. AccruedOnce'
  BY <1>1, <1>4 DEF Charged, AccruedOnce
<1>6. AccrualsClosed'
  <2>1. \A f \in DOMAIN expenses' : expenses'[f].accrual # 0 => MonthIn(profits', expenses'[f].accrual)
    BY <1>1, <1>4, ClosedOnwards DEF Charged, AccrualsClosed
  <2> QED
    BY <2>1 DEF AccrualsClosed, MonthIn
<1> QED
  BY <1>3, <1>5, <1>6 DEF Charged

\* One charge is written, and the journal keeps what it has of charges.
LEMMA ChargeRewritten ==
  ASSUME expenses \in Seq(Expense), Charged, KeepsCharges, profits \subseteq profits',
         NEW e \in DOMAIN expenses, NEW row, expenses' = [expenses EXCEPT ![e] = row],
         row.edited \/ (~expenses[e].edited /\ row.booked = expenses[e].booked /\ row.day = expenses[e].day),
         row.recognised = expenses[e].recognised, Unaltered(row), row.accrual = expenses[e].accrual
  PROVE  Charged'
<1>1. \A f \in DOMAIN expenses : RecognisedAs(batches, f, expenses[f])
  BY DEF Charged, AllRecognised
<1>2. RecognisedAs(batches', e, row)
  BY <1>1, RecognitionsKept
<1>3. \A f \in DOMAIN expenses : f # e => RecognisedAs(batches', f, expenses[f])
  BY <1>1, RecognitionSame
<1> QED
  BY <1>2, <1>3, ChargeWritten

LEMMA ChargeAppended ==
  ASSUME expenses \in Seq(Expense), Charged, profits \subseteq profits',
         NEW x, x \in Expense, expenses' = Append(expenses, x),
         NEW n \in Nat, n = Len(expenses) + 1, RecognisedAs(batches', n, x), Unaltered(x),
         \A e \in DOMAIN expenses : RecognisedAs(batches', e, expenses[e]),
         x.accrual # 0 => MonthIn(profits', x.accrual) /\ ~ MonthIn(profits, x.accrual)
  PROVE  Charged'
<1>1. /\ DOMAIN expenses' = DOMAIN expenses \cup {n}
      /\ n \notin DOMAIN expenses
      /\ \A e \in DOMAIN expenses : expenses'[e] = expenses[e]
      /\ expenses'[n] = x
  OBVIOUS
<1>2. AllRecognised'
  <2>1. \A e \in DOMAIN expenses : Unaltered(expenses[e])
    BY DEF Charged, AllRecognised
  <2> QED
    BY <1>1, <2>1 DEF AllRecognised
<1>3. \A e \in DOMAIN expenses : x.accrual # 0 => expenses[e].accrual # x.accrual
  BY DEF Charged, AccrualsClosed
<1>4. AccruedOnce'
  <2>1. \A e, f \in DOMAIN expenses : expenses[e].accrual = expenses[f].accrual /\ expenses[e].accrual # 0 => e = f
    BY DEF Charged, AccruedOnce
  <2> QED
    BY <1>1, <1>3, <2>1 DEF AccruedOnce
<1>5. AccrualsClosed'
  <2>1. \A e \in DOMAIN expenses : expenses[e].accrual # 0 => MonthIn(profits', expenses[e].accrual)
    BY ClosedOnwards DEF Charged, AccrualsClosed
  <2>2. \A e \in DOMAIN expenses' : expenses'[e].accrual # 0 => MonthIn(profits', expenses'[e].accrual)
    BY <1>1, <2>1
  <2> QED
    BY <2>2 DEF AccrualsClosed, MonthIn
<1> QED
  BY <1>2, <1>4, <1>5 DEF Charged

\* A civil month has one first and one last day.
LEMMA MonthsApart ==
  ASSUME NEW i \in Nat, NEW j \in Nat, NEW n \in Nat \ {0},
         i % n = 0, j % n = 0, i \div n + 1 = j \div n + 1
  PROVE  i = j
<1>1. i = n * (i \div n) + (i % n) /\ j = n * (j \div n) + (j % n)
  OBVIOUS
<1>2. i \div n \in Int /\ j \div n \in Int
  OBVIOUS
<1>3. i \div n = j \div n
  BY <1>2
<1> QED
  BY <1>1, <1>3

\* The month of a remuneration that is accrued had no result yet, and has one
\* now: it is not accrued a second time.
LEMMA MonthCloses ==
  ASSUME DividendsTypeOK, NEW u \in Users, NEW p \in periods, ClosePeriod(u, p), Accrues(p)
  PROVE  MonthIn(profits', MonthOf(p)) /\ ~ MonthIn(profits, MonthOf(p))
<1>1. p.type = "MONTH"
  BY DEF Accrues
<1>2. CivilMonth(p)
  BY <1>1 DEF ClosePeriod, Accrue
<1>3. /\ ~\E q \in profits : q.first = p.first /\ q.last = p.last
      /\ profits' = profits \cup {ProfitOf(AccruedBatches(p), p, c) : c \in Currencies}
  BY <1>1 DEF ClosePeriod
<1>4. MonthIn(profits', MonthOf(p))
  <2>1. Currency[Charge] \in Currencies
    BY ClosingAssumption DEF Currencies
  <2> DEFINE q == ProfitOf(AccruedBatches(p), p, Currency[Charge])
  <2>2. q \in profits'
    BY <1>3, <2>1
  <2>3. q.first = p.first /\ q.last = p.last
    BY DEF ProfitOf
  <2> HIDE DEF q
  <2>4. CivilMonth(q) /\ MonthOf(q) = MonthOf(p)
    BY <1>2, <2>3 DEF CivilMonth, MonthOf
  <2>5. \E r \in profits' : CivilMonth(r) /\ MonthOf(r) = MonthOf(p)
    BY <2>2, <2>4
  <2> QED
    BY <2>5 DEF MonthIn
<1>5. ASSUME NEW q \in profits, CivilMonth(q), MonthOf(q) = MonthOf(p) PROVE FALSE
  <2>1. q.first \in Nat /\ p.first \in Nat /\ MonthLength \in Nat \ {0}
    <3>1. q \in Profit
      BY DEF DividendsTypeOK
    <3>2. q.first \in Days
      BY <3>1 DEF Profit
    <3> QED
      BY <3>2, PeriodRow, ClosingAssumption DEF Days
  <2>2. q.first % MonthLength = 0 /\ p.first % MonthLength = 0
        /\ q.last = q.first + MonthLength - 1 /\ p.last = p.first + MonthLength - 1
    BY <1>2, <1>5 DEF CivilMonth
  <2>3. q.first \div MonthLength + 1 = p.first \div MonthLength + 1
    BY <1>5 DEF MonthOf
  <2>4. q.first = p.first
    BY <2>1, <2>2, <2>3, MonthsApart
  <2> QED
    BY <1>3, <2>2, <2>4
<1>6. ~ MonthIn(profits, MonthOf(p))
  BY <1>5 DEF MonthIn
<1> QED
  BY <1>4, <1>6

LEMMA ChargedByForms ==
  ASSUME DividendsTypeOK, JournalKept, Charged, ExpenseFormStep
  PROVE  Charged'
<1>0. /\ Scoped /\ expenses \in Seq(Expense) /\ Len(expenses) \in Nat
      /\ \A e \in DOMAIN expenses : RecognisedAs(batches, e, expenses[e]) /\ Unaltered(expenses[e])
  BY DEF DividendsTypeOK, JournalKept, Charged, AllRecognised
<1>1. KeepsCharges /\ profits \subseteq profits' /\ batches' = batches
  BY ExpenseFormQuiet DEF KeepsCharges
<1>2. ASSUME NEW row, FormAdds(row) PROVE Charged'
  <2>1. PICK n \in Nat : n = Len(expenses) + 1
    BY <1>0
  <2>2. Unbooked(batches, n)
    BY <1>0, <2>1, NextUnbooked
  <2>3. RecognisedAs(batches', n, row) /\ Unaltered(row) /\ row.accrual = 0
    BY <1>1, <1>2, <2>2 DEF FormAdds, RecognisedAs, Unaltered
  <2>4. \A e \in DOMAIN expenses : RecognisedAs(batches', e, expenses[e])
    BY <1>0, <1>1
  <2> QED
    BY <1>0, <1>1, <1>2, <2>1, <2>3, <2>4, ChargeAppended DEF FormAdds
<1>3. ASSUME NEW e \in DOMAIN expenses, NEW row, FormWrites(e, row) PROVE Charged'
  <2>1. /\ row \in Expense /\ expenses' = [expenses EXCEPT ![e] = row]
        /\ row.recognised = expenses[e].recognised /\ row.accrual = expenses[e].accrual
    BY <1>3 DEF FormWrites
  <2>2. RecognisedAs(batches, e, expenses[e]) /\ Unaltered(expenses[e])
    BY <1>0
  <2>3. CASE row.edited
    <3>1. Unaltered(row)
      BY <2>3 DEF Unaltered
    <3> QED
      BY <1>0, <1>1, <2>1, <2>3, <3>1, ChargeRewritten
  <2>4. CASE /\ ~row.edited /\ row.edited = expenses[e].edited /\ row.status = expenses[e].status
             /\ row.amount = expenses[e].amount /\ row.day = expenses[e].day /\ row.booked = expenses[e].booked
    <3>1. ~expenses[e].edited
      BY <2>4
    <3>2. Unaltered(row)
      BY <2>1, <2>2, <2>4, <3>1 DEF Unaltered
    <3> QED
      BY <1>0, <1>1, <2>1, <2>4, <3>1, <3>2, ChargeRewritten
  <2>5. ASSUME ~row.edited, row.edited = expenses[e].edited,
               NEW u \in Users, NEW b \in DOMAIN batches, ApproveRecognised(u, e, b)
        PROVE  FALSE
    <3>1. ~expenses[e].edited
      BY <2>5
    <3>2. /\ expenses[e].status = "PENDING"
          /\ expenses[e].booked = b \/ (expenses[e].booked = 0 /\ batches[b].source = Recognition(e))
      BY <2>5 DEF ApproveRecognised, Undecided, IsRecognition
    <3>3. expenses[e].recognised = 0 /\ expenses[e].booked = 0
      BY <2>2, <3>1, <3>2 DEF Unaltered
    <3>4. b # 0
      BY DEF DividendsTypeOK, JournalTypeOK
    <3>5. Unbooked(batches, e)
      BY <2>2, <3>3 DEF RecognisedAs
    <3> QED
      BY <3>2, <3>3, <3>4, <3>5 DEF Unbooked
  <2> QED
    BY <1>3, <2>3, <2>4, <2>5 DEF FormWrites
<1> QED
  BY <1>2, <1>3, ExpenseFormRow

LEMMA CreatedExpenseIs ==
  ASSUME NEW u \in Users, NEW form \in ChargeForms, CreateExpense(u, form)
  PROVE  \E x : /\ x \in Expense /\ x.status = "PENDING" /\ x.accrual = 0 /\ x.recognised = 0
                /\ x.booked = 0 /\ x.paid = 0
                /\ expenses' = Append(expenses, x)
<1> DEFINE x == NewExpense(form[1], form[2], "PENDING")
<1>1. form[1] \in Nat \ {0} /\ form[2] \in Days /\ "PENDING" \in Decisions
  BY ClosingAssumption DEF Decisions
<1>2. /\ x \in Expense /\ x.status = "PENDING" /\ x.accrual = 0 /\ x.recognised = 0
      /\ x.booked = 0 /\ x.paid = 0
  BY <1>1 DEF NewExpense, Expense
<1>3. expenses' = Append(expenses, x)
  BY DEF CreateExpense
<1> HIDE DEF x
<1> QED
  BY <1>2, <1>3

LEMMA ChargedStep ==
  ASSUME DividendsTypeOK, JournalKept, Charged, [DividendsNext]_dividendVars
  PROVE  Charged'
<1>0. /\ JournalTypeOK /\ Scoped
      /\ expenses \in Seq(Expense) /\ Len(expenses) \in Nat /\ DOMAIN expenses = 1 .. Len(expenses)
      /\ profits \subseteq profits'
      /\ \A e \in DOMAIN expenses : /\ e \in Nat /\ expenses[e] \in Expense
                                    /\ RecognisedAs(batches, e, expenses[e]) /\ Unaltered(expenses[e])
  BY ProfitsTyped DEF DividendsTypeOK, JournalKept, Charged, AllRecognised
<1>1. ASSUME KeepsCharges, expenses' = expenses PROVE Charged'
  BY <1>0, <1>1, ChargesKept
<1>2. ASSUME batches' = batches PROVE KeepsCharges
  BY <1>2 DEF KeepsCharges
<1>3. CASE JournalStep
  BY <1>0, <1>1, <1>3, JournalKeepsCharges DEF JournalStep
<1>4. ASSUME NEW u \in Users, NEW form \in ChargeForms, CreateExpense(u, form) PROVE Charged'
  <2>1. PICK x : /\ x \in Expense /\ x.status = "PENDING" /\ x.accrual = 0 /\ x.recognised = 0 /\ x.booked = 0
                 /\ expenses' = Append(expenses, x)
    BY <1>4, CreatedExpenseIs
  <2>2. PICK n \in Nat : n = Len(expenses) + 1
    BY <1>0
  <2>3. Unbooked(batches, n)
    BY <1>0, <2>2, NextUnbooked
  <2>4. batches' = batches
    BY <1>4 DEF CreateExpense, journalVars
  <2>5. RecognisedAs(batches', n, x) /\ Unaltered(x)
    BY <2>1, <2>3, <2>4 DEF RecognisedAs, Unaltered
  <2>6. \A e \in DOMAIN expenses : RecognisedAs(batches', e, expenses[e])
    BY <1>0, <2>4
  <2> QED
    BY <1>0, <2>1, <2>2, <2>5, <2>6, ChargeAppended
<1>5. ASSUME NEW u \in Users, NEW e \in DOMAIN expenses, RejectExpense(u, e) PROVE Charged'
  <2>1. KeepsCharges /\ expenses[e].status = "PENDING"
    BY <1>2, <1>5 DEF RejectExpense, Undecided, journalVars
  <2>2. PICK x : /\ x = RejectedExpense(e) /\ expenses' = [expenses EXCEPT ![e] = x]
                 /\ x.status = "REJECTED" /\ x.edited = expenses[e].edited /\ x.booked = expenses[e].booked
                 /\ x.recognised = expenses[e].recognised /\ x.accrual = expenses[e].accrual
    BY <1>5, RejectedExpenseIs
  <2>3. Unaltered(x)
    BY <1>0, <2>1, <2>2 DEF Unaltered
  <2>4. x.edited \/ x.recognised = 0
    BY <2>2, <2>3 DEF Unaltered
  <2>5. RecognisedAs(batches', e, x)
    <3>1. RecognisedAs(batches', e, expenses[e])
      BY <1>0, <2>1, RecognitionSame
    <3> QED
      BY <2>2, <2>4, <3>1 DEF RecognisedAs
  <2>6. \A f \in DOMAIN expenses : f # e => RecognisedAs(batches', f, expenses[f])
    BY <1>0, <2>1, RecognitionSame
  <2> QED
    BY <1>0, <2>2, <2>3, <2>5, <2>6, ChargeWritten
<1>6. ASSUME NEW u \in Users, NEW e \in DOMAIN expenses, ApproveExpense(u, e) PROVE Charged'
  <2>1. PICK x : /\ expenses' = [expenses EXCEPT ![e] = x]
                 /\ x.status = "APPROVED" /\ x.amount = expenses[e].amount /\ x.day = expenses[e].day
                 /\ x.accrual = expenses[e].accrual /\ x.booked = Len(batches) + 1
                 /\ x.recognised = expenses[e].amount
    BY <1>6, ApprovedExpenseIs
  <2>2. BooksRow(ChargeRow(e, x.day, x.recognised)) /\ x.recognised # 0
    BY <1>6, <2>1, ApproveExpenseBooks, ExpenseRow
  <2>3. Unbooked(batches, e)
    BY <1>0, <2>2, BookedWas
  <2>4. /\ RecognisedAs(batches', e, x)
        /\ \A f, y : f # e /\ RecognisedAs(batches, f, y) => RecognisedAs(batches', f, y)
    BY <1>0, <2>1, <2>2, <2>3, RecognitionAdded
  <2>5. \A f \in DOMAIN expenses : f # e => RecognisedAs(batches', f, expenses[f])
    BY <1>0, <2>4
  <2>6. Unaltered(x)
    BY <2>1 DEF Unaltered
  <2> QED
    BY <1>0, <2>1, <2>4, <2>5, <2>6, ChargeWritten
<1>7. ASSUME NEW u \in Users, NEW e \in DOMAIN expenses, NEW a \in CashAccounts, NEW amount \in Counts,
             NEW token \in Tokens, PayExpense(u, e, a, amount, token)
      PROVE  Charged'
  <2>1. KeepsCharges
    BY <1>0, <1>7, PayExpenseBooks, PaymentKeepsCharges, RowKeepsCharges
  <2>2. PICK x : /\ expenses' = [expenses EXCEPT ![e] = x]
                 /\ x.status = expenses[e].status /\ x.amount = expenses[e].amount /\ x.day = expenses[e].day
                 /\ x.accrual = expenses[e].accrual /\ x.edited = expenses[e].edited
                 /\ x.booked = expenses[e].booked /\ x.recognised = expenses[e].recognised
    BY <1>7, PaidExpenseIs
  <2>3. Unaltered(x)
    BY <1>0, <2>2 DEF Unaltered
  <2>4. x.edited \/ (~expenses[e].edited /\ x.booked = expenses[e].booked /\ x.day = expenses[e].day)
    BY <2>2
  <2> QED
    BY <1>0, <2>1, <2>2, <2>3, <2>4, ChargeRewritten
<1>8. ASSUME NEW u \in Users, NEW p \in periods, ClosePeriod(u, p) PROVE Charged'
  <2>1. CASE Accrues(p)
    <3>1. BooksRow(ChargeRow(Len(expenses) + 1, p.last, Salary)) /\ Salary \in Nat \ {0}
      BY <1>8, <2>1, AccrualBooks
    <3>2. PICK n \in Nat : n = Len(expenses) + 1
      BY <1>0
    <3>3. PICK x : /\ x \in Expense /\ x.status = "APPROVED" /\ x.day = p.last /\ x.amount = Salary
                   /\ x.accrual = MonthOf(p) /\ x.booked = Len(batches) + 1 /\ x.recognised = Salary
                   /\ expenses' = Append(expenses, x)
      BY <1>8, <2>1, AccruedExpenseIs
    <3>4. Unbooked(batches, n)
      BY <1>0, <3>2, NextUnbooked
    <3>5. BooksRow(ChargeRow(n, x.day, x.recognised)) /\ x.recognised # 0
      BY <3>1, <3>2, <3>3
    <3>6. /\ RecognisedAs(batches', n, x)
          /\ \A f, y : f # n /\ RecognisedAs(batches, f, y) => RecognisedAs(batches', f, y)
      BY <1>0, <3>3, <3>4, <3>5, RecognitionAdded
    <3>7. \A e \in DOMAIN expenses : RecognisedAs(batches', e, expenses[e])
      BY <1>0, <3>2, <3>6
    <3>8. MonthIn(profits', MonthOf(p)) /\ ~ MonthIn(profits, MonthOf(p))
      BY <1>8, <2>1, MonthCloses
    <3>9. Unaltered(x)
      BY <3>3 DEF Unaltered
    <3>10. x.accrual # 0 => MonthIn(profits', x.accrual) /\ ~ MonthIn(profits, x.accrual)
      BY <3>3, <3>8
    <3> QED
      BY <1>0, <3>2, <3>3, <3>6, <3>7, <3>9, <3>10, ChargeAppended
  <2>2. CASE ~ Accrues(p)
    BY <1>1, <1>2, <1>8, <2>2 DEF ClosePeriod, Accrue, AccruedExpenses
  <2> QED
    BY <2>1, <2>2
<1>9. CASE CountStep
  BY <1>1, <1>2, <1>9 DEF CountStep, RecordCount, journalVars
<1>10. CASE ProposeStep
  BY <1>1, <1>2, <1>10 DEF ProposeStep, ProposeDistribution, closingVars, journalVars
<1>11. ASSUME NEW u \in Users, NEW q \in profits, NEW amount \in Offers, ApproveDistributions(u, q, amount)
       PROVE  Charged'
  BY <1>1, <1>11, ApprovalKeepsCharges DEF ApproveDistributions
<1>12. ASSUME NEW d \in DOMAIN parts, NEW event \in Events, NEW account \in FinAccounts,
              NEW status \in {"PAID", "REINVESTED"}, Settle(d, event, account, status)
       PROVE  Charged'
  <2>1. KeepsCharges
    BY <1>0, <1>12, SettleBooks, SettlementKeepsCharges, RowKeepsCharges
  <2> QED
    BY <1>1, <1>12, <2>1 DEF Settle
<1>13. CASE ExpenseStep
  BY <1>4, <1>5, <1>6, <1>7, <1>13 DEF ExpenseStep
<1>14. CASE CloseStep
  BY <1>8, <1>14 DEF CloseStep
<1>15. CASE ApproveStep
  BY <1>11, <1>15 DEF ApproveStep
<1>16. CASE SettleStep
  BY <1>12, <1>16 DEF SettleStep
<1>17. CASE ExpenseFormStep
  BY <1>17, ChargedByForms
<1>18. CASE AmountFormStep \/ PartFormStep
  BY <1>1, <1>2, <1>18, AmountFormQuiet, PartFormQuiet
<1> QED
  BY <1>3, <1>9, <1>10, <1>13, <1>14, <1>15, <1>16, <1>17, <1>18, Steps

LEMMA ChargedInit ==
  ASSUME DividendsInit
  PROVE  Charged
  BY DEF DividendsInit, ClosingInit, Charged, AllRecognised, AccruedOnce, AccrualsClosed

\* A charge is booked once, ever, for what was recognised of it, whatever the
\* forms of the administration site make of it.  One that no form wrote is
\* booked exactly when it is approved, and for what it is; no month accrues
\* twice.
THEOREM ApprovedChargesAreRecognised == DividendsSpec => []ApprovedIsRecognised
<1>1. DividendsInit => Charged
  BY ChargedInit
<1>2. DividendsTypeOK /\ JournalKept /\ Charged /\ [DividendsNext]_dividendVars => Charged'
  BY ChargedStep
<1>3. DividendsTypeOK /\ Charged => ApprovedIsRecognised
  BY ChargedIs
<1> QED
  BY <1>1, <1>2, <1>3, JournalIsKept, PTL DEF DividendsSpec


-----------------------------------------------------------------------------
(* Manual batches that leave an account alone *)

Untouched(lines, a) == \A i \in DOMAIN lines : lines[i].account # a
DraftsAway(a) == \A lines \in Drafts : Untouched(lines, a)
ManualAway(a) == \A b \in DOMAIN batches : Manual(b) => Untouched(batches[b].lines, a)

LEMMA DebitUntouched ==
  ASSUME NEW lines, NEW a, Untouched(lines, a)
  PROVE  DebitTo(lines, a) = 0
<1>1. {j \in DOMAIN lines : lines[j].account = a} = {}
  BY DEF Untouched
<1> QED
  BY <1>1, SumEmpty DEF DebitTo

LEMMA OppositeUntouched ==
  ASSUME NEW lines \in Seq(Line), NEW a, Untouched(lines, a)
  PROVE  Untouched(Opposite(lines), a)
<1>1. \A l \in Line : [l EXCEPT !.debit = -l.debit].account = l.account
  BY DEF Line
<1>2. \A i \in DOMAIN lines : lines[i] \in Line
  OBVIOUS
<1>3. DOMAIN Opposite(lines) = DOMAIN lines
      /\ \A i \in DOMAIN lines : Opposite(lines)[i] = [lines[i] EXCEPT !.debit = -lines[i].debit]
  BY DEF Opposite
<1> QED
  BY <1>1, <1>2, <1>3 DEF Untouched

\* A row that the journal's own services leave alone.
Owned(row) == row.source # NoSource \/ row.event = "EXPENSE_PAYMENT"

\* What is added is not manual.
AddsOwned ==
    \A b \in DOMAIN batches' : (b \in DOMAIN batches /\ batches'[b] = batches[b]) \/ Owned(batches'[b])

LEMMA RowOwned ==
  ASSUME JournalTypeOK, NEW row, BooksRow(row), Owned(row)
  PROVE  AddsOwned
<1>1. batches \in Seq(Batch) /\ row \in Batch /\ batches' = Append(batches, row)
  BY DEF JournalTypeOK, BooksRow, Added
<1>2. /\ DOMAIN batches' = DOMAIN batches \cup {Len(batches) + 1}
      /\ \A c \in DOMAIN batches : batches'[c] = batches[c]
      /\ batches'[Len(batches) + 1] = row
  BY <1>1, RowAdded
<1> QED
  BY <1>2 DEF AddsOwned

LEMMA EventOwned ==
  ASSUME NEW m \in {"Expense", "Distribution"}, NEW n, NEW event, NEW day, NEW lines
  PROVE  Owned(EventRow(m, n, event, day, lines))
<1>1. EventRow(m, n, event, day, lines).source = <<m, n>>
  BY DEF EventRow, NewBatch
<1>2. EventRow(m, n, event, day, lines).source[1] = m
  BY <1>1, FirstOfSource
<1>3. NoSource[1] = ""
  BY FirstOfSource DEF NoSource
<1> QED
  BY <1>2, <1>3 DEF Owned

LEMMA PaymentOwned ==
  ASSUME NEW token, NEW a, NEW amount
  PROVE  Owned(PaymentRow(token, a, amount))
  BY DEF Owned, PaymentRow, NewBatch

LEMMA ApprovalOwned ==
  ASSUME DividendsTypeOK, NEW u \in Users, NEW q \in profits, NEW amount \in Offers,
         ApproveDistributions(u, q, amount)
  PROVE  AddsOwned
<1>1. ApprovalBatches(q, amount) \in Seq(ApprovedRows)
  BY ApprovalBatchesTyped, OffersTyped
<1>2. batches' = batches \o ApprovalBatches(q, amount) /\ batches \in Seq(Batch)
  BY DEF ApproveDistributions, DividendsTypeOK, JournalTypeOK
<1>3. \A row \in ApprovedRows : row \in Batch /\ Owned(row)
  <2>1. NoSource[1] = ""
    BY FirstOfSource DEF NoSource
  <2> QED
    BY <2>1 DEF ApprovedRows, Approved, Owned
<1>4. PICK more \in Seq(ApprovedRows) : more = ApprovalBatches(q, amount)
  BY <1>1
<1>5. more \in Seq(Batch) /\ \A k \in DOMAIN more : more[k] \in ApprovedRows
  <2>1. ApprovedRows \subseteq Batch
    BY <1>3
  <2> QED
    BY <2>1
<1>6. PICK n : n = Len(more)
  OBVIOUS
<1>7. /\ \A b \in DOMAIN batches : batches'[b] = batches[b]
      /\ \A b \in DOMAIN batches' : b \notin DOMAIN batches =>
            b - Len(batches) \in 1 .. n /\ batches'[b] = more[b - Len(batches)]
  BY <1>2, <1>4, <1>5, <1>6, RowsAdded
<1>8. DOMAIN more = 1 .. n
  BY <1>5, <1>6
<1> QED
  BY <1>3, <1>5, <1>7, <1>8 DEF AddsOwned

\* Every step but the journal's own.
LEMMA ServicesOwn ==
  ASSUME DividendsTypeOK, [DividendsNext]_dividendVars
  PROVE  JournalStep \/ AddsOwned
<1>0. JournalTypeOK
  BY DEF DividendsTypeOK
<1>1. ASSUME batches' = batches PROVE AddsOwned
  BY <1>1 DEF AddsOwned
<1>2. CASE ExpenseStep
  <2>1. ASSUME NEW u \in Users, NEW form \in ChargeForms, CreateExpense(u, form) PROVE AddsOwned
    BY <1>1, <2>1 DEF CreateExpense, journalVars
  <2>2. ASSUME NEW u \in Users, NEW e \in DOMAIN expenses, RejectExpense(u, e) PROVE AddsOwned
    BY <1>1, <2>2 DEF RejectExpense, journalVars
  <2>3. ASSUME NEW u \in Users, NEW e \in DOMAIN expenses, ApproveExpense(u, e) PROVE AddsOwned
    <3>1. \A day, amount : Owned(ChargeRow(e, day, amount))
      BY EventOwned DEF ChargeRow
    <3> QED
      BY <1>0, <2>3, <3>1, ApproveExpenseBooks, RowOwned
  <2>4. ASSUME NEW u \in Users, NEW e \in DOMAIN expenses, NEW a \in CashAccounts,
               NEW amount \in Counts, NEW token \in Tokens, PayExpense(u, e, a, amount, token)
        PROVE  AddsOwned
    BY <1>0, <2>4, PayExpenseBooks, PaymentOwned, RowOwned
  <2> QED
    BY <1>2, <2>1, <2>2, <2>3, <2>4 DEF ExpenseStep
<1>3. CASE CountStep
  BY <1>1, <1>3 DEF CountStep, RecordCount, journalVars
<1>4. ASSUME NEW u \in Users, NEW p \in periods, ClosePeriod(u, p) PROVE AddsOwned
  <2>1. CASE Accrues(p)
    <3>1. \A n, day, amount : Owned(ChargeRow(n, day, amount))
      BY EventOwned DEF ChargeRow
    <3> QED
      BY <1>0, <1>4, <2>1, <3>1, AccrualBooks, RowOwned
  <2>2. CASE ~ Accrues(p)
    BY <1>1, <1>4, <2>2 DEF ClosePeriod, Accrue
  <2> QED
    BY <2>1, <2>2
<1>5. CASE CloseStep
  BY <1>4, <1>5 DEF CloseStep
<1>6. CASE ProposeStep
  BY <1>1, <1>6 DEF ProposeStep, ProposeDistribution, closingVars, journalVars
<1>7. CASE ApproveStep
  BY <1>7, ApprovalOwned DEF ApproveStep
<1>8. ASSUME NEW d \in DOMAIN parts, NEW event \in Events, NEW account \in FinAccounts,
             NEW status \in {"PAID", "REINVESTED"}, Settle(d, event, account, status)
      PROVE  AddsOwned
  <2>1. Owned(SettlementRow(d, event, account))
    BY EventOwned DEF SettlementRow
  <2> QED
    BY <1>0, <1>8, <2>1, SettleBooks, RowOwned
<1>9. CASE SettleStep
  BY <1>8, <1>9 DEF SettleStep
<1>10. CASE ExpenseFormStep \/ AmountFormStep \/ PartFormStep
  BY <1>1, <1>10, ExpenseFormQuiet, AmountFormQuiet, PartFormQuiet
<1> QED
  BY <1>2, <1>3, <1>5, <1>6, <1>7, <1>9, <1>10, Steps


LEMMA ManualAwayStep ==
  ASSUME DividendsTypeOK, NEW a, DraftsAway(a), ManualAway(a), [DividendsNext]_dividendVars
  PROVE  ManualAway(a)'
<1>0. JournalTypeOK
  BY DEF DividendsTypeOK
<1>1. CASE AddsOwned
  <2>1. ASSUME NEW b \in DOMAIN batches', Manual(b)' PROVE Untouched(batches'[b].lines, a)
    <3>1. ~ Owned(batches'[b])
      BY <2>1 DEF Manual, Owned
    <3>2. b \in DOMAIN batches /\ batches'[b] = batches[b]
      BY <1>1, <3>1 DEF AddsOwned
    <3>3. Manual(b)
      BY <2>1, <3>2 DEF Manual
    <3> QED
      BY <3>2, <3>3 DEF ManualAway
  <2> QED
    BY <2>1 DEF ManualAway, Untouched
<1>2. CASE JournalStep
  <2>1. CASE Unchanged
    BY <2>1 DEF Unchanged, ManualAway, Manual, Untouched
  <2>2. CASE AddsDraft
    <3>1. PICK row \in Batch :
             /\ row.lines \in Drafts
             /\ DOMAIN batches' = DOMAIN batches \cup {Len(batches) + 1}
             /\ \A c \in DOMAIN batches : batches'[c] = batches[c]
             /\ batches'[Len(batches) + 1] = row
      BY <1>0, <2>2, AfterDraft
    <3>2. Untouched(row.lines, a)
      BY <3>1 DEF DraftsAway
    <3> QED
      BY <3>1, <3>2 DEF ManualAway, Manual, Untouched
  <2>3. CASE PostsDraft
    <3>1. PICK b \in DOMAIN batches :
             /\ batches[b] \in Batch /\ Manual(b)
             /\ DOMAIN batches' = DOMAIN batches
             /\ \A c \in DOMAIN batches : c # b => batches'[c] = batches[c]
             /\ batches'[b] = Turned(batches[b], "POSTED")
      BY <1>0, <2>3, AfterPosting
    <3>2. batches'[b].lines = batches[b].lines
      BY <3>1, StatusTurned
    <3> QED
      BY <3>1, <3>2 DEF ManualAway, Manual, Untouched
  <2>4. CASE Reverses
    <3>1. PICK b \in DOMAIN batches, row \in Batch :
             /\ batches[b] \in Batch /\ Manual(b)
             /\ row.source = <<"JournalBatch", b>>
             /\ DOMAIN batches' = DOMAIN batches \cup {Len(batches) + 1}
             /\ \A c \in DOMAIN batches : c # b => batches'[c] = batches[c]
             /\ batches'[b] = Turned(batches[b], "REVERSED")
             /\ batches'[Len(batches) + 1] = row
      BY <1>0, <2>4, AfterReversal
    <3>2. batches'[b].lines = batches[b].lines
      BY <3>1, StatusTurned
    <3>3. row.source # NoSource
      <4>1. row.source[1] = "JournalBatch"
        BY <3>1, FirstOfSource
      <4>2. NoSource[1] = ""
        BY FirstOfSource DEF NoSource
      <4> QED
        BY <4>1, <4>2
    <3> QED
      BY <3>1, <3>2, <3>3 DEF ManualAway, Manual, Untouched
  <2> QED
    BY <1>0, <1>2, <2>1, <2>2, <2>3, <2>4, StepKinds DEF JournalStep
<1> QED
  BY <1>1, <1>2, ServicesOwn

\* The journal's own services leave the debit of such an account.
LEMMA JournalAway ==
  ASSUME JournalTypeOK, JournalTypeOK', [JournalNext]_journalVars, NEW a, ManualAway(a)
  PROVE  DebitOf(batches', a) = DebitOf(batches, a)
<1>1. CASE BooksNothing
  BY <1>1 DEF BooksNothing
<1>2. ASSUME NEW b \in DOMAIN batches, NEW lines \in Seq(Line), Manual(b),
             lines \in {batches[b].lines, Opposite(batches[b].lines)}, BooksLines(lines)
      PROVE  DebitOf(batches', a) = DebitOf(batches, a)
  <2>1. batches \in Seq(Batch) /\ batches[b].lines \in Seq(Line)
    <3>1. batches \in Seq(Batch) /\ \A row \in Batch : row.lines \in Seq(Line)
      BY DEF JournalTypeOK, Batch
    <3> QED
      BY <3>1
  <2>2. Untouched(batches[b].lines, a)
    BY <1>2 DEF ManualAway
  <2>3. Untouched(lines, a)
    BY <1>2, <2>1, <2>2, OppositeUntouched
  <2>4. DebitTo(lines, a) = 0 /\ DebitOf(batches, a) \in Int
    BY <2>1, <2>3, DebitUntouched, DebitOfInt
  <2> QED
    BY <1>2, <2>4 DEF BooksLines
<1> QED
  BY <1>1, <1>2, JournalBooks

-----------------------------------------------------------------------------
(* What is due on charges *)

ChargeDue(x) == x.recognised - x.paid
Due(rows) == SumFunction([e \in DOMAIN rows |-> ChargeDue(rows[e])])

LEMMA ChargeDueTyped ==
  ASSUME NEW rows \in Seq(Expense)
  PROVE  /\ IsFiniteSet(DOMAIN rows)
         /\ \A e \in DOMAIN rows : ChargeDue(rows[e]) \in Int
         /\ [e \in DOMAIN rows |-> ChargeDue(rows[e])] \in [DOMAIN rows -> Int]
         /\ Due(rows) \in Int
<1>1. IsFiniteSet(DOMAIN rows)
  BY PositionsFinite
<1>2. \A x \in Expense : ChargeDue(x) \in Int
  BY DEF ChargeDue, Expense
<1>3. \A e \in DOMAIN rows : ChargeDue(rows[e]) \in Int
  BY <1>2
<1>4. [e \in DOMAIN rows |-> ChargeDue(rows[e])] \in [DOMAIN rows -> Int]
  BY <1>3
<1>5. Due(rows) \in Int
  BY <1>1, <1>4, SumInt DEF Due
<1> QED
  BY <1>1, <1>3, <1>4, <1>5

LEMMA DueAdded ==
  ASSUME NEW rows \in Seq(Expense), NEW x \in Expense, NEW new, new = Append(rows, x)
  PROVE  Due(new) = Due(rows) + ChargeDue(x)
<1> DEFINE O == DOMAIN rows
           n == Len(rows) + 1
           f == [e \in O |-> ChargeDue(rows[e])]
           g == [e \in DOMAIN new |-> ChargeDue(new[e])]
<1>1. /\ new \in Seq(Expense) /\ DOMAIN new = O \cup {n} /\ n \notin O
      /\ \A e \in O : new[e] = rows[e]
      /\ new[n] = x
  OBVIOUS
<1>2. IsFiniteSet(O) /\ g \in [O \cup {n} -> Int]
  BY <1>1, ChargeDueTyped
<1>3. g[n] = ChargeDue(x) /\ Restrict(g, O) = f
  BY <1>1 DEF Restrict
<1>4. SumFunction(g) = SumFunction(Restrict(g, O)) + g[n]
  <2> HIDE DEF f, g, n, O
  <2> QED
    BY <1>1, <1>2, SumMore
<1> QED
  BY <1>3, <1>4 DEF Due

LEMMA DueChanged ==
  ASSUME NEW rows \in Seq(Expense), NEW new \in Seq(Expense), DOMAIN new = DOMAIN rows,
         NEW e \in DOMAIN rows, \A f \in DOMAIN rows : f # e => new[f] = rows[f]
  PROVE  Due(new) = Due(rows) + (ChargeDue(new[e]) - ChargeDue(rows[e]))
<1> DEFINE O == DOMAIN rows
           f == [d \in O |-> ChargeDue(rows[d])]
           g == [d \in O |-> ChargeDue(new[d])]
<1>1. IsFiniteSet(O) /\ f \in [O -> Int] /\ g \in [O -> Int]
  BY ChargeDueTyped
<1>2. f[e] = ChargeDue(rows[e]) /\ g[e] = ChargeDue(new[e]) /\ \A d \in O \ {e} : g[d] = f[d]
  OBVIOUS
<1>3. SumFunction(g) = SumFunction(f) + (g[e] - f[e])
  <2> HIDE DEF f, g
  <2> QED
    BY <1>1, <1>2, SumChange
<1>4. Due(rows) = SumFunction(f) /\ Due(new) = SumFunction(g)
  BY DEF Due
<1> QED
  BY <1>2, <1>3, <1>4


LEMMA PairDebits ==
  ASSUME NEW k \in Line, NEW l \in Line, NEW a
  PROVE  DebitTo(<<k, l>>, a) = (IF k.account = a THEN k.debit ELSE 0) + (IF l.account = a THEN l.debit ELSE 0)
<1>1. ASSUME NEW lines \in Seq(Line)
      PROVE  DebitTo(<<k, l>>, a) = (IF k.account = a THEN k.debit ELSE 0) + (IF l.account = a THEN l.debit ELSE 0)
  BY DebitToPair
<1>2. <<>> \in Seq(Line)
  OBVIOUS
<1> QED
  BY <1>1, <1>2

\* What two opposite lines debit.
LEMMA FromDebits ==
  ASSUME NEW x \in FinAccounts, NEW y \in FinAccounts, NEW n \in Int \ {0}, NEW a
  PROVE  /\ From(x, y, n) \in Pairs
         /\ DebitTo(From(x, y, n), a) = (IF x = a THEN n ELSE 0) + (IF y = a THEN -n ELSE 0)
<1> DEFINE k == [account |-> x, debit |-> n]
           l == [account |-> y, debit |-> -n]
<1>1. k \in Line /\ l \in Line
  BY DEF Line
<1>2. k.account = x /\ k.debit = n /\ l.account = y /\ l.debit = -n /\ From(x, y, n) = <<k, l>>
  BY DEF From
<1> HIDE DEF k, l
<1>4. DebitTo(<<k, l>>, a) = (IF k.account = a THEN k.debit ELSE 0) + (IF l.account = a THEN l.debit ELSE 0)
  BY <1>1, PairDebits
<1> QED
  BY <1>1, <1>2, <1>4, PairsAre

\* The account of debts on charges is no other account.
LEMMA PayableApart ==
  /\ Payable \in FinAccounts /\ Charge \in FinAccounts /\ Charge # Payable
  /\ \A a \in CashAccounts : a \in FinAccounts /\ a # Payable
  BY ClosingAssumption

LEMMA ChargeDebits ==
  ASSUME NEW n \in Nat \ {0}
  PROVE  DebitTo(ChargeLines(n), Payable) = -n
<1>1. ChargeLines(n) = From(Charge, Payable, n)
  BY DEF ChargeLines, From
<1>2. n \in Int \ {0}
  OBVIOUS
<1>3. DebitTo(From(Charge, Payable, n), Payable) = (IF Charge = Payable THEN n ELSE 0) + (IF Payable = Payable THEN -n ELSE 0)
  BY <1>2, PayableApart, FromDebits
<1> QED
  BY <1>1, <1>3, PayableApart

LEMMA PaymentDebits ==
  ASSUME NEW n \in Nat \ {0}, NEW a \in CashAccounts
  PROVE  DebitTo(PaidFrom(a, n), Payable) = n
<1>1. PaidFrom(a, n) = From(Payable, a, n)
  BY DEF PaidFrom, From
<1>2. n \in Int \ {0}
  OBVIOUS
<1>3. DebitTo(From(Payable, a, n), Payable) = (IF Payable = Payable THEN n ELSE 0) + (IF a = Payable THEN -n ELSE 0)
  BY <1>2, PayableApart, FromDebits
<1> QED
  BY <1>1, <1>3, PayableApart

LEMMA PayableOfPart ==
  ASSUME DividendsTypeOK, NEW d \in DOMAIN parts
  PROVE  PayableOf(d) \in FinAccounts /\ PayableOf(d) # Payable /\ parts[d].amount \in Int
<1>1. <<parts[d].profit.currency, parts[d].party>> \in Currencies \X Parties /\ parts[d].amount \in Int
  BY PartRow
<1>2. \A x \in Currencies \X Parties : DividendPayable[x] \in FinAccounts /\ DividendPayable[x] # Payable
  BY DividendsAssumption, CounterpartAssumption
<1> QED
  BY <1>1, <1>2 DEF PayableOf

\* An account that an approval may credit: a debt.
LEMMA ApprovalDebits ==
  ASSUME NEW q \in Profit, NEW amount \in Int, NEW i \in 1 .. 4, NEW a, Nature[a] = "LIABILITY"
  PROVE  /\ ApprovalLines(q, amount, i) \in Pairs
         /\ Share(amount, i) \in Int
         /\ DebitTo(ApprovalLines(q, amount, i), a)
               = IF DividendPayable[<<q.currency, Shareholders[i]>>] = a THEN -Share(amount, i) ELSE 0
<1> DEFINE debt == DividendPayable[<<q.currency, Shareholders[i]>>]
           own == Capital[q.currency]
           n == Share(amount, i)
<1>1. /\ own \in FinAccounts /\ debt \in FinAccounts /\ Nature[own] = "EQUITY"
  <2>1. q.currency \in Currencies
    BY DEF Profit
  <2> QED
    BY <2>1, PartiesTyped, DividendsAssumption, CounterpartAssumption
<1>2. n \in Int
  BY ShareTyped
<1>3. CASE n = 0
  <2>1. ApprovalLines(q, amount, i) = <<>>
    BY <1>3 DEF ApprovalLines
  <2> QED
    BY <1>3, <2>1, PairsAre, DebitToNothing
<1>4. CASE n # 0
  <2>1. ApprovalLines(q, amount, i) = From(own, debt, n)
    BY <1>4 DEF ApprovalLines
  <2>2. own # a
    BY <1>1
  <2> HIDE DEF own, debt, n
  <2>3. /\ From(own, debt, n) \in Pairs
        /\ DebitTo(From(own, debt, n), a) = (IF own = a THEN n ELSE 0) + (IF debt = a THEN -n ELSE 0)
    BY <1>1, <1>2, <1>4, FromDebits
  <2>4. DebitTo(From(own, debt, n), a) = IF debt = a THEN -n ELSE 0
    BY <1>2, <2>2, <2>3
  <2>5. DebitTo(ApprovalLines(q, amount, i), a) = IF debt = a THEN -n ELSE 0
    BY <2>1, <2>4
  <2> QED
    BY <1>2, <2>1, <2>3, <2>5 DEF debt, n
<1> QED
  BY <1>3, <1>4

LEMMA ApprovedDebits ==
  ASSUME NEW q \in Profit, NEW amount \in Int, NEW a, Nature[a] = "LIABILITY"
  PROVE  /\ \A i \in 1 .. 4 : DebitTo(ApprovalLines(q, amount, i), a) \in Int
         /\ DebitTo(ApprovedLines(q, amount), a)
               = ((DebitTo(ApprovalLines(q, amount, 1), a) + DebitTo(ApprovalLines(q, amount, 2), a))
                    + DebitTo(ApprovalLines(q, amount, 3), a)) + DebitTo(ApprovalLines(q, amount, 4), a)
<1> DEFINE l1 == ApprovalLines(q, amount, 1)
           l2 == ApprovalLines(q, amount, 2)
           l3 == ApprovalLines(q, amount, 3)
           l4 == ApprovalLines(q, amount, 4)
<1>1. \A i \in 1 .. 4 : ApprovalLines(q, amount, i) \in Pairs
  BY ApprovalDebits
<1>2. l1 \in Pairs /\ l2 \in Pairs /\ l3 \in Pairs /\ l4 \in Pairs
  BY <1>1
<1>3. \A i \in 1 .. 4 : DebitTo(ApprovalLines(q, amount, i), a) \in Int
  BY <1>1, PairsTyped, DebitToInt
<1>4. ApprovedLines(q, amount) = ((l1 \o l2) \o l3) \o l4
  BY DEF ApprovedLines
<1> HIDE DEF l1, l2, l3, l4
<1>5. l1 \in Seq(Line) /\ l2 \in Seq(Line) /\ l3 \in Seq(Line)
  BY <1>2, PairsTyped
<1>6. l1 \o l2 \in Seq(Line) /\ (l1 \o l2) \o l3 \in Seq(Line)
  BY <1>5
<1>7. /\ DebitTo(l1 \o l2, a) = DebitTo(l1, a) + DebitTo(l2, a)
      /\ DebitTo((l1 \o l2) \o l3, a) = DebitTo(l1 \o l2, a) + DebitTo(l3, a)
      /\ DebitTo(((l1 \o l2) \o l3) \o l4, a) = DebitTo((l1 \o l2) \o l3, a) + DebitTo(l4, a)
  <2>1. \A lines \in Seq(Line), more \in Pairs : DebitTo(lines \o more, a) = DebitTo(lines, a) + DebitTo(more, a)
    BY DebitToBoth
  <2> QED
    BY <1>2, <1>5, <1>6, <2>1, Zenon
<1>8. DebitTo(ApprovedLines(q, amount), a) = ((DebitTo(l1, a) + DebitTo(l2, a)) + DebitTo(l3, a)) + DebitTo(l4, a)
  BY <1>4, <1>7
<1> QED
  BY <1>3, <1>8 DEF l1, l2, l3, l4

\* A row, or an approval, debits its lines.
LEMMA RowDebits ==
  ASSUME JournalTypeOK, Table(batches), NEW row, BooksRow(row), NEW a
  PROVE  DebitOf(batches', a) = DebitOf(batches, a) + DebitTo(row.lines, a)
  BY RowFollows DEF Follows


\* A charge that no form wrote is never paid beyond what was recognised of it.
PaidWithin(x) == x.edited \/ x.paid <= x.recognised
AllWithin == \A e \in DOMAIN expenses : PaidWithin(expenses[e])

\* What is due on charges and the debit of the payable account cancel.
Owed == DebitOf(batches, Payable) + Due(expenses) = 0
DueKept == ManualAway(Payable) /\ Charged /\ AllWithin /\ Owed

LEMMA OwedOn ==
  ASSUME DividendsTypeOK, DividendsTypeOK', Owed, NEW x \in Int, NEW y \in Int, x + y = 0,
         DebitOf(batches', Payable) = DebitOf(batches, Payable) + x, Due(expenses') = Due(expenses) + y
  PROVE  Owed'
<1>1. batches \in Seq(Batch) /\ expenses \in Seq(Expense)
  BY DEF DividendsTypeOK, JournalTypeOK
<1>2. DebitOf(batches, Payable) \in Int /\ Due(expenses) \in Int
  BY <1>1, DebitOfInt, ChargeDueTyped
<1>3. DebitOf(batches', Payable) + Due(expenses') = 0
  BY <1>2 DEF Owed
<1> QED
  BY <1>3 DEF Owed, Due, DebitOf, Bookings

LEMMA OwedSame ==
  ASSUME DividendsTypeOK, DividendsTypeOK', Owed,
         DebitOf(batches', Payable) = DebitOf(batches, Payable), Due(expenses') = Due(expenses)
  PROVE  Owed'
<1>1. batches \in Seq(Batch) /\ expenses \in Seq(Expense)
  BY DEF DividendsTypeOK, JournalTypeOK
<1>2. DebitOf(batches, Payable) \in Int /\ Due(expenses) \in Int
  BY <1>1, DebitOfInt, ChargeDueTyped
<1> QED
  BY <1>2, OwedOn

LEMMA WithinWritten ==
  ASSUME expenses \in Seq(Expense), AllWithin, NEW e \in DOMAIN expenses, NEW row,
         expenses' = [expenses EXCEPT ![e] = row], PaidWithin(row)
  PROVE  AllWithin'
<1>1. /\ DOMAIN expenses' = DOMAIN expenses /\ expenses'[e] = row
      /\ \A f \in DOMAIN expenses : f # e => expenses'[f] = expenses[f]
  OBVIOUS
<1> QED
  BY <1>1 DEF AllWithin

LEMMA WithinAppended ==
  ASSUME expenses \in Seq(Expense), AllWithin, NEW x, expenses' = Append(expenses, x), PaidWithin(x)
  PROVE  AllWithin'
<1>1. /\ DOMAIN expenses' = DOMAIN expenses \cup {Len(expenses) + 1}
      /\ \A e \in DOMAIN expenses : expenses'[e] = expenses[e]
      /\ expenses'[Len(expenses) + 1] = x
  OBVIOUS
<1> QED
  BY <1>1 DEF AllWithin

LEMMA WithinStep ==
  ASSUME DividendsTypeOK, Charged, AllWithin, [DividendsNext]_dividendVars
  PROVE  AllWithin'
<1>0. expenses \in Seq(Expense)
  BY DEF DividendsTypeOK
<1>1. ASSUME expenses' = expenses PROVE AllWithin'
  BY <1>1 DEF AllWithin
<1>2. CASE ExpenseStep
  <2>1. ASSUME NEW u \in Users, NEW form \in ChargeForms, CreateExpense(u, form) PROVE AllWithin'
    <3>1. PICK x : x = NewExpense(form[1], form[2], "PENDING")
      OBVIOUS
    <3>2. expenses' = Append(expenses, x)
      BY <2>1, <3>1 DEF CreateExpense
    <3>3. PaidWithin(x)
      BY <3>1 DEF NewExpense, PaidWithin
    <3> QED
      BY <1>0, <3>2, <3>3, WithinAppended
  <2>2. ASSUME NEW u \in Users, NEW e \in DOMAIN expenses, RejectExpense(u, e) PROVE AllWithin'
    <3>1. PaidWithin(RejectedExpense(e)) /\ expenses' = [expenses EXCEPT ![e] = RejectedExpense(e)]
      BY <2>2, RejectedExpenseIs DEF AllWithin, PaidWithin
    <3> QED
      BY <1>0, <3>1, WithinWritten
  <2>3. ASSUME NEW u \in Users, NEW e \in DOMAIN expenses, ApproveExpense(u, e) PROVE AllWithin'
    <3>1. /\ expenses[e].edited \/ (expenses[e].recognised = 0 /\ expenses[e].paid <= expenses[e].recognised)
          /\ expenses[e].amount \in Nat /\ expenses[e].paid \in Nat
      <4>1. expenses[e].status = "PENDING"
        BY <2>3 DEF ApproveExpense, Undecided
      <4> QED
        BY <4>1, ExpenseRow DEF Charged, AllRecognised, Unaltered, AllWithin, PaidWithin
    <3>2. /\ expenses' = [expenses EXCEPT ![e] = ApprovedExpense(e)]
          /\ ApprovedExpense(e).paid = expenses[e].paid /\ ApprovedExpense(e).edited = expenses[e].edited
          /\ ApprovedExpense(e).recognised = expenses[e].amount
      BY <2>3, ApprovedExpenseIs
    <3>3. expenses[e].edited \/ expenses[e].paid <= expenses[e].amount
      BY <3>1
    <3>4. PaidWithin(ApprovedExpense(e))
      BY <3>2, <3>3 DEF PaidWithin
    <3> QED
      BY <1>0, <3>2, <3>4, WithinWritten
  <2>4. ASSUME NEW u \in Users, NEW e \in DOMAIN expenses, NEW a \in CashAccounts,
               NEW amount \in Counts, NEW token \in Tokens, PayExpense(u, e, a, amount, token)
        PROVE  AllWithin'
    <3>1. /\ expenses' = [expenses EXCEPT ![e] = PaidExpense(e, amount)]
          /\ expenses[e].paid + amount <= expenses[e].amount /\ expenses[e].status = "APPROVED"
          /\ PaidExpense(e, amount).paid = expenses[e].paid + amount
          /\ PaidExpense(e, amount).edited = expenses[e].edited
          /\ PaidExpense(e, amount).recognised = expenses[e].recognised
      BY <2>4, PaidExpenseIs
    <3>2. expenses[e].edited \/ expenses[e].recognised = expenses[e].amount
      BY <3>1 DEF Charged, AllRecognised, Unaltered
    <3>3. PaidWithin(PaidExpense(e, amount))
      BY <3>1, <3>2 DEF PaidWithin
    <3> QED
      BY <1>0, <3>1, <3>3, WithinWritten
  <2> QED
    BY <1>2, <2>1, <2>2, <2>3, <2>4 DEF ExpenseStep
<1>3. ASSUME NEW u \in Users, NEW p \in periods, ClosePeriod(u, p) PROVE AllWithin'
  <2>1. CASE Accrues(p)
    <3>1. /\ expenses' = Append(expenses, AccruedExpense(p))
          /\ AccruedExpense(p).paid = 0 /\ AccruedExpense(p).recognised = Salary
      BY <1>3, <2>1, AccruedExpenseIs
    <3>2. PaidWithin(AccruedExpense(p))
      BY <3>1, ClosingAssumption DEF PaidWithin
    <3> QED
      BY <1>0, <3>1, <3>2, WithinAppended
  <2>2. CASE ~ Accrues(p)
    BY <1>1, <1>3, <2>2, AccruedExpenseIs
  <2> QED
    BY <2>1, <2>2
<1>4. CASE ExpenseFormStep
  <2>1. ASSUME NEW row, FormAdds(row) PROVE AllWithin'
    BY <1>0, <2>1, WithinAppended DEF FormAdds, PaidWithin
  <2>2. ASSUME NEW e \in DOMAIN expenses, NEW row, FormWrites(e, row) PROVE AllWithin'
    <3>1. row.edited \/ row.edited = expenses[e].edited
      BY <2>2 DEF FormWrites
    <3>2. /\ expenses' = [expenses EXCEPT ![e] = row]
          /\ row.recognised = expenses[e].recognised /\ row.paid = expenses[e].paid
      BY <2>2 DEF FormWrites
    <3>3. PaidWithin(row)
      BY <3>1, <3>2 DEF AllWithin, PaidWithin
    <3> QED
      BY <1>0, <3>2, <3>3, WithinWritten
  <2> QED
    BY <1>4, <2>1, <2>2, ExpenseFormRow
<1>5. CASE CloseStep
  BY <1>3, <1>5 DEF CloseStep
<1>6. CASE JournalStep
  BY <1>1, <1>6 DEF JournalStep
<1>7. CASE CountStep
  BY <1>1, <1>7 DEF CountStep, RecordCount
<1>8. CASE ProposeStep
  BY <1>1, <1>8 DEF ProposeStep, ProposeDistribution, closingVars
<1>9. CASE ApproveStep
  BY <1>1, <1>9 DEF ApproveStep, ApproveDistributions
<1>10. CASE SettleStep
  BY <1>1, <1>10 DEF SettleStep, Settle
<1>11. CASE AmountFormStep \/ PartFormStep
  BY <1>1, <1>11, AmountFormQuiet, PartFormQuiet
<1> QED
  BY <1>2, <1>4, <1>5, <1>6, <1>7, <1>8, <1>9, <1>10, <1>11, Steps

\* One charge is written: what is due changes by what is due on it.
LEMMA DueWritten ==
  ASSUME expenses \in Seq(Expense), NEW e \in DOMAIN expenses, NEW row \in Expense,
         expenses' = [expenses EXCEPT ![e] = row]
  PROVE  Due(expenses') = Due(expenses) + (ChargeDue(row) - ChargeDue(expenses[e]))
<1>1. /\ expenses' \in Seq(Expense) /\ DOMAIN expenses' = DOMAIN expenses /\ expenses'[e] = row
      /\ \A f \in DOMAIN expenses : f # e => expenses'[f] = expenses[f]
  OBVIOUS
<1> QED
  BY <1>1, DueChanged

LEMMA OwedByForms ==
  ASSUME DividendsTypeOK, DividendsTypeOK', Owed, ExpenseFormStep
  PROVE  Owed'
<1>1. expenses \in Seq(Expense) /\ batches' = batches
  BY ExpenseFormQuiet DEF DividendsTypeOK
<1>2. Due(expenses) \in Int
  BY <1>1, ChargeDueTyped
<1>3. ASSUME NEW row, FormAdds(row) PROVE Due(expenses') = Due(expenses)
  <2>1. row \in Expense /\ expenses' = Append(expenses, row) /\ ChargeDue(row) = 0
    BY <1>3 DEF FormAdds, ChargeDue
  <2>2. Due(expenses') = Due(expenses) + ChargeDue(row)
    BY <1>1, <2>1, DueAdded
  <2> QED
    BY <1>2, <2>1, <2>2
<1>4. ASSUME NEW e \in DOMAIN expenses, NEW row, FormWrites(e, row) PROVE Due(expenses') = Due(expenses)
  <2>1. /\ row \in Expense /\ expenses' = [expenses EXCEPT ![e] = row]
        /\ row.recognised = expenses[e].recognised /\ row.paid = expenses[e].paid
    BY <1>4 DEF FormWrites
  <2>2. ChargeDue(row) = ChargeDue(expenses[e]) /\ ChargeDue(row) \in Int
    BY <1>1, <2>1, ChargeDueTyped DEF ChargeDue
  <2>3. Due(expenses') = Due(expenses) + (ChargeDue(row) - ChargeDue(expenses[e]))
    BY <1>1, <2>1, DueWritten
  <2> QED
    BY <1>2, <2>2, <2>3
<1>5. Due(expenses') = Due(expenses)
  BY <1>3, <1>4, ExpenseFormRow
<1> QED
  BY <1>1, <1>5, OwedSame

LEMMA OwedStep ==
  ASSUME DividendsTypeOK, JournalKept, DueKept, [DividendsNext]_dividendVars
  PROVE  Owed'
<1>0. /\ DividendsTypeOK' /\ JournalTypeOK /\ JournalTypeOK' /\ Table(batches) /\ Owed
      /\ ManualAway(Payable) /\ Charged
      /\ expenses \in Seq(Expense) /\ expenses' \in Seq(Expense) /\ batches \in Seq(Batch)
      /\ \A e \in DOMAIN expenses : expenses[e] \in Expense
  BY DividendsTypeStep DEF DividendsTypeOK, JournalTypeOK, JournalKept, DueKept
<1>1. DebitOf(batches, Payable) \in Int /\ Due(expenses) \in Int
  BY <1>0, DebitOfInt, ChargeDueTyped
<1>2. ASSUME UNCHANGED <<batches, expenses>> PROVE Owed'
  BY <1>0, <1>2, OwedSame
<1>3. CASE JournalStep
  <2>1. DebitOf(batches', Payable) = DebitOf(batches, Payable)
    BY <1>0, <1>3, JournalAway DEF JournalStep
  <2> QED
    BY <1>0, <1>3, <2>1, OwedSame DEF JournalStep
<1>4. ASSUME NEW u \in Users, NEW form \in ChargeForms, CreateExpense(u, form) PROVE Owed'
  <2>1. PICK x : x \in Expense /\ x.recognised = 0 /\ x.paid = 0 /\ expenses' = Append(expenses, x)
    BY <1>4, CreatedExpenseIs
  <2>2. ChargeDue(x) = 0
    BY <2>1 DEF ChargeDue
  <2>3. Due(expenses') = Due(expenses)
    <3>1. Due(expenses') = Due(expenses) + ChargeDue(x)
      BY <1>0, <2>1, DueAdded
    <3> QED
      BY <1>1, <2>2, <3>1
  <2>4. batches' = batches
    BY <1>4 DEF CreateExpense, journalVars
  <2> QED
    BY <1>0, <2>3, <2>4, OwedSame
<1>5. ASSUME NEW u \in Users, NEW e \in DOMAIN expenses, RejectExpense(u, e) PROVE Owed'
  <2>1. batches' = batches
    BY <1>5 DEF RejectExpense, journalVars
  <2>2. PICK x : /\ x \in Expense /\ expenses' = [expenses EXCEPT ![e] = x]
                 /\ x.recognised = expenses[e].recognised /\ x.paid = expenses[e].paid
    BY <1>5, RejectedExpenseIs
  <2>3. ChargeDue(x) = ChargeDue(expenses[e]) /\ ChargeDue(expenses[e]) \in Int
    BY <1>0, <2>2, ChargeDueTyped DEF ChargeDue
  <2>4. Due(expenses') = Due(expenses) + (ChargeDue(x) - ChargeDue(expenses[e]))
    BY <1>0, <2>2, DueWritten
  <2>5. Due(expenses') = Due(expenses)
    BY <1>1, <2>3, <2>4
  <2> QED
    BY <1>0, <2>1, <2>5, OwedSame
<1>6. ASSUME NEW u \in Users, NEW e \in DOMAIN expenses, ApproveExpense(u, e) PROVE Owed'
  <2>1. PICK x : /\ x \in Expense /\ expenses' = [expenses EXCEPT ![e] = x]
                 /\ x.recognised = expenses[e].amount /\ x.paid = expenses[e].paid
    BY <1>6, ApprovedExpenseIs
  <2>2. expenses[e].amount \in Nat \ {0} /\ expenses[e].paid \in Nat
    BY ExpenseRow
  <2>3. BooksRow(ChargeRow(e, expenses[e].day, expenses[e].amount))
    BY <1>6, ApproveExpenseBooks
  <2>4. expenses[e].recognised = 0
    <3>1. RecognisedAs(batches, e, expenses[e])
      BY <1>0 DEF Charged, AllRecognised
    <3>2. Unbooked(batches, e)
      BY <2>3, <3>1, BookedWas
    <3> QED
      BY <3>1, <3>2 DEF RecognisedAs, Recognises, Unbooked
  <2>5. ChargeDue(x) - ChargeDue(expenses[e]) = expenses[e].amount
    BY <2>1, <2>2, <2>4 DEF ChargeDue
  <2>6. Due(expenses') = Due(expenses) + (ChargeDue(x) - ChargeDue(expenses[e]))
    BY <1>0, <2>1, DueWritten
  <2>7. ChargeRow(e, expenses[e].day, expenses[e].amount).lines = ChargeLines(expenses[e].amount)
    BY DEF ChargeRow, EventRow, NewBatch
  <2>8. DebitOf(batches', Payable) = DebitOf(batches, Payable) + (-expenses[e].amount)
    BY <1>0, <2>2, <2>3, <2>7, RowDebits, ChargeDebits
  <2>9. PICK n \in Nat : n = expenses[e].amount
    BY <2>2
  <2>10. Due(expenses') = Due(expenses) + n
    BY <2>5, <2>6, <2>9
  <2>11. DebitOf(batches', Payable) = DebitOf(batches, Payable) + (-n)
    BY <2>8, <2>9
  <2>12. n \in Int /\ -n \in Int /\ (-n) + n = 0 /\ n + (-n) = 0
    OBVIOUS
  <2> QED
    BY <1>0, <2>10, <2>11, <2>12, OwedOn
<1>7. ASSUME NEW u \in Users, NEW e \in DOMAIN expenses, NEW a \in CashAccounts, NEW amount \in Counts,
             NEW token \in Tokens, PayExpense(u, e, a, amount, token)
      PROVE  Owed'
  <2>1. BooksRow(PaymentRow(token, a, amount)) /\ amount \in Nat \ {0}
    BY <1>7, PayExpenseBooks
  <2>2. PaymentRow(token, a, amount).lines = PaidFrom(a, amount)
    BY DEF PaymentRow, NewBatch
  <2>3. DebitOf(batches', Payable) = DebitOf(batches, Payable) + amount
    BY <1>0, <2>1, <2>2, RowDebits, PaymentDebits
  <2>4. PICK x : /\ x \in Expense /\ expenses' = [expenses EXCEPT ![e] = x]
                 /\ x.recognised = expenses[e].recognised /\ x.paid = expenses[e].paid + amount
    BY <1>7, PaidExpenseIs
  <2>5. ChargeDue(x) - ChargeDue(expenses[e]) = -amount
    <3>1. expenses[e].recognised \in Nat /\ expenses[e].paid \in Nat
      BY ExpenseRow
    <3> QED
      BY <2>1, <2>4, <3>1 DEF ChargeDue
  <2>6. Due(expenses') = Due(expenses) + (ChargeDue(x) - ChargeDue(expenses[e]))
    BY <1>0, <2>4, DueWritten
  <2>7. Due(expenses') = Due(expenses) + (-amount)
    BY <2>5, <2>6
  <2>8. amount \in Int /\ -amount \in Int /\ amount + (-amount) = 0
    BY <2>1
  <2> QED
    BY <1>0, <2>3, <2>7, <2>8, OwedOn
<1>8. ASSUME NEW u \in Users, NEW p \in periods, ClosePeriod(u, p) PROVE Owed'
  <2>1. CASE Accrues(p)
    <3>1. BooksRow(ChargeRow(Len(expenses) + 1, p.last, Salary)) /\ Salary \in Nat \ {0} /\ p.last \in Days
      BY <1>8, <2>1, AccrualBooks
    <3>2. PICK x : /\ x \in Expense /\ x.recognised = Salary /\ x.paid = 0
                   /\ expenses' = Append(expenses, x)
      BY <1>8, <2>1, AccruedExpenseIs
    <3>3. ChargeDue(x) = Salary
      BY <3>1, <3>2 DEF ChargeDue
    <3>4. Due(expenses') = Due(expenses) + Salary
      BY <1>0, <3>2, <3>3, DueAdded
    <3>5. ChargeRow(Len(expenses) + 1, p.last, Salary).lines = ChargeLines(Salary)
      BY DEF ChargeRow, EventRow, NewBatch
    <3>6. DebitOf(batches', Payable) = DebitOf(batches, Payable) + (-Salary)
      BY <1>0, <3>1, <3>5, RowDebits, ChargeDebits
    <3> QED
      BY <1>0, <3>1, <3>4, <3>6, OwedOn
  <2>2. CASE ~ Accrues(p)
    BY <1>2, <1>8, <2>2 DEF ClosePeriod, Accrue, AccruedExpenses
  <2> QED
    BY <2>1, <2>2
<1>9. CASE CountStep
  BY <1>2, <1>9 DEF CountStep, RecordCount, journalVars
<1>10. CASE ProposeStep
  BY <1>2, <1>10 DEF ProposeStep, ProposeDistribution, closingVars, journalVars
<1>11. ASSUME NEW u \in Users, NEW q \in profits, NEW amount \in Offers, ApproveDistributions(u, q, amount)
       PROVE  Owed'
  <2>1. amount \in Int /\ q \in Profit
    BY OffersTyped DEF DividendsTypeOK
  <2>2. \A i \in 1 .. 4 : DividendPayable[<<q.currency, Shareholders[i]>>] # Payable
    <3>1. \A i \in 1 .. 4 : <<q.currency, Shareholders[i]>> \in Currencies \X Parties
      BY <2>1, PartiesTyped DEF Profit
    <3> QED
      BY <3>1, CounterpartAssumption
  <2>3. \A i \in 1 .. 4 : DebitTo(ApprovalLines(q, amount, i), Payable) = 0
    BY <2>1, <2>2, ApprovalDebits, ClosingAssumption
  <2>4. DebitTo(ApprovedLines(q, amount), Payable) = 0
    BY <2>1, <2>3, ApprovedDebits, ClosingAssumption
  <2>5. Follows(batches, batches', ApprovedLines(q, amount))
    BY <1>0, <1>11, ApprovalFollows DEF JournalKept, Scoped
  <2>6. DebitOf(batches', Payable) = DebitOf(batches, Payable)
    BY <1>1, <2>4, <2>5 DEF Follows
  <2> QED
    BY <1>0, <1>11, <2>6, OwedSame DEF ApproveDistributions
<1>12. ASSUME NEW d \in DOMAIN parts, NEW event \in Events, NEW account \in FinAccounts,
              NEW status \in {"PAID", "REINVESTED"}, Settle(d, event, account, status), Nature[account] # "LIABILITY"
       PROVE  Owed'
  <2>1. account # Payable /\ PayableOf(d) # Payable
    BY <1>12, PayableOfPart, ClosingAssumption
  <2>2. Untouched(From(PayableOf(d), account, parts[d].amount), Payable)
    BY <2>1 DEF Untouched, From
  <2>3. SettlementRow(d, event, account).lines = From(PayableOf(d), account, parts[d].amount)
    BY DEF SettlementRow, EventRow, NewBatch
  <2>4. DebitOf(batches', Payable) = DebitOf(batches, Payable) + 0
    BY <1>0, <1>12, <2>2, <2>3, SettleBooks, RowDebits, DebitUntouched
  <2>5. DebitOf(batches', Payable) = DebitOf(batches, Payable)
    BY <1>1, <2>4
  <2> QED
    BY <1>0, <1>12, <2>5, OwedSame DEF Settle
<1>13. CASE ExpenseStep
  BY <1>4, <1>5, <1>6, <1>7, <1>13 DEF ExpenseStep
<1>14. CASE CloseStep
  BY <1>8, <1>14 DEF CloseStep
<1>15. CASE ApproveStep
  BY <1>11, <1>15 DEF ApproveStep
<1>16. CASE SettleStep
  BY <1>12, <1>16 DEF SettleStep
<1>17. CASE ExpenseFormStep
  BY <1>0, <1>17, OwedByForms
<1>18. CASE AmountFormStep \/ PartFormStep
  BY <1>2, <1>18, AmountFormQuiet, PartFormQuiet
<1> QED
  BY <1>3, <1>9, <1>10, <1>13, <1>14, <1>15, <1>16, <1>17, <1>18, Steps

\* As long as no draft has a line on the account of debts on charges, its
\* balance is what was recognised of charges and is not paid, whatever the forms
\* of the administration site make of them: a payment is booked with the row
\* that records it.  A charge that no form wrote is not paid beyond it.
THEOREM DueStaysPayable ==
  ASSUME DraftsAway(Payable)
  PROVE  DividendsSpec => []DueIsPayable
<1>1. DividendsInit => DueKept
  <2> SUFFICES ASSUME DividendsInit PROVE DueKept
    OBVIOUS
  <2>1. batches = <<>> /\ expenses = <<>>
    BY DEF DividendsInit, ClosingInit, JournalInit
  <2>2. ManualAway(Payable) /\ AllWithin /\ Charged
    BY <2>1, ChargedInit DEF ManualAway, AllWithin
  <2>3. DebitOf(batches, Payable) = 0
    <3>1. Bookings(batches) = {}
      BY <2>1 DEF Bookings
    <3> QED
      BY <3>1, SumEmpty DEF DebitOf
  <2>4. Due(expenses) = 0
    BY <2>1, SumEmpty DEF Due
  <2> QED
    BY <2>2, <2>3, <2>4 DEF DueKept, Owed
<1>2. DividendsTypeOK /\ JournalKept /\ DueKept /\ [DividendsNext]_dividendVars => DueKept'
  BY ManualAwayStep, ChargedStep, WithinStep, OwedStep DEF DueKept
<1>3. DividendsTypeOK /\ DueKept => DueIsPayable
  <2> SUFFICES ASSUME DividendsTypeOK, DueKept PROVE DueIsPayable
    OBVIOUS
  <2>1. batches \in Seq(Batch) /\ expenses \in Seq(Expense)
    BY DEF DividendsTypeOK, JournalTypeOK
  <2>2. DebitOf(batches, Payable) \in Int /\ Due(expenses) \in Int
    BY <2>1, DebitOfInt, ChargeDueTyped
  <2>3. LedgerBalance(Payable) = -DebitOf(batches, Payable)
    BY BalanceIsDebit, ClosingAssumption DEF Natural, DebitPositive
  <2>4. LedgerBalance(Payable) = Due(expenses)
    BY <2>2, <2>3 DEF DueKept, Owed
  <2>5. Due(expenses) = SumFunction([e \in DOMAIN expenses |-> expenses[e].recognised - expenses[e].paid])
    BY DEF Due, ChargeDue
  <2>6. \A e \in DOMAIN expenses : ~expenses[e].edited => expenses[e].paid <= expenses[e].recognised
    BY DEF DueKept, AllWithin, PaidWithin
  <2> QED
    BY <2>4, <2>5, <2>6 DEF DueIsPayable
<1> QED
  BY <1>1, <1>2, <1>3, JournalIsKept, PTL DEF DividendsSpec


-----------------------------------------------------------------------------
(* What is due on parts *)

\* A debt to a party, by its account.
PartDue(row, a) == IF DividendPayable[<<row.profit.currency, row.party>>] = a THEN row.left ELSE 0
PartsDue(rows, a) == SumFunction([d \in DOMAIN rows |-> PartDue(rows[d], a)])

LEMMA PartDueTyped ==
  ASSUME NEW rows \in Seq(Part), NEW a
  PROVE  /\ IsFiniteSet(DOMAIN rows)
         /\ \A d \in DOMAIN rows : PartDue(rows[d], a) \in Int
         /\ [d \in DOMAIN rows |-> PartDue(rows[d], a)] \in [DOMAIN rows -> Int]
         /\ PartsDue(rows, a) \in Int
<1>1. IsFiniteSet(DOMAIN rows)
  BY PositionsFinite
<1>2. \A row \in Part : PartDue(row, a) \in Int
  BY DEF PartDue, Part
<1>3. \A d \in DOMAIN rows : PartDue(rows[d], a) \in Int
  BY <1>2
<1>4. [d \in DOMAIN rows |-> PartDue(rows[d], a)] \in [DOMAIN rows -> Int]
  BY <1>3
<1>5. PartsDue(rows, a) \in Int
  BY <1>1, <1>4, SumInt DEF PartsDue
<1> QED
  BY <1>1, <1>3, <1>4, <1>5

\* The parts that the property sums are those due on the account: it is the
\* account of one party in one currency.
LEMMA PartsDueIs ==
  ASSUME DividendsTypeOK, NEW c \in Currencies, NEW s \in Parties
  PROVE  SumFunction([d \in {d \in DOMAIN parts : parts[d].party = s /\ parts[d].profit.currency = c} |->
                          parts[d].left])
            = PartsDue(parts, DividendPayable[<<c, s>>])
<1> DEFINE T == {d \in DOMAIN parts : parts[d].party = s /\ parts[d].profit.currency = c}
           a == DividendPayable[<<c, s>>]
           f == [d \in DOMAIN parts |-> PartDue(parts[d], a)]
           g == [d \in T |-> parts[d].left]
<1>0. parts \in Seq(Part)
  BY DEF DividendsTypeOK
<1>1. ASSUME NEW d \in DOMAIN parts
      PROVE  DividendPayable[<<parts[d].profit.currency, parts[d].party>>] = a
                <=> parts[d].profit.currency = c /\ parts[d].party = s
  <2>1. <<parts[d].profit.currency, parts[d].party>> \in Currencies \X Parties /\ <<c, s>> \in Currencies \X Parties
    BY PartRow
  <2>2. DividendPayable[<<parts[d].profit.currency, parts[d].party>>] = a
           => <<parts[d].profit.currency, parts[d].party>> = <<c, s>>
    BY <2>1, CounterpartAssumption
  <2>3. <<parts[d].profit.currency, parts[d].party>> = <<c, s>>
           <=> parts[d].profit.currency = c /\ parts[d].party = s
    OBVIOUS
  <2> QED
    BY <2>2, <2>3
<1> HIDE DEF a
<1>2. T \in SUBSET DOMAIN parts /\ \A d \in DOMAIN parts \ T : f[d] = 0
  BY <1>1 DEF PartDue
<1>3. Restrict(f, T) = g
  BY <1>1 DEF PartDue, Restrict
<1>4. IsFiniteSet(DOMAIN parts) /\ f \in [DOMAIN parts -> Int]
  BY <1>0, PartDueTyped
<1>5. SumFunction(f) = SumFunction(Restrict(f, T))
  <2> HIDE DEF f, T
  <2> QED
    BY <1>2, <1>4, SumBeyond
<1>6. PartsDue(parts, a) = SumFunction(f)
  BY DEF PartsDue
<1>7. PartsDue(parts, a) = SumFunction(g)
  <2> HIDE DEF f, g, T
  <2> QED
    BY <1>3, <1>5, <1>6
<1> QED
  BY <1>7 DEF a

\* A sum over four numbers more.
LEMMA SumFourMore ==
  ASSUME NEW n \in Nat, NEW f \in [1 .. n + 4 -> Int]
  PROVE  SumFunction(f) = SumFunction(Restrict(f, 1 .. n)) + (((f[n + 1] + f[n + 2]) + f[n + 3]) + f[n + 4])
<1> DEFINE S == 1 .. n + 4
           A == 1 .. n + 3
           B == 1 .. n + 2
           C == 1 .. n + 1
           D == 1 .. n
<1>1. IsFiniteSet(S) /\ f \in [S -> Int]
  BY FS_Interval
<1>2. /\ A = S \ {n + 4} /\ B = A \ {n + 3} /\ C = B \ {n + 2} /\ D = C \ {n + 1}
      /\ A \in SUBSET S /\ B \in SUBSET S /\ C \in SUBSET S /\ D \in SUBSET S
      /\ n + 4 \in S /\ n + 3 \in A /\ n + 2 \in B /\ n + 1 \in C
  OBVIOUS
<1>3. f[n + 1] \in Int /\ f[n + 2] \in Int /\ f[n + 3] \in Int /\ f[n + 4] \in Int
  OBVIOUS
<1> HIDE DEF S, A, B, C, D
<1>4. SumFunction(f) = f[n + 4] + SumFunction(Restrict(f, A))
  BY <1>1, <1>2, SumPoint
<1>5. SumFunction(Restrict(f, A)) = f[n + 3] + SumFunction(Restrict(f, B))
  BY <1>1, <1>2, SumWithout
<1>6. SumFunction(Restrict(f, B)) = f[n + 2] + SumFunction(Restrict(f, C))
  BY <1>1, <1>2, SumWithout
<1>7. SumFunction(Restrict(f, C)) = f[n + 1] + SumFunction(Restrict(f, D))
  BY <1>1, <1>2, SumWithout
<1>8. SumFunction(Restrict(f, D)) \in Int
  BY <1>1, <1>2, SumOver
<1>9. SumFunction(f) = SumFunction(Restrict(f, D)) + (((f[n + 1] + f[n + 2]) + f[n + 3]) + f[n + 4])
  BY <1>3, <1>4, <1>5, <1>6, <1>7, <1>8
<1> QED
  BY <1>9 DEF D

LEMMA PartsDueChanged ==
  ASSUME NEW rows \in Seq(Part), NEW new \in Seq(Part), DOMAIN new = DOMAIN rows, NEW a,
         NEW d \in DOMAIN rows, \A c \in DOMAIN rows : c # d => new[c] = rows[c]
  PROVE  PartsDue(new, a) = PartsDue(rows, a) + (PartDue(new[d], a) - PartDue(rows[d], a))
<1> DEFINE O == DOMAIN rows
           f == [c \in O |-> PartDue(rows[c], a)]
           g == [c \in O |-> PartDue(new[c], a)]
<1>1. IsFiniteSet(O) /\ f \in [O -> Int] /\ g \in [O -> Int]
  BY PartDueTyped
<1>2. f[d] = PartDue(rows[d], a) /\ g[d] = PartDue(new[d], a) /\ \A c \in O \ {d} : g[c] = f[c]
  OBVIOUS
<1>3. SumFunction(g) = SumFunction(f) + (g[d] - f[d])
  <2> HIDE DEF f, g
  <2> QED
    BY <1>1, <1>2, SumChange
<1>4. PartsDue(rows, a) = SumFunction(f) /\ PartsDue(new, a) = SumFunction(g)
  BY DEF PartsDue
<1> QED
  BY <1>2, <1>3, <1>4

LEMMA PartsDueAppended ==
  ASSUME NEW rows \in Seq(Part), NEW row \in Part, NEW a
  PROVE  PartsDue(Append(rows, row), a) = PartsDue(rows, a) + PartDue(row, a)
<1>0. PICK new : new = Append(rows, row)
  OBVIOUS
<1> DEFINE O == DOMAIN rows
           n == Len(rows) + 1
           f == [d \in O |-> PartDue(rows[d], a)]
           g == [d \in DOMAIN new |-> PartDue(new[d], a)]
<1>1. /\ new \in Seq(Part) /\ DOMAIN new = O \cup {n} /\ n \notin O
      /\ \A d \in O : new[d] = rows[d]
      /\ new[n] = row
  BY <1>0
<1>2. IsFiniteSet(O) /\ g \in [O \cup {n} -> Int]
  BY <1>1, PartDueTyped
<1>3. g[n] = PartDue(row, a) /\ Restrict(g, O) = f
  BY <1>1 DEF Restrict
<1>4. SumFunction(g) = SumFunction(Restrict(g, O)) + g[n]
  <2> HIDE DEF f, g, n, O
  <2> QED
    BY <1>1, <1>2, SumMore
<1>5. PartsDue(new, a) = PartsDue(rows, a) + PartDue(row, a)
  BY <1>3, <1>4 DEF PartsDue
<1> QED
  BY <1>0, <1>5

\* new has the n rows of old and then four more.
JoinsFour(old, more, new, n) ==
    /\ DOMAIN old = 1 .. n /\ DOMAIN new = 1 .. n + 4
    /\ \A d \in 1 .. n : new[d] = old[d]
    /\ new[n + 1] = more[1] /\ new[n + 2] = more[2]
    /\ new[n + 3] = more[3] /\ new[n + 4] = more[4]

LEMMA FourAdded ==
  ASSUME NEW S, NEW old \in Seq(S), NEW more \in Seq(S), Len(more) = 4
  PROVE  \E n \in Nat : JoinsFour(old, more, old \o more, n)
<1>1. PICK n \in Nat : n = Len(old)
  BY LenProperties
<1>2. PICK new : new = old \o more
  OBVIOUS
<1>3. /\ new \in Seq(S) /\ Len(new) = n + 4
      /\ \A i \in 1 .. n + 4 : new[i] = IF i <= n THEN old[i] ELSE more[i - n]
  <2>1. /\ old \o more \in Seq(S) /\ Len(old \o more) = Len(old) + Len(more)
        /\ \A i \in 1 .. Len(old) + Len(more) :
              (old \o more)[i] = IF i <= Len(old) THEN old[i] ELSE more[i - Len(old)]
    BY ConcatProperties
  <2>2. Len(more) = 4
    OBVIOUS
  <2> QED
    BY <1>1, <1>2, <2>1, <2>2, Zenon
<1>4. DOMAIN old = 1 .. n /\ DOMAIN new = 1 .. n + 4
  BY <1>1, <1>3, LenProperties
<1>5. \A i \in 1 .. n : new[i] = old[i]
  BY <1>3
<1>6. \A k \in 1 .. 4 : new[n + k] = more[k]
  BY <1>3
<1>7. new[n + 1] = more[1] /\ new[n + 2] = more[2] /\ new[n + 3] = more[3] /\ new[n + 4] = more[4]
  BY <1>6
<1>8. JoinsFour(old, more, new, n)
  BY <1>4, <1>5, <1>7, Zenon DEF JoinsFour
<1> QED
  BY <1>2, <1>8, Zenon

\* What is due on four parts that are added.
FourDue(more, a) ==
    ((PartDue(more[1], a) + PartDue(more[2], a)) + PartDue(more[3], a)) + PartDue(more[4], a)

LEMMA PartsDueAdded ==
  ASSUME NEW rows \in Seq(Part), NEW more \in Seq(Part), Len(more) = 4, NEW a
  PROVE  PartsDue(rows \o more, a) = PartsDue(rows, a) + FourDue(more, a)
<1>1. PICK new : new = rows \o more /\ new \in Seq(Part)
  <2>1. rows \o more \in Seq(Part)
    OBVIOUS
  <2> QED
    BY <2>1
<1>2. PICK n \in Nat : JoinsFour(rows, more, new, n)
  BY <1>1, FourAdded
<1>3. /\ DOMAIN rows = 1 .. n /\ DOMAIN new = 1 .. n + 4
      /\ \A d \in 1 .. n : new[d] = rows[d]
      /\ new[n + 1] = more[1] /\ new[n + 2] = more[2] /\ new[n + 3] = more[3] /\ new[n + 4] = more[4]
  BY <1>2 DEF JoinsFour
<1> DEFINE f == [d \in 1 .. n |-> PartDue(rows[d], a)]
           g == [d \in 1 .. n + 4 |-> PartDue(new[d], a)]
<1>4. g \in [1 .. n + 4 -> Int]
  BY <1>1, <1>3, PartDueTyped
<1>5. Restrict(g, 1 .. n) = f
  BY <1>3 DEF Restrict
<1>6. /\ g[n + 1] = PartDue(more[1], a) /\ g[n + 2] = PartDue(more[2], a)
      /\ g[n + 3] = PartDue(more[3], a) /\ g[n + 4] = PartDue(more[4], a)
  BY <1>3
<1>7. PartsDue(rows, a) = SumFunction(f) /\ PartsDue(new, a) = SumFunction(g)
  BY <1>3 DEF PartsDue
<1> HIDE DEF f, g
<1>8. SumFunction(g) = SumFunction(Restrict(g, 1 .. n)) + (((g[n + 1] + g[n + 2]) + g[n + 3]) + g[n + 4])
  BY <1>4, SumFourMore
<1>9. PartsDue(new, a) = PartsDue(rows, a) + FourDue(more, a)
  BY <1>5, <1>6, <1>7, <1>8 DEF FourDue
<1> QED
  BY <1>1, <1>9

\* What is left of a part that is approved is its share.
LEMMA NewPartDue ==
  ASSUME DividendsTypeOK, NEW q \in profits, NEW amount \in Int, NEW i \in 1 .. 4, NEW a
  PROVE  PartDue(NewParts(q, amount)[i], a)
            = IF DividendPayable[<<q.currency, Shareholders[i]>>] = a THEN Share(amount, i) ELSE 0
<1> DEFINE part == NewParts(q, amount)[i]
<1>1. part.profit = q /\ part.party = Shareholders[i] /\ part.left = Share(amount, i)
  <2>1. NewPart(part, q, amount, i)
    BY NewPartTyped, Zenon
  <2> HIDE DEF part
  <2> QED
    BY <2>1, Zenon DEF NewPart
<1> HIDE DEF part
<1>2. PartDue(part, a) = IF DividendPayable[<<q.currency, Shareholders[i]>>] = a THEN Share(amount, i) ELSE 0
  BY <1>1 DEF PartDue
<1> QED
  BY <1>2 DEF part


\* What is due on parts and the debit of the account cancel.
Indebted(a) == DebitOf(batches, a) + PartsDue(parts, a) = 0

LEMMA IndebtedOn ==
  ASSUME DividendsTypeOK, DividendsTypeOK', NEW a, Indebted(a), NEW x \in Int, NEW y \in Int, x + y = 0,
         DebitOf(batches', a) = DebitOf(batches, a) + x, PartsDue(parts', a) = PartsDue(parts, a) + y
  PROVE  Indebted(a)'
<1>1. batches \in Seq(Batch) /\ parts \in Seq(Part)
  BY DEF DividendsTypeOK, JournalTypeOK
<1>2. DebitOf(batches, a) \in Int /\ PartsDue(parts, a) \in Int
  BY <1>1, DebitOfInt, PartDueTyped
<1>3. DebitOf(batches', a) + PartsDue(parts', a) = 0
  BY <1>2 DEF Indebted
<1> QED
  BY <1>3 DEF Indebted, PartsDue, DebitOf, Bookings

\* A step that leaves the parts, and books nothing or a row that leaves the
\* account.
LEMMA IndebtedSame ==
  ASSUME DividendsTypeOK, DividendsTypeOK', NEW a, Indebted(a),
         DebitOf(batches', a) = DebitOf(batches, a), parts' = parts
  PROVE  Indebted(a)'
<1>1. batches \in Seq(Batch) /\ parts \in Seq(Part)
  BY DEF DividendsTypeOK, JournalTypeOK
<1>2. DebitOf(batches, a) \in Int /\ PartsDue(parts, a) \in Int
  BY <1>1, DebitOfInt, PartDueTyped
<1>3. PartsDue(parts', a) = PartsDue(parts, a)
  BY DEF PartsDue
<1> QED
  BY <1>2, <1>3, IndebtedOn

LEMMA IndebtedRow ==
  ASSUME DividendsTypeOK, DividendsTypeOK', Table(batches), NEW a, Indebted(a),
         NEW row, BooksRow(row), Untouched(row.lines, a), parts' = parts
  PROVE  Indebted(a)'
<1>1. batches \in Seq(Batch) /\ JournalTypeOK
  BY DEF DividendsTypeOK, JournalTypeOK
<1>2. DebitOf(batches', a) = DebitOf(batches, a) + 0 /\ DebitOf(batches, a) \in Int
  BY <1>1, RowDebits, DebitUntouched, DebitOfInt
<1>3. DebitOf(batches', a) = DebitOf(batches, a)
  BY <1>2
<1> QED
  BY <1>3, IndebtedSame

\* The account of a debt to a party, and no other.
DebtAccount(a) == Nature[a] = "LIABILITY" /\ a # Payable

\* What the services book leaves it, but for the approval and the settlement
\* of parts.
LEMMA ChargesLeaveDebts ==
  ASSUME NEW a, DebtAccount(a)
  PROVE  /\ \A e, day, n : Untouched(ChargeRow(e, day, n).lines, a)
         /\ \A token, n : \A c \in CashAccounts : Untouched(PaymentRow(token, c, n).lines, a)
<1>1. Charge # a /\ Payable # a /\ \A c \in CashAccounts : c # a
  BY ClosingAssumption DEF DebtAccount
<1>2. \A n : Untouched(ChargeLines(n), a)
  BY <1>1 DEF Untouched, ChargeLines
<1>3. \A n : \A c \in CashAccounts : Untouched(PaidFrom(c, n), a)
  BY <1>1 DEF Untouched, PaidFrom
<1>4. /\ \A e, day, n : ChargeRow(e, day, n).lines = ChargeLines(n)
      /\ \A token, c, n : PaymentRow(token, c, n).lines = PaidFrom(c, n)
  BY DEF ChargeRow, EventRow, PaymentRow, NewBatch
<1> QED
  BY <1>2, <1>3, <1>4

LEMMA IndebtedByApproval ==
  ASSUME DividendsTypeOK, DividendsTypeOK', JournalKept, NEW a, DebtAccount(a), Indebted(a),
         NEW u \in Users, NEW q \in profits, NEW amount \in Offers, ApproveDistributions(u, q, amount)
  PROVE  Indebted(a)'
<1>1. amount \in Int /\ q \in Profit /\ Nature[a] = "LIABILITY" /\ Table(batches) /\ parts \in Seq(Part)
  BY OffersTyped DEF DividendsTypeOK, DebtAccount, JournalKept
<1> DEFINE D(i) == DebitTo(ApprovalLines(q, amount, i), a)
           P(i) == PartDue(NewParts(q, amount)[i], a)
<1>2. \A i \in 1 .. 4 : D(i) \in Int /\ P(i) \in Int /\ D(i) + P(i) = 0
  <2>1. \A i \in 1 .. 4 : Share(amount, i) \in Int
    BY <1>1, ShareTyped
  <2>2. \A i \in 1 .. 4 : D(i) = IF DividendPayable[<<q.currency, Shareholders[i]>>] = a THEN -Share(amount, i) ELSE 0
    BY <1>1, ApprovalDebits
  <2>3. \A i \in 1 .. 4 : P(i) = IF DividendPayable[<<q.currency, Shareholders[i]>>] = a THEN Share(amount, i) ELSE 0
    BY <1>1, NewPartDue
  <2> HIDE DEF D, P
  <2> QED
    BY <2>1, <2>2, <2>3
<1>3. DebitOf(batches', a) = DebitOf(batches, a) + (((D(1) + D(2)) + D(3)) + D(4))
  <2>1. Follows(batches, batches', ApprovedLines(q, amount))
    BY <1>1, ApprovalFollows DEF JournalKept, Scoped
  <2>2. DebitTo(ApprovedLines(q, amount), a) = ((D(1) + D(2)) + D(3)) + D(4)
    BY <1>1, ApprovedDebits
  <2> QED
    BY <2>1, <2>2 DEF Follows
<1>4. PartsDue(parts', a) = PartsDue(parts, a) + (((P(1) + P(2)) + P(3)) + P(4))
  <2>1. NewParts(q, amount) \in Seq(Part) /\ Len(NewParts(q, amount)) = 4
    BY <1>1, NewPartsTyped
  <2>2. PICK more \in Seq(Part) : more = NewParts(q, amount)
    BY <2>1
  <2>3. parts' = parts \o more /\ Len(more) = 4
    BY <2>1, <2>2 DEF ApproveDistributions
  <2>4. PartsDue(parts', a) = PartsDue(parts, a) + FourDue(more, a)
    BY <1>1, <2>3, PartsDueAdded
  <2> QED
    BY <2>2, <2>4 DEF FourDue
<1> HIDE DEF D, P
<1>5. /\ ((D(1) + D(2)) + D(3)) + D(4) \in Int /\ ((P(1) + P(2)) + P(3)) + P(4) \in Int
      /\ (((D(1) + D(2)) + D(3)) + D(4)) + (((P(1) + P(2)) + P(3)) + P(4)) = 0
  <2>1. /\ D(1) \in Int /\ P(1) \in Int /\ D(1) + P(1) = 0 /\ D(2) \in Int /\ P(2) \in Int /\ D(2) + P(2) = 0
        /\ D(3) \in Int /\ P(3) \in Int /\ D(3) + P(3) = 0 /\ D(4) \in Int /\ P(4) \in Int /\ D(4) + P(4) = 0
    BY <1>2
  <2> QED
    BY <2>1
<1> QED
  BY <1>3, <1>4, <1>5, IndebtedOn

LEMMA IndebtedBySettling ==
  ASSUME DividendsTypeOK, DividendsTypeOK', JournalKept, NEW a, DebtAccount(a), Indebted(a),
         NEW d \in DOMAIN parts, NEW event \in Events, NEW account \in FinAccounts,
         NEW status \in {"PAID", "REINVESTED"}, Settle(d, event, account, status), Nature[account] # "LIABILITY"
  PROVE  Indebted(a)'
<1>0. JournalTypeOK /\ Table(batches) /\ parts \in Seq(Part) /\ parts[d] \in Part
  BY PartRow DEF DividendsTypeOK, JournalKept
<1> DEFINE n == parts[d].amount
           x == IF PayableOf(d) = a THEN n ELSE 0
<1>1. n \in Int \ {0} /\ parts[d].paid = 0 /\ parts[d].booked # 0 /\ PayableOf(d) \in FinAccounts
  BY PartRow, PayableOfPart DEF Settle
<1>2. DebitOf(batches', a) = DebitOf(batches, a) + x
  <2>1. account # a
    BY DEF DebtAccount
  <2>2. DebitTo(From(PayableOf(d), account, n), a) = (IF PayableOf(d) = a THEN n ELSE 0) + (IF account = a THEN -n ELSE 0)
    BY <1>1, FromDebits
  <2>3. DebitTo(From(PayableOf(d), account, n), a) = x
    BY <1>1, <2>1, <2>2
  <2>4. SettlementRow(d, event, account).lines = From(PayableOf(d), account, n)
    BY DEF SettlementRow, EventRow, NewBatch
  <2>5. DebitOf(batches', a) = DebitOf(batches, a) + DebitTo(SettlementRow(d, event, account).lines, a)
    BY <1>0, SettleBooks, RowDebits
  <2> HIDE DEF x, n
  <2> QED
    BY <2>3, <2>4, <2>5
<1>3. PICK k \in Nat : k = Len(batches) + 1 /\ k # 0
  <2>1. Len(batches) \in Nat
    BY <1>0 DEF JournalTypeOK
  <2> QED
    BY <2>1
<1>4. /\ parts' \in Seq(Part) /\ DOMAIN parts' = DOMAIN parts
      /\ \A c \in DOMAIN parts : c # d => parts'[c] = parts[c]
      /\ parts'[d] = Settled(parts[d], status, k)
  <2>1. parts' = [parts EXCEPT ![d] = Settled(parts[d], status, k)]
    BY <1>0, <1>3 DEF Settle, Settled
  <2>2. parts' \in Seq(Part)
    BY DEF DividendsTypeOK
  <2> QED
    BY <1>0, <2>1, <2>2
<1>5. parts[d].left \in Int /\ PartDue(parts'[d], a) = PartDue(parts[d], a) - x
  <2>1. /\ parts'[d].left = parts[d].left - n /\ parts'[d].profit = parts[d].profit
        /\ parts'[d].party = parts[d].party /\ parts[d].left \in Int
    <3> DEFINE row == Settled(parts[d], status, k)
    <3>1. row.left = parts[d].left - n /\ row.profit = parts[d].profit /\ row.party = parts[d].party
      <4>1. status \in PartStatuses
        BY DEF PartStatuses
      <4> QED
        BY <1>0, <4>1, SettledRow
    <3>2. parts'[d] = row
      BY <1>4
    <3> HIDE DEF row, n
    <3> QED
      BY <3>1, <3>2, PartRow
  <2> HIDE DEF n
  <2> QED
    BY <1>1, <2>1 DEF PartDue, PayableOf
<1>6. PartDue(parts[d], a) \in Int
  BY <1>5 DEF PartDue
<1>7. PartsDue(parts', a) = PartsDue(parts, a) + (PartDue(parts'[d], a) - PartDue(parts[d], a))
  BY <1>0, <1>4, PartsDueChanged
<1>8. PICK y \in Int : y = x
  BY <1>1
<1>9. PartsDue(parts', a) = PartsDue(parts, a) + (-y)
  <2>1. PartsDue(parts, a) \in Int
    BY <1>0, PartDueTyped
  <2> HIDE DEF x, n
  <2> QED
    BY <1>5, <1>6, <1>7, <1>8, <2>1
<1>10. -y \in Int /\ y + (-y) = 0
  OBVIOUS
<1> HIDE DEF x
<1> QED
  BY <1>2, <1>8, <1>9, <1>10, IndebtedOn

\* A form of a part leaves what is left of it.
LEMMA IndebtedByForms ==
  ASSUME DividendsTypeOK, DividendsTypeOK', NEW a, Indebted(a), PartFormStep
  PROVE  Indebted(a)'
<1>1. /\ parts \in Seq(Part) /\ parts' \in Seq(Part) /\ batches \in Seq(Batch) /\ batches' = batches
  BY PartFormQuiet DEF DividendsTypeOK, JournalTypeOK
<1>2. PartsDue(parts, a) \in Int /\ DebitOf(batches, a) \in Int
  BY <1>1, PartDueTyped, DebitOfInt
<1>3. ASSUME NEW row, FormAddsPart(row) PROVE PartsDue(parts', a) = PartsDue(parts, a)
  <2>1. row \in Part /\ parts' = Append(parts, row) /\ PartDue(row, a) = 0
    BY <1>3 DEF FormAddsPart, PartDue
  <2>2. PartsDue(parts', a) = PartsDue(parts, a) + PartDue(row, a)
    <3>1. PartsDue(Append(parts, row), a) = PartsDue(parts, a) + PartDue(row, a)
      BY <1>1, <2>1, PartsDueAppended, Zenon
    <3> QED
      BY <2>1, <3>1, Zenon
  <2> QED
    BY <1>2, <2>1, <2>2
<1>4. ASSUME NEW d \in DOMAIN parts, NEW row, FormWritesPart(d, row)
      PROVE  PartsDue(parts', a) = PartsDue(parts, a)
  <2>1. PartDue(row, a) = PartDue(parts[d], a) /\ PartDue(parts[d], a) \in Int
    BY <1>1, <1>4, PartDueTyped DEF FormWritesPart, PartDue
  <2>2. /\ DOMAIN parts' = DOMAIN parts /\ parts'[d] = row
        /\ \A c \in DOMAIN parts : c # d => parts'[c] = parts[c]
    BY <1>4, AfterPartWritten
  <2>3. PartsDue(parts', a) = PartsDue(parts, a) + (PartDue(parts'[d], a) - PartDue(parts[d], a))
    BY <1>1, <2>2, PartsDueChanged
  <2> QED
    BY <1>2, <2>1, <2>2, <2>3
<1>5. PartsDue(parts', a) = PartsDue(parts, a)
  BY <1>3, <1>4, PartFormRow
<1>6. 0 \in Int /\ PartsDue(parts', a) = PartsDue(parts, a) + 0 /\ DebitOf(batches', a) = DebitOf(batches, a) + 0
  BY <1>1, <1>2, <1>5
<1> QED
  BY <1>6, IndebtedOn

LEMMA IndebtedStep ==
  ASSUME DividendsTypeOK, JournalKept, NEW a, DebtAccount(a), ManualAway(a), Indebted(a),
         [DividendsNext]_dividendVars
  PROVE  Indebted(a)'
<1>0. DividendsTypeOK' /\ JournalTypeOK /\ JournalTypeOK' /\ Table(batches)
  BY DividendsTypeStep DEF DividendsTypeOK, JournalKept
<1>1. ASSUME UNCHANGED <<batches, parts>> PROVE Indebted(a)'
  BY <1>0, <1>1, IndebtedSame
<1>2. CASE JournalStep
  <2>1. DebitOf(batches', a) = DebitOf(batches, a)
    BY <1>0, <1>2, JournalAway DEF JournalStep
  <2> QED
    BY <1>0, <1>2, <2>1, IndebtedSame DEF JournalStep
<1>3. CASE ExpenseStep
  <2>0. parts' = parts
    BY <1>3 DEF ExpenseStep
  <2>1. ASSUME NEW u \in Users, NEW form \in ChargeForms, CreateExpense(u, form) PROVE Indebted(a)'
    BY <1>1, <2>0, <2>1 DEF CreateExpense, journalVars
  <2>2. ASSUME NEW u \in Users, NEW e \in DOMAIN expenses, RejectExpense(u, e) PROVE Indebted(a)'
    BY <1>1, <2>0, <2>2 DEF RejectExpense, journalVars
  <2>3. ASSUME NEW u \in Users, NEW e \in DOMAIN expenses, ApproveExpense(u, e) PROVE Indebted(a)'
    BY <1>0, <2>0, <2>3, ApproveExpenseBooks, ChargesLeaveDebts, IndebtedRow
  <2>4. ASSUME NEW u \in Users, NEW e \in DOMAIN expenses, NEW c \in CashAccounts,
               NEW amount \in Counts, NEW token \in Tokens, PayExpense(u, e, c, amount, token)
        PROVE  Indebted(a)'
    BY <1>0, <2>0, <2>4, PayExpenseBooks, ChargesLeaveDebts, IndebtedRow
  <2> QED
    BY <1>3, <2>1, <2>2, <2>3, <2>4 DEF ExpenseStep
<1>4. CASE CountStep
  BY <1>1, <1>4 DEF CountStep, RecordCount, journalVars
<1>5. CASE CloseStep
  <2>1. PICK u \in Users, p \in periods : ClosePeriod(u, p) /\ parts' = parts
    BY <1>5 DEF CloseStep
  <2>2. CASE Accrues(p)
    BY <1>0, <2>1, <2>2, AccrualBooks, ChargesLeaveDebts, IndebtedRow
  <2>3. CASE ~ Accrues(p)
    BY <1>1, <2>1, <2>3 DEF ClosePeriod, Accrue
  <2> QED
    BY <2>2, <2>3
<1>6. CASE ProposeStep
  BY <1>1, <1>6 DEF ProposeStep, ProposeDistribution, closingVars, journalVars
<1>7. CASE ApproveStep
  BY <1>0, <1>7, IndebtedByApproval DEF ApproveStep
<1>8. CASE SettleStep
  BY <1>0, <1>8, IndebtedBySettling DEF SettleStep
<1>9. CASE ExpenseFormStep \/ AmountFormStep
  BY <1>1, <1>9, ExpenseFormQuiet, AmountFormQuiet
<1>10. CASE PartFormStep
  BY <1>0, <1>10, IndebtedByForms
<1> QED
  BY <1>2, <1>3, <1>4, <1>5, <1>6, <1>7, <1>8, <1>9, <1>10, Steps

\* What is left of a part that no form wrote: all of it until it is settled.
LeftRight(row) ==
    row.edited \/ row.left = IF row.booked # 0 /\ row.paid = 0 THEN row.amount ELSE 0
AllLeft == \A d \in DOMAIN parts : LeftRight(parts[d])

LEMMA LeftStep ==
  ASSUME DividendsTypeOK, AllLeft, [DividendsNext]_dividendVars
  PROVE  AllLeft'
<1>1. ASSUME parts' = parts PROVE AllLeft'
  BY <1>1 DEF AllLeft
<1>2. CASE ApproveStep
  <2>1. PICK q \in profits, amount \in Int :
            /\ \A d \in DOMAIN parts : parts'[d] = parts[d]
            /\ \A d \in DOMAIN parts' : d \notin DOMAIN parts => NewPart(parts'[d], q, amount, d - Len(parts))
    BY <1>2, AfterApproval
  <2>2. \A row, i : NewPart(row, q, amount, i) => LeftRight(row)
    BY DEF NewPart, LeftRight
  <2>3. \A d \in DOMAIN parts' : LeftRight(parts'[d])
    BY <2>1, <2>2 DEF AllLeft
  <2> QED
    BY <2>3 DEF AllLeft
<1>3. CASE SettleStep
  <2>1. PICK d \in DOMAIN parts, status \in {"PAID", "REINVESTED"}, n \in Nat \ {0} :
            /\ parts[d].paid = 0 /\ parts[d].booked # 0
            /\ DOMAIN parts' = DOMAIN parts
            /\ \A c \in DOMAIN parts : c # d => parts'[c] = parts[c]
            /\ parts'[d] = Settled(parts[d], status, n)
    BY <1>3, AfterSettling
  <2>2. LeftRight(parts'[d])
    <3> DEFINE row == Settled(parts[d], status, n)
    <3>1. /\ row.paid = n /\ row.edited = parts[d].edited /\ row.left = parts[d].left - parts[d].amount
      <4>1. status \in PartStatuses
        BY DEF PartStatuses
      <4> QED
        BY <4>1, PartRow, SettledRow
    <3>2. parts'[d] = row
      BY <2>1
    <3> HIDE DEF row
    <3>3. parts[d].edited \/ parts[d].left = parts[d].amount
      BY <2>1 DEF AllLeft, LeftRight
    <3> QED
      BY <3>1, <3>2, <3>3, PartRow DEF LeftRight
  <2> QED
    BY <2>1, <2>2 DEF AllLeft
<1>4. CASE PartFormStep
  <2>1. ASSUME NEW row, FormAddsPart(row) PROVE AllLeft'
    <3>1. LeftRight(row)
      BY <2>1 DEF FormAddsPart, LeftRight
    <3> QED
      BY <2>1, <3>1, AfterPartAdded DEF AllLeft
  <2>2. ASSUME NEW d \in DOMAIN parts, NEW row, FormWritesPart(d, row) PROVE AllLeft'
    <3>1. LeftRight(row)
      BY <2>2 DEF FormWritesPart, LeftRight
    <3> QED
      BY <2>2, <3>1, AfterPartWritten DEF AllLeft
  <2> QED
    BY <1>4, <2>1, <2>2, PartFormRow
<1>5. CASE ProposeStep \/ AmountFormStep
  BY <1>1, <1>5, AfterProposal, AmountFormQuiet
<1> QED
  BY <1>1, <1>2, <1>3, <1>4, <1>5, SharesAlone, Steps

\* The accounts of the debts to parties.
DebtsAway == \A x \in Currencies \X Parties : DraftsAway(DividendPayable[x])
DebtsKept == \A x \in Currencies \X Parties : ManualAway(DividendPayable[x]) /\ Indebted(DividendPayable[x])

\* As long as no draft has a line on the account of a debt to a shareholder,
\* its balance is what was approved of the shareholder's parts in its currency
\* and not settled, whatever the forms of the administration site make of
\* them.  A part that no form wrote is settled once, to one destination.
THEOREM PartsStayPayable ==
  ASSUME DebtsAway
  PROVE  DividendsSpec => []DuePartsArePayable
<1>0. \A x \in Currencies \X Parties : DividendPayable[x] \in FinAccounts /\ DebtAccount(DividendPayable[x])
  BY DividendsAssumption, CounterpartAssumption DEF DebtAccount
<1>1. DividendsInit => DebtsKept /\ AllLeft
  <2> SUFFICES ASSUME DividendsInit PROVE DebtsKept /\ AllLeft
    OBVIOUS
  <2>1. batches = <<>> /\ parts = <<>>
    BY DEF DividendsInit, ClosingInit, JournalInit
  <2>2. \A a : ManualAway(a)
    BY <2>1 DEF ManualAway
  <2>3. \A a : DebitOf(batches, a) = 0
    <3>1. Bookings(batches) = {}
      BY <2>1 DEF Bookings
    <3> QED
      BY <3>1, SumEmpty DEF DebitOf
  <2>4. \A a : PartsDue(parts, a) = 0
    BY <2>1, SumEmpty DEF PartsDue
  <2> QED
    BY <2>1, <2>2, <2>3, <2>4 DEF DebtsKept, Indebted, AllLeft
<1>2. DividendsTypeOK /\ AllLeft /\ [DividendsNext]_dividendVars => AllLeft'
  BY LeftStep
<1>3. DividendsTypeOK /\ JournalKept /\ DebtsKept /\ [DividendsNext]_dividendVars => DebtsKept'
  <2> SUFFICES ASSUME DividendsTypeOK, JournalKept, DebtsKept, [DividendsNext]_dividendVars PROVE DebtsKept'
    OBVIOUS
  <2>1. \A x \in Currencies \X Parties : ManualAway(DividendPayable[x])'
    BY ManualAwayStep DEF DebtsAway, DebtsKept
  <2>2. \A x \in Currencies \X Parties : Indebted(DividendPayable[x])'
    BY <1>0, IndebtedStep DEF DebtsKept
  <2> QED
    BY <2>1, <2>2 DEF DebtsKept
<1>4. DividendsTypeOK /\ DebtsKept /\ AllLeft => DuePartsArePayable
  <2> SUFFICES ASSUME DividendsTypeOK, DebtsKept, AllLeft PROVE DuePartsArePayable
    OBVIOUS
  <2>1. ASSUME NEW c \in Currencies, NEW s \in Parties
        PROVE  LedgerBalance(DividendPayable[<<c, s>>]) = PartsDue(parts, DividendPayable[<<c, s>>])
    <3> DEFINE a == DividendPayable[<<c, s>>]
    <3>1. batches \in Seq(Batch) /\ parts \in Seq(Part)
      BY DEF DividendsTypeOK, JournalTypeOK
    <3>2. DebitOf(batches, a) \in Int /\ PartsDue(parts, a) \in Int
      BY <3>1, DebitOfInt, PartDueTyped
    <3>3. Nature[a] = "LIABILITY" /\ Indebted(a)
      BY <1>0 DEF DebtsKept, DebtAccount
    <3> HIDE DEF a
    <3>4. LedgerBalance(a) = -DebitOf(batches, a)
      BY <3>3, BalanceIsDebit DEF Natural, DebitPositive
    <3>5. LedgerBalance(a) = PartsDue(parts, a)
      BY <3>2, <3>3, <3>4 DEF Indebted
    <3> QED
      BY <3>5 DEF a
  <2>2. \A d \in DOMAIN parts :
           ~parts[d].edited =>
               parts[d].left = IF parts[d].booked # 0 /\ parts[d].paid = 0 THEN parts[d].amount ELSE 0
    BY DEF AllLeft, LeftRight
  <2> QED
    BY <2>1, <2>2, PartsDueIs DEF DuePartsArePayable
<1> QED
  BY <1>1, <1>2, <1>3, <1>4, JournalIsKept, PTL DEF DividendsSpec

=============================================================================
