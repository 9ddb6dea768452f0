-------------------------- MODULE Operations_proofs -------------------------
(***************************************************************************)
(* Theorems about CashDesk and Operations, for every set of accounts,      *)
(* staff and amounts.  Those about CashDesk come first: a service of       *)
(* Operations moves cash as one of CashDesk does, and their lemmas on      *)
(* posted rows serve both.                                                 *)
(***************************************************************************)
EXTENDS Operations, Sums, TLAPS

-----------------------------------------------------------------------------
(* Type correctness *)

\* A posted movement keeps balances and ledgers in their types.
LEMMA PostTypeOK ==
  ASSUME CashTypeOK, NEW a \in Accounts, NEW delta \in Int, NEW kind \in MovementKinds,
         NEW op \in Nat, Post(a, delta, kind, op)
  PROVE  /\ balance' \in [Accounts -> Nat]
         /\ log' \in [Accounts -> Seq(Movement)]
<1> DEFINE row == [delta |-> delta, kind |-> kind, after |-> balance[a] + delta,
                   op |-> op, day |-> today]
<1>1. balance[a] + delta \in Nat
  BY DEF CashTypeOK, Post
<1>2. row \in Movement
  BY <1>1 DEF CashTypeOK, Movement
<1>3. balance' = [balance EXCEPT ![a] = balance[a] + delta]
  BY DEF Post
<1>4. balance' \in [Accounts -> Nat]
  BY <1>1, <1>3 DEF CashTypeOK
<1>5. log' = [log EXCEPT ![a] = Append(log[a], row)]
  BY DEF Post
<1> HIDE DEF row
<1>6. Append(log[a], row) \in Seq(Movement)
  BY <1>2 DEF CashTypeOK
<1> QED
  BY <1>4, <1>5, <1>6 DEF CashTypeOK

\* The same for the reserve.
LEMMA GlobalTypeOK ==
  ASSUME CashTypeOK, NEW delta \in Int, NEW kind \in GlobalKinds,
         NEW a \in Accounts \cup {NoAccount}, NEW h \in Nat,
         ApplyGlobalMovement(delta, kind, a, h)
  PROVE  /\ reserve' \in Nat
         /\ reserveLog' \in Seq(GlobalMovement)
<1> DEFINE row == [delta |-> delta, kind |-> kind, after |-> reserve + delta,
                   account |-> a, handover |-> h]
<1>1. reserve + delta \in Nat
  BY DEF CashTypeOK, ApplyGlobalMovement
<1>2. row \in GlobalMovement
  BY <1>1 DEF GlobalMovement
<1>3. reserveLog' = Append(reserveLog, row)
  BY DEF ApplyGlobalMovement
<1> HIDE DEF row
<1> QED
  BY <1>1, <1>2, <1>3 DEF CashTypeOK, ApplyGlobalMovement

LEMMA HandoverRow ==
  ASSUME CashTypeOK, NEW h \in DOMAIN handovers
  PROVE  /\ h \in 1 .. Len(handovers) /\ h \in Nat
         /\ handovers[h] \in Handover
         /\ handovers[h].account \in Accounts
         /\ handovers[h].amount \in Int /\ -handovers[h].amount \in Int
<1>1. h \in 1 .. Len(handovers) /\ h \in Nat /\ handovers[h] \in Handover
  BY DEF CashTypeOK
<1> QED
  BY <1>1 DEF Handover

LEMMA CashTypeInit == CashInit => CashTypeOK
BY CashAssumption DEF CashInit, CashTypeOK, AbsentClosure, Closure, Days, ClosureDays

\* The services keep every row and column of the cash tables in its type;
\* no balance and no reserve goes below zero.
LEMMA CashTypeStep == CashTypeOK /\ [CashNext]_cashVars => CashTypeOK'
<1> SUFFICES ASSUME CashTypeOK, [CashNext]_cashVars PROVE CashTypeOK'
  OBVIOUS
<1> USE CashAssumption
<1>1. ASSUME NEW u \in Users, NEW amount \in Amounts, NEW direction \in {"IN", "OUT"},
             AdjustGlobalCash(u, amount, direction)
      PROVE  CashTypeOK'
  <2>1. amount \in Int /\ -amount \in Int
    OBVIOUS
  <2>2. reserve' \in Nat /\ reserveLog' \in Seq(GlobalMovement)
    BY <1>1, <2>1, GlobalTypeOK DEF AdjustGlobalCash, GlobalKinds
  <2> QED
    BY <1>1, <2>2 DEF CashTypeOK, AdjustGlobalCash, accountVars
<1>2. ASSUME NEW u \in Users, NEW a \in Accounts, NEW amount \in Amounts,
             AllocateCash(u, a, amount)
      PROVE  CashTypeOK'
  <2>1. amount \in Int /\ -amount \in Int
    OBVIOUS
  <2>2. reserve' \in Nat /\ reserveLog' \in Seq(GlobalMovement)
    BY <1>2, <2>1, GlobalTypeOK DEF AllocateCash, GlobalKinds
  <2>3. balance' \in [Accounts -> Nat] /\ log' \in [Accounts -> Seq(Movement)]
    BY <1>2, <2>1, PostTypeOK DEF AllocateCash, ApplyMovement, MovementKinds
  <2> QED
    BY <1>2, <2>2, <2>3 DEF CashTypeOK, AllocateCash
<1>3. ASSUME NEW u \in Users, NEW a \in Accounts, NEW amount \in Amounts,
             HandoverCash(u, a, amount)
      PROVE  CashTypeOK'
  <2> DEFINE row == [account |-> a, amount |-> amount, by |-> u, status |-> "PENDING"]
  <2>1. row \in Handover
    BY DEF Handover
  <2>2. handovers' = Append(handovers, row)
    BY <1>3 DEF HandoverCash
  <2> HIDE DEF row
  <2>3. handovers' \in Seq(Handover)
    BY <2>1, <2>2 DEF CashTypeOK
  <2> QED
    BY <1>3, <2>3 DEF CashTypeOK, HandoverCash, accountVars, reserveVars
<1>4. ASSUME NEW u \in Users, NEW h \in DOMAIN handovers, ConfirmHandover(u, h)
      PROVE  CashTypeOK'
  <2> DEFINE row == handovers[h]
  <2>1. row \in Handover /\ h \in Nat
    BY HandoverRow
  <2>2. row.account \in Accounts /\ row.amount \in Int /\ -row.amount \in Int
    BY HandoverRow
  <2>3. reserve' \in Nat /\ reserveLog' \in Seq(GlobalMovement)
    BY <1>4, <2>1, <2>2, GlobalTypeOK DEF ConfirmHandover, GlobalKinds
  <2>4. balance' \in [Accounts -> Nat] /\ log' \in [Accounts -> Seq(Movement)]
    BY <1>4, <2>2, PostTypeOK DEF ConfirmHandover, ApplyMovement, MovementKinds
  <2>5. handovers' \in Seq(Handover)
    <3>1. [row EXCEPT !.status = "CONFIRMED"] \in Handover
      BY <2>1 DEF Handover
    <3>2. handovers' = [handovers EXCEPT ![h] = [row EXCEPT !.status = "CONFIRMED"]]
      BY <1>4 DEF ConfirmHandover
    <3> QED
      BY <3>1, <3>2 DEF CashTypeOK
  <2> QED
    BY <1>4, <2>3, <2>4, <2>5 DEF CashTypeOK, ConfirmHandover
<1>5. ASSUME NEW u \in Users, NEW a \in Accounts, NEW d \in Days, NEW declared \in Counts,
             NEW justified \in BOOLEAN, CloseCashDay(u, a, d, declared, justified)
      PROVE  CashTypeOK'
  <2>1. declared \in Nat /\ declared - balance[a] \in Int
    BY DEF CashTypeOK
  <2>2. balance' \in [Accounts -> Nat] /\ log' \in [Accounts -> Seq(Movement)]
    <3>1. CASE declared - balance[a] = 0
      BY <1>5, <3>1 DEF CloseCashDay, CashTypeOK
    <3>2. CASE declared - balance[a] # 0
      BY <1>5, <2>1, <3>2, PostTypeOK DEF CloseCashDay, MovementKinds
    <3> QED
      BY <3>1, <3>2
  <2>3. closures' \in [Accounts -> [ClosureDays -> Closure]]
    <3>1. d \in ClosureDays /\ d + 1 \in ClosureDays
      BY DEF Days, ClosureDays
    <3>2. closures[a][d] \in Closure /\ closures[a][d + 1] \in Closure /\ balance[a] \in Nat
      BY <3>1 DEF CashTypeOK
    <3>3. ClosedRow(a, d, declared) \in Closure
      BY <2>1, <3>2 DEF ClosedRow, Closure
    <3>4. FollowingRow(a, d, declared) \in Closure
      BY <2>1, <3>2 DEF FollowingRow, OpenClosure, Closure
    <3> QED
      BY <1>5, <3>1, <3>3, <3>4 DEF CashTypeOK, CloseCashDay
  <2> QED
    BY <1>5, <2>2, <2>3 DEF CashTypeOK, CloseCashDay, reserveVars
<1>6. ASSUME NEW a \in Accounts, NEW form \in AccountForms, EditAccount(a, form)
      PROVE  CashTypeOK'
  BY <1>6 DEF CashTypeOK, EditAccount, reserveVars
<1>7. CASE EditReserve
  BY <1>7 DEF CashTypeOK, EditReserve, accountVars
<1>8. CASE NextDay
  BY <1>8 DEF CashTypeOK, NextDay, accountVars, reserveVars, Days
<1>9. CASE UNCHANGED cashVars
  BY <1>9 DEF CashTypeOK, cashVars, accountVars, reserveVars
<1> QED
  BY <1>1, <1>2, <1>3, <1>4, <1>5, <1>6, <1>7, <1>8, <1>9 DEF CashNext

\* Type correctness: the services keep every column of the cash tables in its
\* type; in particular no balance and no reserve ever goes below zero.
THEOREM CashTypeCorrect == CashSpec => []CashTypeOK
BY CashTypeInit, CashTypeStep, PTL DEF CashSpec

-----------------------------------------------------------------------------
(* Reconciliation *)

\* Appending a row that carries on from the balance keeps a ledger reconciled.
LEMMA AppendReconciles ==
  ASSUME NEW R, NEW rows \in Seq(R), NEW row \in R, NEW total,
         Reconciles(rows, total), row.after = row.delta + total
  PROVE  Reconciles(Append(rows, row), row.after)
<1> DEFINE longer == Append(rows, row)
<1>1. Len(rows) \in Nat /\ Len(longer) = Len(rows) + 1
  OBVIOUS
<1>2. \A i \in 1 .. Len(rows) : longer[i] = rows[i]
  OBVIOUS
<1>3. longer[Len(rows) + 1] = row
  OBVIOUS
<1>4. longer # <<>> /\ (Len(rows) = 0 <=> rows = <<>>)
  OBVIOUS
<1> HIDE DEF longer
<1>5. row.after = LastAfter(longer)
  BY <1>1, <1>3, <1>4 DEF LastAfter
<1>6. ASSUME NEW i \in 1 .. Len(longer)
      PROVE  longer[i].after = longer[i].delta + (IF i = 1 THEN 0 ELSE longer[i - 1].after)
  <2>1. CASE i \in 1 .. Len(rows)
    <3>1. i # 1 => i - 1 \in 1 .. Len(rows)
      BY <1>1, <2>1
    <3> QED
      BY <1>2, <2>1, <3>1 DEF Reconciles
  <2>2. CASE i = Len(rows) + 1 /\ Len(rows) = 0
    BY <1>3, <1>4, <2>2 DEF Reconciles, LastAfter
  <2>3. CASE i = Len(rows) + 1 /\ Len(rows) # 0
    <3>1. i # 1 /\ i - 1 = Len(rows) /\ i - 1 \in 1 .. Len(rows)
      BY <1>1, <2>3
    <3>2. longer[i - 1].after = total
      BY <1>2, <1>4, <2>3, <3>1 DEF Reconciles, LastAfter
    <3> QED
      BY <1>3, <2>3, <3>1, <3>2
  <2> QED
    BY <1>1, <2>1, <2>2, <2>3
<1> QED
  BY <1>5, <1>6 DEF Reconciles, longer

\* A posted movement keeps every account reconciled.
LEMMA PostReconciles ==
  ASSUME CashTypeOK, \A b \in Accounts : Reconciles(log[b], balance[b]),
         NEW a \in Accounts, NEW delta \in Int, NEW kind \in MovementKinds, NEW op \in Nat,
         Post(a, delta, kind, op)
  PROVE  \A b \in Accounts : Reconciles(log'[b], balance'[b])
<1> DEFINE row == [delta |-> delta, kind |-> kind, after |-> balance[a] + delta,
                   op |-> op, day |-> today]
<1>1. balance[a] \in Int /\ balance[a] + delta \in Nat
  BY DEF CashTypeOK, Post
<1>2. row \in Movement
  BY <1>1 DEF CashTypeOK, Movement
<1>3. row.after = row.delta + balance[a] /\ row.after = balance[a] + delta
  BY <1>1
<1>4. balance' = [balance EXCEPT ![a] = row.after]
  BY DEF Post
<1>5. log' = [log EXCEPT ![a] = Append(log[a], row)]
  BY DEF Post
<1> HIDE DEF row
<1>6. Reconciles(Append(log[a], row), row.after)
  BY <1>2, <1>3, AppendReconciles DEF CashTypeOK
<1> QED
  BY <1>4, <1>5, <1>6 DEF CashTypeOK

\* The same for the reserve.
LEMMA GlobalReconciles ==
  ASSUME CashTypeOK, Reconciles(reserveLog, reserve), NEW delta \in Int,
         NEW kind \in GlobalKinds, NEW a \in Accounts \cup {NoAccount}, NEW h \in Nat,
         ApplyGlobalMovement(delta, kind, a, h)
  PROVE  Reconciles(reserveLog', reserve')
<1> DEFINE row == [delta |-> delta, kind |-> kind, after |-> reserve + delta,
                   account |-> a, handover |-> h]
<1>1. reserve \in Int /\ reserve + delta \in Nat
  BY DEF CashTypeOK, ApplyGlobalMovement
<1>2. row \in GlobalMovement
  BY <1>1 DEF GlobalMovement
<1>3. row.after = row.delta + reserve /\ reserve' = row.after
  BY <1>1 DEF ApplyGlobalMovement
<1>4. reserveLog' = Append(reserveLog, row)
  BY DEF ApplyGlobalMovement
<1> HIDE DEF row
<1> QED
  BY <1>2, <1>3, <1>4, AppendReconciles DEF CashTypeOK

LEMMA ReconcileInit == CashInit => LedgersReconcile
BY DEF CashInit, LedgersReconcile, Reconciles, LastAfter

LEMMA ReconcileStep ==
  CashTypeOK /\ LedgersReconcile /\ [CashNext]_cashVars => LedgersReconcile'
<1> SUFFICES ASSUME CashTypeOK, LedgersReconcile, [CashNext]_cashVars PROVE LedgersReconcile'
  OBVIOUS
<1> DEFINE Tills == \A b \in Accounts : Reconciles(log[b], balance[b])
           Pot == Reconciles(reserveLog, reserve)
<1> USE CashAssumption
<1>1. Pot /\ Tills
  BY DEF LedgersReconcile
<1>2. UNCHANGED <<reserve, reserveLog>> => Pot'
  BY <1>1
<1>3. UNCHANGED <<balance, log>> => Tills'
  BY <1>1
<1>4. ASSUME NEW u \in Users, NEW amount \in Amounts, NEW direction \in {"IN", "OUT"},
             AdjustGlobalCash(u, amount, direction)
      PROVE  Pot' /\ Tills'
  <2>1. amount \in Int /\ -amount \in Int
    OBVIOUS
  <2> QED
    BY <1>1, <1>3, <1>4, <2>1, GlobalReconciles DEF AdjustGlobalCash, GlobalKinds, accountVars
<1>5. ASSUME NEW u \in Users, NEW a \in Accounts, NEW amount \in Amounts,
             AllocateCash(u, a, amount)
      PROVE  Pot' /\ Tills'
  <2>1. amount \in Int /\ -amount \in Int
    OBVIOUS
  <2>2. Pot'
    BY <1>1, <1>5, <2>1, GlobalReconciles DEF AllocateCash, GlobalKinds
  <2>3. Tills'
    BY <1>1, <1>5, <2>1, PostReconciles DEF AllocateCash, ApplyMovement, MovementKinds
  <2> QED
    BY <2>2, <2>3
<1>6. ASSUME NEW u \in Users, NEW h \in DOMAIN handovers, ConfirmHandover(u, h)
      PROVE  Pot' /\ Tills'
  <2> DEFINE row == handovers[h]
  <2>1. row.account \in Accounts /\ row.amount \in Int /\ -row.amount \in Int /\ h \in Nat
    BY HandoverRow
  <2>2. Pot'
    BY <1>1, <1>6, <2>1, GlobalReconciles DEF ConfirmHandover, GlobalKinds
  <2>3. Tills'
    BY <1>1, <1>6, <2>1, PostReconciles DEF ConfirmHandover, ApplyMovement, MovementKinds
  <2> QED
    BY <2>2, <2>3
<1>7. ASSUME NEW u \in Users, NEW a \in Accounts, NEW d \in Days, NEW declared \in Counts,
             NEW justified \in BOOLEAN, CloseCashDay(u, a, d, declared, justified)
      PROVE  Pot' /\ Tills'
  <2>1. declared - balance[a] \in Int
    BY DEF CashTypeOK
  <2>2. Pot'
    BY <1>2, <1>7 DEF CloseCashDay, reserveVars
  <2>3. Tills'
    <3>1. CASE declared - balance[a] = 0
      BY <1>3, <1>7, <3>1 DEF CloseCashDay
    <3>2. CASE declared - balance[a] # 0
      BY <1>1, <1>7, <2>1, <3>2, PostReconciles DEF CloseCashDay, MovementKinds
    <3> QED
      BY <3>1, <3>2
  <2> QED
    BY <2>2, <2>3
<1>8. ASSUME \/ \E u \in Users, a \in Accounts, amount \in Amounts : HandoverCash(u, a, amount)
             \/ \E a \in Accounts, form \in AccountForms : EditAccount(a, form)
             \/ EditReserve
             \/ NextDay
             \/ UNCHANGED cashVars
      PROVE  Pot' /\ Tills'
  <2>1. UNCHANGED <<reserve, reserveLog, balance, log>>
    BY <1>8 DEF HandoverCash, EditAccount, EditReserve, NextDay, cashVars, accountVars, reserveVars
  <2> QED
    BY <1>2, <1>3, <2>1
<1>9. Pot' /\ Tills'
  <2> HIDE DEF Pot, Tills
  <2> QED
    BY <1>4, <1>5, <1>6, <1>7, <1>8 DEF CashNext
<1> QED
  BY <1>9 DEF LedgersReconcile

\* What reconcile_cash verifies holds after every service call: each row of the
\* two ledgers carries on from the row before it, and the balance of every
\* account and of the reserve is the one its last row states.
THEOREM LedgersAlwaysReconcile == CashSpec => []LedgersReconcile
BY CashTypeInit, CashTypeStep, ReconcileInit, ReconcileStep, PTL DEF CashSpec

-----------------------------------------------------------------------------
(* Handovers *)

\* A row added to the reserve's ledger for something that is no handover
\* leaves every handover as it was received.
LEMMA OtherReserveRow ==
  ASSUME CashTypeOK, HandoversReceivedOnce, NEW delta \in Int, NEW kind \in GlobalKinds,
         NEW a \in Accounts \cup {NoAccount}, ApplyGlobalMovement(delta, kind, a, 0),
         UNCHANGED handovers
  PROVE  HandoversReceivedOnce'
<1> DEFINE row == [delta |-> delta, kind |-> kind, after |-> reserve + delta,
                   account |-> a, handover |-> 0]
<1>1. reserveLog' = Append(reserveLog, row) /\ row.handover = 0
  BY DEF ApplyGlobalMovement
<1> HIDE DEF row
<1>2. /\ Len(reserveLog) \in Nat /\ Len(handovers) \in Nat
      /\ Len(reserveLog') = Len(reserveLog) + 1
      /\ \A i \in 1 .. Len(reserveLog) : reserveLog'[i] = reserveLog[i]
      /\ reserveLog'[Len(reserveLog) + 1] = row
  BY <1>1 DEF CashTypeOK
<1>3. \A i \in 1 .. Len(reserveLog') : reserveLog'[i].handover \in 0 .. Len(handovers)
  BY <1>1, <1>2 DEF HandoversReceivedOnce
<1>4. ASSUME NEW h \in 1 .. Len(handovers) PROVE Receipts(h)' = Receipts(h)
  BY <1>1, <1>2 DEF Receipts
<1> QED
  BY <1>2, <1>3, <1>4 DEF HandoversReceivedOnce

LEMMA HandoverInit == CashInit => HandoversReceivedOnce
BY DEF CashInit, HandoversReceivedOnce

LEMMA HandoverStep ==
  CashTypeOK /\ HandoversReceivedOnce /\ [CashNext]_cashVars => HandoversReceivedOnce'
<1> SUFFICES ASSUME CashTypeOK, HandoversReceivedOnce, [CashNext]_cashVars
             PROVE  HandoversReceivedOnce'
  OBVIOUS
<1> USE CashAssumption
<1>1. ASSUME NEW u \in Users, NEW amount \in Amounts, NEW direction \in {"IN", "OUT"},
             AdjustGlobalCash(u, amount, direction)
      PROVE  HandoversReceivedOnce'
  <2>1. amount \in Int /\ -amount \in Int
    OBVIOUS
  <2> QED
    BY <1>1, <2>1, OtherReserveRow DEF AdjustGlobalCash, GlobalKinds
<1>2. ASSUME NEW u \in Users, NEW a \in Accounts, NEW amount \in Amounts,
             AllocateCash(u, a, amount)
      PROVE  HandoversReceivedOnce'
  <2>1. amount \in Int /\ -amount \in Int
    OBVIOUS
  <2> QED
    BY <1>2, <2>1, OtherReserveRow DEF AllocateCash, GlobalKinds
<1>3. ASSUME NEW u \in Users, NEW a \in Accounts, NEW amount \in Amounts,
             HandoverCash(u, a, amount)
      PROVE  HandoversReceivedOnce'
  <2> DEFINE row == [account |-> a, amount |-> amount, by |-> u, status |-> "PENDING"]
  <2>1. handovers' = Append(handovers, row) /\ row.status = "PENDING" /\ UNCHANGED reserveLog
    BY <1>3 DEF HandoverCash, reserveVars
  <2> HIDE DEF row
  <2>2. /\ Len(handovers) \in Nat /\ Len(reserveLog) \in Nat
        /\ Len(handovers') = Len(handovers) + 1
        /\ \A h \in 1 .. Len(handovers) : handovers'[h] = handovers[h]
        /\ handovers'[Len(handovers) + 1] = row
    BY <2>1 DEF CashTypeOK
  <2>3. \A h : Receipts(h)' = Receipts(h)
    BY <2>1 DEF Receipts
  <2>4. Receipts(Len(handovers) + 1) = {}
    BY <2>2 DEF HandoversReceivedOnce, Receipts
  <2>5. \A i \in 1 .. Len(reserveLog') : reserveLog'[i].handover \in 0 .. Len(handovers')
    BY <2>1, <2>2 DEF HandoversReceivedOnce
  <2> QED
    BY <2>1, <2>2, <2>3, <2>4, <2>5 DEF HandoversReceivedOnce
<1>4. ASSUME NEW u \in Users, NEW h \in DOMAIN handovers, ConfirmHandover(u, h)
      PROVE  HandoversReceivedOnce'
  <2> DEFINE settled == [handovers[h] EXCEPT !.status = "CONFIRMED"]
             row == [delta |-> handovers[h].amount, kind |-> "HANDOVER",
                     after |-> reserve + handovers[h].amount,
                     account |-> handovers[h].account, handover |-> h]
  <2>1. h \in 1 .. Len(handovers) /\ handovers[h] \in Handover
    BY HandoverRow
  <2>2. /\ settled.status = "CONFIRMED"
        /\ settled.amount = handovers[h].amount /\ settled.account = handovers[h].account
    BY <2>1 DEF Handover
  <2>3. handovers' = [handovers EXCEPT ![h] = settled]
    BY <1>4 DEF ConfirmHandover
  <2>4. /\ reserveLog' = Append(reserveLog, row)
        /\ row.handover = h /\ row.delta = handovers[h].amount
        /\ row.account = handovers[h].account
    BY <1>4 DEF ConfirmHandover, ApplyGlobalMovement
  <2> HIDE DEF row, settled
  <2>5. /\ Len(reserveLog) \in Nat /\ Len(handovers) \in Nat
        /\ Len(reserveLog') = Len(reserveLog) + 1
        /\ \A i \in 1 .. Len(reserveLog) : reserveLog'[i] = reserveLog[i]
        /\ reserveLog'[Len(reserveLog) + 1] = row
    BY <2>4 DEF CashTypeOK
  <2>6. /\ Len(handovers') = Len(handovers)
        /\ \A g \in 1 .. Len(handovers) : g # h => handovers'[g] = handovers[g]
        /\ handovers'[h] = settled
    BY <2>1, <2>3 DEF CashTypeOK
  <2>7. Receipts(h) = {}
    BY <1>4, <2>1 DEF HandoversReceivedOnce, ConfirmHandover
  <2>8. Receipts(h)' = {Len(reserveLog) + 1}
    BY <2>4, <2>5, <2>7 DEF Receipts
  <2>9. \A g \in 1 .. Len(handovers) : g # h => Receipts(g)' = Receipts(g)
    BY <2>4, <2>5 DEF Receipts
  <2>10. \A i \in 1 .. Len(reserveLog') : reserveLog'[i].handover \in 0 .. Len(handovers')
    BY <2>1, <2>4, <2>5, <2>6 DEF HandoversReceivedOnce
  <2>11. ASSUME NEW g \in 1 .. Len(handovers), g # h
         PROVE  IF handovers'[g].status = "PENDING"
                THEN Receipts(g)' = {}
                ELSE \E i \in 1 .. Len(reserveLog') :
                        /\ Receipts(g)' = {i}
                        /\ reserveLog'[i].delta = handovers'[g].amount
                        /\ reserveLog'[i].account = handovers'[g].account
    BY <2>5, <2>6, <2>9, <2>11 DEF HandoversReceivedOnce
  <2>12. \E i \in 1 .. Len(reserveLog') :
            /\ Receipts(h)' = {i}
            /\ reserveLog'[i].delta = handovers'[h].amount
            /\ reserveLog'[i].account = handovers'[h].account
    BY <2>2, <2>4, <2>5, <2>6, <2>8
  <2> QED
    BY <2>2, <2>6, <2>10, <2>11, <2>12 DEF HandoversReceivedOnce
<1>5. ASSUME UNCHANGED <<reserveLog, handovers>> PROVE HandoversReceivedOnce'
  BY <1>5 DEF HandoversReceivedOnce, Receipts
<1>6. ASSUME NEW u \in Users, NEW a \in Accounts, NEW d \in Days, NEW declared \in Counts,
             NEW justified \in BOOLEAN, CloseCashDay(u, a, d, declared, justified)
      PROVE  HandoversReceivedOnce'
  BY <1>5, <1>6 DEF CloseCashDay, reserveVars
<1>7. ASSUME \/ \E a \in Accounts, form \in AccountForms : EditAccount(a, form)
             \/ EditReserve
             \/ NextDay
             \/ UNCHANGED cashVars
      PROVE  HandoversReceivedOnce'
  BY <1>5, <1>7 DEF EditAccount, EditReserve, NextDay, cashVars, reserveVars
<1> QED
  BY <1>1, <1>2, <1>3, <1>4, <1>6, <1>7 DEF CashNext

\* Whatever is asked and confirmed in whatever order, a handover enters the
\* reserve's ledger exactly once, as announced, and only when confirmed.
THEOREM HandoversAreReceivedOnce == CashSpec => []HandoversReceivedOnce
BY CashTypeInit, CashTypeStep, HandoverInit, HandoverStep, PTL DEF CashSpec

-----------------------------------------------------------------------------
(* Closures and locks *)

\* A day that is closed stays as it was counted, whatever is done afterwards.
THEOREM ClosedDaysStayFinal == CashSpec => ClosedDaysFinal
<1> DEFINE Final == \A a \in Accounts, d \in ClosureDays :
                       closures[a][d].status = "CLOSED" => closures'[a][d] = closures[a][d]
<1>1. CashTypeOK /\ [CashNext]_cashVars => [Final]_cashVars
  <2> SUFFICES ASSUME CashTypeOK, [CashNext]_cashVars PROVE Final
    OBVIOUS
  <2>1. ASSUME NEW u \in Users, NEW b \in Accounts, NEW e \in Days, NEW declared \in Counts,
               NEW justified \in BOOLEAN, CloseCashDay(u, b, e, declared, justified),
               NEW a \in Accounts, NEW d \in ClosureDays, closures[a][d].status = "CLOSED"
        PROVE  closures'[a][d] = closures[a][d]
    <3> DEFINE rows == [closures[b] EXCEPT ![e] = ClosedRow(b, e, declared),
                                           ![e + 1] = FollowingRow(b, e, declared)]
    <3>1. closures' = [closures EXCEPT ![b] = rows] /\ closures[b][e].status # "CLOSED"
      BY <2>1 DEF CloseCashDay
    <3>2. a # b => closures'[a][d] = closures[a][d]
      BY <3>1 DEF CashTypeOK
    <3>3. ASSUME a = b PROVE closures'[a][d] = closures[a][d]
      <4>1. d # e
        BY <2>1, <3>1, <3>3
      <4>2. closures'[a] = rows
        BY <3>1, <3>3 DEF CashTypeOK
      <4>3. closures[b] \in [ClosureDays -> Closure]
        BY DEF CashTypeOK
      <4>4. d # e + 1 => rows[d] = closures[b][d]
        BY <4>1, <4>3
      <4>5. d = e + 1 => rows[d] = FollowingRow(b, e, declared)
        BY <4>1, <4>3
      <4>6. d = e + 1 => FollowingRow(b, e, declared) = closures[b][d]
        BY <2>1, <3>3 DEF FollowingRow
      <4> QED
        BY <3>3, <4>2, <4>4, <4>5, <4>6
    <3> QED
      BY <3>2, <3>3
  <2>2. (\E u \in Users, a \in Accounts, d \in Days, declared \in Counts, justified \in BOOLEAN :
             CloseCashDay(u, a, d, declared, justified)) \/ UNCHANGED closures
    BY DEF CashNext, AdjustGlobalCash, AllocateCash, HandoverCash, ConfirmHandover, EditAccount,
           EditReserve, NextDay, cashVars
  <2> QED
    BY <2>1, <2>2
<1> QED
  BY <1>1, CashTypeInit, CashTypeStep, PTL DEF CashSpec, ClosedDaysFinal

-----------------------------------------------------------------------------
(* Refinement *)

LEMMA VaultInit == CashInit => Vault!Init
BY DEF CashInit, Vault!Init

\* Every service call is a step of the vault or leaves it alone.
LEMMA VaultStep == CashTypeOK /\ CashTypeOK' /\ [CashNext]_cashVars => [Vault!Next]_(Vault!vaultVars)
<1> USE CashAssumption
<1> SUFFICES ASSUME CashTypeOK, CashTypeOK', [CashNext]_cashVars
             PROVE  Vault!Next \/ UNCHANGED <<reserve, balance>>
  BY DEF Vault!vaultVars
<1>1. ASSUME NEW u \in Users, NEW amount \in Amounts, NEW direction \in {"IN", "OUT"},
             AdjustGlobalCash(u, amount, direction)
      PROVE  Vault!Next
  BY <1>1 DEF AdjustGlobalCash, accountVars, CashTypeOK, Vault!Next, Vault!CapitalMove
<1>2. ASSUME NEW a \in Accounts, NEW n \in Int,
             reserve' = reserve - n, balance' = [balance EXCEPT ![a] = @ + n],
             reserve - n >= 0, balance[a] + n >= 0
      PROVE  Vault!Next
  <2>1. n \in -balance[a] .. reserve
    BY <1>2 DEF CashTypeOK
  <2> QED
    BY <1>2, <2>1 DEF Vault!Next, Vault!Carry
<1>3. ASSUME NEW u \in Users, NEW a \in Accounts, NEW amount \in Amounts,
             AllocateCash(u, a, amount)
      PROVE  Vault!Next
  <2>1. amount \in Int /\ reserve' = reserve - amount /\ reserve - amount >= 0
    BY <1>3 DEF AllocateCash, ApplyGlobalMovement, CashTypeOK
  <2>2. balance' = [balance EXCEPT ![a] = @ + amount] /\ balance[a] + amount >= 0
    BY <1>3 DEF AllocateCash, ApplyMovement, Post
  <2> QED
    BY <1>2, <2>1, <2>2
<1>4. ASSUME NEW u \in Users, NEW h \in DOMAIN handovers, ConfirmHandover(u, h)
      PROVE  Vault!Next
  <2> DEFINE a == handovers[h].account
             n == -handovers[h].amount
  <2>1. a \in Accounts /\ n \in Int /\ handovers[h].amount \in Int
    BY HandoverRow
  <2>2. reserve' = reserve - n /\ reserve - n >= 0
    BY <1>4, <2>1 DEF ConfirmHandover, ApplyGlobalMovement, CashTypeOK
  <2>3. balance' = [balance EXCEPT ![a] = @ + n] /\ balance[a] + n >= 0
    BY <1>4 DEF ConfirmHandover, ApplyMovement, Post
  <2> HIDE DEF a, n
  <2> QED
    BY <1>2, <2>1, <2>2, <2>3
<1>5. ASSUME NEW u \in Users, NEW a \in Accounts, NEW d \in Days, NEW declared \in Counts,
             NEW justified \in BOOLEAN, CloseCashDay(u, a, d, declared, justified)
      PROVE  Vault!Next \/ UNCHANGED <<reserve, balance>>
  <2>1. UNCHANGED reserve
    BY <1>5 DEF CloseCashDay, reserveVars
  <2>2. CASE declared - balance[a] = 0
    BY <1>5, <2>1, <2>2 DEF CloseCashDay
  <2>3. CASE declared - balance[a] # 0
    <3>1. balance' = [balance EXCEPT ![a] = @ + (declared - balance[a])]
      BY <1>5, <2>3 DEF CloseCashDay, Post
    <3>2. \A other \in Accounts \ {a} : balance'[other] = balance[other]
      BY <3>1 DEF CashTypeOK
    <3> QED
      BY <2>1, <3>2 DEF CashTypeOK, Vault!Next, Vault!Business
  <2> QED
    BY <2>2, <2>3
<1>6. ASSUME \/ \E u \in Users, a \in Accounts, amount \in Amounts : HandoverCash(u, a, amount)
             \/ \E a \in Accounts, form \in AccountForms : EditAccount(a, form)
             \/ EditReserve
             \/ NextDay
             \/ UNCHANGED cashVars
      PROVE  UNCHANGED <<reserve, balance>>
  BY <1>6 DEF HandoverCash, EditAccount, EditReserve, NextDay, cashVars, accountVars, reserveVars
<1> HIDE DEF Vault!Next
<1> QED
  BY <1>1, <1>3, <1>4, <1>5, <1>6 DEF CashNext

\* Capital moves in the reserve only, business moves one account only, and
\* cash carried between the reserve and an account is neither made nor lost.
THEOREM CashDeskImplementsVault == CashSpec => ImplementsVault
BY VaultInit, VaultStep, CashTypeInit, CashTypeStep, PTL DEF CashSpec, ImplementsVault, Vault!Spec

-----------------------------------------------------------------------------
(* Sums over the ledgers *)

\* What the rows at some positions of a ledger add up to when a row is
\* appended, which is at one of them or not.
LEMMA DeltaNext ==
  ASSUME NEW R, NEW rows \in Seq(R), \A i \in DOMAIN rows : rows[i].delta \in Int,
         NEW row, row.delta \in Int,
         NEW before \in SUBSET DOMAIN rows,
         NEW after, after = before \/ after = before \cup {Len(rows) + 1}
  PROVE  /\ DeltaSum(rows, before) \in Int
         /\ DeltaSum(Append(rows, row), after) =
                DeltaSum(rows, before) + (IF Len(rows) + 1 \in after THEN row.delta ELSE 0)
<1> DEFINE n == Len(rows)
           longer == Append(rows, row)
           f == [i \in before |-> rows[i].delta]
           g == [i \in after |-> longer[i].delta]
<1>1. n \in Nat /\ before \in SUBSET (1 .. n)
  OBVIOUS
<1>2. \A i \in 1 .. n : longer[i] = rows[i]
  OBVIOUS
<1>3. longer[n + 1] = row
  OBVIOUS
<1>4. DOMAIN rows = 1 .. n
  OBVIOUS
<1> HIDE DEF longer, n
<1>5. f \in [before -> Int] /\ g \in [after -> Int] /\ \A i \in before : g[i] = f[i]
  <2>1. \A i \in before : rows[i].delta \in Int /\ longer[i] = rows[i]
    BY <1>2, <1>4
  <2>2. longer[n + 1].delta \in Int
    BY <1>3
  <2>3. \A i \in after : i \in before \/ i = n + 1
    BY DEF n
  <2> QED
    BY <2>1, <2>2, <2>3
<1>6. n + 1 \in after => g[n + 1] = row.delta
  BY <1>3
<1> HIDE DEF f, g
<1>7. IsFiniteSet(before)
  <2>1. IsFiniteSet(1 .. n)
    BY <1>1, FS_Interval
  <2> QED
    BY <1>1, <2>1, FS_Subset
<1>8. SumFunction(f) \in Int
  BY <1>5, <1>7, SumInt
<1>9. SumFunction(g) = SumFunction(f) + (IF n + 1 \in after THEN g[n + 1] ELSE 0)
  <2>1. after = before \/ after = before \cup {n + 1}
    BY DEF n
  <2>2. n + 1 \notin before
    BY <1>1
  <2> QED
    BY <1>5, <1>7, <2>1, <2>2, SumNext
<1> QED
  BY <1>6, <1>8, <1>9 DEF DeltaSum, f, g, longer, n

\* The rows of an account's ledger that carry cash to it or from it, and those
\* that bring it to a count; the rows of the reserve's ledger for an account.
Carried(rows) == {i \in DOMAIN rows : rows[i].kind \in {"OPENING", "HANDOVER"}}
Counted(rows) == {i \in DOMAIN rows : rows[i].kind = "ADJUSTMENT" /\ rows[i].op = 0}
Drawn(rows, a) == {i \in DOMAIN rows : rows[i].account = a}

\* What a posted movement adds to these sums.
LEMMA PostSums ==
  ASSUME CashTypeOK, NEW a \in Accounts, NEW delta \in Int, NEW kind \in MovementKinds,
         NEW op \in Nat, Post(a, delta, kind, op), NEW b \in Accounts
  PROVE  /\ DeltaSum(log[b], Carried(log[b])) \in Int
         /\ DeltaSum(log[b], Counted(log[b])) \in Int
         /\ DeltaSum(log'[b], Carried(log'[b])) =
               DeltaSum(log[b], Carried(log[b]))
                 + (IF b = a /\ kind \in {"OPENING", "HANDOVER"} THEN delta ELSE 0)
         /\ DeltaSum(log'[b], Counted(log'[b])) =
               DeltaSum(log[b], Counted(log[b]))
                 + (IF b = a /\ kind = "ADJUSTMENT" /\ op = 0 THEN delta ELSE 0)
<1> DEFINE row == [delta |-> delta, kind |-> kind, after |-> balance[a] + delta,
                   op |-> op, day |-> today]
           rows == log[b]
           longer == Append(rows, row)
<1>1. rows \in Seq(Movement) /\ \A i \in DOMAIN rows : rows[i].delta \in Int
  <2>1. rows \in Seq(Movement)
    BY DEF CashTypeOK
  <2>2. \A i \in DOMAIN rows : rows[i] \in Movement
    BY <2>1
  <2> QED
    BY <2>1, <2>2 DEF Movement
<1>2. log'[b] = IF b = a THEN longer ELSE rows
  BY DEF Post, CashTypeOK
<1>3. row.delta = delta /\ row.kind = kind /\ row.op = op
  OBVIOUS
<1> HIDE DEF row
<1>4. /\ DOMAIN longer = DOMAIN rows \cup {Len(rows) + 1} /\ Len(rows) + 1 \notin DOMAIN rows
      /\ \A i \in DOMAIN rows : longer[i] = rows[i]
      /\ longer[Len(rows) + 1] = row
  BY <1>1
<1> HIDE DEF rows, longer
<1>5. /\ Carried(longer) = Carried(rows) \cup
            (IF kind \in {"OPENING", "HANDOVER"} THEN {Len(rows) + 1} ELSE {})
      /\ Carried(rows) \in SUBSET DOMAIN rows
      /\ Counted(longer) = Counted(rows) \cup
            (IF kind = "ADJUSTMENT" /\ op = 0 THEN {Len(rows) + 1} ELSE {})
      /\ Counted(rows) \in SUBSET DOMAIN rows
  BY <1>3, <1>4 DEF Carried, Counted
<1>6. /\ DeltaSum(rows, Carried(rows)) \in Int
      /\ DeltaSum(longer, Carried(longer)) = DeltaSum(rows, Carried(rows))
            + (IF kind \in {"OPENING", "HANDOVER"} THEN delta ELSE 0)
  <2>1. Carried(longer) = Carried(rows) \/ Carried(longer) = Carried(rows) \cup {Len(rows) + 1}
    BY <1>5
  <2>2. Len(rows) + 1 \in Carried(longer) <=> kind \in {"OPENING", "HANDOVER"}
    BY <1>4, <1>5
  <2>3. /\ DeltaSum(rows, Carried(rows)) \in Int
        /\ DeltaSum(longer, Carried(longer)) = DeltaSum(rows, Carried(rows))
              + (IF Len(rows) + 1 \in Carried(longer) THEN row.delta ELSE 0)
    BY <1>1, <1>3, <1>5, <2>1, DeltaNext DEF longer
  <2> QED
    BY <1>3, <2>2, <2>3
<1>7. /\ DeltaSum(rows, Counted(rows)) \in Int
      /\ DeltaSum(longer, Counted(longer)) = DeltaSum(rows, Counted(rows))
            + (IF kind = "ADJUSTMENT" /\ op = 0 THEN delta ELSE 0)
  <2>1. Counted(longer) = Counted(rows) \/ Counted(longer) = Counted(rows) \cup {Len(rows) + 1}
    BY <1>5
  <2>2. Len(rows) + 1 \in Counted(longer) <=> kind = "ADJUSTMENT" /\ op = 0
    BY <1>4, <1>5
  <2>3. /\ DeltaSum(rows, Counted(rows)) \in Int
        /\ DeltaSum(longer, Counted(longer)) = DeltaSum(rows, Counted(rows))
              + (IF Len(rows) + 1 \in Counted(longer) THEN row.delta ELSE 0)
    BY <1>1, <1>3, <1>5, <2>1, DeltaNext DEF longer
  <2> QED
    BY <1>3, <2>2, <2>3
<1> QED
  BY <1>2, <1>6, <1>7 DEF rows

\* The same for a movement of the reserve.
LEMMA GlobalSums ==
  ASSUME CashTypeOK, NEW delta \in Int, NEW kind \in GlobalKinds,
         NEW a \in Accounts \cup {NoAccount}, NEW h \in Nat,
         ApplyGlobalMovement(delta, kind, a, h), NEW b \in Accounts
  PROVE  /\ DeltaSum(reserveLog, Drawn(reserveLog, b)) \in Int
         /\ DeltaSum(reserveLog', Drawn(reserveLog', b)) =
               DeltaSum(reserveLog, Drawn(reserveLog, b)) + (IF b = a THEN delta ELSE 0)
<1> DEFINE row == [delta |-> delta, kind |-> kind, after |-> reserve + delta,
                   account |-> a, handover |-> h]
           rows == reserveLog
           longer == Append(rows, row)
<1>1. rows \in Seq(GlobalMovement) /\ \A i \in DOMAIN rows : rows[i].delta \in Int
  <2>1. rows \in Seq(GlobalMovement)
    BY DEF CashTypeOK
  <2>2. \A i \in DOMAIN rows : rows[i] \in GlobalMovement
    BY <2>1
  <2> QED
    BY <2>1, <2>2 DEF GlobalMovement
<1>2. reserveLog' = longer
  BY DEF ApplyGlobalMovement
<1>3. row.delta = delta /\ row.account = a
  OBVIOUS
<1> HIDE DEF row
<1>4. /\ DOMAIN longer = DOMAIN rows \cup {Len(rows) + 1} /\ Len(rows) + 1 \notin DOMAIN rows
      /\ \A i \in DOMAIN rows : longer[i] = rows[i]
      /\ longer[Len(rows) + 1] = row
  BY <1>1
<1> HIDE DEF rows, longer
<1>5. /\ Drawn(longer, b) = Drawn(rows, b) \cup (IF b = a THEN {Len(rows) + 1} ELSE {})
      /\ Drawn(rows, b) \in SUBSET DOMAIN rows
  BY <1>3, <1>4 DEF Drawn
<1>6. Drawn(longer, b) = Drawn(rows, b) \/ Drawn(longer, b) = Drawn(rows, b) \cup {Len(rows) + 1}
  BY <1>5
<1>7. Len(rows) + 1 \in Drawn(longer, b) <=> b = a
  BY <1>4, <1>5
<1>8. /\ DeltaSum(rows, Drawn(rows, b)) \in Int
      /\ DeltaSum(longer, Drawn(longer, b)) = DeltaSum(rows, Drawn(rows, b))
            + (IF Len(rows) + 1 \in Drawn(longer, b) THEN row.delta ELSE 0)
  BY <1>1, <1>3, <1>5, <1>6, DeltaNext DEF longer
<1> QED
  BY <1>2, <1>3, <1>7, <1>8 DEF rows

\* Nothing has been summed before the first row.
LEMMA NoRowsSum == \A positions : positions = {} => DeltaSum(<<>>, positions) = 0
<1> TAKE positions
<1>1. DOMAIN [i \in positions |-> <<>>[i].delta] = positions
  OBVIOUS
<1> QED
  BY <1>1, SumEmpty DEF DeltaSum

-----------------------------------------------------------------------------
(* Cash carried between the reserve and the accounts *)

\* What the two ledgers say of an account cancels out.
Mirrors(b) ==
    DeltaSum(log[b], Carried(log[b])) + DeltaSum(reserveLog, Drawn(reserveLog, b)) = 0

LEMMA MirroredIsMirrors == TransfersMirrored <=> \A b \in Accounts : Mirrors(b)
BY DEF TransfersMirrored, Mirrors, Carried, Drawn

LEMMA MirrorInit == CashInit => TransfersMirrored
<1> SUFFICES ASSUME CashInit, NEW b \in Accounts PROVE Mirrors(b)
  BY MirroredIsMirrors
<1>1. log[b] = <<>> /\ reserveLog = <<>>
  BY DEF CashInit
<1>2. Carried(<<>>) = {} /\ Drawn(<<>>, b) = {}
  BY DEF Carried, Drawn
<1> QED
  BY <1>1, <1>2, NoRowsSum DEF Mirrors

LEMMA MirrorStep ==
  CashTypeOK /\ TransfersMirrored /\ [CashNext]_cashVars => TransfersMirrored'
<1> SUFFICES ASSUME CashTypeOK, TransfersMirrored, [CashNext]_cashVars, NEW b \in Accounts
             PROVE  Mirrors(b)'
  BY MirroredIsMirrors DEF TransfersMirrored, Mirrors, Carried, Drawn
<1> USE CashAssumption
<1> DEFINE T == DeltaSum(log[b], Carried(log[b]))
           G == DeltaSum(reserveLog, Drawn(reserveLog, b))
<1>1. T + G = 0
  BY MirroredIsMirrors DEF Mirrors
<1>2. SUFFICES T' + G' = 0
  BY DEF Mirrors
<1>3. ASSUME NEW u \in Users, NEW amount \in Amounts, NEW direction \in {"IN", "OUT"},
             AdjustGlobalCash(u, amount, direction)
      PROVE  T' + G' = 0
  <2>1. amount \in Int /\ -amount \in Int /\ b # NoAccount
    OBVIOUS
  <2>2. G' = G
    BY <1>3, <2>1, GlobalSums DEF AdjustGlobalCash, GlobalKinds
  <2>3. T' = T
    BY <1>3 DEF AdjustGlobalCash, accountVars
  <2> QED
    BY <1>1, <2>2, <2>3
<1>4. ASSUME NEW u \in Users, NEW a \in Accounts, NEW amount \in Amounts,
             AllocateCash(u, a, amount)
      PROVE  T' + G' = 0
  <2>1. amount \in Int /\ -amount \in Int
    OBVIOUS
  <2>2. G \in Int /\ G' = G + (IF b = a THEN -amount ELSE 0)
    BY <1>4, <2>1, GlobalSums DEF AllocateCash, GlobalKinds
  <2>3. T \in Int /\ T' = T + (IF b = a THEN amount ELSE 0)
    BY <1>4, <2>1, PostSums DEF AllocateCash, ApplyMovement, MovementKinds
  <2> QED
    BY <1>1, <2>1, <2>2, <2>3
<1>5. ASSUME NEW u \in Users, NEW h \in DOMAIN handovers, ConfirmHandover(u, h)
      PROVE  T' + G' = 0
  <2> DEFINE a == handovers[h].account
             amount == handovers[h].amount
  <2>1. a \in Accounts /\ amount \in Int /\ -amount \in Int /\ h \in Nat
    BY HandoverRow
  <2>2. G \in Int /\ G' = G + (IF b = a THEN amount ELSE 0)
    BY <1>5, <2>1, GlobalSums DEF ConfirmHandover, GlobalKinds
  <2>3. T \in Int /\ T' = T + (IF b = a THEN -amount ELSE 0)
    BY <1>5, <2>1, PostSums DEF ConfirmHandover, ApplyMovement, MovementKinds
  <2> HIDE DEF a, amount
  <2> QED
    BY <1>1, <2>1, <2>2, <2>3
<1>6. ASSUME NEW u \in Users, NEW a \in Accounts, NEW d \in Days, NEW declared \in Counts,
             NEW justified \in BOOLEAN, CloseCashDay(u, a, d, declared, justified)
      PROVE  T' + G' = 0
  <2>1. declared - balance[a] \in Int /\ 0 \in Nat
    BY DEF CashTypeOK
  <2>2. G' = G
    BY <1>6 DEF CloseCashDay, reserveVars
  <2>3. T' = T
    <3>1. CASE declared - balance[a] = 0
      BY <1>6, <3>1 DEF CloseCashDay
    <3>2. CASE declared - balance[a] # 0
      BY <1>6, <2>1, <3>2, PostSums DEF CloseCashDay, MovementKinds
    <3> QED
      BY <3>1, <3>2
  <2> QED
    BY <1>1, <2>2, <2>3
<1>7. ASSUME \/ \E u \in Users, a \in Accounts, amount \in Amounts : HandoverCash(u, a, amount)
             \/ \E a \in Accounts, form \in AccountForms : EditAccount(a, form)
             \/ EditReserve
             \/ NextDay
             \/ UNCHANGED cashVars
      PROVE  T' + G' = 0
  <2>1. UNCHANGED <<reserveLog, log>>
    BY <1>7 DEF HandoverCash, EditAccount, EditReserve, NextDay, cashVars, accountVars, reserveVars
  <2> QED
    BY <1>1, <2>1
<1> HIDE DEF T, G
<1> QED
  BY <1>3, <1>4, <1>5, <1>6, <1>7 DEF CashNext

\* Funding, handing over and receiving cash carry it: what the reserve's ledger
\* says it gave an account or took back is what the account's ledger says it
\* received or gave (allocate_cash, confirm_handover).
THEOREM TransfersAreMirrored == CashSpec => []TransfersMirrored
BY MirrorInit, MirrorStep, CashTypeCorrect, PTL DEF CashSpec

-----------------------------------------------------------------------------
(* Counts and their adjustments *)

\* The days an account was closed for, and what those closures found.
Closed(days) == {d \in ClosureDays : days[d].status = "CLOSED"}
Variance(days) == SumFunction([d \in Closed(days) |-> days[d].declared - days[d].expected])

\* The adjustments of an account explain its variances.
Explains(b) == DeltaSum(log[b], Counted(log[b])) = Variance(closures[b])

LEMMA PostedIsExplains == VariancesPosted <=> \A b \in Accounts : Explains(b)
BY DEF VariancesPosted, Explains, Counted, Variance, Closed

LEMMA VarianceInt ==
  ASSUME NEW days \in [ClosureDays -> Closure]
  PROVE  /\ IsFiniteSet(Closed(days))
         /\ Variance(days) \in Int
<1>1. IsFiniteSet(ClosureDays)
  BY CashAssumption, FS_Interval DEF ClosureDays
<1>2. IsFiniteSet(Closed(days))
  BY <1>1, FS_Subset DEF Closed
<1> DEFINE f == [d \in Closed(days) |-> days[d].declared - days[d].expected]
<1>3. f \in [Closed(days) -> Int]
  <2>1. \A d \in Closed(days) : days[d].declared - days[d].expected \in Int
    BY DEF Closed, Closure
  <2> QED
    BY <2>1
<1>4. SumFunction(f) \in Int
  <2> HIDE DEF f
  <2> QED
    BY <1>2, <1>3, SumInt
<1> QED
  BY <1>2, <1>4 DEF Variance

\* One more closed day adds its variance.
LEMMA VarianceMore ==
  ASSUME NEW days \in [ClosureDays -> Closure], NEW later \in [ClosureDays -> Closure],
         NEW d \in ClosureDays, days[d].status # "CLOSED", later[d].status = "CLOSED",
         \A c \in ClosureDays \ {d} :
             /\ later[c].status = "CLOSED" => days[c].status = "CLOSED"
             /\ days[c].status = "CLOSED" => later[c] = days[c]
  PROVE  Variance(later) = Variance(days) + (later[d].declared - later[d].expected)
<1> DEFINE f == [c \in Closed(days) |-> days[c].declared - days[c].expected]
           g == [c \in Closed(later) |-> later[c].declared - later[c].expected]
<1>1. Closed(later) = Closed(days) \cup {d} /\ d \notin Closed(days)
  BY DEF Closed
<1>2. g \in [Closed(days) \cup {d} -> Int]
  <2>1. \A c \in Closed(later) : later[c].declared - later[c].expected \in Int
    BY DEF Closed, Closure
  <2> QED
    BY <1>1, <2>1
<1>3. g[d] = later[d].declared - later[d].expected
  BY <1>1
<1>4. Restrict(g, Closed(days)) = f
  <2>1. \A c \in Closed(days) : c \in Closed(later) /\ later[c] = days[c]
    BY <1>1 DEF Closed
  <2> QED
    BY <2>1 DEF Restrict
<1>5. SumFunction(g) = SumFunction(Restrict(g, Closed(days))) + g[d]
  <2> HIDE DEF f, g
  <2> QED
    BY <1>1, <1>2, VarianceInt, SumMore
<1> QED
  BY <1>3, <1>4, <1>5 DEF Variance

LEMMA VarianceInit == CashInit => VariancesPosted
<1> SUFFICES ASSUME CashInit, NEW b \in Accounts PROVE Explains(b)
  BY PostedIsExplains
<1>1. log[b] = <<>> /\ Counted(<<>>) = {}
  BY DEF CashInit, Counted
<1>2. Closed(closures[b]) = {}
  BY DEF CashInit, Closed, AbsentClosure
<1>3. Variance(closures[b]) = 0
  <2> DEFINE f == [d \in Closed(closures[b]) |-> closures[b][d].declared - closures[b][d].expected]
  <2>1. DOMAIN f = {}
    BY <1>2
  <2>2. SumFunction(f) = 0
    BY <2>1, SumEmpty
  <2> QED
    BY <2>2 DEF Variance
<1> QED
  BY <1>1, <1>3, NoRowsSum DEF Explains

LEMMA VarianceStep ==
  CashTypeOK /\ VariancesPosted /\ [CashNext]_cashVars => VariancesPosted'
<1> SUFFICES ASSUME CashTypeOK, VariancesPosted, [CashNext]_cashVars, NEW b \in Accounts
             PROVE  Explains(b)'
  BY PostedIsExplains DEF VariancesPosted, Explains, Counted, Variance, Closed
<1> USE CashAssumption
<1> DEFINE T == DeltaSum(log[b], Counted(log[b]))
           V == Variance(closures[b])
<1>1. T = V
  BY PostedIsExplains DEF Explains
<1>2. SUFFICES T' = V'
  BY DEF Explains
<1>3. ASSUME NEW u \in Users, NEW a \in Accounts, NEW amount \in Amounts,
             AllocateCash(u, a, amount)
      PROVE  T' = V'
  <2>1. amount \in Int
    OBVIOUS
  <2>2. T \in Int /\ T' = T + 0
    BY <1>3, <2>1, PostSums DEF AllocateCash, ApplyMovement, MovementKinds
  <2> QED
    BY <1>1, <1>3, <2>2 DEF AllocateCash
<1>4. ASSUME NEW u \in Users, NEW h \in DOMAIN handovers, ConfirmHandover(u, h)
      PROVE  T' = V'
  <2>1. handovers[h].account \in Accounts /\ -handovers[h].amount \in Int
    BY HandoverRow
  <2>2. T \in Int /\ T' = T + 0
    BY <1>4, <2>1, PostSums DEF ConfirmHandover, ApplyMovement, MovementKinds
  <2> QED
    BY <1>1, <1>4, <2>2 DEF ConfirmHandover
<1>5. ASSUME NEW u \in Users, NEW a \in Accounts, NEW d \in Days, NEW declared \in Counts,
             NEW justified \in BOOLEAN, CloseCashDay(u, a, d, declared, justified)
      PROVE  T' = V'
  <2> DEFINE variance == declared - balance[a]
  <2>1. variance \in Int /\ d \in ClosureDays /\ d + 1 \in ClosureDays /\ d # d + 1
    BY DEF CashTypeOK, Days, ClosureDays
  <2>2. T' = T + (IF b = a THEN variance ELSE 0) /\ T \in Int
    <3>1. CASE variance = 0
      <4>1. T' = T
        BY <1>5, <3>1 DEF CloseCashDay
      <4>2. T \in Int
        BY <1>1, VarianceInt DEF CashTypeOK
      <4> QED
        BY <3>1, <4>1, <4>2
    <3>2. CASE variance # 0
      BY <1>5, <2>1, <3>2, PostSums DEF CloseCashDay, MovementKinds
    <3> QED
      BY <3>1, <3>2
  <2>3. CASE b # a
    <3>1. closures'[b] = closures[b]
      BY <1>5, <2>3 DEF CloseCashDay, CashTypeOK
    <3> QED
      BY <1>1, <2>2, <2>3, <3>1
  <2>4. CASE b = a
    <3> DEFINE days == closures[a]
               later == closures'[a]
    <3>1. days \in [ClosureDays -> Closure] /\ later \in [ClosureDays -> Closure]
      <4>1. CashTypeOK'
        BY CashTypeStep
      <4> QED
        BY <4>1 DEF CashTypeOK
    <3>2. later = [days EXCEPT ![d] = ClosedRow(a, d, declared), ![d + 1] = FollowingRow(a, d, declared)]
      BY <1>5 DEF CloseCashDay, CashTypeOK
    <3>3. days[d].status # "CLOSED"
      BY <1>5 DEF CloseCashDay
    <3>4. later[d] = ClosedRow(a, d, declared) /\ later[d + 1] = FollowingRow(a, d, declared)
      BY <2>1, <3>1, <3>2
    <3>5. \A c \in ClosureDays \ {d, d + 1} : later[c] = days[c]
      BY <3>1, <3>2
    <3>6. later[d].status = "CLOSED" /\ later[d].declared - later[d].expected = variance
      BY <3>4 DEF ClosedRow
    <3>7. /\ later[d + 1].status = "CLOSED" => days[d + 1].status = "CLOSED"
          /\ days[d + 1].status = "CLOSED" => later[d + 1] = days[d + 1]
      BY <3>4 DEF FollowingRow, OpenClosure
    <3> HIDE DEF days, later, variance
    <3>8. Variance(later) = Variance(days) + variance
      BY <2>1, <3>1, <3>3, <3>5, <3>6, <3>7, VarianceMore
    <3> QED
      BY <1>1, <2>2, <2>4, <3>8 DEF days, later
  <2> QED
    BY <2>3, <2>4
<1>6. ASSUME \/ \E u \in Users, amount \in Amounts, direction \in {"IN", "OUT"} :
                   AdjustGlobalCash(u, amount, direction)
             \/ \E u \in Users, a \in Accounts, amount \in Amounts : HandoverCash(u, a, amount)
             \/ \E a \in Accounts, form \in AccountForms : EditAccount(a, form)
             \/ EditReserve
             \/ NextDay
             \/ UNCHANGED cashVars
      PROVE  T' = V'
  <2>1. UNCHANGED <<log, closures>>
    BY <1>6 DEF AdjustGlobalCash, HandoverCash, EditAccount, EditReserve, NextDay, cashVars,
                accountVars, reserveVars
  <2> QED
    BY <1>1, <2>1
<1> HIDE DEF T, V
<1> QED
  BY <1>3, <1>4, <1>5, <1>6 DEF CashNext

\* Closing the day posts what it finds: the adjustments in an account's ledger
\* that belong to no operation add up to the differences of its closures
\* (close_cash_day), whichever days are closed and in whatever order.
THEOREM VariancesArePosted == CashSpec => []VariancesPosted
BY VarianceInit, VarianceStep, CashTypeCorrect, PTL DEF CashSpec

-----------------------------------------------------------------------------
(* What the services of the application do to the cash of the accounts *)

\* The cash columns a service of the application may change: one movement on
\* one account, that of an operation or an adjustment of it.
Moves ==
    \/ UNCHANGED <<balance, log>>
    \/ \E a \in Accounts, delta \in Int, kind \in {"OPERATION", "ADJUSTMENT"}, op \in Nat \ {0} :
          ApplyMovement(a, delta, kind, op)

LEMMA OperationRecord ==
  ASSUME TypeOK, NEW o \in DOMAIN ops
  PROVE  /\ o \in 1 .. Len(ops) /\ o \in Nat \ {0}
         /\ ops[o] \in Operation
         /\ ops[o].account \in Accounts /\ ops[o].amount \in Nat /\ ops[o].fee \in Nat
         /\ ops[o].type \in OpTypes
<1>1. o \in 1 .. Len(ops) /\ ops[o] \in Operation /\ Len(ops) \in Nat
  BY DEF TypeOK
<1> QED
  BY <1>1 DEF Operation

LEMMA OriginalDelta ==
  ASSUME TypeOK, NEW o \in DOMAIN ops, NEW i \in Originals(o)
  PROVE  /\ i \in 1 .. Len(log[ops[o].account])
         /\ log[ops[o].account][i].delta \in Int
<1>1. log[ops[o].account] \in Seq(Movement) /\ i \in 1 .. Len(log[ops[o].account])
  BY OperationRecord DEF TypeOK, CashTypeOK, Originals
<1>2. log[ops[o].account][i] \in Movement
  BY <1>1
<1> QED
  BY <1>1, <1>2 DEF Movement

LEMMA ImpactType ==
  ASSUME NEW type, NEW amount \in Nat, NEW fee \in Nat
  PROVE  Impact(type, amount, fee) \in Int
BY DEF Impact

\* A revision of operation o moves the cash of its account at most once.
LEMMA RevisionMoves ==
  ASSUME TypeOK, NEW o \in DOMAIN ops, NEW amount \in Nat, NEW fee \in Nat,
         RevisionMovement(o, amount, fee)
  PROVE  \/ UNCHANGED <<balance, log>>
         \/ \E delta \in Int : ApplyMovement(ops[o].account, delta, "ADJUSTMENT", o)
<1> DEFINE impact == Impact(ops[o].type, amount, fee)
<1>1. PICK i \in Originals(o) :
         LET delta == impact - log[ops[o].account][i].delta IN
         IF delta = 0 THEN UNCHANGED <<balance, log>>
         ELSE ApplyMovement(ops[o].account, delta, "ADJUSTMENT", o)
  BY DEF RevisionMovement
<1>2. impact - log[ops[o].account][i].delta \in Int
  BY OriginalDelta, ImpactType
<1> QED
  BY <1>1, <1>2

LEMMA OperationsMove ==
  ASSUME TypeOK, OperationsNext
  PROVE  OnlyMovement /\ Moves
<1> USE OperationsAssumption, CashAssumption
<1>1. ASSUME NEW u \in Users, NEW a \in Accounts, NEW amount \in OpAmounts, NEW fee \in Fees,
             NEW key \in Keys \cup {NoKey}, CreateSentTransfer(u, a, amount, fee, key)
      PROVE  OnlyMovement /\ Moves
  <2>1. amount + fee \in Int /\ Len(ops) + 1 \in Nat \ {0}
    BY DEF TypeOK
  <2> QED
    BY <1>1, <2>1 DEF CreateSentTransfer, Moves
<1>2. ASSUME NEW u \in Users, NEW a \in Accounts, NEW amount \in OpAmounts, NEW fee \in Fees,
             NEW key \in Keys \cup {NoKey}, CreateWithdrawal(u, a, amount, fee, key)
      PROVE  OnlyMovement /\ Moves
  <2>1. fee - amount \in Int /\ Len(ops) + 1 \in Nat \ {0}
    BY DEF TypeOK
  <2> QED
    BY <1>2, <2>1 DEF CreateWithdrawal, Moves
<1>3. ASSUME NEW u \in Users, NEW a \in Accounts, NEW amount \in OpAmounts, NEW fee \in Fees,
             NEW key \in Keys \cup {NoKey}, ReceiveTransfer(u, a, amount, fee, key)
      PROVE  OnlyMovement /\ Moves
  BY <1>3 DEF ReceiveTransfer, Moves, OnlyMovement, cashVars, accountVars
<1>4. ASSUME NEW u \in Users, NEW o \in DOMAIN ops, PayReceivedTransfer(u, o)
      PROVE  OnlyMovement /\ Moves
  <2>1. ops[o].fee - ops[o].amount \in Int /\ o \in Nat \ {0} /\ ops[o].account \in Accounts
    BY OperationRecord
  <2> QED
    BY <1>4, <2>1 DEF PayReceivedTransfer, Moves
<1>5. ASSUME NEW u \in Users, NEW o \in DOMAIN ops, CancelOperation(u, o)
      PROVE  OnlyMovement /\ Moves
  <2>1. o \in Nat \ {0} /\ ops[o].account \in Accounts
    BY OperationRecord
  <2>2. PICK i \in Originals(o) :
           ApplyMovement(ops[o].account, -log[ops[o].account][i].delta, "ADJUSTMENT", o)
    BY <1>5 DEF CancelOperation
  <2>3. -log[ops[o].account][i].delta \in Int
    BY OriginalDelta
  <2> QED
    BY <1>5, <2>1, <2>2, <2>3 DEF CancelOperation, Moves
<1>6. ASSUME NEW u \in Users, NEW o \in DOMAIN ops, NEW amount \in OpAmounts, NEW fee \in Fees,
             ReviseOperation(u, o, amount, fee)
      PROVE  OnlyMovement /\ Moves
  <2>1. o \in Nat \ {0} /\ ops[o].account \in Accounts
    BY OperationRecord
  <2>2. amount \in Nat /\ fee \in Nat
    OBVIOUS
  <2> QED
    BY <1>6, <2>1, <2>2, RevisionMoves DEF ReviseOperation, Moves
<1> QED
  BY <1>1, <1>2, <1>3, <1>4, <1>5, <1>6 DEF OperationsNext

-----------------------------------------------------------------------------
(* Type correctness *)

LEMMA CreateTypeOK ==
  ASSUME TypeOK, NEW u \in Users, NEW a \in Accounts, NEW type \in OpTypes,
         NEW status \in {"PENDING", "COMPLETED"}, NEW amount \in Nat, NEW fee \in Nat,
         NEW key \in Keys \cup {NoKey}, CreateOperation(u, a, type, status, amount, fee, key)
  PROVE  ops' \in Seq(Operation) /\ requests' \subseteq Request /\ revisions' \in Seq(Revision)
<1> DEFINE row == [type |-> type, status |-> status, agent |-> u, account |-> a,
                   amount |-> amount, fee |-> fee, day |-> today]
<1>1. row \in Operation
  BY DEF Operation, TypeOK, CashTypeOK
<1>2. ops' = Append(ops, row) /\ UNCHANGED revisions /\ ClaimRequest(u, key, type)
  BY DEF CreateOperation
<1> HIDE DEF row
<1>3. ops' \in Seq(Operation)
  BY <1>1, <1>2 DEF TypeOK
<1>4. requests' \subseteq Request
  BY <1>2 DEF ClaimRequest, Request, TypeOK
<1> QED
  BY <1>2, <1>3, <1>4 DEF TypeOK

LEMMA TypeInit == Init => TypeOK
BY CashTypeInit DEF Init, TypeOK

\* An update of one operation keeps the rows in their type.
LEMMA UpdateTypeOK ==
  ASSUME TypeOK, NEW o \in DOMAIN ops, NEW row \in Operation, ops' = [ops EXCEPT ![o] = row]
  PROVE  ops' \in Seq(Operation)
BY DEF TypeOK

LEMMA TypeStep == TypeOK /\ [Next]_vars => TypeOK'
<1> SUFFICES ASSUME TypeOK, [Next]_vars PROVE TypeOK'
  OBVIOUS
<1> USE OperationsAssumption, CashAssumption
<1> DEFINE Rows == ops' \in Seq(Operation) /\ requests' \subseteq Request /\ revisions' \in Seq(Revision)
<1>1. CASE OperationsNext
  <2>1. CashTypeOK'
    <3>1. OnlyMovement /\ Moves
      BY <1>1, OperationsMove
    <3>2. balance' \in [Accounts -> Nat] /\ log' \in [Accounts -> Seq(Movement)]
      <4>1. CashTypeOK
        BY DEF TypeOK
      <4>2. CASE UNCHANGED <<balance, log>>
        BY <4>1, <4>2 DEF CashTypeOK
      <4>3. ASSUME NEW a \in Accounts, NEW delta \in Int, NEW kind \in {"OPERATION", "ADJUSTMENT"},
                   NEW op \in Nat \ {0}, ApplyMovement(a, delta, kind, op)
            PROVE  balance' \in [Accounts -> Nat] /\ log' \in [Accounts -> Seq(Movement)]
        BY <4>1, <4>3, PostTypeOK DEF ApplyMovement, MovementKinds
      <4> QED
        BY <3>1, <4>2, <4>3 DEF Moves
    <3> QED
      BY <3>1, <3>2 DEF TypeOK, CashTypeOK, OnlyMovement, reserveVars
  <2>2. ASSUME NEW u \in Users, NEW a \in Accounts, NEW amount \in OpAmounts, NEW fee \in Fees,
               NEW key \in Keys \cup {NoKey},
               \/ CreateSentTransfer(u, a, amount, fee, key)
               \/ CreateWithdrawal(u, a, amount, fee, key)
               \/ ReceiveTransfer(u, a, amount, fee, key)
        PROVE  Rows
    <3>1. amount \in Nat /\ fee \in Nat
      OBVIOUS
    <3> QED
      BY <2>2, <3>1, CreateTypeOK DEF CreateSentTransfer, CreateWithdrawal, ReceiveTransfer, OpTypes
  <2>3. ASSUME NEW u \in Users, NEW o \in DOMAIN ops, NEW status \in {"COMPLETED", "CANCELLED"},
               ops' = [ops EXCEPT ![o].status = status], UNCHANGED <<requests, revisions>>
        PROVE  Rows
    <3>1. [ops[o] EXCEPT !.status = status] \in Operation
      BY OperationRecord DEF Operation
    <3> QED
      BY <2>3, <3>1, UpdateTypeOK DEF TypeOK
  <2>4. ASSUME NEW u \in Users, NEW o \in DOMAIN ops, NEW amount \in OpAmounts, NEW fee \in Fees,
               ReviseOperation(u, o, amount, fee)
        PROVE  Rows
    <3>1. amount \in Nat /\ fee \in Nat /\ o \in Nat /\ ops[o] \in Operation
      BY OperationRecord
    <3>2. [[ops[o] EXCEPT !.amount = amount] EXCEPT !.fee = fee] \in Operation
      BY <3>1 DEF Operation
    <3>3. ops' = [ops EXCEPT ![o] = [[ops[o] EXCEPT !.amount = amount] EXCEPT !.fee = fee]]
      BY <2>4 DEF ReviseOperation, TypeOK
    <3>4. RevisionRow(o, amount, fee) \in Revision
      BY <3>1, OperationRecord DEF RevisionRow, Revision, Price, PriceOf
    <3>5. revisions' \in Seq(Revision)
      BY <2>4, <3>4 DEF ReviseOperation, TypeOK
    <3> QED
      BY <2>4, <3>2, <3>3, <3>5, UpdateTypeOK DEF ReviseOperation, TypeOK
  <2>5. Rows
    BY <1>1, <2>2, <2>3, <2>4 DEF OperationsNext, PayReceivedTransfer, CancelOperation
  <2> QED
    BY <2>1, <2>5 DEF TypeOK
<1>2. CASE CashNext /\ UNCHANGED opsVars
  BY <1>2, CashTypeStep DEF TypeOK, opsVars
<1>3. CASE UNCHANGED vars
  BY <1>3, CashTypeStep DEF TypeOK, vars, opsVars
<1> QED
  BY <1>1, <1>2, <1>3 DEF Next

\* Type correctness of both applications together: operations never take a
\* balance below zero either.
THEOREM TypeCorrect == Spec => []TypeOK
BY TypeInit, TypeStep, PTL DEF Spec

\* The ledgers of both applications reconcile at all times.
LEMMA OperationsReconcile ==
  ASSUME TypeOK, LedgersReconcile, OnlyMovement, Moves
  PROVE  LedgersReconcile'
<1>1. CashTypeOK /\ Reconciles(reserveLog', reserve')
  BY DEF TypeOK, LedgersReconcile, OnlyMovement, reserveVars
<1>2. \A b \in Accounts : Reconciles(log[b], balance[b])
  BY DEF LedgersReconcile
<1>3. CASE UNCHANGED <<balance, log>>
  BY <1>1, <1>2, <1>3 DEF LedgersReconcile
<1>4. ASSUME NEW a \in Accounts, NEW delta \in Int, NEW kind \in {"OPERATION", "ADJUSTMENT"},
             NEW op \in Nat \ {0}, ApplyMovement(a, delta, kind, op)
      PROVE  LedgersReconcile'
  <2>1. \A b \in Accounts : Reconciles(log'[b], balance'[b])
    BY <1>1, <1>2, <1>4, PostReconciles DEF ApplyMovement, MovementKinds
  <2> QED
    BY <1>1, <2>1 DEF LedgersReconcile
<1> QED
  BY <1>3, <1>4 DEF Moves

LEMMA OperationsReconcileStep == TypeOK /\ LedgersReconcile /\ [Next]_vars => LedgersReconcile'
<1> SUFFICES ASSUME TypeOK, LedgersReconcile, [Next]_vars PROVE LedgersReconcile'
  OBVIOUS
<1>1. CASE OperationsNext
  BY <1>1, OperationsMove, OperationsReconcile
<1>2. CASE [CashNext]_cashVars
  BY <1>2, ReconcileStep DEF TypeOK
<1> QED
  BY <1>1, <1>2 DEF Next, vars

\* Every row carries on from the row before it, and every balance is the one
\* its last row states, with operations, corrections and closures mixed.
THEOREM OperationsAlwaysReconcile == Spec => []LedgersReconcile
<1>1. Init => LedgersReconcile
  BY ReconcileInit DEF Init
<1> QED
  BY <1>1, OperationsReconcileStep, TypeInit, TypeStep, PTL DEF Spec

-----------------------------------------------------------------------------
(* Payments *)

\* The row that explains a posted movement.
LEMMA PostedRow ==
  ASSUME CashTypeOK, NEW a \in Accounts, NEW delta \in Int, NEW kind \in MovementKinds,
         NEW op \in Nat, Post(a, delta, kind, op)
  PROVE  \E row \in Movement : /\ row.kind = kind /\ row.op = op /\ row.delta = delta
                               /\ log' = [log EXCEPT ![a] = Append(log[a], row)]
<1> DEFINE row == [delta |-> delta, kind |-> kind, after |-> balance[a] + delta,
                   op |-> op, day |-> today]
<1>1. row \in Movement
  BY DEF CashTypeOK, Movement, Post
<1>2. log' = [log EXCEPT ![a] = Append(log[a], row)]
  BY DEF Post
<1>3. row.kind = kind /\ row.op = op /\ row.delta = delta
  OBVIOUS
<1> QED
  BY <1>1, <1>2, <1>3

LEMMA PostRow ==
  ASSUME CashTypeOK, NEW a \in Accounts, NEW delta \in Int, NEW kind \in MovementKinds,
         NEW op \in Nat, Post(a, delta, kind, op)
  PROVE  \E row \in Movement : /\ row.kind = kind /\ row.op = op
                               /\ log' = [log EXCEPT ![a] = Append(log[a], row)]
BY PostedRow

\* What a new row in the ledger of account a adds to the rows of operation o.
LEMMA RowsAfterAppend ==
  ASSUME TypeOK, NEW o \in DOMAIN ops, ops'[o].account = ops[o].account,
         NEW a \in Accounts, NEW row \in Movement,
         log' = [log EXCEPT ![a] = Append(log[a], row)]
  PROVE  /\ a # ops[o].account \/ row.op # o
               => OperationRows(o)' = OperationRows(o) /\ Originals(o)' = Originals(o)
         /\ a = ops[o].account /\ row.op = o
               => /\ OperationRows(o)' = OperationRows(o) \cup {Len(log[a]) + 1}
                  /\ Originals(o)' = IF row.kind = "OPERATION"
                                     THEN Originals(o) \cup {Len(log[a]) + 1} ELSE Originals(o)
<1>1. ops[o].account \in Accounts /\ log \in [Accounts -> Seq(Movement)]
  BY OperationRecord DEF TypeOK, CashTypeOK
<1>2. ASSUME a # ops[o].account
      PROVE  OperationRows(o)' = OperationRows(o) /\ Originals(o)' = Originals(o)
  <2>1. log'[ops[o].account] = log[ops[o].account]
    BY <1>1, <1>2
  <2> QED
    BY <2>1 DEF OperationRows, Originals
<1>3. ASSUME a = ops[o].account
      PROVE  /\ OperationRows(o)' = {i \in 1 .. Len(log[a]) + 1 : Append(log[a], row)[i].op = o}
             /\ Originals(o)' = {i \in 1 .. Len(log[a]) + 1 :
                    Append(log[a], row)[i].op = o /\ Append(log[a], row)[i].kind = "OPERATION"}
  <2>1. log'[a] = Append(log[a], row) /\ Len(log'[a]) = Len(log[a]) + 1
    BY <1>1
  <2> QED
    BY <1>3, <2>1 DEF OperationRows, Originals
<1>4. /\ Len(log[a]) \in Nat
      /\ \A i \in 1 .. Len(log[a]) : Append(log[a], row)[i] = log[a][i]
      /\ Append(log[a], row)[Len(log[a]) + 1] = row
  BY <1>1
<1>5. OperationRows(o) = {i \in 1 .. Len(log[ops[o].account]) : log[ops[o].account][i].op = o}
  BY DEF OperationRows
<1>6. Originals(o) = {i \in OperationRows(o) : log[ops[o].account][i].kind = "OPERATION"}
  BY DEF OperationRows, Originals
<1> QED
  BY <1>2, <1>3, <1>4, <1>5, <1>6

\* The two parts of PaidOnce.
Scoped == \A a \in Accounts : \A i \in 1 .. Len(log[a]) :
             /\ log[a][i].kind = "OPERATION" => log[a][i].op # 0
             /\ log[a][i].op # 0 => /\ log[a][i].op \in DOMAIN ops
                                    /\ ops[log[a][i].op].account = a
Paid(o) == IF ops[o].status = "PENDING"
           THEN OperationRows(o) = {}
           ELSE \E i \in Originals(o) :
                   \A j \in OperationRows(o) : i = j \/ (i < j /\ j \notin Originals(o))

LEMMA PaidParts ==
  /\ PaidOnce <=> Scoped /\ \A o \in DOMAIN ops : Paid(o)
  /\ PaidOnce' <=> Scoped' /\ \A o \in DOMAIN ops' : Paid(o)'
BY DEF PaidOnce, Scoped, Paid

\* The accounts of the operations never change.
Kept == /\ DOMAIN ops \subseteq DOMAIN ops'
        /\ \A o \in DOMAIN ops : ops'[o].account = ops[o].account

LEMMA ScopedSame == ASSUME Scoped, Kept, UNCHANGED log PROVE Scoped'
BY DEF Scoped, Kept

LEMMA ScopedAppend ==
  ASSUME TypeOK, Scoped, Kept, NEW a \in Accounts, NEW row \in Movement,
         log' = [log EXCEPT ![a] = Append(log[a], row)],
         row.kind = "OPERATION" => row.op # 0,
         row.op # 0 => row.op \in DOMAIN ops' /\ ops'[row.op].account = a
  PROVE  Scoped'
<1> SUFFICES ASSUME NEW b \in Accounts, NEW i \in 1 .. Len(log'[b])
             PROVE  /\ log'[b][i].kind = "OPERATION" => log'[b][i].op # 0
                    /\ log'[b][i].op # 0 => /\ log'[b][i].op \in DOMAIN ops'
                                            /\ ops'[log'[b][i].op].account = b
  BY DEF Scoped
<1>1. log[b] \in Seq(Movement) /\ log[a] \in Seq(Movement)
  BY DEF TypeOK, CashTypeOK
<1>2. CASE b # a
  BY <1>2 DEF TypeOK, CashTypeOK, Scoped, Kept
<1>3. CASE b = a
  <2>1. log'[b] = Append(log[b], row)
    BY <1>3 DEF TypeOK, CashTypeOK
  <2>2. CASE i \in 1 .. Len(log[b])
    <3>1. log'[b][i] = log[b][i]
      BY <1>1, <2>1, <2>2
    <3> QED
      BY <2>2, <3>1 DEF Scoped, Kept
  <2>3. CASE i = Len(log[b]) + 1
    <3>1. log'[b][i] = row
      BY <1>1, <2>1, <2>3
    <3> QED
      BY <1>3, <3>1
  <2> QED
    BY <1>1, <2>1, <2>2, <2>3
<1> QED
  BY <1>2, <1>3

\* An operation whose rows and status are left alone stays as paid as it was.
LEMMA PaidSame ==
  ASSUME TypeOK, NEW o \in DOMAIN ops, Paid(o), ops'[o].account = ops[o].account,
         (ops'[o].status = "PENDING") = (ops[o].status = "PENDING"), UNCHANGED log
  PROVE  Paid(o)'
BY DEF Paid, OperationRows, Originals

LEMMA PaidElsewhere ==
  ASSUME TypeOK, NEW o \in DOMAIN ops, Paid(o), ops'[o] = ops[o],
         NEW a \in Accounts, NEW row \in Movement, row.op # o,
         log' = [log EXCEPT ![a] = Append(log[a], row)]
  PROVE  Paid(o)'
<1>1. OperationRows(o)' = OperationRows(o) /\ Originals(o)' = Originals(o)
  BY RowsAfterAppend
<1> QED
  BY <1>1 DEF Paid

\* A pending operation that receives its one OPERATION row is paid.
LEMMA PaidNow ==
  ASSUME TypeOK, NEW o \in DOMAIN ops, ops[o].status = "PENDING", Paid(o),
         ops'[o].account = ops[o].account, ops'[o].status # "PENDING",
         NEW row \in Movement, row.op = o, row.kind = "OPERATION",
         log' = [log EXCEPT ![ops[o].account] = Append(log[ops[o].account], row)]
  PROVE  Paid(o)'
<1>1. OperationRows(o) = {} /\ Originals(o) = {} /\ ops[o].account \in Accounts
  BY OperationRecord DEF Paid, OperationRows, Originals
<1>2. PICK n : OperationRows(o)' = {n} /\ Originals(o)' = {n}
  BY <1>1, RowsAfterAppend
<1> QED
  BY <1>2 DEF Paid

\* A correction adds a row behind the one the operation was paid with.
LEMMA PaidBefore ==
  ASSUME TypeOK, NEW o \in DOMAIN ops, ops[o].status # "PENDING", Paid(o),
         ops'[o].account = ops[o].account, ops'[o].status # "PENDING",
         NEW row \in Movement, row.op = o, row.kind = "ADJUSTMENT",
         log' = [log EXCEPT ![ops[o].account] = Append(log[ops[o].account], row)]
  PROVE  Paid(o)'
<1> DEFINE n == Len(log[ops[o].account]) + 1
<1>1. ops[o].account \in Accounts /\ log[ops[o].account] \in Seq(Movement)
  BY OperationRecord DEF TypeOK, CashTypeOK
<1>2. OperationRows(o)' = OperationRows(o) \cup {n} /\ Originals(o)' = Originals(o)
  BY <1>1, RowsAfterAppend
<1>3. PICK i \in Originals(o) : \A j \in OperationRows(o) : i = j \/ (i < j /\ j \notin Originals(o))
  BY DEF Paid
<1>4. i \in Nat /\ i < n /\ n \notin Originals(o)
  BY <1>1, <1>3 DEF Originals
<1> QED
  BY <1>2, <1>3, <1>4 DEF Paid

\* No row of any ledger is for an operation that does not exist yet.
LEMMA NoRowsYet ==
  ASSUME TypeOK, Scoped, NEW a \in Accounts, NEW i \in 1 .. Len(log[a])
  PROVE  log[a][i].op # Len(ops) + 1
<1>1. Len(ops) \in Nat /\ DOMAIN ops = 1 .. Len(ops)
  BY DEF TypeOK
<1> QED
  BY <1>1 DEF Scoped

LEMMA PaidNewPending ==
  ASSUME TypeOK, Scoped, NEW o, o = Len(ops) + 1, NEW row \in Operation,
         row.status = "PENDING", ops' = Append(ops, row), UNCHANGED log
  PROVE  Paid(o)'
<1>1. ops'[o] = row /\ row.account \in Accounts
  BY DEF TypeOK, Operation
<1>2. OperationRows(o)' = {}
  BY <1>1, NoRowsYet DEF OperationRows
<1> QED
  BY <1>1, <1>2 DEF Paid

LEMMA DeltaOne ==
  ASSUME NEW R, NEW rows \in Seq(R), \A i \in DOMAIN rows : rows[i].delta \in Int,
         NEW row, row.delta \in Int, NEW n, n = Len(rows) + 1
  PROVE  DeltaSum(Append(rows, row), {n}) = row.delta
<1>1. DOMAIN [i \in {} |-> rows[i].delta] = {}
  OBVIOUS
<1>2. DeltaSum(rows, {}) = 0
  BY <1>1, SumEmpty DEF DeltaSum
<1>3. {n} = {} \cup {Len(rows) + 1} /\ {} \in SUBSET DOMAIN rows /\ Len(rows) + 1 \in {n}
  OBVIOUS
<1>4. DeltaSum(Append(rows, row), {n}) =
         DeltaSum(rows, {}) + (IF Len(rows) + 1 \in {n} THEN row.delta ELSE 0)
  <2> DEFINE before == {}
  <2>1. before \in SUBSET DOMAIN rows /\ {n} = before \cup {Len(rows) + 1}
    OBVIOUS
  <2> HIDE DEF before
  <2>2. DeltaSum(Append(rows, row), {n}) =
           DeltaSum(rows, before) + (IF Len(rows) + 1 \in {n} THEN row.delta ELSE 0)
    BY <2>1, DeltaNext
  <2> QED
    BY <2>2 DEF before
<1> QED
  BY <1>2, <1>3, <1>4

\* The row that a new completed operation is booked with: its only one.
OnlyRow(o, a, row) ==
    /\ \E n : log'[a][n] = row /\ OperationRows(o)' = {n} /\ Originals(o)' = {n}
    /\ NetEffect(o)' = row.delta

LEMMA RowsOfNew ==
  ASSUME TypeOK, Scoped, NEW o, o \notin DOMAIN ops, o # 0, NEW new \in Operation, ops'[o] = new,
         NEW row \in Movement, row.op = o, row.kind = "OPERATION",
         NEW a \in Accounts, new.account = a, log' = [log EXCEPT ![a] = Append(log[a], row)]
  PROVE  OnlyRow(o, a, row)
<1>0. PICK n : n = Len(log[a]) + 1
  OBVIOUS
<1>1. a \in Accounts /\ log[a] \in Seq(Movement)
  BY DEF TypeOK, CashTypeOK, Operation
<1>2. log'[a] = Append(log[a], row)
  BY <1>1 DEF TypeOK, CashTypeOK
<1>3. /\ Len(log[a]) \in Nat /\ n = Len(log[a]) + 1 /\ Len(log'[a]) = n
      /\ \A i \in 1 .. Len(log[a]) : log'[a][i].op # o
      /\ log'[a][n] = row
  BY <1>0, <1>1, <1>2 DEF Scoped
<1>4. OperationRows(o)' = {n} /\ Originals(o)' = {n}
  <2>1. OperationRows(o)' = {i \in 1 .. Len(log'[a]) : log'[a][i].op = o}
    BY DEF OperationRows
  <2>2. Originals(o)' = {i \in OperationRows(o)' : log'[a][i].kind = "OPERATION"}
    BY <2>1 DEF Originals
  <2>3. row.op = o /\ row.kind = "OPERATION"
    OBVIOUS
  <2>4. {i \in 1 .. Len(log'[a]) : log'[a][i].op = o} = {n}
    BY <1>3, <2>3
  <2>5. {i \in {n} : log'[a][i].kind = "OPERATION"} = {n}
    BY <1>3, <2>3
  <2> QED
    BY <2>1, <2>2, <2>4, <2>5
<1>5. NetEffect(o)' = row.delta
  <2>1. /\ \A i \in DOMAIN log[a] : log[a][i].delta \in Int
        /\ row.delta \in Int
    <3>1. \A i \in DOMAIN log[a] : log[a][i] \in Movement
      BY <1>1
    <3> QED
      BY <3>1 DEF Movement
  <2>2. NetEffect(o)' = DeltaSum(Append(log[a], row), {n})
    BY <1>2, <1>4 DEF NetEffect
  <2> QED
    BY <1>0, <1>1, <2>1, <2>2, DeltaOne
<1> QED
  BY <1>3, <1>4, <1>5 DEF OnlyRow

LEMMA PaidNewCompleted ==
  ASSUME TypeOK, Scoped, NEW o, o \notin DOMAIN ops, o # 0, NEW new \in Operation, ops'[o] = new,
         new.status # "PENDING",
         NEW row \in Movement, row.op = o, row.kind = "OPERATION",
         NEW a \in Accounts, new.account = a, log' = [log EXCEPT ![a] = Append(log[a], row)]
  PROVE  Paid(o)'
<1>1. OnlyRow(o, a, row)
  BY RowsOfNew
<1> QED
  BY <1>1 DEF Paid, OnlyRow

\* The cash application adds no row for an operation.
LEMMA CashRow ==
  ASSUME CashTypeOK, [CashNext]_cashVars
  PROVE  \/ UNCHANGED log
         \/ \E a \in Accounts, row \in Movement :
               /\ row.op = 0 /\ row.kind # "OPERATION"
               /\ log' = [log EXCEPT ![a] = Append(log[a], row)]
<1> USE CashAssumption
<1>1. ASSUME NEW a \in Accounts, NEW delta \in Int,
             NEW kind \in {"OPENING", "HANDOVER", "ADJUSTMENT"}, Post(a, delta, kind, 0)
      PROVE  \E row \in Movement : /\ row.op = 0 /\ row.kind # "OPERATION"
                                   /\ log' = [log EXCEPT ![a] = Append(log[a], row)]
  <2>1. kind \in MovementKinds
    BY DEF MovementKinds
  <2>2. \E row \in Movement : /\ row.kind = kind /\ row.op = 0
                              /\ log' = [log EXCEPT ![a] = Append(log[a], row)]
    BY <1>1, <2>1, PostRow
  <2> QED
    BY <2>2
<1>2. ASSUME NEW u \in Users, NEW a \in Accounts, NEW amount \in Amounts, AllocateCash(u, a, amount)
      PROVE  Post(a, amount, "OPENING", 0) /\ amount \in Int
  BY <1>2 DEF AllocateCash, ApplyMovement
<1>3. ASSUME NEW u \in Users, NEW h \in DOMAIN handovers, ConfirmHandover(u, h)
      PROVE  /\ handovers[h].account \in Accounts /\ -handovers[h].amount \in Int
             /\ Post(handovers[h].account, -handovers[h].amount, "HANDOVER", 0)
  BY <1>3, HandoverRow DEF ConfirmHandover, ApplyMovement
<1>4. ASSUME NEW u \in Users, NEW a \in Accounts, NEW d \in Days, NEW declared \in Counts,
             NEW justified \in BOOLEAN, CloseCashDay(u, a, d, declared, justified)
      PROVE  \/ UNCHANGED log
             \/ declared - balance[a] \in Int /\ Post(a, declared - balance[a], "ADJUSTMENT", 0)
  BY <1>4 DEF CloseCashDay, CashTypeOK
<1>5. ASSUME \/ \E u \in Users, amount \in Amounts, direction \in {"IN", "OUT"} :
                   AdjustGlobalCash(u, amount, direction)
             \/ \E u \in Users, a \in Accounts, amount \in Amounts : HandoverCash(u, a, amount)
             \/ \E a \in Accounts, form \in AccountForms : EditAccount(a, form)
             \/ EditReserve \/ NextDay \/ UNCHANGED cashVars
      PROVE  UNCHANGED log
  BY <1>5 DEF AdjustGlobalCash, HandoverCash, EditAccount, EditReserve, NextDay, cashVars, accountVars
<1> QED
  BY <1>1, <1>2, <1>3, <1>4, <1>5 DEF CashNext

\* A created operation: its row, and Kept.
LEMMA CreatedRow ==
  ASSUME TypeOK, NEW u \in Users, NEW a \in Accounts, NEW type \in OpTypes,
         NEW status \in {"PENDING", "COMPLETED"}, NEW amount \in Nat, NEW fee \in Nat,
         NEW key, CreateOperation(u, a, type, status, amount, fee, key)
  PROVE  /\ Kept
         /\ \A o \in DOMAIN ops : ops'[o] = ops[o]
         /\ DOMAIN ops' = DOMAIN ops \cup {Len(ops) + 1}
         /\ Len(ops) + 1 \in Nat
         /\ \E row \in Operation :
               row.status = status /\ row.account = a /\ ops' = Append(ops, row)
<1> DEFINE row == [type |-> type, status |-> status, agent |-> u, account |-> a,
                   amount |-> amount, fee |-> fee, day |-> today]
<1>1. row \in Operation /\ row.status = status /\ row.account = a
  BY DEF Operation, TypeOK, CashTypeOK
<1>2. ops' = Append(ops, row)
  BY DEF CreateOperation
<1> HIDE DEF row
<1>3. /\ DOMAIN ops' = 1 .. Len(ops) + 1 /\ DOMAIN ops = 1 .. Len(ops) /\ Len(ops) \in Nat
      /\ \A o \in 1 .. Len(ops) : ops'[o] = ops[o]
  BY <1>1, <1>2 DEF TypeOK
<1> QED
  BY <1>1, <1>2, <1>3 DEF Kept

\* Appending the OPERATION row of a new completed operation keeps PaidOnce.
LEMMA PaidByCreation ==
  ASSUME TypeOK, PaidOnce, NEW u \in Users, NEW a \in Accounts, NEW type \in OpTypes,
         NEW amount \in Nat, NEW fee \in Nat, NEW key, NEW delta \in Int,
         CreateOperation(u, a, type, "COMPLETED", amount, fee, key),
         ApplyMovement(a, delta, "OPERATION", Len(ops) + 1)
  PROVE  PaidOnce'
<1>1. Scoped /\ \A o \in DOMAIN ops : Paid(o)
  BY PaidParts
<1>2. PICK new \in Operation : new.status = "COMPLETED" /\ new.account = a /\ ops' = Append(ops, new)
  BY CreatedRow
<1>3. /\ Kept /\ Len(ops) + 1 \in Nat /\ DOMAIN ops' = DOMAIN ops \cup {Len(ops) + 1}
      /\ \A o \in DOMAIN ops : ops'[o] = ops[o]
  BY CreatedRow
<1>4. PICK row \in Movement : /\ row.kind = "OPERATION" /\ row.op = Len(ops) + 1
                              /\ log' = [log EXCEPT ![a] = Append(log[a], row)]
  <2>1. Post(a, delta, "OPERATION", Len(ops) + 1)
    BY DEF ApplyMovement
  <2>2. CashTypeOK /\ "OPERATION" \in MovementKinds /\ Len(ops) + 1 \in Nat
    BY <1>3 DEF TypeOK, MovementKinds
  <2> QED
    BY <2>1, <2>2, PostRow
<1>5. ops'[Len(ops) + 1] = new /\ Len(ops) + 1 # 0 /\ Len(ops) + 1 \notin DOMAIN ops
  BY <1>2 DEF TypeOK
<1>6. Scoped'
  BY <1>1, <1>2, <1>3, <1>4, <1>5, ScopedAppend
<1>7. ASSUME NEW o \in DOMAIN ops PROVE Paid(o)'
  <2>1. o # Len(ops) + 1 /\ ops'[o] = ops[o] /\ Paid(o)
    BY <1>1, <1>3 DEF TypeOK
  <2> QED
    BY <1>4, <2>1, PaidElsewhere
<1>8. ASSUME NEW o, o = Len(ops) + 1 PROVE Paid(o)'
  BY <1>1, <1>2, <1>4, <1>5, <1>8, PaidNewCompleted
<1>9. \A o \in DOMAIN ops' : Paid(o)'
  BY <1>3, <1>7, <1>8
<1> QED
  BY <1>6, <1>9, PaidParts

LEMMA PaidStep == TypeOK /\ PaidOnce /\ [Next]_vars => PaidOnce'
<1> SUFFICES ASSUME TypeOK, PaidOnce, [Next]_vars PROVE PaidOnce'
  OBVIOUS
<1> USE OperationsAssumption, CashAssumption
<1>1. Scoped /\ \A o \in DOMAIN ops : Paid(o)
  BY PaidParts
<1>2. CASE OperationsNext
  <2>1. ASSUME NEW u \in Users, NEW a \in Accounts, NEW amount \in OpAmounts, NEW fee \in Fees,
               NEW key \in Keys \cup {NoKey}, CreateSentTransfer(u, a, amount, fee, key)
        PROVE  PaidOnce'
    <3>1. amount \in Nat /\ fee \in Nat /\ amount + fee \in Int
      OBVIOUS
    <3> QED
      BY <2>1, <3>1, PaidByCreation DEF CreateSentTransfer, OpTypes
  <2>2. ASSUME NEW u \in Users, NEW a \in Accounts, NEW amount \in OpAmounts, NEW fee \in Fees,
               NEW key \in Keys \cup {NoKey}, CreateWithdrawal(u, a, amount, fee, key)
        PROVE  PaidOnce'
    <3>1. amount \in Nat /\ fee \in Nat /\ fee - amount \in Int
      OBVIOUS
    <3> QED
      BY <2>2, <3>1, PaidByCreation DEF CreateWithdrawal, OpTypes
  <2>3. ASSUME NEW u \in Users, NEW a \in Accounts, NEW amount \in OpAmounts, NEW fee \in Fees,
               NEW key \in Keys \cup {NoKey}, ReceiveTransfer(u, a, amount, fee, key)
        PROVE  PaidOnce'
    <3>1. amount \in Nat /\ fee \in Nat /\ "RECEIVED_TRANSFER" \in OpTypes
      BY DEF OpTypes
    <3>2. CreateOperation(u, a, "RECEIVED_TRANSFER", "PENDING", amount, fee, key) /\ UNCHANGED log
      BY <2>3 DEF ReceiveTransfer, cashVars, accountVars
    <3>3. /\ Kept /\ DOMAIN ops' = DOMAIN ops \cup {Len(ops) + 1}
          /\ \A o \in DOMAIN ops : ops'[o] = ops[o]
          /\ \E row \in Operation : row.status = "PENDING" /\ ops' = Append(ops, row)
      BY <3>1, <3>2, CreatedRow
    <3>4. Scoped'
      BY <1>1, <3>2, <3>3, ScopedSame
    <3>5. \A o \in DOMAIN ops : Paid(o)'
      BY <1>1, <3>2, <3>3, PaidSame
    <3>6. ASSUME NEW o, o = Len(ops) + 1 PROVE Paid(o)'
      BY <1>1, <3>2, <3>3, <3>6, PaidNewPending
    <3>7. \A o \in DOMAIN ops' : Paid(o)'
      BY <3>3, <3>5, <3>6
    <3> QED
      BY <3>4, <3>7, PaidParts
  <2>4. ASSUME NEW o \in DOMAIN ops, Kept, DOMAIN ops' = DOMAIN ops,
               \A q \in DOMAIN ops : q # o => ops'[q] = ops[q], UNCHANGED log,
               (ops'[o].status = "PENDING") = (ops[o].status = "PENDING")
        PROVE  PaidOnce'
    <3>1. Scoped'
      BY <1>1, <2>4, ScopedSame
    <3>2. \A q \in DOMAIN ops : Paid(q)'
      BY <1>1, <2>4, PaidSame DEF Kept
    <3> QED
      BY <2>4, <3>1, <3>2, PaidParts
  <2>5. ASSUME NEW o \in DOMAIN ops, Kept, DOMAIN ops' = DOMAIN ops,
               \A q \in DOMAIN ops : q # o => ops'[q] = ops[q],
               NEW delta \in Int, NEW kind \in {"OPERATION", "ADJUSTMENT"},
               ApplyMovement(ops[o].account, delta, kind, o), ops'[o].status # "PENDING",
               (kind = "OPERATION") <=> (ops[o].status = "PENDING")
        PROVE  PaidOnce'
    <3>1. ops[o].account \in Accounts /\ o \in Nat \ {0} /\ kind \in MovementKinds
      BY OperationRecord DEF MovementKinds
    <3>2. PICK row \in Movement : /\ row.kind = kind /\ row.op = o
             /\ log' = [log EXCEPT ![ops[o].account] = Append(log[ops[o].account], row)]
      BY <2>5, <3>1, PostRow DEF ApplyMovement, TypeOK
    <3>3. Scoped'
      BY <1>1, <2>5, <3>1, <3>2, ScopedAppend DEF Kept
    <3>4. \A q \in DOMAIN ops : q # o => Paid(q)'
      BY <1>1, <2>5, <3>1, <3>2, PaidElsewhere
    <3>5. ops'[o].account = ops[o].account /\ Paid(o)
      BY <1>1, <2>5 DEF Kept
    <3>6. Paid(o)'
      <4>1. CASE kind = "OPERATION"
        BY <2>5, <3>2, <3>5, <4>1, PaidNow
      <4>2. CASE kind = "ADJUSTMENT"
        BY <2>5, <3>2, <3>5, <4>2, PaidBefore
      <4> QED
        BY <4>1, <4>2
    <3> QED
      BY <2>5, <3>3, <3>4, <3>6, PaidParts
  <2>6. ASSUME NEW o \in DOMAIN ops, NEW row \in Operation, ops' = [ops EXCEPT ![o] = row],
               row.account = ops[o].account
        PROVE  /\ Kept /\ DOMAIN ops' = DOMAIN ops /\ ops'[o] = row
               /\ \A q \in DOMAIN ops : q # o => ops'[q] = ops[q]
    BY <2>6 DEF Kept, TypeOK
  <2>7. ASSUME NEW u \in Users, NEW o \in DOMAIN ops, PayReceivedTransfer(u, o)
        PROVE  PaidOnce'
    <3> DEFINE row == [ops[o] EXCEPT !.status = "COMPLETED"]
    <3>1. row \in Operation /\ row.account = ops[o].account /\ row.status = "COMPLETED"
      BY OperationRecord DEF Operation
    <3>2. ops' = [ops EXCEPT ![o] = row] /\ ops[o].fee - ops[o].amount \in Int
      BY <2>7, OperationRecord DEF PayReceivedTransfer
    <3> HIDE DEF row
    <3> QED
      BY <2>5, <2>6, <2>7, <3>1, <3>2 DEF PayReceivedTransfer
  <2>8. ASSUME NEW u \in Users, NEW o \in DOMAIN ops, CancelOperation(u, o)
        PROVE  PaidOnce'
    <3> DEFINE row == [ops[o] EXCEPT !.status = "CANCELLED"]
    <3>1. row \in Operation /\ row.account = ops[o].account /\ row.status = "CANCELLED"
      BY OperationRecord DEF Operation
    <3>2. ops' = [ops EXCEPT ![o] = row]
      BY <2>8 DEF CancelOperation
    <3>3. PICK i \in Originals(o) :
             ApplyMovement(ops[o].account, -log[ops[o].account][i].delta, "ADJUSTMENT", o)
      BY <2>8 DEF CancelOperation
    <3>4. -log[ops[o].account][i].delta \in Int
      BY OriginalDelta
    <3> HIDE DEF row
    <3> QED
      BY <2>5, <2>6, <2>8, <3>1, <3>2, <3>3, <3>4 DEF CancelOperation
  <2>9. ASSUME NEW u \in Users, NEW o \in DOMAIN ops, NEW amount \in OpAmounts, NEW fee \in Fees,
               ReviseOperation(u, o, amount, fee)
        PROVE  PaidOnce'
    <3> DEFINE row == [[ops[o] EXCEPT !.amount = amount] EXCEPT !.fee = fee]
    <3>1. row \in Operation /\ row.account = ops[o].account /\ row.status = ops[o].status
      BY OperationRecord DEF Operation
    <3>2. ops' = [ops EXCEPT ![o] = row] /\ amount \in Nat /\ fee \in Nat
      BY <2>9 DEF ReviseOperation, TypeOK
    <3>3. \/ UNCHANGED log
          \/ /\ ops[o].status = "COMPLETED"
             /\ \E delta \in Int : ApplyMovement(ops[o].account, delta, "ADJUSTMENT", o)
      BY <2>9, <3>2, RevisionMoves DEF ReviseOperation
    <3> HIDE DEF row
    <3>4. /\ Kept /\ DOMAIN ops' = DOMAIN ops /\ ops'[o] = row
          /\ \A q \in DOMAIN ops : q # o => ops'[q] = ops[q]
      BY <2>6, <3>1, <3>2
    <3>5. CASE UNCHANGED log
      BY <2>4, <3>1, <3>4, <3>5
    <3>6. ASSUME NEW delta \in Int, ops[o].status = "COMPLETED",
                 ApplyMovement(ops[o].account, delta, "ADJUSTMENT", o)
          PROVE  PaidOnce'
      BY <2>5, <3>1, <3>4, <3>6
    <3> QED
      BY <3>3, <3>5, <3>6
  <2> QED
    BY <1>2, <2>1, <2>2, <2>3, <2>7, <2>8, <2>9 DEF OperationsNext
<1>3. CASE [CashNext]_cashVars /\ UNCHANGED opsVars
  <2>1. Kept /\ ops' = ops
    BY <1>3 DEF Kept, opsVars
  <2>2. CASE UNCHANGED log
    <3>1. Scoped' /\ \A o \in DOMAIN ops : Paid(o)'
      BY <1>1, <2>1, <2>2, ScopedSame, PaidSame
    <3> QED
      BY <2>1, <3>1, PaidParts
  <2>3. ASSUME NEW a \in Accounts, NEW row \in Movement, row.op = 0, row.kind # "OPERATION",
               log' = [log EXCEPT ![a] = Append(log[a], row)]
        PROVE  PaidOnce'
    <3>1. Scoped'
      BY <1>1, <2>1, <2>3, ScopedAppend
    <3>2. \A o \in DOMAIN ops : Paid(o)'
      BY <1>1, <2>1, <2>3, PaidElsewhere, OperationRecord
    <3> QED
      BY <2>1, <3>1, <3>2, PaidParts
  <2> QED
    BY <1>3, <2>2, <2>3, CashRow DEF TypeOK
<1> QED
  BY <1>2, <1>3 DEF Next, vars

\* An operation is paid exactly once, in the ledger of its own account, and
\* before anything corrects it, however payments, corrections, cancellations,
\* closures and handovers follow one another.
THEOREM OperationsArePaidOnce == Spec => []PaidOnce
<1>1. Init => PaidOnce
  BY DEF Init, CashInit, PaidOnce
<1> QED
  BY <1>1, PaidStep, TypeInit, TypeStep, PTL DEF Spec

-----------------------------------------------------------------------------
(* Keys *)

\* The row of an operation keeps who made it, where, when and what it is.
Identified(new, old) ==
    /\ new.type = old.type /\ new.agent = old.agent
    /\ new.account = old.account /\ new.day = old.day

LEMMA UpdatedRow ==
  ASSUME TypeOK, NEW o \in DOMAIN ops, NEW row, ops' = [ops EXCEPT ![o] = row],
         Identified(row, ops[o])
  PROVE  /\ DOMAIN ops' = DOMAIN ops /\ ops'[o] = row
         /\ \A q \in DOMAIN ops : q # o => ops'[q] = ops[q]
         /\ \A q \in DOMAIN ops : Identified(ops'[q], ops[q])
BY DEF TypeOK, Identified

\* What the services other than the creations do to the rows of operations.
LEMMA CorrectionRows ==
  ASSUME TypeOK, NEW u \in Users, NEW o \in DOMAIN ops
  PROVE  /\ PayReceivedTransfer(u, o) =>
              ops' = [ops EXCEPT ![o] = [ops[o] EXCEPT !.status = "COMPLETED"]]
         /\ CancelOperation(u, o) =>
              ops' = [ops EXCEPT ![o] = [ops[o] EXCEPT !.status = "CANCELLED"]]
<1>1. ops[o] \in Operation
  BY OperationRecord
<1> QED
  BY <1>1 DEF PayReceivedTransfer, CancelOperation, Operation, TypeOK

LEMMA RevisedRow ==
  ASSUME TypeOK, NEW u \in Users, NEW o \in DOMAIN ops, NEW amount, NEW fee,
         ReviseOperation(u, o, amount, fee)
  PROVE  ops' = [ops EXCEPT ![o] = [[ops[o] EXCEPT !.amount = amount] EXCEPT !.fee = fee]]
<1>1. ops[o] \in Operation
  BY OperationRecord
<1> QED
  BY <1>1 DEF ReviseOperation, Operation, TypeOK

LEMMA CorrectedRow ==
  ASSUME NEW row \in Operation
  PROVE  /\ \A status : Identified([row EXCEPT !.status = status], row)
         /\ \A amount, fee : Identified([[row EXCEPT !.amount = amount] EXCEPT !.fee = fee], row)
BY DEF Operation, Identified

\* A step creates one operation or leaves those there are identified, under
\* the keys they have.
LEMMA OperationsStep ==
  ASSUME TypeOK, [Next]_vars
  PROVE  \/ \E u \in Users, a \in Accounts, type \in OpTypes, status \in {"PENDING", "COMPLETED"},
               amount \in Nat, fee \in Nat, key \in Keys \cup {NoKey} :
               CreateOperation(u, a, type, status, amount, fee, key)
         \/ /\ UNCHANGED requests /\ DOMAIN ops' = DOMAIN ops
            /\ \A q \in DOMAIN ops : Identified(ops'[q], ops[q])
<1> DEFINE Created == \E u \in Users, a \in Accounts, type \in OpTypes,
                         status \in {"PENDING", "COMPLETED"}, amount \in Nat, fee \in Nat,
                         key \in Keys \cup {NoKey} :
                         CreateOperation(u, a, type, status, amount, fee, key)
           Same == /\ UNCHANGED requests /\ DOMAIN ops' = DOMAIN ops
                   /\ \A q \in DOMAIN ops : Identified(ops'[q], ops[q])
<1>1. ASSUME NEW u \in Users, NEW a \in Accounts, NEW amount \in OpAmounts, NEW fee \in Fees,
             NEW key \in Keys \cup {NoKey},
             \/ CreateSentTransfer(u, a, amount, fee, key)
             \/ CreateWithdrawal(u, a, amount, fee, key)
             \/ ReceiveTransfer(u, a, amount, fee, key)
      PROVE  Created
  <2>1. amount \in Nat /\ fee \in Nat
    BY OperationsAssumption
  <2> QED
    BY <1>1, <2>1 DEF CreateSentTransfer, CreateWithdrawal, ReceiveTransfer, OpTypes
<1>2. ASSUME NEW u \in Users, NEW o \in DOMAIN ops,
             \/ PayReceivedTransfer(u, o)
             \/ CancelOperation(u, o)
             \/ \E amount \in OpAmounts, fee \in Fees : ReviseOperation(u, o, amount, fee)
      PROVE  Same
  <2>1. PICK row : ops' = [ops EXCEPT ![o] = row] /\ Identified(row, ops[o])
    <3>1. ops[o] \in Operation
      BY OperationRecord
    <3>2. CASE PayReceivedTransfer(u, o)
      BY <3>1, <3>2, CorrectionRows, CorrectedRow
    <3>3. CASE CancelOperation(u, o)
      BY <3>1, <3>3, CorrectionRows, CorrectedRow
    <3>4. ASSUME NEW amount \in OpAmounts, NEW fee \in Fees, ReviseOperation(u, o, amount, fee)
          PROVE  \E row : ops' = [ops EXCEPT ![o] = row] /\ Identified(row, ops[o])
      <4> DEFINE row == [[ops[o] EXCEPT !.amount = amount] EXCEPT !.fee = fee]
      <4>1. ops' = [ops EXCEPT ![o] = row]
        BY <3>4 DEF ReviseOperation, TypeOK
      <4>2. Identified(row, ops[o])
        BY <3>1, CorrectedRow
      <4> HIDE DEF row
      <4> QED
        BY <4>1, <4>2
    <3> QED
      BY <1>2, <3>2, <3>3, <3>4
  <2>2. UNCHANGED requests
    BY <1>2 DEF PayReceivedTransfer, CancelOperation, ReviseOperation
  <2> QED
    BY <2>1, <2>2, UpdatedRow
<1>3. CASE UNCHANGED opsVars
  BY <1>3 DEF opsVars, Identified
<1> QED
  BY <1>1, <1>2, <1>3 DEF Next, OperationsNext, vars

LEMMA KeyStep == TypeOK /\ OneOperationPerKey /\ [Next]_vars => OneOperationPerKey'
<1> SUFFICES ASSUME TypeOK, OneOperationPerKey, [Next]_vars PROVE OneOperationPerKey'
  OBVIOUS
<1>1. ASSUME NEW u \in Users, NEW a \in Accounts, NEW type \in OpTypes,
             NEW status \in {"PENDING", "COMPLETED"}, NEW amount \in Nat, NEW fee \in Nat,
             NEW key \in Keys \cup {NoKey}, CreateOperation(u, a, type, status, amount, fee, key)
      PROVE  OneOperationPerKey'
  <2> DEFINE n == Len(ops) + 1
             row == [type |-> type, status |-> status, agent |-> u, account |-> a,
                     amount |-> amount, fee |-> fee, day |-> today]
             request == [actor |-> u, key |-> key, action |-> type, op |-> n]
  <2>1. ops' = Append(ops, row)
    BY <1>1 DEF CreateOperation
  <2>2. row.agent = u /\ row.type = type
    OBVIOUS
  <2>3. request.actor = u /\ request.key = key /\ request.action = type /\ request.op = n
    OBVIOUS
  <2>4. \/ UNCHANGED requests
        \/ /\ ~\E r \in requests : r.actor = u /\ r.key = key
           /\ requests' = requests \cup {request}
    BY <1>1 DEF CreateOperation, ClaimRequest
  <2> HIDE DEF row, request
  <2>5. /\ DOMAIN ops' = DOMAIN ops \cup {n} /\ n \notin DOMAIN ops
        /\ ops'[n] = row /\ \A o \in DOMAIN ops : ops'[o] = ops[o]
    BY <2>1 DEF TypeOK
  <2> HIDE DEF n
  <2>6. \A r \in requests : r.op \in DOMAIN ops /\ ops[r.op].agent = r.actor /\ ops[r.op].type = r.action
    BY DEF OneOperationPerKey
  <2>7. \A r \in requests' :
           /\ r.op \in DOMAIN ops'
           /\ ops'[r.op].agent = r.actor
           /\ ops'[r.op].type = r.action
    BY <2>2, <2>3, <2>4, <2>5, <2>6
  <2>8. \A r, s \in requests' : (r.op = s.op \/ (r.actor = s.actor /\ r.key = s.key)) => r = s
    BY <2>3, <2>4, <2>5, <2>6 DEF OneOperationPerKey
  <2> QED
    BY <2>7, <2>8 DEF OneOperationPerKey
<1>2. ASSUME UNCHANGED requests, DOMAIN ops' = DOMAIN ops,
             \A q \in DOMAIN ops : Identified(ops'[q], ops[q])
      PROVE  OneOperationPerKey'
  BY <1>2 DEF OneOperationPerKey, Identified
<1> QED
  BY <1>1, <1>2, OperationsStep

\* A key stands for one operation, the one its user created with it, and an
\* operation is created under one key, however often a form is submitted.
THEOREM KeysNameOneOperation == Spec => []OneOperationPerKey
<1>1. Init => OneOperationPerKey
  BY DEF Init, OneOperationPerKey
<1> QED
  BY <1>1, KeyStep, TypeInit, TypeStep, PTL DEF Spec


-----------------------------------------------------------------------------
(* Closed days *)

\* Once its day is closed an operation can only still be paid out.
THEOREM ClosedDaysStaySettled == Spec => ClosedDaysSettled
<1>1. ASSUME TypeOK, [Next]_vars
      PROVE  \A o \in DOMAIN ops :
                closures[ops[o].account][ops[o].day].status = "CLOSED" =>
                    \/ ops'[o] = ops[o]
                    \/ ops[o].status = "PENDING" /\ ops'[o] = [ops[o] EXCEPT !.status = "COMPLETED"]
  <2> DEFINE Settled(o) == \/ ops'[o] = ops[o]
                           \/ /\ ops[o].status = "PENDING"
                              /\ ops'[o] = [ops[o] EXCEPT !.status = "COMPLETED"]
  <2> SUFFICES ASSUME NEW o \in DOMAIN ops,
                      closures[ops[o].account][ops[o].day].status = "CLOSED"
               PROVE  Settled(o)
    OBVIOUS
  <2>1. ASSUME NEW u \in Users, NEW q \in DOMAIN ops, PayReceivedTransfer(u, q) PROVE Settled(o)
    <3>1. /\ ops[q].status = "PENDING"
          /\ ops' = [ops EXCEPT ![q] = [ops[q] EXCEPT !.status = "COMPLETED"]]
      BY <2>1, CorrectionRows DEF PayReceivedTransfer
    <3> QED
      BY <3>1 DEF TypeOK
  <2>2. ASSUME NEW u \in Users, NEW q \in DOMAIN ops, NEW row, ops' = [ops EXCEPT ![q] = row],
               ~DayIsClosed(ops[q].account, ops[q].day)
        PROVE  Settled(o)
    <3>1. q # o
      BY <2>2 DEF DayIsClosed
    <3> QED
      BY <2>2, <3>1 DEF TypeOK
  <2>3. ASSUME NEW u \in Users, NEW q \in DOMAIN ops, CancelOperation(u, q) PROVE Settled(o)
    BY <2>2, <2>3, CorrectionRows DEF CancelOperation
  <2>4. ASSUME NEW u \in Users, NEW q \in DOMAIN ops, NEW amount \in OpAmounts, NEW fee \in Fees,
               ReviseOperation(u, q, amount, fee)
        PROVE  Settled(o)
    BY <1>1, <2>2, <2>4, RevisedRow DEF ReviseOperation
  <2>5. ASSUME NEW row, ops' = Append(ops, row) PROVE Settled(o)
    BY <2>5 DEF TypeOK
  <2>6. CASE UNCHANGED ops
    BY <2>6
  <2>7. ASSUME NEW u \in Users, NEW a \in Accounts, NEW amount \in OpAmounts, NEW fee \in Fees,
               NEW key \in Keys \cup {NoKey},
               \/ CreateSentTransfer(u, a, amount, fee, key)
               \/ CreateWithdrawal(u, a, amount, fee, key)
               \/ ReceiveTransfer(u, a, amount, fee, key)
        PROVE  Settled(o)
    <3>1. PICK type, status : CreateOperation(u, a, type, status, amount, fee, key)
      BY <2>7 DEF CreateSentTransfer, CreateWithdrawal, ReceiveTransfer
    <3> QED
      BY <2>5, <3>1 DEF CreateOperation
  <2> HIDE DEF Settled
  <2> QED
    BY <1>1, <2>1, <2>3, <2>4, <2>6, <2>7 DEF Next, OperationsNext, vars, opsVars
<1> QED
  BY <1>1, TypeInit, TypeStep, PTL DEF Spec, ClosedDaysSettled

-----------------------------------------------------------------------------
(* Refinement *)

\* An operation or its correction is business at one till.
LEMMA MovesAreBusiness ==
  ASSUME TypeOK, OnlyMovement, Moves
  PROVE  Vault!Next \/ UNCHANGED <<reserve, balance>>
<1>1. UNCHANGED reserve
  BY DEF OnlyMovement, reserveVars
<1>2. ASSUME NEW a \in Accounts, NEW delta \in Int, NEW kind \in {"OPERATION", "ADJUSTMENT"},
             NEW op \in Nat \ {0}, ApplyMovement(a, delta, kind, op)
      PROVE  Vault!Next
  <2>1. CashTypeOK /\ Post(a, delta, kind, op) /\ kind \in MovementKinds /\ op \in Nat
    BY <1>2 DEF TypeOK, ApplyMovement, MovementKinds
  <2>2. balance' \in [Accounts -> Nat]
    BY <2>1, PostTypeOK
  <2>3. \A other \in Accounts \ {a} : balance'[other] = balance[other]
    BY <2>1 DEF Post, CashTypeOK
  <2> QED
    BY <1>1, <2>2, <2>3 DEF Vault!Next, Vault!Business
<1> QED
  BY <1>1, <1>2 DEF Moves

LEMMA OperationsVaultStep == TypeOK /\ TypeOK' /\ [Next]_vars => [Vault!Next]_(Vault!vaultVars)
<1> SUFFICES ASSUME TypeOK, TypeOK', [Next]_vars
             PROVE  [Vault!Next]_(Vault!vaultVars)
  OBVIOUS
<1>1. CASE OperationsNext
  BY <1>1, OperationsMove, MovesAreBusiness DEF Vault!vaultVars
<1>2. CASE [CashNext]_cashVars
  BY <1>2, VaultStep DEF TypeOK
<1> QED
  BY <1>1, <1>2 DEF Next, vars

\* Both applications together implement the vault: operations, payouts and
\* corrections are business at one till, and touch neither another till nor
\* the capital.
THEOREM OperationsImplementVault == Spec => ImplementsVault
<1>1. Init => Vault!Init
  BY VaultInit DEF Init
<1> QED
  BY <1>1, OperationsVaultStep, TypeInit, TypeStep, PTL DEF Spec, ImplementsVault, Vault!Spec


-----------------------------------------------------------------------------
(* Prices and the cash they move *)

LEMMA LedgerTyped ==
  ASSUME TypeOK, NEW o \in DOMAIN ops
  PROVE  /\ log[ops[o].account] \in Seq(Movement)
         /\ \A i \in DOMAIN log[ops[o].account] :
               log[ops[o].account][i] \in Movement /\ log[ops[o].account][i].delta \in Int
         /\ OperationRows(o) \in SUBSET DOMAIN log[ops[o].account]
         /\ Originals(o) \in SUBSET OperationRows(o)
<1>1. log[ops[o].account] \in Seq(Movement)
  BY OperationRecord DEF TypeOK, CashTypeOK
<1>2. \A i \in DOMAIN log[ops[o].account] : log[ops[o].account][i] \in Movement
  BY <1>1
<1>3. DOMAIN log[ops[o].account] = 1 .. Len(log[ops[o].account])
  BY <1>1
<1> QED
  BY <1>1, <1>2, <1>3 DEF Movement, OperationRows, Originals

\* What a new row adds to the cash of an operation.
LEMMA NetAfter ==
  ASSUME TypeOK, NEW o \in DOMAIN ops, ops'[o].account = ops[o].account,
         NEW a \in Accounts, NEW row \in Movement,
         log' = [log EXCEPT ![a] = Append(log[a], row)]
  PROVE  /\ NetEffect(o) \in Int
         /\ NetEffect(o)' = NetEffect(o) + (IF a = ops[o].account /\ row.op = o THEN row.delta ELSE 0)
         /\ \A i \in OperationRows(o) : log'[ops[o].account][i] = log[ops[o].account][i]
<1> DEFINE b == ops[o].account
           rows == log[b]
           before == OperationRows(o)
           after == OperationRows(o)'
           n == Len(rows) + 1
<1>1. /\ b \in Accounts /\ rows \in Seq(Movement) /\ \A i \in DOMAIN rows : rows[i].delta \in Int
      /\ before \in SUBSET DOMAIN rows /\ row.delta \in Int
  BY LedgerTyped, OperationRecord DEF Movement
<1>2. NetEffect(o) = DeltaSum(rows, before) /\ NetEffect(o)' = DeltaSum(log'[b], after)
  BY DEF NetEffect
<1>3. n \notin DOMAIN rows /\ \A i \in DOMAIN rows : Append(rows, row)[i] = rows[i]
  BY <1>1
<1>4. log'[b] = IF a = b THEN Append(rows, row) ELSE rows
  BY <1>1 DEF TypeOK, CashTypeOK
<1>5. after = IF a = b /\ row.op = o THEN before \cup {n} ELSE before
  BY RowsAfterAppend
<1> HIDE DEF b, rows, before, after, n
<1>6. DeltaSum(rows, before) \in Int
      /\ DeltaSum(Append(rows, row), after) =
           DeltaSum(rows, before) + (IF n \in after THEN row.delta ELSE 0)
  <2>1. after = before \/ after = before \cup {Len(rows) + 1}
    BY <1>5 DEF n
  <2> QED
    BY <1>1, <2>1, DeltaNext DEF n
<1>7. n \in after <=> a = b /\ row.op = o
  BY <1>1, <1>3, <1>5
<1>8. /\ NetEffect(o) \in Int
      /\ NetEffect(o)' = NetEffect(o) + (IF a = b /\ row.op = o THEN row.delta ELSE 0)
  <2>1. CASE a = b
    BY <1>2, <1>4, <1>6, <1>7, <2>1
  <2>2. CASE a # b
    BY <1>2, <1>4, <1>5, <1>6, <2>2
  <2> QED
    BY <2>1, <2>2
<1>9. \A i \in before : log'[b][i] = rows[i]
  BY <1>1, <1>3, <1>4
<1> QED
  BY <1>8, <1>9 DEF b, rows, before

LEMMA NetNone ==
  ASSUME TypeOK, NEW o \in DOMAIN ops, OperationRows(o) = {}
  PROVE  NetEffect(o) = 0
<1>1. DOMAIN [i \in OperationRows(o) |-> log[ops[o].account][i].delta] = {}
  OBVIOUS
<1> QED
  BY <1>1, SumEmpty DEF NetEffect, DeltaSum


\* The parts of TrailExplainsPrice and LedgerFollowsFirstRevision for one
\* operation, and that only a transfer received can be pending.
Prices(o) == {PriceOf(ops[o])} \cup {revisions[k].before : k \in Trail(o)}

Chained(o) ==
    /\ \A j, k \in Trail(o) : j < k /\ (\A l \in Trail(o) : l <= j \/ l >= k)
          => revisions[j].after = revisions[k].before
    /\ \A k \in Trail(o) : (\A j \in Trail(o) : j <= k) => revisions[k].after = PriceOf(ops[o])

Booked(o) ==
    \A i \in Originals(o) : \E p \in Prices(o) :
        log[ops[o].account][i].delta = Impact(ops[o].type, p.amount, p.fee)

Followed(o) ==
    (\A j, k \in Trail(o) : j = k) /\ (Trail(o) = {} \/ ops[o].status # "CANCELLED")
        => NetEffect(o) = Owed(o)

Announced(o) == ops[o].status = "PENDING" => ops[o].type = "RECEIVED_TRANSFER"

History(o) == Chained(o) /\ Booked(o) /\ Followed(o) /\ Announced(o)

RevisionsScoped == \A k \in DOMAIN revisions : revisions[k].op \in DOMAIN ops

HistoryInv == RevisionsScoped /\ \A o \in DOMAIN ops : History(o)

LEMMA HistoryParts == HistoryInv => TrailExplainsPrice /\ LedgerFollowsFirstRevision
BY DEF HistoryInv, History, Chained, Booked, Followed, Prices,
       TrailExplainsPrice, LedgerFollowsFirstRevision

\* The rows of an operation and its revisions stay as they are.
SameRows(o) ==
    /\ OperationRows(o)' = OperationRows(o) /\ Originals(o)' = Originals(o)
    /\ NetEffect(o)' = NetEffect(o)
    /\ \A i \in OperationRows(o) : log'[ops[o].account][i] = log[ops[o].account][i]

SameTrail(o) ==
    /\ Trail(o)' = Trail(o)
    /\ \A k \in Trail(o) : revisions'[k] = revisions[k]

LEMMA RowsUnchanged ==
  ASSUME TypeOK, NEW o \in DOMAIN ops, ops'[o].account = ops[o].account, UNCHANGED log
  PROVE  SameRows(o)
BY DEF SameRows, OperationRows, Originals, NetEffect

LEMMA RowsElsewhere ==
  ASSUME TypeOK, NEW o \in DOMAIN ops, ops'[o].account = ops[o].account,
         NEW a \in Accounts, NEW row \in Movement, row.op # o,
         log' = [log EXCEPT ![a] = Append(log[a], row)]
  PROVE  SameRows(o)
<1>1. OperationRows(o)' = OperationRows(o) /\ Originals(o)' = Originals(o)
  BY RowsAfterAppend
<1>2. /\ NetEffect(o) \in Int /\ NetEffect(o)' = NetEffect(o) + 0
      /\ \A i \in OperationRows(o) : log'[ops[o].account][i] = log[ops[o].account][i]
  BY NetAfter
<1>3. NetEffect(o)' = NetEffect(o)
  BY <1>2
<1> QED
  BY <1>1, <1>2, <1>3 DEF SameRows

LEMMA TrailUnchanged == ASSUME UNCHANGED revisions, NEW o PROVE SameTrail(o)
BY DEF SameTrail, Trail

\* A new revision is the last of its operation.
LEMMA TrailAppend ==
  ASSUME TypeOK, NEW r \in Revision, revisions' = Append(revisions, r), NEW o
  PROVE  /\ r.op # o => SameTrail(o)
         /\ r.op = o => Trail(o)' = Trail(o) \cup {Len(revisions) + 1}
         /\ \A k \in Trail(o) : revisions'[k] = revisions[k] /\ k < Len(revisions) + 1 /\ k \in Nat
         /\ revisions'[Len(revisions) + 1] = r /\ Len(revisions) + 1 \in Nat
<1>1. /\ Len(revisions) \in Nat /\ DOMAIN revisions = 1 .. Len(revisions)
      /\ DOMAIN revisions' = DOMAIN revisions \cup {Len(revisions) + 1}
      /\ \A k \in DOMAIN revisions : revisions'[k] = revisions[k]
      /\ revisions'[Len(revisions) + 1] = r
  BY DEF TypeOK
<1> QED
  BY <1>1 DEF SameTrail, Trail

\* An operation with the same rows and the same trail has the same history.
LEMMA HistoryKept ==
  ASSUME TypeOK, NEW o \in DOMAIN ops, History(o), ops'[o] = ops[o], SameRows(o), SameTrail(o)
  PROVE  History(o)'
<1>1. PriceOf(ops[o])' = PriceOf(ops[o]) /\ Owed(o)' = Owed(o)
  BY DEF PriceOf, Owed
<1>2. Prices(o)' = Prices(o)
  BY <1>1 DEF Prices, SameTrail
<1>3. Chained(o)'
  BY <1>1 DEF History, Chained, SameTrail
<1>4. Booked(o)'
  BY <1>2, LedgerTyped DEF History, Booked, SameRows
<1>5. Followed(o)' /\ Announced(o)'
  BY <1>1 DEF History, Followed, Announced, SameRows, SameTrail
<1> QED
  BY <1>3, <1>4, <1>5 DEF History


LEMMA HistoryInit == Init => HistoryInv
BY DEF Init, HistoryInv, RevisionsScoped

\* An operation whose price and trail stay as they are stays chained.
LEMMA ChainedKept ==
  ASSUME NEW o \in DOMAIN ops, Chained(o), SameTrail(o), PriceOf(ops'[o]) = PriceOf(ops[o])
  PROVE  Chained(o)' /\ Prices(o)' = Prices(o)
BY DEF Chained, SameTrail, Prices

\* A payout announced and now made.
LEMMA HistoryPaid ==
  ASSUME TypeOK, NEW o \in DOMAIN ops, ops[o].status = "PENDING", Paid(o), History(o),
         NEW new \in Operation, ops'[o] = new, new.status = "COMPLETED",
         new.type = ops[o].type, new.account = ops[o].account,
         new.amount = ops[o].amount, new.fee = ops[o].fee,
         NEW row \in Movement, row.op = o, row.kind = "OPERATION",
         row.delta = ops[o].fee - ops[o].amount,
         NEW a \in Accounts, a = ops[o].account, log' = [log EXCEPT ![a] = Append(log[a], row)],
         SameTrail(o)
  PROVE  History(o)'
<1>1. /\ OperationRows(o) = {} /\ Originals(o) = {} /\ NetEffect(o) = 0
  <2>1. OperationRows(o) = {} /\ Originals(o) = {}
    BY DEF Paid, OperationRows, Originals
  <2> QED
    BY <2>1, NetNone
<1>2. row.delta = Impact(new.type, new.amount, new.fee)
  <2>1. new.type = "RECEIVED_TRANSFER"
    BY DEF History, Announced
  <2>2. ops[o].fee \in Nat /\ ops[o].amount \in Nat
    BY OperationRecord
  <2> QED
    BY <2>1, <2>2 DEF Impact
<1>3. log[a] \in Seq(Movement) /\ log'[a] = Append(log[a], row)
  BY DEF TypeOK, CashTypeOK
<1>4. PICK n : Originals(o)' = {n} /\ log'[a][n] = row
  <2>1. ops'[o].account = ops[o].account /\ {} \cup {Len(log[a]) + 1} = {Len(log[a]) + 1}
    OBVIOUS
  <2>2. Originals(o)' = Originals(o) \cup {Len(log[a]) + 1}
    BY <2>1, RowsAfterAppend
  <2>3. log'[a][Len(log[a]) + 1] = row
    BY <1>3
  <2> QED
    BY <1>1, <2>1, <2>2, <2>3
<1>5. NetEffect(o)' = row.delta
  <2>1. NetEffect(o)' = 0 + row.delta
    BY <1>1, NetAfter
  <2> QED
    BY <2>1 DEF Movement
<1>6. PriceOf(ops'[o]) = PriceOf(ops[o])
  BY DEF PriceOf
<1>7. Chained(o)' /\ Prices(o)' = Prices(o)
  BY <1>6, ChainedKept DEF History
<1>8. PriceOf(ops'[o]) \in Prices(o)' /\ PriceOf(ops'[o]).amount = new.amount /\ PriceOf(ops'[o]).fee = new.fee
  BY <1>6, <1>7 DEF Prices, PriceOf
<1>9. Booked(o)'
  BY <1>2, <1>4, <1>8 DEF Booked
<1>10. Followed(o)'
  BY <1>2, <1>5 DEF Followed, Owed
<1> QED
  BY <1>7, <1>9, <1>10 DEF History, Announced


\* A new operation has no revisions.
LEMMA TrailNew ==
  ASSUME RevisionsScoped, UNCHANGED revisions, NEW o, o \notin DOMAIN ops
  PROVE  Trail(o)' = {}
BY DEF RevisionsScoped, Trail

\* A payout announced: no row yet, and no cash owed.
LEMMA HistoryNewPending ==
  ASSUME TypeOK, Scoped, RevisionsScoped, UNCHANGED <<log, revisions>>,
         NEW o, o \notin DOMAIN ops, o # 0,
         NEW new \in Operation, ops'[o] = new, new.status = "PENDING",
         new.type = "RECEIVED_TRANSFER"
  PROVE  History(o)'
<1>1. Trail(o)' = {}
  BY TrailNew
<1>2. OperationRows(o)' = {} /\ Originals(o)' = {}
  <2>1. new.account \in Accounts
    BY DEF Operation
  <2>2. \A i \in 1 .. Len(log[new.account]) : log[new.account][i].op # o
    BY <2>1 DEF Scoped
  <2> QED
    BY <2>2 DEF OperationRows, Originals
<1>3. NetEffect(o)' = 0
  <2>1. DOMAIN [i \in {} |-> log'[ops'[o].account][i].delta] = {}
    OBVIOUS
  <2> QED
    BY <1>2, <2>1, SumEmpty DEF NetEffect, DeltaSum
<1>4. Owed(o)' = 0
  BY DEF Owed
<1> QED
  BY <1>1, <1>2, <1>3, <1>4 DEF History, Chained, Booked, Followed, Announced

\* An operation made at once, booked with the cash it moves.
LEMMA HistoryNewCompleted ==
  ASSUME TypeOK, Scoped, RevisionsScoped, UNCHANGED revisions,
         NEW o, o \notin DOMAIN ops, o # 0,
         NEW new \in Operation, ops'[o] = new, new.status = "COMPLETED",
         NEW row \in Movement, row.op = o, row.kind = "OPERATION",
         row.delta = Impact(new.type, new.amount, new.fee),
         NEW a \in Accounts, new.account = a, log' = [log EXCEPT ![a] = Append(log[a], row)]
  PROVE  History(o)'
<1>1. Trail(o)' = {}
  BY TrailNew
<1>2. OnlyRow(o, a, row)
  BY RowsOfNew
<1>3. PICK n : log'[a][n] = row /\ Originals(o)' = {n}
  BY <1>2 DEF OnlyRow
<1>4. PriceOf(ops'[o]) \in Prices(o)' /\ PriceOf(ops'[o]).amount = new.amount /\ PriceOf(ops'[o]).fee = new.fee
  BY DEF Prices, PriceOf
<1>5. Booked(o)'
  BY <1>3, <1>4 DEF Booked
<1>6. Followed(o)'
  BY <1>2 DEF Followed, Owed, OnlyRow
<1> QED
  BY <1>1, <1>5, <1>6 DEF History, Chained, Announced

\* What an operation was booked with stays, at a price it has had.
LEMMA BookedKept ==
  ASSUME NEW o, Booked(o), Originals(o)' = Originals(o), Prices(o) \subseteq Prices(o)',
         ops'[o].type = ops[o].type,
         \A j \in Originals(o) : log'[ops'[o].account][j].delta = log[ops[o].account][j].delta
  PROVE  Booked(o)'
<1> SUFFICES ASSUME NEW j \in Originals(o)
             PROVE  \E p \in Prices(o)' :
                       log'[ops'[o].account][j].delta = Impact(ops'[o].type, p.amount, p.fee)
  BY DEF Booked
<1>1. PICK p \in Prices(o) : log[ops[o].account][j].delta = Impact(ops[o].type, p.amount, p.fee)
  BY DEF Booked
<1>2. log'[ops'[o].account][j].delta = Impact(ops'[o].type, p.amount, p.fee)
  BY <1>1
<1> QED
  BY <1>2

\* A cancellation: the movement the operation was booked with is reversed.
LEMMA HistoryCancelled ==
  ASSUME TypeOK, NEW o \in DOMAIN ops, ops[o].status = "COMPLETED", History(o),
         NEW new \in Operation, ops'[o] = new, new.status = "CANCELLED",
         new.type = ops[o].type, new.account = ops[o].account,
         new.amount = ops[o].amount, new.fee = ops[o].fee,
         NEW i \in Originals(o),
         NEW row \in Movement, row.op = o, row.kind = "ADJUSTMENT",
         row.delta = -log[ops[o].account][i].delta,
         NEW a \in Accounts, a = ops[o].account, log' = [log EXCEPT ![a] = Append(log[a], row)],
         SameTrail(o)
  PROVE  History(o)'
<1>1. PriceOf(ops'[o]) = PriceOf(ops[o])
  BY DEF PriceOf
<1>2. Chained(o)' /\ Prices(o)' = Prices(o)
  BY <1>1, ChainedKept DEF History
<1>3. ops'[o].account = ops[o].account
  OBVIOUS
<1>4. Originals(o)' = Originals(o)
  BY <1>3, RowsAfterAppend
<1>5. /\ NetEffect(o) \in Int /\ NetEffect(o)' = NetEffect(o) + row.delta
      /\ \A j \in OperationRows(o) : log'[ops[o].account][j] = log[ops[o].account][j]
  BY <1>3, NetAfter
<1>6. Booked(o)'
  <2>1. Originals(o) \subseteq OperationRows(o)
    BY DEF Originals, OperationRows
  <2>2. \A j \in Originals(o) : log'[ops'[o].account][j].delta = log[ops[o].account][j].delta
    BY <1>3, <1>5, <2>1
  <2>3. Prices(o) \subseteq Prices(o)' /\ ops'[o].type = ops[o].type /\ Booked(o)
    BY <1>2 DEF History
  <2> QED
    BY <1>4, <2>2, <2>3, BookedKept
<1>7. ASSUME Trail(o) = {} PROVE NetEffect(o)' = 0
  <2>1. Prices(o) = {PriceOf(ops[o])}
    BY <1>7 DEF Prices
  <2>2. log[ops[o].account][i].delta = Impact(ops[o].type, ops[o].amount, ops[o].fee)
    BY <2>1 DEF History, Booked, PriceOf
  <2>3. NetEffect(o) = Impact(ops[o].type, ops[o].amount, ops[o].fee)
    BY <1>7 DEF History, Followed, Owed
  <2> QED
    BY <1>5, <2>2, <2>3
<1>8. Followed(o)'
  BY <1>7 DEF Followed, Owed, SameTrail
<1> QED
  BY <1>2, <1>6, <1>8 DEF History, Announced

\* A revision r becomes the n-th, and the last of operation o.
NewTrail(o, n, r) ==
    /\ n \in Nat
    /\ Trail(o)' = Trail(o) \cup {n} /\ revisions'[n] = r
    /\ \A k \in Trail(o) : revisions'[k] = revisions[k] /\ k < n /\ k \in Nat

LEMMA TrailRevised ==
  ASSUME TypeOK, NEW r \in Revision, revisions' = Append(revisions, r), NEW o, r.op = o
  PROVE  \E n : NewTrail(o, n, r)
BY TrailAppend DEF NewTrail

LEMMA ChainedRevised ==
  ASSUME NEW o, NEW n, NEW r, Chained(o), NewTrail(o, n, r),
         r.before = PriceOf(ops[o]), r.after = PriceOf(ops'[o])
  PROVE  Chained(o)' /\ Prices(o) \subseteq Prices(o)'
<1>1. /\ n \in Nat
      /\ Trail(o)' = Trail(o) \cup {n} /\ revisions'[n] = r
      /\ \A k \in Trail(o) : revisions'[k] = revisions[k] /\ k < n /\ k \in Nat
  BY DEF NewTrail
<1>2. /\ \A j, k \in Trail(o) : j < k /\ (\A l \in Trail(o) : l <= j \/ l >= k)
             => revisions[j].after = revisions[k].before
      /\ \A k \in Trail(o) : (\A j \in Trail(o) : j <= k) => revisions[k].after = PriceOf(ops[o])
  BY DEF Chained
<1>3. ASSUME NEW j \in Trail(o)', NEW k \in Trail(o)', j < k,
             \A l \in Trail(o)' : l <= j \/ l >= k
      PROVE  revisions'[j].after = revisions'[k].before
  <2>1. CASE k \in Trail(o)
    BY <1>1, <1>2, <1>3, <2>1
  <2>2. CASE k = n
    <3>1. j \in Trail(o) /\ \A l \in Trail(o) : l <= j
      BY <1>1, <1>3, <2>2
    <3> QED
      BY <1>1, <1>2, <2>2, <3>1
  <2> QED
    BY <1>1, <2>1, <2>2
<1>4. ASSUME NEW k \in Trail(o)', \A j \in Trail(o)' : j <= k
      PROVE  revisions'[k].after = PriceOf(ops'[o])
  <2>1. k = n
    BY <1>1, <1>4
  <2> QED
    BY <1>1, <2>1
<1>5. Chained(o)'
  BY <1>3, <1>4 DEF Chained
<1>6. Prices(o) \subseteq Prices(o)'
  BY <1>1 DEF Prices
<1> QED
  BY <1>5, <1>6

\* A revision: the price before joins those the operation has had, and the
\* cash follows the first one.
LEMMA HistoryRevised ==
  ASSUME NEW o, NEW n, NEW r, History(o), NewTrail(o, n, r),
         r.before = PriceOf(ops[o]), r.after = PriceOf(ops'[o]),
         ops'[o].type = ops[o].type, ops'[o].status = ops[o].status,
         Originals(o)' = Originals(o),
         \A j \in Originals(o) : log'[ops'[o].account][j].delta = log[ops[o].account][j].delta,
         Trail(o) = {} => NetEffect(o)' = Owed(o)'
  PROVE  History(o)'
<1>1. Chained(o)' /\ Prices(o) \subseteq Prices(o)'
  BY ChainedRevised DEF History
<1>2. Booked(o)'
  BY <1>1, BookedKept DEF History
<1>3. Followed(o)'
  <2>1. CASE Trail(o) = {}
    BY <2>1 DEF Followed
  <2>2. ASSUME NEW k \in Trail(o) PROVE ~\A j, l \in Trail(o)' : j = l
    BY <2>2 DEF NewTrail
  <2> QED
    BY <2>1, <2>2 DEF Followed
<1> QED
  BY <1>1, <1>2, <1>3 DEF History, Announced

\* What a correction of operation o leaves in its ledger.
CashFollows(o) ==
    /\ Originals(o)' = Originals(o)
    /\ \A j \in Originals(o) : log'[ops'[o].account][j].delta = log[ops[o].account][j].delta
    /\ Trail(o) = {} => NetEffect(o)' = Owed(o)'

LEMMA RevisedCash ==
  ASSUME TypeOK, NEW o \in DOMAIN ops, ops[o].status = "COMPLETED", History(o),
         NEW amount \in Nat, NEW fee \in Nat, RevisionMovement(o, amount, fee),
         NEW new \in Operation, ops'[o] = new, new.type = ops[o].type,
         new.account = ops[o].account, new.status = "COMPLETED",
         new.amount = amount, new.fee = fee
  PROVE  CashFollows(o)
<1> DEFINE a == ops[o].account
           impact == Impact(ops[o].type, amount, fee)
<1>1. PICK i \in Originals(o) :
         LET delta == impact - log[a][i].delta IN
         IF delta = 0 THEN UNCHANGED <<balance, log>> ELSE ApplyMovement(a, delta, "ADJUSTMENT", o)
  BY DEF RevisionMovement
<1>2. impact \in Int /\ log[a][i].delta \in Int /\ a \in Accounts /\ o \in Nat
  BY OriginalDelta, ImpactType, OperationRecord
<1>3. Originals(o) \subseteq OperationRows(o)
  BY DEF Originals, OperationRows
<1>4. Owed(o)' = impact
  BY DEF Owed
<1>5. ASSUME Trail(o) = {} PROVE NetEffect(o) = log[a][i].delta
  <2>1. Prices(o) = {PriceOf(ops[o])}
    BY <1>5 DEF Prices
  <2>2. log[a][i].delta = Impact(ops[o].type, ops[o].amount, ops[o].fee)
    BY <2>1 DEF History, Booked, PriceOf
  <2>3. NetEffect(o) = Impact(ops[o].type, ops[o].amount, ops[o].fee)
    BY <1>5 DEF History, Followed, Owed
  <2> QED
    BY <2>2, <2>3
<1> DEFINE delta == impact - log[a][i].delta
<1>6. CASE delta = 0
  <2>1. UNCHANGED log
    BY <1>1, <1>6
  <2>2. SameRows(o)
    BY <2>1, RowsUnchanged
  <2>3. Trail(o) = {} => NetEffect(o)' = Owed(o)'
    BY <1>2, <1>4, <1>5, <1>6, <2>2 DEF SameRows
  <2> QED
    BY <1>3, <2>2, <2>3 DEF SameRows, CashFollows
<1>7. CASE delta # 0
  <2>1. CashTypeOK /\ Post(a, delta, "ADJUSTMENT", o) /\ "ADJUSTMENT" \in MovementKinds /\ delta \in Int
    BY <1>1, <1>2, <1>7 DEF TypeOK, ApplyMovement, MovementKinds
  <2> HIDE DEF a, impact, delta
  <2>2. PICK row \in Movement : /\ row.kind = "ADJUSTMENT" /\ row.op = o /\ row.delta = delta
                                /\ log' = [log EXCEPT ![a] = Append(log[a], row)]
    BY <1>2, <2>1, PostedRow
  <2>3. ops'[o].account = ops[o].account
    OBVIOUS
  <2>4. Originals(o)' = Originals(o)
    BY <1>2, <2>2, <2>3, RowsAfterAppend DEF a
  <2>5. /\ NetEffect(o)' = NetEffect(o) + delta
        /\ \A j \in OperationRows(o) : log'[a][j] = log[a][j]
    BY <1>2, <2>2, <2>3, NetAfter DEF a
  <2>6. Trail(o) = {} => NetEffect(o)' = Owed(o)'
    BY <1>2, <1>4, <1>5, <2>5 DEF delta
  <2> QED
    BY <1>3, <2>3, <2>4, <2>5, <2>6 DEF CashFollows, a
<1> QED
  BY <1>6, <1>7

\* A step for operation o: its rows and its revisions grow by one at most.
StepFor(o) ==
    /\ \/ UNCHANGED log
       \/ \E a \in Accounts, row \in Movement :
             row.op = o /\ log' = [log EXCEPT ![a] = Append(log[a], row)]
    /\ \/ UNCHANGED revisions
       \/ o \in DOMAIN ops /\ \E r \in Revision : r.op = o /\ revisions' = Append(revisions, r)
    /\ DOMAIN ops \subseteq DOMAIN ops' /\ DOMAIN ops' \subseteq DOMAIN ops \cup {o}
    /\ \A q \in DOMAIN ops : q # o => ops'[q] = ops[q]

LEMMA HistoryOther ==
  ASSUME TypeOK, NEW o, StepFor(o), NEW q \in DOMAIN ops, History(q), q # o
  PROVE  History(q)'
<1>1. ops'[q] = ops[q]
  BY DEF StepFor
<1>2. SameRows(q)
  <2>1. CASE UNCHANGED log
    BY <1>1, <2>1, RowsUnchanged
  <2>2. ASSUME NEW a \in Accounts, NEW row \in Movement, row.op = o,
               log' = [log EXCEPT ![a] = Append(log[a], row)]
        PROVE  SameRows(q)
    BY <1>1, <2>2, RowsElsewhere
  <2> QED
    BY <2>1, <2>2 DEF StepFor
<1>3. SameTrail(q)
  <2>1. CASE UNCHANGED revisions
    BY <2>1, TrailUnchanged
  <2>2. ASSUME NEW r \in Revision, r.op = o, revisions' = Append(revisions, r)
        PROVE  SameTrail(q)
    BY <2>2, TrailAppend
  <2> QED
    BY <2>1, <2>2 DEF StepFor
<1> QED
  BY <1>1, <1>2, <1>3, HistoryKept

LEMMA HistoryAfter ==
  ASSUME TypeOK, HistoryInv, NEW o, StepFor(o), o \in DOMAIN ops' => History(o)'
  PROVE  HistoryInv'
<1>1. \A q \in DOMAIN ops : q # o => History(q)'
  BY HistoryOther DEF HistoryInv
<1>2. \A q \in DOMAIN ops' : History(q)'
  BY <1>1 DEF StepFor
<1>3. RevisionsScoped'
  <2>1. CASE UNCHANGED revisions
    BY <2>1 DEF StepFor, HistoryInv, RevisionsScoped
  <2>2. ASSUME o \in DOMAIN ops, NEW r \in Revision, r.op = o, revisions' = Append(revisions, r)
        PROVE  RevisionsScoped'
    <3>1. /\ DOMAIN revisions' = DOMAIN revisions \cup {Len(revisions) + 1}
          /\ \A k \in DOMAIN revisions : revisions'[k] = revisions[k]
          /\ revisions'[Len(revisions) + 1] = r
      BY <2>2 DEF TypeOK
    <3> QED
      BY <2>2, <3>1 DEF StepFor, HistoryInv, RevisionsScoped
  <2> QED
    BY <2>1, <2>2 DEF StepFor
<1> QED
  BY <1>2, <1>3 DEF HistoryInv

\* An operation made at once, with the movement it is booked with.
LEMMA HistoryCreation ==
  ASSUME TypeOK, PaidOnce, HistoryInv, NEW u \in Users, NEW a \in Accounts, NEW type \in OpTypes,
         NEW amount \in Nat, NEW fee \in Nat, NEW key, NEW delta \in Int,
         delta = Impact(type, amount, fee),
         CreateOperation(u, a, type, "COMPLETED", amount, fee, key),
         ApplyMovement(a, delta, "OPERATION", Len(ops) + 1)
  PROVE  HistoryInv'
<1> DEFINE new == [type |-> type, status |-> "COMPLETED", agent |-> u, account |-> a,
                   amount |-> amount, fee |-> fee, day |-> today]
<1>1. /\ new \in Operation /\ new.status = "COMPLETED" /\ new.account = a /\ new.type = type
      /\ new.amount = amount /\ new.fee = fee
  BY DEF Operation, TypeOK, CashTypeOK
<1>2. ops' = Append(ops, new) /\ UNCHANGED revisions
  BY DEF CreateOperation
<1> HIDE DEF new
<1>3. PICK o : o = Len(ops) + 1
  OBVIOUS
<1>4. /\ o \in Nat /\ o # 0 /\ o \notin DOMAIN ops /\ ops'[o] = new
      /\ DOMAIN ops' = DOMAIN ops \cup {o} /\ \A q \in DOMAIN ops : ops'[q] = ops[q]
  BY <1>2, <1>3 DEF TypeOK
<1>5. PICK row \in Movement : /\ row.kind = "OPERATION" /\ row.op = o /\ row.delta = delta
                              /\ log' = [log EXCEPT ![a] = Append(log[a], row)]
  <2>1. CashTypeOK /\ Post(a, delta, "OPERATION", o) /\ "OPERATION" \in MovementKinds
    BY <1>3 DEF TypeOK, ApplyMovement, MovementKinds
  <2> QED
    BY <1>4, <2>1, PostedRow
<1>6. row.delta = Impact(new.type, new.amount, new.fee) /\ Scoped /\ RevisionsScoped
  BY <1>1, <1>5, PaidParts DEF HistoryInv
<1>7. History(o)'
  BY <1>1, <1>2, <1>4, <1>5, <1>6, HistoryNewCompleted
<1>8. StepFor(o)
  BY <1>2, <1>4, <1>5 DEF StepFor
<1> QED
  BY <1>7, <1>8, HistoryAfter

LEMMA HistoryStep == TypeOK /\ PaidOnce /\ HistoryInv /\ [Next]_vars => HistoryInv'
<1> SUFFICES ASSUME TypeOK, PaidOnce, HistoryInv, [Next]_vars PROVE HistoryInv'
  OBVIOUS
<1> USE OperationsAssumption, CashAssumption
<1>1. Scoped /\ RevisionsScoped /\ \A o \in DOMAIN ops : Paid(o) /\ History(o)
  BY PaidParts DEF HistoryInv
<1>2. CASE OperationsNext
  <2>1. ASSUME NEW u \in Users, NEW a \in Accounts, NEW amount \in OpAmounts, NEW fee \in Fees,
               NEW key \in Keys \cup {NoKey}, CreateSentTransfer(u, a, amount, fee, key)
        PROVE  HistoryInv'
    <3>1. /\ amount \in Nat /\ fee \in Nat /\ amount + fee \in Int /\ "SENT_TRANSFER" \in OpTypes
          /\ amount + fee = Impact("SENT_TRANSFER", amount, fee)
      BY DEF OpTypes, Impact
    <3> QED
      BY <2>1, <3>1, HistoryCreation DEF CreateSentTransfer
  <2>2. ASSUME NEW u \in Users, NEW a \in Accounts, NEW amount \in OpAmounts, NEW fee \in Fees,
               NEW key \in Keys \cup {NoKey}, CreateWithdrawal(u, a, amount, fee, key)
        PROVE  HistoryInv'
    <3>1. amount \in Nat /\ fee \in Nat
      OBVIOUS
    <3>2. /\ fee - amount \in Int /\ "WITHDRAWAL" \in OpTypes
          /\ fee - amount = Impact("WITHDRAWAL", amount, fee)
      BY <3>1 DEF OpTypes, Impact
    <3> QED
      BY <2>2, <3>1, <3>2, HistoryCreation DEF CreateWithdrawal
  <2>3. ASSUME NEW u \in Users, NEW a \in Accounts, NEW amount \in OpAmounts, NEW fee \in Fees,
               NEW key \in Keys \cup {NoKey}, ReceiveTransfer(u, a, amount, fee, key)
        PROVE  HistoryInv'
    <3> DEFINE new == [type |-> "RECEIVED_TRANSFER", status |-> "PENDING", agent |-> u, account |-> a,
                       amount |-> amount, fee |-> fee, day |-> today]
    <3>1. new \in Operation /\ new.status = "PENDING" /\ new.type = "RECEIVED_TRANSFER"
      <4>1. amount \in Nat /\ fee \in Nat /\ "RECEIVED_TRANSFER" \in OpTypes
        BY DEF OpTypes
      <4> QED
        BY <4>1 DEF Operation, TypeOK, CashTypeOK
    <3>2. ops' = Append(ops, new) /\ UNCHANGED <<log, revisions>>
      BY <2>3 DEF ReceiveTransfer, CreateOperation, cashVars, accountVars
    <3> HIDE DEF new
    <3>3. PICK o : o = Len(ops) + 1
      OBVIOUS
    <3>4. /\ o \in Nat /\ o # 0 /\ o \notin DOMAIN ops /\ ops'[o] = new
          /\ DOMAIN ops' = DOMAIN ops \cup {o} /\ \A q \in DOMAIN ops : ops'[q] = ops[q]
      BY <3>2, <3>3 DEF TypeOK
    <3>5. History(o)'
      BY <1>1, <3>1, <3>2, <3>4, HistoryNewPending
    <3>6. StepFor(o)
      BY <3>2, <3>4 DEF StepFor
    <3> QED
      BY <3>5, <3>6, HistoryAfter
  <2>4. ASSUME NEW u \in Users, NEW o \in DOMAIN ops, PayReceivedTransfer(u, o)
        PROVE  HistoryInv'
    <3> DEFINE new == [ops[o] EXCEPT !.status = "COMPLETED"]
               a == ops[o].account
    <3>1. /\ new \in Operation /\ new.status = "COMPLETED" /\ new.type = ops[o].type
          /\ new.account = ops[o].account /\ new.amount = ops[o].amount /\ new.fee = ops[o].fee
      BY OperationRecord DEF Operation
    <3>2. ops' = [ops EXCEPT ![o] = new] /\ UNCHANGED revisions /\ ops[o].status = "PENDING"
      BY <2>4, CorrectionRows DEF PayReceivedTransfer
    <3> HIDE DEF new
    <3>3. PICK row \in Movement : /\ row.kind = "OPERATION" /\ row.op = o
                                  /\ row.delta = ops[o].fee - ops[o].amount
                                  /\ log' = [log EXCEPT ![a] = Append(log[a], row)]
      <4>1. /\ CashTypeOK /\ "OPERATION" \in MovementKinds /\ o \in Nat /\ a \in Accounts
            /\ ops[o].fee - ops[o].amount \in Int
            /\ Post(a, ops[o].fee - ops[o].amount, "OPERATION", o)
        BY <2>4, OperationRecord DEF TypeOK, PayReceivedTransfer, ApplyMovement, MovementKinds
      <4> QED
        BY <4>1, PostedRow
    <3>4. /\ ops'[o] = new /\ DOMAIN ops' = DOMAIN ops
          /\ \A q \in DOMAIN ops : q # o => ops'[q] = ops[q]
      BY <3>2 DEF TypeOK
    <3>5. a \in Accounts /\ Paid(o) /\ History(o) /\ SameTrail(o)
      BY <1>1, <3>2, OperationRecord, TrailUnchanged
    <3> HIDE DEF a
    <3>6. History(o)'
      BY <3>1, <3>2, <3>3, <3>4, <3>5, HistoryPaid DEF a
    <3>7. StepFor(o)
      BY <3>2, <3>3, <3>4, <3>5 DEF StepFor
    <3> QED
      BY <3>6, <3>7, HistoryAfter
  <2>5. ASSUME NEW u \in Users, NEW o \in DOMAIN ops, CancelOperation(u, o)
        PROVE  HistoryInv'
    <3> DEFINE new == [ops[o] EXCEPT !.status = "CANCELLED"]
               a == ops[o].account
    <3>1. /\ new \in Operation /\ new.status = "CANCELLED" /\ new.type = ops[o].type
          /\ new.account = ops[o].account /\ new.amount = ops[o].amount /\ new.fee = ops[o].fee
      BY OperationRecord DEF Operation
    <3>2. ops' = [ops EXCEPT ![o] = new] /\ UNCHANGED revisions /\ ops[o].status = "COMPLETED"
      BY <2>5, CorrectionRows DEF CancelOperation
    <3> HIDE DEF new
    <3>3. PICK i \in Originals(o) : ApplyMovement(a, -log[a][i].delta, "ADJUSTMENT", o)
      BY <2>5 DEF CancelOperation
    <3>4. PICK row \in Movement : /\ row.kind = "ADJUSTMENT" /\ row.op = o
                                  /\ row.delta = -log[a][i].delta
                                  /\ log' = [log EXCEPT ![a] = Append(log[a], row)]
      <4>1. /\ CashTypeOK /\ "ADJUSTMENT" \in MovementKinds /\ o \in Nat /\ a \in Accounts
            /\ -log[a][i].delta \in Int
        BY OperationRecord, OriginalDelta DEF TypeOK, MovementKinds
      <4>2. Post(a, -log[a][i].delta, "ADJUSTMENT", o)
        BY <3>3 DEF ApplyMovement
      <4> QED
        BY <4>1, <4>2, PostedRow
    <3>5. /\ ops'[o] = new /\ DOMAIN ops' = DOMAIN ops
          /\ \A q \in DOMAIN ops : q # o => ops'[q] = ops[q]
      BY <3>2 DEF TypeOK
    <3>6. a \in Accounts /\ History(o) /\ SameTrail(o)
      BY <1>1, <3>2, OperationRecord, TrailUnchanged
    <3> HIDE DEF a
    <3>7. History(o)'
      BY <3>1, <3>2, <3>3, <3>4, <3>5, <3>6, HistoryCancelled DEF a
    <3>8. StepFor(o)
      BY <3>2, <3>4, <3>5, <3>6 DEF StepFor
    <3> QED
      BY <3>7, <3>8, HistoryAfter
  <2>6. ASSUME NEW u \in Users, NEW o \in DOMAIN ops, NEW amount \in OpAmounts, NEW fee \in Fees,
               ReviseOperation(u, o, amount, fee)
        PROVE  HistoryInv'
    <3> DEFINE new == [[ops[o] EXCEPT !.amount = amount] EXCEPT !.fee = fee]
               r == RevisionRow(o, amount, fee)
    <3>0. amount \in Nat /\ fee \in Nat
      OBVIOUS
    <3>1. /\ new \in Operation /\ new.status = ops[o].status /\ new.type = ops[o].type
          /\ new.account = ops[o].account /\ new.amount = amount /\ new.fee = fee
      BY <3>0, OperationRecord DEF Operation
    <3>2. /\ r \in Revision /\ r.op = o /\ r.before = PriceOf(ops[o])
          /\ r.after = [amount |-> amount, fee |-> fee]
      BY <3>0, OperationRecord DEF RevisionRow, Revision, Price, PriceOf
    <3>3. ops' = [ops EXCEPT ![o] = new] /\ revisions' = Append(revisions, r)
      BY <2>6, RevisedRow DEF ReviseOperation
    <3> HIDE DEF new, r
    <3>4. /\ ops'[o] = new /\ DOMAIN ops' = DOMAIN ops
          /\ \A q \in DOMAIN ops : q # o => ops'[q] = ops[q]
      BY <3>3 DEF TypeOK
    <3>5. r.after = PriceOf(ops'[o])
      BY <3>1, <3>2, <3>4 DEF PriceOf
    <3>6. PICK n : NewTrail(o, n, r)
      BY <3>2, <3>3, TrailRevised
    <3>7. CashFollows(o)
      <4>1. CASE ops[o].status = "COMPLETED"
        <5>1. RevisionMovement(o, amount, fee) /\ History(o)
          BY <1>1, <2>6, <4>1 DEF ReviseOperation
        <5> QED
          BY <3>0, <3>1, <3>4, <4>1, <5>1, RevisedCash
      <4>2. CASE ops[o].status = "PENDING"
        <5>1. UNCHANGED log /\ OperationRows(o) = {} /\ History(o)
          BY <1>1, <2>6, <4>2 DEF ReviseOperation, Paid
        <5>2. SameRows(o) /\ NetEffect(o) = 0
          BY <3>1, <3>4, <5>1, RowsUnchanged, NetNone
        <5>3. Originals(o) = {}
          BY <5>1 DEF OperationRows, Originals
        <5>4. Owed(o)' = 0
          BY <3>1, <3>4, <4>2 DEF Owed
        <5> QED
          BY <5>2, <5>3, <5>4 DEF SameRows, CashFollows
      <4> QED
        BY <2>6, <4>1, <4>2, OperationRecord DEF ReviseOperation, Operation
    <3>8. History(o)'
      BY <1>1, <3>1, <3>2, <3>4, <3>5, <3>6, <3>7, HistoryRevised DEF CashFollows
    <3>9. \/ UNCHANGED log
          \/ \E a \in Accounts, row \in Movement :
                row.op = o /\ log' = [log EXCEPT ![a] = Append(log[a], row)]
      <4>1. \/ UNCHANGED log
            \/ \E delta \in Int : ApplyMovement(ops[o].account, delta, "ADJUSTMENT", o)
        BY <2>6, <3>0, RevisionMoves DEF ReviseOperation
      <4>2. ASSUME NEW delta \in Int, ApplyMovement(ops[o].account, delta, "ADJUSTMENT", o)
            PROVE  \E a \in Accounts, row \in Movement :
                      row.op = o /\ log' = [log EXCEPT ![a] = Append(log[a], row)]
        <5>1. /\ CashTypeOK /\ "ADJUSTMENT" \in MovementKinds /\ o \in Nat
              /\ ops[o].account \in Accounts /\ Post(ops[o].account, delta, "ADJUSTMENT", o)
          BY <4>2, OperationRecord DEF TypeOK, ApplyMovement, MovementKinds
        <5> QED
          BY <5>1, PostRow
      <4> QED
        BY <4>1, <4>2
    <3>10. StepFor(o)
      BY <3>2, <3>3, <3>4, <3>9 DEF StepFor
    <3> QED
      BY <3>8, <3>10, HistoryAfter
  <2> QED
    BY <1>2, <2>1, <2>2, <2>3, <2>4, <2>5, <2>6 DEF OperationsNext
<1>3. CASE [CashNext]_cashVars /\ UNCHANGED opsVars
  <2>1. UNCHANGED <<ops, revisions>>
    BY <1>3 DEF opsVars
  <2>2. 0 \notin DOMAIN ops'
    BY <2>1, OperationRecord
  <2>3. StepFor(0)
    BY <1>3, <2>1, CashRow DEF StepFor, TypeOK
  <2> QED
    BY <2>2, <2>3, HistoryAfter
<1> QED
  BY <1>2, <1>3 DEF Next, vars

\* The revisions of an operation lead without a gap to its present price, and
\* what it was booked with is one of the prices on the way.
THEOREM TrailAlwaysExplainsPrice == Spec => []TrailExplainsPrice
<1>1. HistoryInv => TrailExplainsPrice
  BY HistoryParts
<1>2. Init => PaidOnce
  BY DEF Init, CashInit, PaidOnce
<1> QED
  BY <1>1, <1>2, HistoryInit, HistoryStep, PaidStep, TypeInit, TypeStep, PTL DEF Spec

\* Until it is corrected a second time, or cancelled after a correction, the
\* ledger holds the cash of an operation as it now stands.
THEOREM LedgerAlwaysFollowsFirstRevision == Spec => []LedgerFollowsFirstRevision
<1>1. HistoryInv => LedgerFollowsFirstRevision
  BY HistoryParts
<1>2. Init => PaidOnce
  BY DEF Init, CashInit, PaidOnce
<1> QED
  BY <1>1, <1>2, HistoryInit, HistoryStep, PaidStep, TypeInit, TypeStep, PTL DEF Spec

=============================================================================
