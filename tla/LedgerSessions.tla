--------------------------- MODULE LedgerSessions ---------------------------
(***************************************************************************)
(* The services of the other modules opened up into the statements they    *)
(* send to PostgreSQL at READ COMMITTED, run by several web workers.       *)
(*                                                                         *)
(* @ledger_atomic (finance/locking.py) begins a transaction and locks the  *)
(* one LedgerMutex row.  The service then reads the rows it works on with  *)
(* select_for_update(), decides on what it read, and writes from the       *)
(* objects it holds.  Locks are held, and writes are unseen by others,     *)
(* until the transaction commits or rolls back; a worker that dies rolls   *)
(* back.  The variables of Operations are the committed rows.              *)
(*                                                                         *)
(* The administration site saves its forms in transactions of their own    *)
(* that lock nothing before they write.                                    *)
(***************************************************************************)
EXTENDS Operations

CONSTANTS
    Sessions,      \* database sessions of the web workers
    Calls,         \* service calls that users may make, see Call
    Forms,         \* tables whose administration forms are used: till, reserve, operation
    MaxCalls,      \* bound: calls and forms begun
    Start          \* the committed rows when the sessions begin

VARIABLES
    phase,         \* phase[s]: what session s is doing
    call,          \* call[s]: the call or the form it works on
    read,          \* read[s]: the rows it has read, by name
    owner,         \* owner[r]: the session that holds the lock on row r
    begun          \* calls and forms begun

sessionVars == <<phase, call, read, owner, begun>>
allVars == <<vars, sessionVars>>

Nobody == "nobody"
Nothing == [kind |-> "none"]

-----------------------------------------------------------------------------
(* Rows and locks *)

Mutex == <<"mutex", 1>>
Till(a) == <<"till", a>>
OperationRow(o) == <<"operation", o>>
HandoverRowOf(h) == <<"handover", h>>
KeyRow(u, key) == <<"request", u, key>>
Reserve == <<"reserve", 1>>

\* A service call: the user, what it is about and what the form submits.
Call ==
    [kind : {"pay", "cancel"}, by : Users, op : Nat]
        \cup [kind : {"confirm"}, by : Users, handover : Nat]
        \cup [kind : {"allocate"}, by : Users, account : Accounts, amount : Amounts]
        \cup [kind : {"withdraw"}, by : Users, account : Accounts, amount : OpAmounts,
              fee : Fees, key : Keys]

ASSUME SessionsAssumption ==
    /\ Nobody \notin Sessions
    /\ \A c \in Calls :
          /\ c \in Call
          /\ c.kind \in {"pay", "cancel"} => c.op \in DOMAIN Start.ops
          /\ c.kind = "confirm" => c.handover \in DOMAIN Start.handovers
    /\ Start.reserve \in Nat /\ Start.reserveLog \in Seq(GlobalMovement)
    /\ Start.balance \in [Accounts -> Nat] /\ Start.log \in [Accounts -> Seq(Movement)]
    /\ Start.handovers \in Seq(Handover) /\ Len(Start.handovers) <= MaxHandovers
    /\ Start.ops \in Seq(Operation) /\ Len(Start.ops) <= MaxOps
    /\ \A a, b \in Accounts : \A i \in DOMAIN Start.log[a], j \in DOMAIN Start.log[b] :
          (/\ Start.log[a][i].kind = "OPERATION" /\ Start.log[b][j].kind = "OPERATION"
           /\ Start.log[a][i].op = Start.log[b][j].op) => a = b /\ i = j

AccountOf(c) ==
    CASE c.kind \in {"pay", "cancel"} -> ops[c.op].account
      [] c.kind = "confirm" -> handovers[c.handover].account
      [] OTHER -> c.account

\* The rows a service reads before it decides, in the order it reads them.
ServiceRows(c) ==
    CASE c.kind \in {"pay", "cancel"} -> <<OperationRow(c.op), Till(AccountOf(c))>>
      [] c.kind = "confirm" -> <<HandoverRowOf(c.handover), Till(AccountOf(c)), Reserve>>
      [] c.kind = "allocate" -> <<Till(c.account), Reserve>>
      [] c.kind = "withdraw" -> <<KeyRow(c.by, c.key), Till(c.account)>>

Rows(c) == <<Mutex>> \o ServiceRows(c)

\* Fault: neither the ledger nor the account is locked.
ForUpdateButTill == {"request", "operation", "handover", "reserve"}

\* Tables whose rows are read with select_for_update().  Inserting a row that
\* must be unique, the mutex or a request, waits like a lock does.
ForUpdate == {"mutex", "request", "operation", "handover", "till", "reserve"}

RowNames ==
    {Mutex, Reserve}
        \cup {Till(a) : a \in Accounts}
        \cup {OperationRow(o) : o \in 1 .. MaxOps}
        \cup {HandoverRowOf(h) : h \in 1 .. MaxHandovers}
        \cup {KeyRow(u, key) : u \in Users, key \in Keys}

\* The committed value of a row.
Value(r) ==
    CASE r[1] = "mutex" -> TRUE
      [] r[1] = "reserve" -> [balance |-> reserve, active |-> reserveActive]
      [] r[1] = "till" -> [balance |-> balance[r[2]], active |-> active[r[2]],
                           locked |-> locked[r[2]], linked |-> linked[r[2]]]
      [] r[1] = "operation" -> ops[r[2]]
      [] r[1] = "handover" -> handovers[r[2]]
      [] r[1] = "request" -> {q \in requests : q.actor = r[2] /\ q.key = r[3]}

Free(r, s) == owner[r] \in {Nobody, s}
Released(s) == [r \in RowNames |-> IF owner[r] = s THEN Nobody ELSE owner[r]]

-----------------------------------------------------------------------------
(* What a service decides on the rows it read, and what it then writes *)

OpenTill(u, a, till) == till.active /\ ~till.locked /\ CanManageAccount(u, a)

\* The movement of call c on its account: kind, operation and signed amount.
MovementOf(s) ==
    LET c == call[s]
        op == read[s][OperationRow(c.op)]
    IN  CASE c.kind = "pay" -> [kind |-> "OPERATION", op |-> c.op, delta |-> op.fee - op.amount]
          [] c.kind = "cancel" -> [kind |-> "ADJUSTMENT", op |-> c.op,
                                   delta |-> -log[op.account][CHOOSE i \in Originals(c.op) : TRUE].delta]
          [] c.kind = "confirm" -> [kind |-> "HANDOVER", op |-> 0,
                                    delta |-> -read[s][HandoverRowOf(c.handover)].amount]
          [] c.kind = "allocate" -> [kind |-> "OPENING", op |-> 0, delta |-> c.amount]
          [] c.kind = "withdraw" -> [kind |-> "OPERATION", op |-> Len(ops) + 1, delta |-> c.fee - c.amount]

\* What the reserve gains by call c: the two ledgers mirror each other.
ReserveGain(s) ==
    IF call[s].kind \in {"confirm", "allocate"} THEN -MovementOf(s).delta ELSE 0

\* The conditions each service checks on the rows it read.
AcceptsPay(c, op, till) ==
    op.status = "PENDING" /\ OpenTill(c.by, op.account, till) /\ op.amount > op.fee

AcceptsCancel(c, op, till) ==
    /\ op.status = "COMPLETED"
    /\ OpenTill(c.by, op.account, till)
    /\ ~DayIsClosed(op.account, op.day)
    /\ Originals(c.op) # {}

AcceptsConfirm(c, row, till) ==
    row.status = "PENDING" /\ IsAdmin(c.by) /\ row.by # c.by /\ till.linked /\ ~till.locked

AcceptsAllocate(c, till, gained) ==
    IsAdmin(c.by) /\ till.linked /\ ~till.locked /\ gained.active /\ gained.balance >= c.amount

\* existing: the request that holds the key already, if any.
AcceptsWithdraw(c, existing, till) ==
    /\ existing = {}
    /\ OpenTill(c.by, c.account, till)
    /\ FeeAllowed(c.by, c.amount, c.fee)
    /\ c.amount > c.fee
    /\ Len(ops) < MaxOps

Accepts(s) ==
    LET c == call[s]
        rows == read[s]
        till == rows[Till(AccountOf(c))]
    IN  CASE c.kind = "pay" -> AcceptsPay(c, rows[OperationRow(c.op)], till)
          [] c.kind = "cancel" -> AcceptsCancel(c, rows[OperationRow(c.op)], till)
          [] c.kind = "confirm" -> AcceptsConfirm(c, rows[HandoverRowOf(c.handover)], till)
          [] c.kind = "allocate" -> AcceptsAllocate(c, till, rows[Reserve])
          [] c.kind = "withdraw" -> AcceptsWithdraw(c, rows[KeyRow(c.by, c.key)], till)

\* Fault: the constraint one_primary_movement_per_operation is missing.
UniqueReceiptOnly(s) == call[s].kind = "confirm" => Receipts(call[s].handover) = {}

\* The constraints that an INSERT of the movements may run into:
\* one_primary_movement_per_operation and the handover's OneToOneField.
Unique(s) ==
    /\ MovementOf(s).kind = "OPERATION" =>
           ~\E a \in Accounts : \E i \in DOMAIN log[a] :
               log[a][i].op = MovementOf(s).op /\ log[a][i].kind = "OPERATION"
    /\ call[s].kind = "confirm" => Receipts(call[s].handover) = {}

\* apply_movement writes the balance it computed from the row it holds.
WriteTill(s) ==
    LET a == AccountOf(call[s])
        m == MovementOf(s)
        after == read[s][Till(a)].balance + m.delta
    IN  /\ m.delta # 0
        /\ after >= 0
        /\ Len(log[a]) < MaxMovements
        /\ balance' = [balance EXCEPT ![a] = after]
        /\ log' = [log EXCEPT ![a] = Append(@, [delta |-> m.delta, kind |-> m.kind, after |-> after,
                                                op |-> m.op, day |-> today])]

\* _apply_global_movement likewise.
WriteReserve(s) ==
    LET c == call[s]
        after == read[s][Reserve].balance + ReserveGain(s)
    IN  IF ReserveGain(s) = 0 THEN UNCHANGED <<reserve, reserveLog>>
        ELSE /\ after >= 0
             /\ Len(reserveLog) < MaxGlobalMovements
             /\ reserve' = after
             /\ reserveLog' = Append(reserveLog,
                    [delta |-> ReserveGain(s), after |-> after, account |-> AccountOf(c),
                     kind |-> IF c.kind = "confirm" THEN "HANDOVER" ELSE "ALLOCATION",
                     handover |-> IF c.kind = "confirm" THEN c.handover ELSE 0])

\* The rows the call is about: each service saves the columns it changed.
WriteRows(s) ==
    LET c == call[s] IN
    /\ ops' = CASE c.kind = "pay" -> [ops EXCEPT ![c.op].status = "COMPLETED"]
                [] c.kind = "cancel" -> [ops EXCEPT ![c.op].status = "CANCELLED"]
                [] c.kind = "withdraw" ->
                     Append(ops, [type |-> "WITHDRAWAL", status |-> "COMPLETED", agent |-> c.by,
                                  account |-> c.account, amount |-> c.amount, fee |-> c.fee,
                                  day |-> today])
                [] OTHER -> ops
    /\ requests' = IF c.kind # "withdraw" THEN requests
                   ELSE requests \cup {[actor |-> c.by, key |-> c.key, action |-> "WITHDRAWAL",
                                        op |-> Len(ops) + 1]}
    /\ handovers' = IF c.kind # "confirm" THEN handovers
                    ELSE [handovers EXCEPT ![c.handover].status = "CONFIRMED"]
    /\ active' = IF c.kind # "allocate" THEN active ELSE [active EXCEPT ![c.account] = TRUE]

-----------------------------------------------------------------------------
(* Sessions *)

SessionsInit ==
    /\ today = 0
    /\ reserve = Start.reserve
    /\ reserveActive = TRUE
    /\ reserveLog = Start.reserveLog
    /\ balance = Start.balance
    /\ active = [a \in Accounts |-> TRUE]
    /\ locked = [a \in Accounts |-> FALSE]
    /\ linked = [a \in Accounts |-> TRUE]
    /\ log = Start.log
    /\ handovers = Start.handovers
    /\ closures = [a \in Accounts |-> [d \in ClosureDays |-> AbsentClosure]]
    /\ ops = Start.ops
    /\ requests = {}
    /\ revisions = <<>>
    /\ phase = [s \in Sessions |-> "idle"]
    /\ call = [s \in Sessions |-> Nothing]
    /\ read = [s \in Sessions |-> <<>>]
    /\ owner = [r \in RowNames |-> Nobody]
    /\ begun = 0

BeginAs(s, c, first) ==
    /\ phase[s] = "idle"
    /\ begun < MaxCalls
    /\ begun' = begun + 1
    /\ phase' = [phase EXCEPT ![s] = first]
    /\ call' = [call EXCEPT ![s] = c]

\* A user's request reaches a worker, which enters @ledger_atomic.
Begin(s, c) ==
    /\ BeginAs(s, c, "reading")
    /\ UNCHANGED <<vars, read, owner>>

\* Read the next row, once no other session holds it.
Read(s) ==
    LET rows == Rows(call[s])
        n == Cardinality(DOMAIN read[s]) + 1
    IN  /\ phase[s] = "reading"
        /\ n <= Len(rows)
        /\ IF rows[n][1] \in ForUpdate
           THEN Free(rows[n], s) /\ owner' = [owner EXCEPT ![rows[n]] = s]
           ELSE UNCHANGED owner
        /\ read' = [read EXCEPT ![s] = [r \in DOMAIN @ \cup {rows[n]} |->
                                           IF r = rows[n] THEN Value(r) ELSE @[r]]]
        /\ UNCHANGED <<vars, phase, call, begun>>

\* The end of a transaction, either way, releases its locks.
End(s) ==
    /\ phase' = [phase EXCEPT ![s] = "idle"]
    /\ call' = [call EXCEPT ![s] = Nothing]
    /\ read' = [read EXCEPT ![s] = <<>>]
    /\ owner' = Released(s)
    /\ UNCHANGED begun

AllRead(s) == phase[s] = "reading" /\ Cardinality(DOMAIN read[s]) = Len(Rows(call[s]))

\* Write and commit.
Commit(s) ==
    /\ AllRead(s)
    /\ Accepts(s)
    /\ Unique(s)
    /\ WriteTill(s)
    /\ WriteReserve(s)
    /\ WriteRows(s)
    /\ End(s)
    /\ UNCHANGED <<today, reserveActive, locked, linked, closures, revisions>>

\* A ValidationError, an IntegrityError or a lost worker rolls back; a call
\* that repeats a key ends here too, having nothing to write.
RollBack(s) ==
    /\ phase[s] # "idle"
    /\ End(s)
    /\ UNCHANGED vars

-----------------------------------------------------------------------------
(* Administration forms *)

FormRows ==
    {r \in {Reserve} \cup {Till(a) : a \in Accounts} \cup {OperationRow(o) : o \in DOMAIN ops} :
        r[1] \in Forms}

\* An administrator submits the form of row r: the row is read unlocked.
OpenForm(s, r, form) ==
    /\ BeginAs(s, [kind |-> "form", row |-> r, form |-> form], "form")
    /\ read' = [read EXCEPT ![s] = [x \in {r} |-> Value(x)]]
    /\ UNCHANGED <<vars, owner>>

\* CashAccount.save and GlobalCashAccount.save refuse an object whose balance
\* is not the committed one; Operation has no save of its own.
CheckForm(s) ==
    LET r == call[s].row IN
    /\ phase[s] = "form"
    /\ r[1] # "operation" => Value(r).balance = read[s][r].balance
    /\ phase' = [phase EXCEPT ![s] = "saving"]
    /\ UNCHANGED <<vars, call, read, owner, begun>>

\* Model.save() without update_fields: every column of the row is written
\* from the object, once no transaction holds the row.
SaveForm(s) ==
    LET r == call[s].row
        object == read[s][r]
        form == call[s].form
        k == r[2]
    IN  /\ phase[s] = "saving"
        /\ Free(r, s)
        /\ IF r[1] = "till"
           THEN /\ balance' = [balance EXCEPT ![k] = object.balance]
                /\ active' = [active EXCEPT ![k] = form[1]]
                /\ locked' = [locked EXCEPT ![k] = form[2]]
                /\ linked' = [linked EXCEPT ![k] = form[3]]
           ELSE UNCHANGED <<balance, active, locked, linked>>
        /\ IF r[1] = "reserve"
           THEN reserve' = object.balance /\ reserveActive' = form[1]
           ELSE UNCHANGED <<reserve, reserveActive>>
        /\ ops' = IF r[1] = "operation" THEN [ops EXCEPT ![k] = object] ELSE ops
        /\ End(s)
        /\ UNCHANGED <<today, reserveLog, log, handovers, closures, requests, revisions>>

SessionsNext ==
    \E s \in Sessions :
        \/ \E c \in Calls : Begin(s, c)
        \/ Read(s)
        \/ Commit(s)
        \/ RollBack(s)
        \/ \E r \in FormRows, form \in AccountForms : OpenForm(s, r, form)
        \/ CheckForm(s)
        \/ SaveForm(s)

SessionsSpec == SessionsInit /\ [][SessionsNext]_allVars

-----------------------------------------------------------------------------
(* Properties *)

\* However the statements of concurrent calls and forms interleave, what a
\* service commits is what it does alone on the rows as they were committed
\* last: taking every service for one step, as Operations and CashDesk do, is
\* right.
Ends(s) == phase[s] = "reading" /\ phase'[s] = "idle"
CommitsAreServices == [][(\E s \in Sessions : Ends(s)) => [Next]_vars]_allVars

\* What a service has read is what is committed, for as long as it may still
\* act on it: no write that a form or another service commits in between gets
\* past select_for_update().
ReadsAreCurrent ==
    \A s \in Sessions :
        phase[s] = "reading" => \A r \in DOMAIN read[s] : read[s][r] = Value(r)

\* Whatever the forms do to an operation's status, the database refuses to pay
\* it a second time (one_primary_movement_per_operation).
AtMostOnePayout == \A o \in DOMAIN ops : Cardinality(Originals(o)) <= 1

=============================================================================
