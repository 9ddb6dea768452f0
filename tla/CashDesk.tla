------------------------------ MODULE CashDesk ------------------------------
(***************************************************************************)
(* The cash application (apps/cash) for one currency: the administrator's  *)
(* reserve (GlobalCashAccount), the agents' cash accounts that draw on it, *)
(* their two append-only ledgers, the handovers and the daily closures.    *)
(*                                                                         *)
(* One action is one service call.  Every service runs under               *)
(* @ledger_atomic (finance/locking.py), so a call is one step; the         *)
(* module LedgerSessions opens that step up into its reads and writes.  A  *)
(* ValidationError or PermissionDenied rolls the transaction back, so a    *)
(* refused call is no step at all.                                         *)
(*                                                                         *)
(* A movement's direction and amount are one signed number: delta > 0 is   *)
(* an IN movement of delta, delta < 0 an OUT movement of -delta.           *)
(***************************************************************************)
EXTENDS Integers, Sequences, FiniteSetsExt

CONSTANTS
    Users,         \* staff members (accounts.User)
    Role,          \* Role[u]: the role of user u
    Accounts,      \* cash accounts of the currency (CashAccount)
    Holder,        \* Holder[a]: the agent that account a belongs to
    Amounts,       \* amounts a form may submit, in cents
    Counts,        \* amounts that may be declared when a day is closed
    AccountForms,  \* <<is_active, is_locked, global_account set>> as an account's form may submit
    NoAccount,     \* a reserve movement without an agent account
    LastDay,       \* bound: business days are 0 .. LastDay
    MaxMovements,  \* bound: rows per account ledger
    MaxGlobalMovements, \* bound: rows in the reserve's ledger
    MaxHandovers   \* bound: handover requests

Roles == {"ADMIN", "FINANCE_MANAGER", "AGENT", "PARTNER", "INVESTOR", "SHAREHOLDER"}

ASSUME CashAssumption ==
    /\ Role \in [Users -> Roles]
    /\ Holder \in [Accounts -> Users]
    /\ Amounts \subseteq Nat
    /\ Counts \subseteq Nat
    /\ AccountForms \subseteq BOOLEAN \X BOOLEAN \X BOOLEAN
    /\ NoAccount \notin Accounts
    /\ LastDay \in Nat
    /\ MaxMovements \in Nat
    /\ MaxGlobalMovements \in Nat
    /\ MaxHandovers \in Nat

VARIABLES
    today,         \* the current business date (config/business_time.py)
    reserve,       \* GlobalCashAccount.balance
    reserveActive, \* GlobalCashAccount.is_active
    reserveLog,    \* GlobalCashMovement rows, oldest first
    balance,       \* balance[a]: CashAccount.balance
    active,        \* active[a]: CashAccount.is_active
    locked,        \* locked[a]: CashAccount.is_locked
    linked,        \* linked[a]: CashAccount.global_account is set
    log,           \* log[a]: CashMovement rows of a, oldest first
    handovers,     \* CashHandover rows; a handover is named by its position
    closures       \* closures[a][d]: the DailyClosure row of a for day d

reserveVars == <<reserve, reserveActive, reserveLog>>
accountVars == <<balance, active, locked, linked, log>>
cashVars == <<today, reserveVars, accountVars, handovers, closures>>

-----------------------------------------------------------------------------
(* Rows *)

Days == 0 .. LastDay
ClosureDays == 0 .. LastDay + 1   \* closing LastDay opens the day after it

MovementKinds == {"OPERATION", "HANDOVER", "ADJUSTMENT", "OPENING"}
GlobalKinds == {"CAPITAL_IN", "CAPITAL_OUT", "ALLOCATION", "HANDOVER"}

\* op is the position of the operation a movement belongs to, 0 for none.
Movement == [delta : Int, kind : MovementKinds, after : Nat, op : Nat, day : Days]

\* account is the funded account of an ALLOCATION and the source of a
\* HANDOVER; handover is the position of the handover, 0 for none.
GlobalMovement ==
    [delta : Int, kind : GlobalKinds, after : Nat,
     account : Accounts \cup {NoAccount}, handover : Nat]

\* REJECTED is declared by HandoverStatus; no code sets it.
Handover ==
    [account : Accounts, amount : Nat, by : Users, status : {"PENDING", "CONFIRMED"}]

\* "ABSENT" stands for the row get_or_create has not created yet.
Closure ==
    [status : {"ABSENT", "OPEN", "CLOSED"}, opening : Nat, expected : Nat, declared : Nat]

AbsentClosure == [status |-> "ABSENT", opening |-> 0, expected |-> 0, declared |-> 0]
OpenClosure(opening) ==
    [status |-> "OPEN", opening |-> opening, expected |-> 0, declared |-> 0]

\* The balance a ledger ends on: what reconcile_cash compares the balance to.
LastAfter(rows) == IF rows = <<>> THEN 0 ELSE rows[Len(rows)].after

-----------------------------------------------------------------------------
(* Permissions *)

IsAdmin(u) == Role[u] = "ADMIN"
CanManageAccount(u, a) == IsAdmin(u) \/ (Role[u] = "AGENT" /\ Holder[a] = u)

-----------------------------------------------------------------------------
(* Movements *)

\* Fault: the balance is not tested before it is written.
PostUnchecked(a, delta, kind, op) ==
    /\ delta # 0
    /\ Len(log[a]) < MaxMovements
    /\ balance' = [balance EXCEPT ![a] = @ + delta]
    /\ log' = [log EXCEPT ![a] =
                  Append(@, [delta |-> delta, kind |-> kind,
                             after |-> balance[a] + delta, op |-> op, day |-> today])]

\* apply_movement behind its lock test: change the balance of a by delta and
\* append the row that explains it.
Post(a, delta, kind, op) ==
    /\ delta # 0
    /\ balance[a] + delta >= 0
    /\ Len(log[a]) < MaxMovements
    /\ balance' = [balance EXCEPT ![a] = @ + delta]
    /\ log' = [log EXCEPT ![a] =
                  Append(@, [delta |-> delta, kind |-> kind,
                             after |-> balance[a] + delta, op |-> op, day |-> today])]

ApplyMovement(a, delta, kind, op) == ~locked[a] /\ Post(a, delta, kind, op)

\* Fault: the row states the balance before the movement.
ApplyGlobalMovementStale(delta, kind, a, h) ==
    /\ delta # 0
    /\ reserve + delta >= 0
    /\ Len(reserveLog) < MaxGlobalMovements
    /\ reserve' = reserve + delta
    /\ reserveLog' = Append(reserveLog, [delta |-> delta, kind |-> kind, after |-> reserve,
                                         account |-> a, handover |-> h])

ApplyGlobalMovement(delta, kind, a, h) ==
    /\ delta # 0
    /\ reserve + delta >= 0
    /\ Len(reserveLog) < MaxGlobalMovements
    /\ reserve' = reserve + delta
    /\ reserveLog' = Append(reserveLog, [delta |-> delta, kind |-> kind,
                                         after |-> reserve + delta,
                                         account |-> a, handover |-> h])

-----------------------------------------------------------------------------
(* Services *)

CashInit ==
    /\ today = 0
    /\ reserve = 0
    /\ reserveActive = TRUE
    /\ reserveLog = <<>>
    /\ balance = [a \in Accounts |-> 0]
    /\ active = [a \in Accounts |-> FALSE]
    /\ locked = [a \in Accounts |-> FALSE]
    /\ linked = [a \in Accounts |-> TRUE]
    /\ log = [a \in Accounts |-> <<>>]
    /\ handovers = <<>>
    /\ closures = [a \in Accounts |-> [d \in ClosureDays |-> AbsentClosure]]

\* adjust_global_cash: the administrator brings capital in or takes it out.
AdjustGlobalCash(u, amount, direction) ==
    /\ IsAdmin(u)
    /\ IF direction = "IN"
       THEN ApplyGlobalMovement(amount, "CAPITAL_IN", NoAccount, 0)
       ELSE ApplyGlobalMovement(-amount, "CAPITAL_OUT", NoAccount, 0)
    /\ UNCHANGED <<today, reserveActive, accountVars, handovers, closures>>

\* Fault: the reserve is not debited.
AllocateCashUnfunded(u, a, amount) ==
    /\ IsAdmin(u)
    /\ linked[a]
    /\ reserveActive
    /\ ApplyMovement(a, amount, "OPENING", 0)
    /\ active' = [active EXCEPT ![a] = TRUE]
    /\ UNCHANGED <<today, reserveVars, locked, linked, handovers, closures>>

\* allocate_cash: fund an agent's account from the reserve and activate it.
AllocateCash(u, a, amount) ==
    /\ IsAdmin(u)
    /\ linked[a]
    /\ reserveActive
    /\ ApplyGlobalMovement(-amount, "ALLOCATION", a, 0)
    /\ ApplyMovement(a, amount, "OPENING", 0)
    /\ active' = [active EXCEPT ![a] = TRUE]
    /\ UNCHANGED <<today, reserveActive, locked, linked, handovers, closures>>

\* handover_cash: announce cash brought back to the reserve.  Nothing moves
\* and nothing is set aside until the handover is confirmed.
HandoverCash(u, a, amount) ==
    /\ CanManageAccount(u, a)
    /\ amount > 0
    /\ balance[a] >= amount
    /\ Len(handovers) < MaxHandovers
    /\ handovers' = Append(handovers, [account |-> a, amount |-> amount,
                                       by |-> u, status |-> "PENDING"])
    /\ UNCHANGED <<today, reserveVars, accountVars, closures>>

\* Fault: the status of the handover is not tested.
ConfirmHandoverAgain(u, h) ==
    LET row == handovers[h] IN
    /\ IsAdmin(u)
    /\ row.by # u
    /\ ApplyMovement(row.account, -row.amount, "HANDOVER", 0)
    /\ linked[row.account]
    /\ ApplyGlobalMovement(row.amount, "HANDOVER", row.account, h)
    /\ handovers' = [handovers EXCEPT ![h].status = "CONFIRMED"]
    /\ UNCHANGED <<today, reserveActive, active, locked, linked, closures>>

\* confirm_handover: another administrator receives the cash.
ConfirmHandover(u, h) ==
    LET row == handovers[h] IN
    /\ row.status = "PENDING"
    /\ IsAdmin(u)
    /\ row.by # u
    /\ ApplyMovement(row.account, -row.amount, "HANDOVER", 0)
    /\ linked[row.account]
    /\ ApplyGlobalMovement(row.amount, "HANDOVER", row.account, h)
    /\ handovers' = [handovers EXCEPT ![h].status = "CONFIRMED"]
    /\ UNCHANGED <<today, reserveActive, active, locked, linked, closures>>

\* Fault: the count is compared with the opening balance of the day.
ClosedRowOnOpening(a, d, declared) ==
    LET opening == IF closures[a][d].status = "ABSENT" THEN balance[a] ELSE closures[a][d].opening IN
    [status |-> "CLOSED", opening |-> opening, expected |-> opening, declared |-> declared]

\* The two rows close_cash_day leaves: that of day d, which get_or_create
\* opens on the theoretical balance, and that of the day after, which it opens
\* on the count.  A row that exists already keeps its opening balance.
ClosedRow(a, d, declared) ==
    [status |-> "CLOSED",
     opening |-> IF closures[a][d].status = "ABSENT" THEN balance[a] ELSE closures[a][d].opening,
     expected |-> balance[a],
     declared |-> declared]

\* Fault: update_or_create, the row of the next day starts again.
FollowingRowAnew(a, d, declared) == OpenClosure(declared)

FollowingRow(a, d, declared) ==
    IF closures[a][d + 1].status = "ABSENT" THEN OpenClosure(declared) ELSE closures[a][d + 1]

\* close_cash_day: record the count of day d, bring the balance to the count
\* and prepare the next day.  The date is whatever the form submits.  The
\* account is locked and unlocked again before the adjustment is posted, so
\* the adjustment meets no lock and a lock set by an administrator is lost.
CloseCashDay(u, a, d, declared, justified) ==
    LET variance == declared - balance[a] IN
    /\ CanManageAccount(u, a)
    /\ closures[a][d].status # "CLOSED"
    /\ variance # 0 => justified
    /\ closures' = [closures EXCEPT ![a] =
          [@ EXCEPT ![d] = ClosedRow(a, d, declared), ![d + 1] = FollowingRow(a, d, declared)]]
    /\ locked' = [locked EXCEPT ![a] = FALSE]
    /\ IF variance = 0 THEN UNCHANGED <<balance, log>>
                       ELSE Post(a, variance, "ADJUSTMENT", 0)
    /\ UNCHANGED <<today, reserveVars, active, linked, handovers>>

\* CashAccountAdmin: the account's form.  Its balance is read-only.
EditAccount(a, form) ==
    /\ form # <<active[a], locked[a], linked[a]>>
    /\ active' = [active EXCEPT ![a] = form[1]]
    /\ locked' = [locked EXCEPT ![a] = form[2]]
    /\ linked' = [linked EXCEPT ![a] = form[3]]
    /\ UNCHANGED <<today, reserveVars, balance, log, handovers, closures>>

\* GlobalCashAccountAdmin: the reserve's form.
EditReserve ==
    /\ reserveActive' = ~reserveActive
    /\ UNCHANGED <<today, reserve, reserveLog, accountVars, handovers, closures>>

\* Midnight in the business time zone.
NextDay ==
    /\ today < LastDay
    /\ today' = today + 1
    /\ UNCHANGED <<reserveVars, accountVars, handovers, closures>>

CashNext ==
    \/ \E u \in Users, amount \in Amounts :
          \/ \E direction \in {"IN", "OUT"} : AdjustGlobalCash(u, amount, direction)
          \/ \E a \in Accounts : AllocateCash(u, a, amount) \/ HandoverCash(u, a, amount)
    \/ \E u \in Users, h \in DOMAIN handovers : ConfirmHandover(u, h)
    \/ \E u \in Users, a \in Accounts, d \in Days, declared \in Counts, justified \in BOOLEAN :
          CloseCashDay(u, a, d, declared, justified)
    \/ \E a \in Accounts, form \in AccountForms : EditAccount(a, form)
    \/ EditReserve
    \/ NextDay

CashSpec == CashInit /\ [][CashNext]_cashVars

-----------------------------------------------------------------------------
(* Properties *)

CashTypeOK ==
    /\ today \in Days
    /\ reserve \in Nat
    /\ reserveActive \in BOOLEAN
    /\ reserveLog \in Seq(GlobalMovement)
    /\ balance \in [Accounts -> Nat]
    /\ active \in [Accounts -> BOOLEAN]
    /\ locked \in [Accounts -> BOOLEAN]
    /\ linked \in [Accounts -> BOOLEAN]
    /\ log \in [Accounts -> Seq(Movement)]
    /\ handovers \in Seq(Handover)
    /\ closures \in [Accounts -> [ClosureDays -> Closure]]

\* Every row of a ledger carries on from the row before it and the balance
\* is the one the last row states (reconcile_cash reports any other balance).
Reconciles(rows, total) ==
    /\ total = LastAfter(rows)
    /\ \A i \in 1 .. Len(rows) :
          rows[i].after = rows[i].delta + (IF i = 1 THEN 0 ELSE rows[i - 1].after)

LedgersReconcile ==
    /\ Reconciles(reserveLog, reserve)
    /\ \A a \in Accounts : Reconciles(log[a], balance[a])

\* The reserve's rows that record the receipt of handover h.
Receipts(h) == {i \in 1 .. Len(reserveLog) : reserveLog[i].handover = h}

\* A handover enters the reserve exactly once, when it is confirmed, with the
\* amount and from the account that were announced; no row of the reserve's
\* ledger receives a handover nobody announced.
HandoversReceivedOnce ==
    /\ \A i \in 1 .. Len(reserveLog) : reserveLog[i].handover \in 0 .. Len(handovers)
    /\ \A h \in 1 .. Len(handovers) :
          IF handovers[h].status = "PENDING"
          THEN Receipts(h) = {}
          ELSE \E i \in 1 .. Len(reserveLog) :
                  /\ Receipts(h) = {i}
                  /\ reserveLog[i].delta = handovers[h].amount
                  /\ reserveLog[i].account = handovers[h].account

DeltaSum(rows, positions) == SumFunction([i \in positions |-> rows[i].delta])

\* Cash the reserve gave to an account or took back from it is cash the
\* account's own ledger received or gave: allocations and handovers pair up
\* across the two ledgers, so carrying cash about never changes the capital.
TransfersMirrored ==
    \A a \in Accounts :
        DeltaSum(log[a], {i \in DOMAIN log[a] : log[a][i].kind \in {"OPENING", "HANDOVER"}})
            + DeltaSum(reserveLog, {i \in DOMAIN reserveLog : reserveLog[i].account = a}) = 0

\* The adjustments in an account's ledger that belong to no operation add up
\* to the differences its closures recorded between count and balance.
VariancesPosted ==
    \A a \in Accounts :
        DeltaSum(log[a], {i \in DOMAIN log[a] :
                             log[a][i].kind = "ADJUSTMENT" /\ log[a][i].op = 0})
            = SumFunction([d \in {c \in ClosureDays : closures[a][c].status = "CLOSED"} |->
                              closures[a][d].declared - closures[a][d].expected])

\* A closed day is final: no later call, a closure of the day before
\* included, changes what was counted.
ClosedDaysFinal ==
    [][\A a \in Accounts, d \in ClosureDays :
          closures[a][d].status = "CLOSED" => closures'[a][d] = closures[a][d]]_cashVars

Vault == INSTANCE CashVault WITH Tills <- Accounts, pot <- reserve, till <- balance

\* The cash application implements the vault.
ImplementsVault == Vault!Spec

=============================================================================
