----------------------------- MODULE Operations -----------------------------
(***************************************************************************)
(* The operations application (apps/operations) on top of the cash         *)
(* application: transfers sent, transfers received and paid out later,     *)
(* withdrawals, and their cancellation and revision.  Each is mirrored in  *)
(* the ledger of the account it was made on.                               *)
(*                                                                         *)
(* Amounts are in US dollars, the reference currency: the exchange rate is *)
(* 1 and the fee of the tariff grid applies to the amount as it is.        *)
(* FINANCE_LEDGER_ENABLED is off, its default, so that active_cutover() is *)
(* None and no event reaches the accounting journal.                       *)
(***************************************************************************)
EXTENDS CashDesk

CONSTANTS
    OpAmounts,     \* amounts of an operation a form may submit
    Fees,          \* fees that may be submitted by hand
    AutoFee,       \* AutoFee[n]: the fee the tariff grid gives for n (lookup_fee)
    Ceiling,       \* above it, only an administrator sets the fee (5000 USD)
    Keys,          \* idempotency keys
    NoKey,         \* a call without a key
    MaxOps,        \* bound: operations
    MaxRevisions   \* bound: revisions

ASSUME OperationsAssumption ==
    /\ OpAmounts \subseteq Nat
    /\ Fees \subseteq Nat
    /\ AutoFee \in [OpAmounts -> Nat]
    /\ Ceiling \in Nat
    /\ NoKey \notin Keys
    /\ MaxOps \in Nat
    /\ MaxRevisions \in Nat

VARIABLES
    ops,           \* Operation rows; an operation is named by its position
    requests,      \* OperationRequest rows
    revisions      \* OperationRevision rows, oldest first

opsVars == <<ops, requests, revisions>>
vars == <<cashVars, opsVars>>

-----------------------------------------------------------------------------
(* Rows *)

OpTypes == {"SENT_TRANSFER", "RECEIVED_TRANSFER", "WITHDRAWAL"}

Operation ==
    [type : OpTypes, status : {"PENDING", "COMPLETED", "CANCELLED"}, agent : Users,
     account : Accounts, amount : Nat, fee : Nat, day : Days]

Request == [actor : Users, key : Keys, action : OpTypes, op : Nat]

Price == [amount : Nat, fee : Nat]
Revision == [op : Nat, before : Price, after : Price]

PriceOf(op) == [amount |-> op.amount, fee |-> op.fee]

\* What an operation takes from or brings to the cash account: an incoming
\* customer pays the fee on top, an outgoing payment has it deducted.
Impact(type, amount, fee) ==
    IF type = "SENT_TRANSFER" THEN amount + fee ELSE -(amount - fee)

-----------------------------------------------------------------------------
(* Guards *)

\* Fault: the day of the correction is tested, not that of the operation.
TodayIsClosed(a, d) == closures[a][today].status = "CLOSED"

DayIsClosed(a, d) == closures[a][d].status = "CLOSED"

\* _assert_account_access
HasAccess(u, a) == active[a] /\ CanManageAccount(u, a)

\* _pricing: the automatic fee, or one set by hand that is no higher; above
\* the ceiling an administrator must set a fee.
FeeAllowed(u, amount, fee) ==
    IF amount > Ceiling
    THEN IsAdmin(u) /\ fee \in Fees /\ fee > 0
    ELSE fee = AutoFee[amount] \/ (fee \in Fees /\ fee <= AutoFee[amount])

\* Fault: the key is not looked up.
ClaimRequestBlindly(u, key, action) ==
    IF key = NoKey
    THEN UNCHANGED requests
    ELSE requests' = requests \cup {[actor |-> u, key |-> key, action |-> action, op |-> Len(ops) + 1]}

\* _claim_request and _complete_request: reserve the key for the operation
\* being created.  A repeated call returns the operation the key stands for
\* and changes nothing; a key used for another action is refused.
ClaimRequest(u, key, action) ==
    IF key = NoKey
    THEN UNCHANGED requests
    ELSE /\ ~\E r \in requests : r.actor = u /\ r.key = key
         /\ requests' = requests \cup {[actor |-> u, key |-> key, action |-> action,
                                        op |-> Len(ops) + 1]}

\* What every creation does before and besides its movement.
CreateOperation(u, a, type, status, amount, fee, key) ==
    /\ amount > 0
    /\ HasAccess(u, a)
    /\ FeeAllowed(u, amount, fee)
    /\ Len(ops) < MaxOps
    /\ ClaimRequest(u, key, type)
    /\ ops' = Append(ops, [type |-> type, status |-> status, agent |-> u, account |-> a,
                           amount |-> amount, fee |-> fee, day |-> today])
    /\ UNCHANGED revisions

\* Cash columns that a movement on an account leaves alone.
OnlyMovement ==
    UNCHANGED <<today, reserveVars, active, locked, linked, handovers, closures>>

-----------------------------------------------------------------------------
(* Services *)

Init ==
    /\ CashInit
    /\ ops = <<>>
    /\ requests = {}
    /\ revisions = <<>>

\* create_sent_transfer: the customer pays in amount and fee.
CreateSentTransfer(u, a, amount, fee, key) ==
    /\ CreateOperation(u, a, "SENT_TRANSFER", "COMPLETED", amount, fee, key)
    /\ ApplyMovement(a, amount + fee, "OPERATION", Len(ops) + 1)
    /\ OnlyMovement

\* create_withdrawal: the customer is paid amount less fee.
CreateWithdrawal(u, a, amount, fee, key) ==
    /\ amount > fee
    /\ CreateOperation(u, a, "WITHDRAWAL", "COMPLETED", amount, fee, key)
    /\ ApplyMovement(a, fee - amount, "OPERATION", Len(ops) + 1)
    /\ OnlyMovement

\* receive_transfer: a payout is announced; no cash moves yet.
ReceiveTransfer(u, a, amount, fee, key) ==
    /\ CreateOperation(u, a, "RECEIVED_TRANSFER", "PENDING", amount, fee, key)
    /\ UNCHANGED cashVars

\* Fault: only a cancelled payout is refused.
PayReceivedTransferAgain(u, o) ==
    LET op == ops[o] IN
    /\ op.status # "CANCELLED"
    /\ HasAccess(u, op.account)
    /\ op.amount > op.fee
    /\ ApplyMovement(op.account, op.fee - op.amount, "OPERATION", o)
    /\ ops' = [ops EXCEPT ![o].status = "COMPLETED"]
    /\ OnlyMovement
    /\ UNCHANGED <<requests, revisions>>

\* pay_received_transfer: the announced payout is made, whatever the day.
PayReceivedTransfer(u, o) ==
    LET op == ops[o] IN
    /\ op.status = "PENDING"
    /\ HasAccess(u, op.account)
    /\ op.amount > op.fee
    /\ ApplyMovement(op.account, op.fee - op.amount, "OPERATION", o)
    /\ ops' = [ops EXCEPT ![o].status = "COMPLETED"]
    /\ OnlyMovement
    /\ UNCHANGED <<requests, revisions>>

\* The OPERATION movements of operation o in its account's ledger, at most
\* one by the constraint one_primary_movement_per_operation.
Originals(o) ==
    {i \in 1 .. Len(log[ops[o].account]) :
        log[ops[o].account][i].op = o /\ log[ops[o].account][i].kind = "OPERATION"}

\* cancel_operation: reverse the movement the operation was booked with.
\* The day that must still be open is the day of its creation.
CancelOperation(u, o) ==
    LET op == ops[o] IN
    /\ op.status = "COMPLETED"
    /\ HasAccess(u, op.account)
    /\ ~DayIsClosed(op.account, op.day)
    /\ \E i \in Originals(o) :
          ApplyMovement(op.account, -log[op.account][i].delta, "ADJUSTMENT", o)
    /\ ops' = [ops EXCEPT ![o].status = "CANCELLED"]
    /\ OnlyMovement
    /\ UNCHANGED <<requests, revisions>>

\* Fault: the corrected impact is moved whole.
RevisionMovementWhole(o, amount, fee) ==
    /\ ops[o].type # "SENT_TRANSFER" => amount > fee
    /\ ApplyMovement(ops[o].account, Impact(ops[o].type, amount, fee), "ADJUSTMENT", o)

\* The cash a revision moves: the corrected impact less that of the movement
\* the operation was first booked with, not of what it came to since.
RevisionMovement(o, amount, fee) ==
    LET op == ops[o]
        impact == Impact(op.type, amount, fee)
    IN  /\ op.type # "SENT_TRANSFER" => amount > fee
        /\ \E i \in Originals(o) :
              LET delta == impact - log[op.account][i].delta IN
              IF delta = 0 THEN UNCHANGED <<balance, log>>
              ELSE ApplyMovement(op.account, delta, "ADJUSTMENT", o)

\* Fault: the price before is read from the operation after its update.
RevisionRowLate(o, amount, fee) ==
    [op |-> o, before |-> [amount |-> amount, fee |-> fee], after |-> [amount |-> amount, fee |-> fee]]

RevisionRow(o, amount, fee) ==
    [op |-> o, before |-> PriceOf(ops[o]), after |-> [amount |-> amount, fee |-> fee]]

\* revise_operation: correct amount and fee while the day of creation is open.
ReviseOperation(u, o, amount, fee) ==
    LET op == ops[o] IN
    /\ op.status # "CANCELLED"
    /\ HasAccess(u, op.account)
    /\ ~DayIsClosed(op.account, op.day)
    /\ amount > 0
    /\ IF amount > Ceiling THEN IsAdmin(u) ELSE fee <= AutoFee[amount]
    /\ Len(revisions) < MaxRevisions
    /\ IF op.status = "COMPLETED" THEN RevisionMovement(o, amount, fee)
                                  ELSE UNCHANGED <<balance, log>>
    /\ ops' = [ops EXCEPT ![o].amount = amount, ![o].fee = fee]
    /\ revisions' = Append(revisions, RevisionRow(o, amount, fee))
    /\ OnlyMovement
    /\ UNCHANGED requests

OperationsNext ==
    \/ \E u \in Users, a \in Accounts, amount \in OpAmounts, fee \in Fees, key \in Keys \cup {NoKey} :
          \/ CreateSentTransfer(u, a, amount, fee, key)
          \/ CreateWithdrawal(u, a, amount, fee, key)
          \/ ReceiveTransfer(u, a, amount, fee, key)
    \/ \E u \in Users, o \in DOMAIN ops :
          \/ PayReceivedTransfer(u, o)
          \/ CancelOperation(u, o)
          \/ \E amount \in OpAmounts, fee \in Fees : ReviseOperation(u, o, amount, fee)

Next == OperationsNext \/ (CashNext /\ UNCHANGED opsVars)

Spec == Init /\ [][Next]_vars

-----------------------------------------------------------------------------
(* Properties *)

\* Types of the rows of both applications.
TypeOK ==
    /\ CashTypeOK
    /\ ops \in Seq(Operation)
    /\ requests \subseteq Request
    /\ revisions \in Seq(Revision)

\* The rows of operation o in the ledger of its account.
OperationRows(o) ==
    {i \in 1 .. Len(log[ops[o].account]) : log[ops[o].account][i].op = o}

\* "single payout, refuses to pay twice" (operations/services.py:14): once it
\* is completed an operation has one OPERATION movement, in the ledger of its
\* own account, and whatever corrects it comes later; before, it has none.
PaidOnce ==
    /\ \A a \in Accounts : \A i \in 1 .. Len(log[a]) :
          /\ log[a][i].kind = "OPERATION" => log[a][i].op # 0
          /\ log[a][i].op # 0 => /\ log[a][i].op \in DOMAIN ops
                                 /\ ops[log[a][i].op].account = a
    /\ \A o \in DOMAIN ops :
          IF ops[o].status = "PENDING"
          THEN OperationRows(o) = {}
          ELSE \E i \in Originals(o) : \A j \in OperationRows(o) : i = j \/ (i < j /\ j \notin Originals(o))

\* What the ledger holds of an operation, and what it should hold: the cash of
\* the operation at its current price if it is completed, nothing otherwise.
NetEffect(o) == DeltaSum(log[ops[o].account], OperationRows(o))
Owed(o) ==
    IF ops[o].status = "COMPLETED" THEN Impact(ops[o].type, ops[o].amount, ops[o].fee) ELSE 0

\* The positions of the revisions of operation o; the older, the lower.
Trail(o) == {k \in DOMAIN revisions : revisions[k].op = o}

\* "every operation is mirrored by exactly one cash movement while it is open;
\* cancelling reverses that movement" (operations/services.py:7-8), read as:
\* the cash in the ledger is always that of the operation as it now stands.
LedgerFollowsOperations == \A o \in DOMAIN ops : NetEffect(o) = Owed(o)

\* The part of it that the code keeps: an operation that was never corrected,
\* or corrected once and not cancelled since, left the right amount of cash.
LedgerFollowsFirstRevision ==
    \A o \in DOMAIN ops :
        (\A j, k \in Trail(o) : j = k) /\ (Trail(o) = {} \/ ops[o].status # "CANCELLED")
            => NetEffect(o) = Owed(o)

\* Corrections "always leave a paper trail" (operations/services.py:16): the
\* revisions of an operation lead from price to price without a gap up to the
\* current one, and the movement it was booked with is at one of these prices.
TrailExplainsPrice ==
    \A o \in DOMAIN ops :
        LET trail == Trail(o)
            prices == {PriceOf(ops[o])} \cup {revisions[k].before : k \in trail}
        IN  /\ \A j, k \in trail : j < k /\ (\A l \in trail : l <= j \/ l >= k)
                  => revisions[j].after = revisions[k].before
            /\ \A k \in trail : (\A j \in trail : j <= k) => revisions[k].after = PriceOf(ops[o])
            /\ \A i \in Originals(o) : \E p \in prices :
                  log[ops[o].account][i].delta = Impact(ops[o].type, p.amount, p.fee)

\* Resubmitting a form books nothing twice: a key stands for one operation,
\* the one its user created, and an operation is created under one key.
OneOperationPerKey ==
    /\ \A r \in requests :
          /\ r.op \in DOMAIN ops
          /\ ops[r.op].agent = r.actor
          /\ ops[r.op].type = r.action
    /\ \A r, s \in requests : (r.op = s.op \/ (r.actor = s.actor /\ r.key = s.key)) => r = s

\* Corrections are "blocked once the owning day is closed"
\* (operations/services.py:15-16): the price of an operation of a closed day
\* is final, and all that may still happen to it is a late payout.
ClosedDaysSettled ==
    [][\A o \in DOMAIN ops :
          closures[ops[o].account][ops[o].day].status = "CLOSED" =>
              \/ ops'[o] = ops[o]
              \/ ops[o].status = "PENDING" /\ ops'[o] = [ops[o] EXCEPT !.status = "COMPLETED"]]_vars

=============================================================================
