----------------------------- MODULE Dividends ------------------------------
(***************************************************************************)
(* How the result of a closed month is shared out (finance/closing.py and  *)
(* apps/profits): one user proposes an amount, an administrator approves   *)
(* it and every shareholder's part becomes a debt of the enterprise, which *)
(* is paid from a cash account or put back into the capital.               *)
(*                                                                         *)
(* The administration site edits proposals, allocations and parts          *)
(* (profits/admin.py) with forms like those of Closing.                    *)
(*                                                                         *)
(* Amounts are in cents.  Cash accounts that mirror the cash application   *)
(* are left out, as in Closing.                                            *)
(***************************************************************************)
EXTENDS Closing

CONSTANTS
    Shareholders,    \* the four parties of the dividend rules in the snapshot, 25 % each
    Capital,         \* Capital[c]: the account CAPITAL of currency c
    DividendPayable, \* DividendPayable[<<c, s>>]: DISTRIBUTION_PAYABLE of party s
    CapitalOf,       \* CapitalOf[<<c, s>>]: CAPITAL of party s
    Proposals,       \* amounts that may be proposed
    AmountForms,     \* amounts that a form of the site may save in a result or allocation
    PartForms,       \* amount, status and batches that its form of a part may save
    MaxEdited        \* bound: parts that forms of the site write

Parties == {Shareholders[i] : i \in 1 .. 4}
PartStatuses == {"DUE", "PAID", "REINVESTED"}

ASSUME DividendsAssumption ==
    /\ Len(Shareholders) = 4
    /\ Cardinality(Parties) = 4
    /\ Capital \in [Currencies -> FinAccounts]
    /\ DividendPayable \in [Currencies \X Parties -> FinAccounts]
    /\ CapitalOf \in [Currencies \X Parties -> FinAccounts]
    /\ Proposals \subseteq Int
    /\ AmountForms \subseteq Int
    /\ PartForms \subseteq [amount : Int, status : PartStatuses, booked : Nat, paid : Nat]
    /\ MaxEdited \in Nat

\* What counterpart (finance/events.py) finds or creates by a code made of the
\* type, the currency and the party, and refuses if the nature or the currency
\* is another: a debt to a shareholder has an account of its own.
ASSUME CounterpartAssumption ==
    /\ \A c \in Currencies : Nature[Capital[c]] = "EQUITY" /\ Currency[Capital[c]] = c
    /\ \A x \in Currencies \X Parties :
          /\ Nature[CapitalOf[x]] = "EQUITY" /\ Currency[CapitalOf[x]] = x[1]
          /\ Nature[DividendPayable[x]] = "LIABILITY" /\ Currency[DividendPayable[x]] = x[1]
          /\ DividendPayable[x] # Payable
          /\ \A y \in Currencies \X Parties : DividendPayable[x] = DividendPayable[y] => x = y

VARIABLES
    proposals,       \* proposals[q]: ProfitPeriod.proposed_distribution of q, if proposed_at is set
    allocations,     \* allocations[q]: Allocation.amount of q, once there is one
    parts            \* Distribution rows; a part is named by its position

dividendVars == <<closingVars, proposals, allocations, parts>>

\* edited is history, which no guard reads: a form of the administration site
\* wrote the amount since a service did.
Amount == [amount : Int, edited : BOOLEAN]

\* booked and paid are the positions of approval_batch and payment_batch, 0
\* for none.  A deleted part keeps its position.  left and edited are history:
\* left is what was approved of the part less what was settled, and edited
\* says that a form of the administration site wrote it.
Part ==
    [profit : Profit, party : Parties, amount : Int, status : PartStatuses \cup {"DELETED"},
     booked : Nat, paid : Nat, left : Int, edited : BOOLEAN]

-----------------------------------------------------------------------------
(* Parts *)

\* (amount / 4).quantize(Decimal("0.01")) rounds half to even.
Quarter(n) ==
    LET q == n \div 4
        r == n % 4
    IN  IF r = 3 \/ (r = 2 /\ q % 2 = 1) THEN q + 1 ELSE q

\* Fault: the last part is rounded as the others.
ShareRounded(n, i) == Quarter(n)

\* The last shareholder takes what is left.
Share(n, i) == IF i < 4 THEN Quarter(n) ELSE n - 3 * Quarter(n)

\* An Allocation exists.
IsApproved(q) == q \in DOMAIN allocations

\* finance_period is set and locked.
IsClosed(q) == \E p \in periods : p.type = "MONTH" /\ p.status = "LOCKED" /\ p.first = q.first /\ p.last = q.last

DistributionRow(d) == <<"Distribution", d>>
From(account, to, n) == <<[account |-> account, debit |-> n], [account |-> to, debit |-> -n]>>

-----------------------------------------------------------------------------
(* Services *)

DividendsInit ==
    /\ ClosingInit
    /\ proposals = <<>>
    /\ allocations = <<>>
    /\ parts = <<>>

\* A column of some rows is written.
Written(column, q, amount, byForm) ==
    [p \in DOMAIN column \cup {q} |->
        IF p = q THEN [amount |-> amount, edited |-> byForm] ELSE column[p]]

\* Fault: a distribution that is approved already may be proposed anew.
ProposeDistributionAnew(u, q, amount) ==
    /\ CanPrepare(u)
    /\ IsClosed(q)
    /\ 0 < amount /\ amount <= q.net
    /\ proposals' = Written(proposals, q, amount, FALSE)
    /\ UNCHANGED <<closingVars, allocations, parts>>

\* propose_distribution: a proposal replaces the one before it.
ProposeDistribution(u, q, amount) ==
    /\ CanPrepare(u)
    /\ IsClosed(q)
    /\ ~IsApproved(q)
    /\ 0 < amount /\ amount <= q.net
    /\ proposals' = Written(proposals, q, amount, FALSE)
    /\ UNCHANGED <<closingVars, allocations, parts>>

\* approve_distributions: the rows of the four parts, and a batch for each
\* that is not nothing.  All are posted or none is.
NewParts(q, amount) ==
    [i \in 1 .. 4 |->
        [profit |-> q, party |-> Shareholders[i], amount |-> Share(amount, i), status |-> "DUE",
         booked |-> IF Share(amount, i) = 0 THEN 0
                    ELSE Len(batches) + Cardinality({j \in 1 .. i : Share(amount, j) # 0}),
         paid |-> 0, left |-> Share(amount, i), edited |-> FALSE]]

\* A part of nothing is a Distribution row without a batch.
ApprovalLines(q, amount, i) ==
    IF Share(amount, i) = 0 THEN <<>>
    ELSE From(Capital[q.currency], DividendPayable[<<q.currency, Shareholders[i]>>], Share(amount, i))

ApprovalBatch(q, amount, i) ==
    LET source == DistributionRow(Len(parts) + i) IN
    IF Share(amount, i) = 0 THEN <<>>
    ELSE <<NewBatch(<<source[1], source[2], "DISTRIBUTION_APPROVE">>, source, "DISTRIBUTION_APPROVE",
                    today, ApprovalLines(q, amount, i), "POSTED", 0)>>

ApprovalBatches(q, amount) ==
    ApprovalBatch(q, amount, 1) \o ApprovalBatch(q, amount, 2)
        \o ApprovalBatch(q, amount, 3) \o ApprovalBatch(q, amount, 4)

\* The lines of all these batches, for the balances they change.
ApprovedLines(q, amount) ==
    ApprovalLines(q, amount, 1) \o ApprovalLines(q, amount, 2)
        \o ApprovalLines(q, amount, 3) \o ApprovalLines(q, amount, 4)

ApproveDistributions(u, q, amount) ==
    /\ CanApprove(u)
    /\ IsClosed(q)
    /\ q \in DOMAIN proposals /\ proposals[q].amount = amount
    /\ 0 < amount /\ amount <= q.net
    /\ ~IsApproved(q)
    /\ Len(batches) + Len(ApprovalBatches(q, amount)) <= MaxBatches
    /\ Post(today, ApprovedLines(q, amount), FALSE)
    /\ batches' = batches \o ApprovalBatches(q, amount)
    /\ proposals' = Written(proposals, q, amount, FALSE)
    /\ allocations' = Written(allocations, q, amount, FALSE)
    /\ parts' = parts \o NewParts(q, amount)
    /\ UNCHANGED <<today, periods, expenses, counts, profits>>

\* Fault: a part that is paid already may be paid or reinvested again.
SettleAgain(d, event, account, status) ==
    LET part == parts[d] IN
    /\ part.booked # 0
    /\ part.amount > 0
    /\ RecordEvent(DistributionRow(d), event, today,
                   From(DividendPayable[<<part.profit.currency, part.party>>], account, part.amount), FALSE)
    /\ parts' = [parts EXCEPT ![d].status = status, ![d].paid = Len(batches) + 1,
                              ![d].left = @ - part.amount]
    /\ UNCHANGED <<today, periods, expenses, counts, profits, proposals, allocations>>

\* pay_distribution: what both destinations do.  A part that is paid already
\* is returned as it is, and a line takes a positive amount.
Settle(d, event, account, status) ==
    LET part == parts[d] IN
    /\ part.paid = 0
    /\ part.booked # 0
    /\ part.amount > 0
    /\ RecordEvent(DistributionRow(d), event, today,
                   From(DividendPayable[<<part.profit.currency, part.party>>], account, part.amount), FALSE)
    /\ parts' = [parts EXCEPT ![d].status = status, ![d].paid = Len(batches) + 1,
                              ![d].left = @ - part.amount]
    /\ UNCHANGED <<today, periods, expenses, counts, profits, proposals, allocations>>

PayOut(u, d, a) ==
    /\ CanApprove(u)
    /\ Currency[a] = parts[d].profit.currency
    /\ LedgerBalance(a) >= parts[d].amount
    /\ Settle(d, "DISTRIBUTION_PAY", a, "PAID")

Reinvest(u, d) ==
    /\ CanApprove(u)
    /\ Settle(d, "DISTRIBUTION_REINVEST", CapitalOf[<<parts[d].profit.currency, parts[d].party>>], "REINVESTED")

-----------------------------------------------------------------------------
(* Forms of the administration site (profits/admin.py) *)

PartsOf(q) == {d \in DOMAIN parts : parts[d].profit = q}

\* The form of ProfitPeriod, with or without proposed_at.
SaveProposal(u, q, amount) ==
    /\ u \in OnSite
    /\ proposals' = Written(proposals, q, amount, TRUE)
    /\ UNCHANGED <<closingVars, allocations, parts>>

ClearProposal(u, q) ==
    /\ u \in OnSite
    /\ proposals' = [p \in DOMAIN proposals \ {q} |-> proposals[p]]
    /\ UNCHANGED <<closingVars, allocations, parts>>

\* The form of Allocation adds the row of a month or saves it.
SaveAllocation(u, q, amount) ==
    /\ u \in OnSite
    /\ allocations' = Written(allocations, q, amount, TRUE)
    /\ UNCHANGED <<closingVars, proposals, parts>>

\* Parts restrict the deletion of their allocation.
DeleteAllocation(u, q) ==
    /\ u \in OnSite
    /\ q \in DOMAIN allocations
    /\ \A d \in PartsOf(q) : parts[d].status = "DELETED"
    /\ allocations' = [p \in DOMAIN allocations \ {q} |-> allocations[p]]
    /\ UNCHANGED <<closingVars, proposals, parts>>

\* The batches that a form of part d names exist and no other part names them:
\* approval_batch and payment_batch are unique.
Valid(d, form) ==
    /\ {form.booked, form.paid} \subseteq 0 .. Len(batches)
    /\ \A f \in DOMAIN parts \ {d} :
          /\ form.booked # 0 => parts[f].booked # form.booked
          /\ form.paid # 0 => parts[f].paid # form.paid

Edited == {d \in DOMAIN parts : parts[d].edited}

AddPart(u, q, s, form) ==
    /\ u \in OnSite
    /\ q \in DOMAIN allocations
    /\ Valid(0, form)
    /\ Cardinality(Edited) < MaxEdited
    /\ parts' = Append(parts, [profit |-> q, party |-> s, amount |-> form.amount, status |-> form.status,
                               booked |-> form.booked, paid |-> form.paid, left |-> 0, edited |-> TRUE])
    /\ UNCHANGED <<closingVars, proposals, allocations>>

\* The whole row is saved, as the form was read or as it was filled in.
SavePart(u, d, form) ==
    /\ u \in OnSite
    /\ parts[d].status # "DELETED"
    /\ Valid(d, form)
    /\ Cardinality(Edited \cup {d}) <= MaxEdited
    /\ parts' = [parts EXCEPT ![d] = [@ EXCEPT !.amount = form.amount, !.status = form.status,
                                               !.booked = form.booked, !.paid = form.paid, !.edited = TRUE]]
    /\ UNCHANGED <<closingVars, proposals, allocations>>

DeletePart(u, d) ==
    /\ u \in OnSite
    /\ parts[d].status # "DELETED"
    /\ Cardinality(Edited \cup {d}) <= MaxEdited
    /\ parts' = [parts EXCEPT ![d] = [@ EXCEPT !.status = "DELETED", !.booked = 0, !.paid = 0, !.edited = TRUE]]
    /\ UNCHANGED <<closingVars, proposals, allocations>>

DividendsNext ==
    \/ ClosingNext /\ UNCHANGED <<proposals, allocations, parts>>
    \/ \E u \in Users :
          \/ \E q \in profits, amount \in Proposals \cup AmountForms :
                ProposeDistribution(u, q, amount) \/ ApproveDistributions(u, q, amount)
          \/ \E q \in profits :
                \/ \E amount \in AmountForms : SaveProposal(u, q, amount) \/ SaveAllocation(u, q, amount)
                \/ ClearProposal(u, q)
                \/ DeleteAllocation(u, q)
          \/ \E d \in DOMAIN parts :
                \/ \E a \in CashAccounts : PayOut(u, d, a)
                \/ Reinvest(u, d)
                \/ DeletePart(u, d)
          \/ \E form \in PartForms :
                \/ \E q \in profits, s \in Parties : AddPart(u, q, s, form)
                \/ \E d \in DOMAIN parts : SavePart(u, d, form)

DividendsSpec == DividendsInit /\ [][DividendsNext]_dividendVars

-----------------------------------------------------------------------------
(* Properties *)

\* Types of the rows of the three modules; a period has its days in order and,
\* unless a form wrote the row, a part is settled only if it was booked, which
\* takes that it is something.
DividendsTypeOK ==
    /\ JournalTypeOK
    /\ \A p \in periods : p.first <= p.last
    /\ expenses \in Seq(Expense)
    /\ counts \subseteq Count
    /\ profits \subseteq Profit
    /\ DOMAIN proposals \subseteq profits
    /\ proposals \in [DOMAIN proposals -> Amount]
    /\ DOMAIN allocations \subseteq profits
    /\ allocations \in [DOMAIN allocations -> Amount]
    /\ parts \in Seq(Part)
    /\ \A d \in DOMAIN parts : /\ parts[d].profit \in profits
                               /\ ~parts[d].edited =>
                                      /\ parts[d].booked # 0 => parts[d].amount # 0
                                      /\ parts[d].paid # 0 => parts[d].booked # 0

\* As long as no form of the administration site wrote the allocation or a part
\* of it: what is shared out is the approved amount, all of it and never more
\* than the result of the month, it is the proposal that stands (unless a form
\* wrote that), and no part is negative, or further than a cent and a half from
\* a quarter of the amount.
PartsAddUp ==
    \A q \in DOMAIN allocations :
        LET amount == allocations[q].amount IN
        ~allocations[q].edited =>
            /\ amount <= q.net
            /\ q \in DOMAIN proposals => proposals[q].edited \/ proposals[q].amount = amount
            /\ (\A d \in PartsOf(q) : ~parts[d].edited) =>
                  /\ Cardinality(PartsOf(q)) = 4
                  /\ SumFunction([d \in PartsOf(q) |-> parts[d].amount]) = amount
                  /\ \A d \in PartsOf(q) :
                        /\ parts[d].amount >= 0
                        /\ 4 * parts[d].amount - amount \in -6 .. 6

\* The debt to a shareholder in the journal is what was approved of the parts
\* and not settled, whatever a form of the administration site does to them
\* meanwhile; a part that no form wrote is settled once, to one destination.
DuePartsArePayable ==
    /\ \A c \in Currencies, s \in Parties :
          LedgerBalance(DividendPayable[<<c, s>>]) =
              SumFunction([d \in {d \in DOMAIN parts : parts[d].party = s /\ parts[d].profit.currency = c} |->
                               parts[d].left])
    /\ \A d \in DOMAIN parts :
          ~parts[d].edited =>
              parts[d].left = IF parts[d].booked # 0 /\ parts[d].paid = 0 THEN parts[d].amount ELSE 0

\* Once approved, the amount of a distribution and its parts are final for the
\* services: only a form of the administration site writes the proposal or the
\* allocation again, and takes the allocation away once no part of it is left.
\* A part that no form wrote keeps all but what its settlement writes and, once
\* settled, keeps its destination and batch.
ApprovalStands ==
    [][/\ \A q \in DOMAIN allocations :
             /\ \/ q \in DOMAIN allocations' /\ (allocations'[q] = allocations[q] \/ allocations'[q].edited)
                \/ q \notin DOMAIN allocations' /\ \A d \in PartsOf(q) : parts[d].status = "DELETED"
             /\ q \in DOMAIN proposals' =>
                   proposals'[q].edited \/ (q \in DOMAIN proposals /\ proposals'[q] = proposals[q])
       /\ \A d \in DOMAIN parts :
             /\ d \in DOMAIN parts'
             /\ ~parts'[d].edited =>
                   /\ parts'[d] = [parts[d] EXCEPT !.status = parts'[d].status, !.paid = parts'[d].paid,
                                                   !.left = parts'[d].left]
                   /\ parts[d].paid # 0 => parts'[d] = parts[d]]_dividendVars

=============================================================================
