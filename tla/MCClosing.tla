------------------------------ MODULE MCClosing -----------------------------
(* A month of one day with its fees, a charge and a remuneration, closed    *)
(* with its day.                                                            *)
EXTENDS Closing

CONSTANTS boss, phone, capital, fees, charges, due, euros

OneAdmin == {boss}
AdminRole == [u \in OneAdmin |-> "ADMIN"]
Chart == {phone, capital, fees, charges, due, euros}
ChartNature ==
    [a \in Chart |-> CASE a = phone -> "ASSET"
                       [] a \in {capital, euros} -> "EQUITY"
                       [] a = fees -> "INCOME"
                       [] a = charges -> "EXPENSE"
                       [] a = due -> "LIABILITY"]
ChartCurrency == [a \in Chart |-> IF a = euros THEN "EUR" ELSE "USD"]

\* A second draft is balanced across currencies only.
FeesOrMixture ==
    {<<[account |-> phone, debit |-> 2], [account |-> fees, debit |-> -2]>>,
     <<[account |-> phone, debit |-> 1], [account |-> euros, debit |-> -1]>>}

Open(type) == [type |-> type, first |-> 0, last |-> 0, status |-> "OPEN"]
DayAndMonth == {Open("DAY"), Open("MONTH")}

\* A charge, what a form that was read before its decision writes back, and one
\* that approves another amount under a batch.
OneCharge == {<<1, 0>>}
ChargesTypedIn ==
    {[amount |-> 1, day |-> 0, status |-> "PENDING", booked |-> 0],
     [amount |-> 2, day |-> 0, status |-> "APPROVED", booked |-> 1]}

\* No draft touches what is owed, as the theorem on it supposes.
ASSUME DraftsLeaveDue == \A lines \in FeesOrMixture : \A i \in DOMAIN lines : lines[i].account # due
=============================================================================
