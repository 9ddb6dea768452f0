----------------------------- MODULE MCDividends ----------------------------
(* The result of a month of one day, shared out among four shareholders.    *)
EXTENDS Dividends

CONSTANTS boss, clerk, phone, capital, fees, charges, due, euros,
          ann, bob, cleo, dan, dueAnn, dueBob, dueCleo, dueDan, capAnn, capBob, capCleo, capDan

Staff == {boss, clerk}
StaffRole == [u \in Users |-> IF u = boss THEN "ADMIN" ELSE "FINANCE_MANAGER"]

\* Each shareholder has accounts in dollars; in euros nothing is shared out.
FourShareholders == <<ann, bob, cleo, dan>>
Dues == <<dueAnn, dueBob, dueCleo, dueDan>>
Caps == <<capAnn, capBob, capCleo, capDan>>
DuesInEuros == {<<"EUR", s>> : s \in {ann, bob, cleo, dan}}
Payables == {due} \cup {Dues[i] : i \in 1 .. 4} \cup DuesInEuros
Chart == {phone, capital, fees, charges, euros} \cup Payables \cup {Caps[i] : i \in 1 .. 4}
ChartNature ==
    [a \in Chart |-> CASE a = phone -> "ASSET"
                       [] a = fees -> "INCOME"
                       [] a = charges -> "EXPENSE"
                       [] a \in Payables -> "LIABILITY"
                       [] OTHER -> "EQUITY"]
ChartCurrency == [a \in Chart |-> IF a \in {euros} \cup DuesInEuros THEN "EUR" ELSE "USD"]

Position(s) == CHOOSE i \in 1 .. 4 : FourShareholders[i] = s
CapitalIn == [c \in {"USD", "EUR"} |-> IF c = "USD" THEN capital ELSE euros]
PayableTo ==
    [x \in {"USD", "EUR"} \X {ann, bob, cleo, dan} |->
        IF x[1] = "USD" THEN Dues[Position(x[2])] ELSE x]
OwnCapital ==
    [x \in {"USD", "EUR"} \X {ann, bob, cleo, dan} |->
        IF x[1] = "USD" THEN Caps[Position(x[2])] ELSE euros]

\* Fees of a month that give five cents to share out, and a part that a form
\* of the administration site writes.
SmallFees == {<<[account |-> phone, debit |-> 6], [account |-> fees, debit |-> -6]>>}
OneMonth == {[type |-> "MONTH", first |-> 0, last |-> 0, status |-> "OPEN"]}
PartsTypedIn == {[amount |-> 1, status |-> "DUE", booked |-> b, paid |-> 0] : b \in {0, 4}}

\* No draft touches what is owed, as the theorems on it suppose.
ASSUME DraftsLeaveDues ==
    \A lines \in SmallFees : \A i \in DOMAIN lines : lines[i].account \notin Payables
=============================================================================
