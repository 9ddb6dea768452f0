------------------------------ MODULE CashVault -----------------------------
(***************************************************************************)
(* What the cash application promises, without ledgers, forms or days: one *)
(* pot of cash and one till per account.  Capital enters and leaves        *)
(* through the pot, business enters and leaves through one till at a time, *)
(* and cash carried between the pot and a till is neither made nor lost.   *)
(***************************************************************************)
EXTENDS Integers

CONSTANTS Tills

VARIABLES pot, till

vaultVars == <<pot, till>>

Init ==
    /\ pot = 0
    /\ till = [t \in Tills |-> 0]

\* Capital brought in or taken out.
CapitalMove ==
    /\ pot' \in Nat
    /\ UNCHANGED till

\* A customer's operation, or a difference found when a till is counted.
Business(t) ==
    /\ till' \in [Tills -> Nat]
    /\ \A other \in Tills \ {t} : till'[other] = till[other]
    /\ UNCHANGED pot

\* Cash carried from the pot to a till (n > 0) or back (n < 0).
Carry(t) ==
    \E n \in -till[t] .. pot :
        /\ pot' = pot - n
        /\ till' = [till EXCEPT ![t] = @ + n]

Next == CapitalMove \/ \E t \in Tills : Business(t) \/ Carry(t)

Spec == Init /\ [][Next]_vaultVars

=============================================================================
