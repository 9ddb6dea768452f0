----------------------------- MODULE MCCashDesk -----------------------------
(* Small instances of CashDesk for TLC. *)
EXTENDS CashDesk

CONSTANTS boss, deputy, agent1, till1

OneAgent == {boss, deputy, agent1}
OneAgentRole == [u \in OneAgent |-> IF u = agent1 THEN "AGENT" ELSE "ADMIN"]
OneTill == {till1}
OneTillHolder == [a \in OneTill |-> agent1]

\* The form locks the account, unlinks it, or undoes either.
LockOrUnlink == {<<TRUE, FALSE, TRUE>>, <<TRUE, TRUE, TRUE>>, <<TRUE, FALSE, FALSE>>}
=============================================================================
