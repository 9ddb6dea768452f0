---------------------------- MODULE MCOperations ----------------------------
(* Small instances of Operations for TLC. *)
EXTENDS Operations

CONSTANTS boss, agent1, till1

Staff == {boss, agent1}
StaffRole == [u \in Staff |-> IF u = boss THEN "ADMIN" ELSE "AGENT"]
OneTill == {till1}
OneTillHolder == [a \in OneTill |-> agent1]

\* The grid asks a fee of 1 whatever the amount.
FlatFee == [n \in OpAmounts |-> 1]

NoForm == {}
=============================================================================
