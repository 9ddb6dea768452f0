------------------------------ MODULE MCCutover -----------------------------
(* Small instances of Cutover for TLC. *)
EXTENDS Cutover

CONSTANTS boss, agent1, till1

Staff == {boss, agent1}
StaffRole == [u \in Staff |-> IF u = boss THEN "ADMIN" ELSE "AGENT"]
OneTill == {till1}
OneTillHolder == [a \in OneTill |-> agent1]
FlatFee == [n \in OpAmounts |-> 1]
NoForm == {}
=============================================================================
