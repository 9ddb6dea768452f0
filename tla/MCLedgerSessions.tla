-------------------------- MODULE MCLedgerSessions --------------------------
(* Small instances of LedgerSessions for TLC: two or three workers on one  *)
(* account that holds just enough for one of the calls to be refused.      *)
EXTENDS LedgerSessions

CONSTANTS boss, deputy, agent1, till1, s1, s2, s3

Staff == {boss, deputy, agent1}
StaffRole == [u \in Staff |-> IF u = agent1 THEN "AGENT" ELSE "ADMIN"]
OneTill == {till1}
OneTillHolder == [a \in OneTill |-> agent1]
FlatFee == [n \in OpAmounts |-> 1]

\* Capital of 4, of which 1 was allocated; a transfer of 1 was sent for a fee
\* of 1, a payout of 2 is announced and the agent brings back 2.
FundedStart ==
    [reserve |-> 3,
     reserveLog |-> <<[delta |-> 4, kind |-> "CAPITAL_IN", after |-> 4, account |-> NoAccount, handover |-> 0],
                      [delta |-> -1, kind |-> "ALLOCATION", after |-> 3, account |-> till1, handover |-> 0]>>,
     balance |-> [a \in OneTill |-> 3],
     log |-> [a \in OneTill |->
                <<[delta |-> 1, kind |-> "OPENING", after |-> 1, op |-> 0, day |-> 0],
                  [delta |-> 2, kind |-> "OPERATION", after |-> 3, op |-> 1, day |-> 0]>>],
     handovers |-> <<[account |-> till1, amount |-> 2, by |-> agent1, status |-> "PENDING"]>>,
     ops |-> <<[type |-> "SENT_TRANSFER", status |-> "COMPLETED", agent |-> agent1, account |-> till1,
                amount |-> 1, fee |-> 1, day |-> 0],
               [type |-> "RECEIVED_TRANSFER", status |-> "PENDING", agent |-> agent1, account |-> till1,
                amount |-> 2, fee |-> 1, day |-> 0]>>]

AllCalls ==
    {[kind |-> "pay", by |-> agent1, op |-> 2],
     [kind |-> "cancel", by |-> agent1, op |-> 1],
     [kind |-> "confirm", by |-> boss, handover |-> 1],
     [kind |-> "allocate", by |-> boss, account |-> till1, amount |-> 2],
     [kind |-> "withdraw", by |-> agent1, account |-> till1, amount |-> 3, fee |-> 1, key |-> "k1"]}

\* The form is submitted as it was shown.
SameForm == {<<TRUE, FALSE, TRUE>>}
=============================================================================
