------------------------ MODULE LedgerSessions_proofs -----------------------
(***************************************************************************)
(* Theorems about LedgerSessions, for every number of sessions and every   *)
(* set of calls.                                                           *)
(*                                                                         *)
(* The locks are two-phase: a session holds every row it has read, the     *)
(* mutex first, until its transaction ends.  So a row that a service has   *)
(* read is still the committed one when it decides, and no other service   *)
(* holds anything when one commits.  Forms lock nothing, but wait for the  *)
(* locks on the row they write.                                            *)
(***************************************************************************)
EXTENDS LedgerSessions, Operations_proofs, SequenceTheorems

-----------------------------------------------------------------------------
(* Calls and the rows they read *)

RowsOf(c) == Range(Rows(c))

\* Operations and handovers that were there at the start still are.
Rooted ==
    /\ DOMAIN Start.ops \subseteq DOMAIN ops
    /\ DOMAIN handovers = DOMAIN Start.handovers

\* What the form of a call of each kind submits.
LEMMA CallFields ==
  ASSUME NEW c \in Calls
  PROVE  /\ c.kind \in {"pay", "cancel", "confirm", "allocate", "withdraw"}
         /\ c.by \in Users
         /\ c.kind \in {"pay", "cancel"} => c.op \in DOMAIN Start.ops
         /\ c.kind = "confirm" => c.handover \in DOMAIN Start.handovers
         /\ c.kind = "allocate" => c.account \in Accounts /\ c.amount \in Amounts
         /\ c.kind = "withdraw" => /\ c.account \in Accounts /\ c.amount \in OpAmounts
                                   /\ c.fee \in Fees /\ c.key \in Keys
<1>1. c \in Call
  BY SessionsAssumption
<1> QED
  BY <1>1, SessionsAssumption DEF Call

LEMMA AccountOfCall ==
  ASSUME TypeOK, Rooted, NEW c \in Calls
  PROVE  /\ AccountOf(c) \in Accounts
         /\ c.kind \in {"pay", "cancel"} => AccountOf(c) = ops[c.op].account
         /\ c.kind = "confirm" => AccountOf(c) = handovers[c.handover].account
         /\ c.kind \in {"allocate", "withdraw"} => AccountOf(c) = c.account
<1>1. CASE c.kind \in {"pay", "cancel"}
  <2>1. c.op \in DOMAIN ops
    BY <1>1, CallFields DEF Rooted
  <2>2. ops[c.op].account \in Accounts
    BY <2>1, OperationRecord
  <2> QED
    BY <1>1, <2>2 DEF AccountOf
<1>2. CASE c.kind = "confirm"
  <2>1. c.handover \in DOMAIN handovers
    BY <1>2, CallFields DEF Rooted
  <2>2. handovers[c.handover].account \in Accounts
    BY <2>1, HandoverRow DEF TypeOK
  <2> QED
    BY <1>2, <2>2 DEF AccountOf
<1>3. CASE c.kind \in {"allocate", "withdraw"}
  BY <1>3, CallFields DEF AccountOf
<1> QED
  BY <1>1, <1>2, <1>3, CallFields

\* A sequence behind a first element.
LEMMA AfterFirst ==
  ASSUME NEW S, NEW m \in S, NEW t \in Seq(S)
  PROVE  /\ <<m>> \o t \in Seq(S)
         /\ Len(<<m>> \o t) = Len(t) + 1
         /\ (<<m>> \o t)[1] = m
         /\ \A i \in 1 .. Len(t) : (<<m>> \o t)[i + 1] = t[i]
<1> DEFINE s == <<m>>
<1>1. s \in Seq(S) /\ Len(s) = 1 /\ s[1] = m
  OBVIOUS
<1> HIDE DEF s
<1>2. /\ s \o t \in Seq(S)
      /\ Len(s \o t) = Len(s) + Len(t)
      /\ \A i \in 1 .. Len(s) + Len(t) :
            (s \o t)[i] = IF i <= Len(s) THEN s[i] ELSE t[i - Len(s)]
  BY <1>1, ConcatProperties
<1>3. s \o t \in Seq(S) /\ Len(s \o t) = Len(t) + 1 /\ (s \o t)[1] = m
  BY <1>1, <1>2
<1>4. ASSUME NEW i \in 1 .. Len(t) PROVE (s \o t)[i + 1] = t[i]
  <2>1. i + 1 \in 1 .. Len(s) + Len(t) /\ (i + 1) - Len(s) = i /\ ~(i + 1 <= Len(s))
    BY <1>1
  <2> QED
    BY <1>2, <2>1
<1> QED
  BY <1>3, <1>4 DEF s

\* A call reads the mutex and then the rows of its service.
LEMMA MutexFirst ==
  ASSUME NEW c, ServiceRows(c) \in Seq(RowNames)
  PROVE  /\ Rows(c) \in Seq(RowNames)
         /\ Rows(c)[1] = Mutex
         /\ RowsOf(c) = {Mutex} \cup Range(ServiceRows(c))
<1> DEFINE t == ServiceRows(c)
<1>1. Mutex \in RowNames
  BY DEF RowNames
<1>2. t \in Seq(RowNames)
  OBVIOUS
<1> HIDE DEF t
<1>3. /\ Rows(c) \in Seq(RowNames)
      /\ Len(Rows(c)) = Len(t) + 1
      /\ Rows(c)[1] = Mutex
      /\ \A i \in 1 .. Len(t) : Rows(c)[i + 1] = t[i]
  BY <1>1, <1>2, AfterFirst DEF Rows, t
<1>4. \A r \in RowsOf(c) : r \in {Mutex} \cup Range(t)
  <2> SUFFICES ASSUME NEW i \in DOMAIN Rows(c), i # 1 PROVE Rows(c)[i] \in Range(t)
    BY <1>3 DEF RowsOf, Range
  <2>1. i - 1 \in 1 .. Len(t) /\ i = (i - 1) + 1 /\ DOMAIN t = 1 .. Len(t)
    BY <1>2, <1>3
  <2> QED
    BY <1>3, <2>1 DEF Range
<1>5. ASSUME NEW i \in DOMAIN t PROVE t[i] \in RowsOf(c)
  <2>1. i \in 1 .. Len(t) /\ i + 1 \in DOMAIN Rows(c)
    BY <1>2, <1>3
  <2> QED
    BY <1>3, <2>1 DEF RowsOf, Range
<1>6. Mutex \in RowsOf(c)
  <2>1. 1 \in DOMAIN Rows(c)
    BY <1>2, <1>3
  <2> QED
    BY <1>3, <2>1 DEF RowsOf, Range
<1>7. RowsOf(c) = {Mutex} \cup Range(t)
  BY <1>4, <1>5, <1>6 DEF Range
<1> QED
  BY <1>3, <1>7 DEF t

LEMMA TwoRows == \A x, y : Range(<<x, y>>) = {x, y}
<1> TAKE x, y
<1> DEFINE t == <<x, y>>
<1>1. DOMAIN t = {1, 2} /\ t[1] = x /\ t[2] = y
  OBVIOUS
<1> HIDE DEF t
<1>2. Range(t) = {x, y}
  BY <1>1 DEF Range
<1> QED
  BY <1>2 DEF t

LEMMA ThreeRows == \A x, y, z : Range(<<x, y, z>>) = {x, y, z}
<1> TAKE x, y, z
<1> DEFINE t == <<x, y, z>>
<1>1. DOMAIN t = {1, 2, 3} /\ t[1] = x /\ t[2] = y /\ t[3] = z
  OBVIOUS
<1> HIDE DEF t
<1>2. Range(t) = {x, y, z}
  BY <1>1 DEF Range
<1> QED
  BY <1>2 DEF t

\* The rows of each kind of call.
LEMMA CallRows ==
  ASSUME TypeOK, Rooted, NEW c \in Calls
  PROVE  /\ ServiceRows(c) \in Seq(RowNames)
         /\ c.kind \in {"pay", "cancel"} =>
                RowsOf(c) = {Mutex, OperationRow(c.op), Till(AccountOf(c))}
         /\ c.kind = "confirm" =>
                RowsOf(c) = {Mutex, HandoverRowOf(c.handover), Till(AccountOf(c)), Reserve}
         /\ c.kind = "allocate" => RowsOf(c) = {Mutex, Till(AccountOf(c)), Reserve}
         /\ c.kind = "withdraw" => RowsOf(c) = {Mutex, KeyRow(c.by, c.key), Till(AccountOf(c))}
<1> DEFINE till == Till(AccountOf(c))
<1>1. till \in RowNames /\ Reserve \in RowNames
  BY AccountOfCall DEF RowNames
<1>2. CASE c.kind \in {"pay", "cancel"}
  <2>1. c.op \in 1 .. MaxOps
    BY <1>2, CallFields, SessionsAssumption, OperationsAssumption
  <2>2. OperationRow(c.op) \in RowNames
    BY <2>1 DEF RowNames
  <2>3. ServiceRows(c) = <<OperationRow(c.op), till>>
    BY <1>2 DEF ServiceRows
  <2> HIDE DEF till
  <2>4. ServiceRows(c) \in Seq(RowNames)
    BY <1>1, <2>2, <2>3
  <2>5. RowsOf(c) = {Mutex, OperationRow(c.op), till}
    <3>1. RowsOf(c) = {Mutex} \cup Range(ServiceRows(c))
      BY <2>4, MutexFirst
    <3>2. Range(ServiceRows(c)) = {OperationRow(c.op), till}
      BY <2>3, TwoRows
    <3> QED
      BY <3>1, <3>2
  <2> QED
    BY <1>2, <2>4, <2>5 DEF till
<1>3. CASE c.kind = "confirm"
  <2>1. c.handover \in 1 .. MaxHandovers
    BY <1>3, CallFields, SessionsAssumption, CashAssumption
  <2>2. HandoverRowOf(c.handover) \in RowNames
    BY <2>1 DEF RowNames
  <2>3. ServiceRows(c) = <<HandoverRowOf(c.handover), till, Reserve>>
    BY <1>3 DEF ServiceRows
  <2> HIDE DEF till
  <2>4. ServiceRows(c) \in Seq(RowNames)
    BY <1>1, <2>2, <2>3
  <2>5. RowsOf(c) = {Mutex, HandoverRowOf(c.handover), till, Reserve}
    <3>1. RowsOf(c) = {Mutex} \cup Range(ServiceRows(c))
      BY <2>4, MutexFirst
    <3>2. Range(ServiceRows(c)) = {HandoverRowOf(c.handover), till, Reserve}
      BY <2>3, ThreeRows
    <3> QED
      BY <3>1, <3>2
  <2> QED
    BY <1>3, <2>4, <2>5 DEF till
<1>4. CASE c.kind = "allocate"
  <2>1. ServiceRows(c) = <<till, Reserve>>
    BY <1>4, AccountOfCall DEF ServiceRows
  <2> HIDE DEF till
  <2>2. ServiceRows(c) \in Seq(RowNames)
    BY <1>1, <2>1
  <2>3. RowsOf(c) = {Mutex, till, Reserve}
    <3>1. RowsOf(c) = {Mutex} \cup Range(ServiceRows(c))
      BY <2>2, MutexFirst
    <3>2. Range(ServiceRows(c)) = {till, Reserve}
      BY <2>1, TwoRows
    <3> QED
      BY <3>1, <3>2
  <2> QED
    BY <1>4, <2>2, <2>3 DEF till
<1>5. CASE c.kind = "withdraw"
  <2>1. c.by \in Users /\ c.key \in Keys
    BY <1>5, CallFields
  <2>2. KeyRow(c.by, c.key) \in RowNames
    BY <2>1 DEF RowNames
  <2>3. ServiceRows(c) = <<KeyRow(c.by, c.key), till>>
    BY <1>5, AccountOfCall DEF ServiceRows
  <2> HIDE DEF till
  <2>4. ServiceRows(c) \in Seq(RowNames)
    BY <1>1, <2>2, <2>3
  <2>5. RowsOf(c) = {Mutex, KeyRow(c.by, c.key), till}
    <3>1. RowsOf(c) = {Mutex} \cup Range(ServiceRows(c))
      BY <2>4, MutexFirst
    <3>2. Range(ServiceRows(c)) = {KeyRow(c.by, c.key), till}
      BY <2>3, TwoRows
    <3> QED
      BY <3>1, <3>2
  <2> QED
    BY <1>5, <2>4, <2>5 DEF till
<1> QED
  BY <1>2, <1>3, <1>4, <1>5, CallFields

\* A call locks the rows it reads, the mutex first.
LEMMA CallLocks ==
  ASSUME TypeOK, Rooted, NEW c \in Calls
  PROVE  /\ Rows(c)[1] = Mutex
         /\ Rows(c) \in Seq(RowNames)
         /\ \A r \in RowsOf(c) : r[1] \in ForUpdate
<1>1. Rows(c)[1] = Mutex /\ Rows(c) \in Seq(RowNames)
  BY CallRows, MutexFirst
<1>2. \A r \in RowsOf(c) : r \in RowNames
  BY <1>1 DEF RowsOf, Range
<1>3. \A r \in RowNames : r[1] \in ForUpdate
  BY DEF RowNames, Mutex, Reserve, Till, OperationRow, HandoverRowOf, KeyRow, ForUpdate
<1> QED
  BY <1>1, <1>2, <1>3

-----------------------------------------------------------------------------
(* What a service that read the committed rows commits *)

LEMMA RowValues ==
  /\ \A a \in Accounts : Value(Till(a)) = [balance |-> balance[a], active |-> active[a],
                                           locked |-> locked[a], linked |-> linked[a]]
  /\ \A o : Value(OperationRow(o)) = ops[o]
  /\ \A h : Value(HandoverRowOf(h)) = handovers[h]
  /\ \A u, key : Value(KeyRow(u, key)) = {q \in requests : q.actor = u /\ q.key = key}
  /\ Value(Reserve) = [balance |-> reserve, active |-> reserveActive]
BY DEF Value, Till, OperationRow, HandoverRowOf, KeyRow, Reserve

\* What session s has read of its call is what is committed.
Current(s) == \A r \in RowsOf(call[s]) : read[s][r] = Value(r)

\* The movement a service writes is the one its account's rows make.
LEMMA CommitPosts ==
  ASSUME TypeOK, Rooted, NEW s \in Sessions, call[s] \in Calls, Current(s), WriteTill(s),
         ~locked[AccountOf(call[s])]
  PROVE  ApplyMovement(AccountOf(call[s]), MovementOf(s).delta, MovementOf(s).kind, MovementOf(s).op)
<1> DEFINE a == AccountOf(call[s])
           m == MovementOf(s)
<1>1. a \in Accounts
  BY AccountOfCall
<1>2. Till(a) \in RowsOf(call[s])
  BY CallRows, CallFields
<1>3. read[s][Till(a)].balance = balance[a]
  BY <1>1, <1>2, RowValues DEF Current
<1> DEFINE after == balance[a] + m.delta
<1>4. /\ m.delta # 0 /\ after >= 0 /\ Len(log[a]) < MaxMovements
      /\ balance' = [balance EXCEPT ![a] = after]
      /\ log' = [log EXCEPT ![a] = Append(@, [delta |-> m.delta, kind |-> m.kind, after |-> after,
                                              op |-> m.op, day |-> today])]
  BY <1>3 DEF WriteTill
<1> QED
  BY <1>4 DEF ApplyMovement, Post

\* The rows of the administrator's reserve are left alone by the other calls.
LEMMA ReserveLeftAlone ==
  ASSUME NEW s, call[s].kind \in {"pay", "cancel", "withdraw"}, WriteReserve(s)
  PROVE  UNCHANGED <<reserve, reserveLog>>
BY DEF WriteReserve, ReserveGain

LEMMA PayCommits ==
  ASSUME TypeOK, Rooted, NEW s \in Sessions, call[s] \in Calls, Current(s), Commit(s),
         call[s].kind = "pay"
  PROVE  call[s].op \in DOMAIN ops /\ PayReceivedTransfer(call[s].by, call[s].op)
<1> DEFINE c == call[s]
           o == c.op
           a == AccountOf(c)
<1>1. o \in DOMAIN ops
  BY CallFields DEF Rooted
<1>2. a \in Accounts /\ a = ops[o].account
  BY AccountOfCall
<1>3. read[s][OperationRow(o)] = ops[o]
  BY CallRows, RowValues DEF Current
<1>4. read[s][Till(a)] = [balance |-> balance[a], active |-> active[a],
                          locked |-> locked[a], linked |-> linked[a]]
  BY <1>2, CallRows, RowValues DEF Current
<1>5. AcceptsPay(c, ops[o], read[s][Till(a)])
  BY <1>3 DEF Commit, Accepts
<1>6. ops[o].status = "PENDING" /\ HasAccess(c.by, a) /\ ~locked[a] /\ ops[o].amount > ops[o].fee
  BY <1>2, <1>4, <1>5 DEF AcceptsPay, OpenTill, HasAccess
<1>7. /\ MovementOf(s).delta = ops[o].fee - ops[o].amount
      /\ MovementOf(s).kind = "OPERATION" /\ MovementOf(s).op = o
  BY <1>3 DEF MovementOf
<1>8. ApplyMovement(a, ops[o].fee - ops[o].amount, "OPERATION", o)
  <2>1. ApplyMovement(a, MovementOf(s).delta, MovementOf(s).kind, MovementOf(s).op)
    BY <1>6, CommitPosts DEF Commit
  <2> QED
    BY <1>7, <2>1
<1>9. /\ ops' = [ops EXCEPT ![o].status = "COMPLETED"]
      /\ UNCHANGED <<requests, handovers, active>>
  BY DEF Commit, WriteRows
<1>10. UNCHANGED <<today, reserve, reserveLog, reserveActive, locked, linked, closures, revisions>>
  BY ReserveLeftAlone DEF Commit
<1>11. OnlyMovement
  BY <1>9, <1>10 DEF OnlyMovement, reserveVars
<1> QED
  BY <1>1, <1>2, <1>6, <1>8, <1>9, <1>10, <1>11 DEF PayReceivedTransfer

LEMMA CancelCommits ==
  ASSUME TypeOK, Rooted, NEW s \in Sessions, call[s] \in Calls, Current(s), Commit(s),
         call[s].kind = "cancel"
  PROVE  call[s].op \in DOMAIN ops /\ CancelOperation(call[s].by, call[s].op)
<1> DEFINE c == call[s]
           o == c.op
           a == AccountOf(c)
<1>1. o \in DOMAIN ops
  BY CallFields DEF Rooted
<1>2. a \in Accounts /\ a = ops[o].account
  BY AccountOfCall
<1>3. read[s][OperationRow(o)] = ops[o]
  BY CallRows, RowValues DEF Current
<1>4. read[s][Till(a)] = [balance |-> balance[a], active |-> active[a],
                          locked |-> locked[a], linked |-> linked[a]]
  BY <1>2, CallRows, RowValues DEF Current
<1>5. AcceptsCancel(c, ops[o], read[s][Till(a)])
  BY <1>3 DEF Commit, Accepts
<1>6. /\ ops[o].status = "COMPLETED" /\ HasAccess(c.by, a) /\ ~locked[a]
      /\ ~DayIsClosed(a, ops[o].day) /\ Originals(o) # {}
  BY <1>2, <1>4, <1>5 DEF AcceptsCancel, OpenTill, HasAccess
<1> DEFINE i == CHOOSE k \in Originals(o) : TRUE
<1>7. i \in Originals(o)
  BY <1>6
<1>8. /\ MovementOf(s).delta = -log[a][i].delta
      /\ MovementOf(s).kind = "ADJUSTMENT" /\ MovementOf(s).op = o
  BY <1>2, <1>3 DEF MovementOf
<1>9. ApplyMovement(a, -log[a][i].delta, "ADJUSTMENT", o)
  <2>1. ApplyMovement(a, MovementOf(s).delta, MovementOf(s).kind, MovementOf(s).op)
    BY <1>6, CommitPosts DEF Commit
  <2> QED
    BY <1>8, <2>1
<1>10. /\ ops' = [ops EXCEPT ![o].status = "CANCELLED"]
       /\ UNCHANGED <<requests, handovers, active>>
  BY DEF Commit, WriteRows
<1>11. UNCHANGED <<today, reserve, reserveLog, reserveActive, locked, linked, closures, revisions>>
  BY ReserveLeftAlone DEF Commit
<1>12. OnlyMovement
  BY <1>10, <1>11 DEF OnlyMovement, reserveVars
<1> HIDE DEF i
<1>13. \E k \in Originals(o) : ApplyMovement(ops[o].account, -log[ops[o].account][k].delta, "ADJUSTMENT", o)
  BY <1>2, <1>7, <1>9
<1> QED
  BY <1>1, <1>2, <1>6, <1>10, <1>11, <1>12, <1>13 DEF CancelOperation

LEMMA ConfirmCommits ==
  ASSUME TypeOK, Rooted, NEW s \in Sessions, call[s] \in Calls, Current(s), Commit(s),
         call[s].kind = "confirm"
  PROVE  call[s].handover \in DOMAIN handovers /\ ConfirmHandover(call[s].by, call[s].handover)
<1> DEFINE c == call[s]
           h == c.handover
           a == AccountOf(c)
           n == handovers[h].amount
<1>1. h \in DOMAIN handovers
  BY CallFields DEF Rooted
<1>2. a \in Accounts /\ a = handovers[h].account /\ n \in Int /\ -n \in Int
  BY <1>1, AccountOfCall, HandoverRow DEF TypeOK
<1>3. read[s][HandoverRowOf(h)] = handovers[h]
  BY CallRows, RowValues DEF Current
<1>4. read[s][Till(a)] = [balance |-> balance[a], active |-> active[a],
                          locked |-> locked[a], linked |-> linked[a]]
  BY <1>2, CallRows, RowValues DEF Current
<1>5. read[s][Reserve] = [balance |-> reserve, active |-> reserveActive]
  BY CallRows, RowValues DEF Current
<1>6. AcceptsConfirm(c, handovers[h], read[s][Till(a)])
  BY <1>3 DEF Commit, Accepts
<1>7. /\ handovers[h].status = "PENDING" /\ IsAdmin(c.by) /\ handovers[h].by # c.by
      /\ linked[a] /\ ~locked[a]
  BY <1>2, <1>4, <1>6 DEF AcceptsConfirm
<1>8. /\ MovementOf(s).delta = -n
      /\ MovementOf(s).kind = "HANDOVER" /\ MovementOf(s).op = 0
  BY <1>3 DEF MovementOf
<1>9. ApplyMovement(a, -n, "HANDOVER", 0)
  <2>1. ApplyMovement(a, MovementOf(s).delta, MovementOf(s).kind, MovementOf(s).op)
    BY <1>7, CommitPosts DEF Commit
  <2> QED
    BY <1>8, <2>1
<1>10. ReserveGain(s) = n /\ n # 0
  <2>1. ReserveGain(s) = -MovementOf(s).delta
    BY DEF ReserveGain
  <2>2. MovementOf(s).delta # 0
    BY DEF Commit, WriteTill
  <2> HIDE DEF n
  <2> QED
    BY <1>2, <1>8, <2>1, <2>2
<1>11. ApplyGlobalMovement(n, "HANDOVER", a, h)
  BY <1>5, <1>10 DEF Commit, WriteReserve, ApplyGlobalMovement
<1>12. /\ handovers' = [handovers EXCEPT ![h].status = "CONFIRMED"]
       /\ UNCHANGED <<ops, requests, active>>
  BY DEF Commit, WriteRows
<1>13. UNCHANGED <<today, reserveActive, locked, linked, closures, revisions>>
  BY DEF Commit
<1> QED
  BY <1>1, <1>2, <1>7, <1>9, <1>11, <1>12, <1>13 DEF ConfirmHandover

LEMMA AllocateCommits ==
  ASSUME TypeOK, Rooted, NEW s \in Sessions, call[s] \in Calls, Current(s), Commit(s),
         call[s].kind = "allocate"
  PROVE  AllocateCash(call[s].by, call[s].account, call[s].amount)
<1> DEFINE c == call[s]
           a == c.account
           n == c.amount
<1>1. a \in Accounts /\ a = AccountOf(c) /\ n \in Int
  <2>1. a \in Accounts /\ n \in Amounts
    BY CallFields
  <2>2. a = AccountOf(c)
    BY AccountOfCall
  <2>3. n \in Nat
    BY <2>1, CashAssumption, Zenon
  <2> HIDE DEF a, n
  <2> QED
    BY <2>1, <2>2, <2>3
<1>2. read[s][Till(a)] = [balance |-> balance[a], active |-> active[a],
                          locked |-> locked[a], linked |-> linked[a]]
  BY <1>1, CallRows, RowValues DEF Current
<1>3. read[s][Reserve] = [balance |-> reserve, active |-> reserveActive]
  BY CallRows, RowValues DEF Current
<1>4. AcceptsAllocate(c, read[s][Till(a)], read[s][Reserve])
  BY <1>1 DEF Commit, Accepts
<1>5. IsAdmin(c.by) /\ linked[a] /\ ~locked[a] /\ reserveActive
  BY <1>2, <1>3, <1>4 DEF AcceptsAllocate
<1>6. /\ MovementOf(s).delta = n
      /\ MovementOf(s).kind = "OPENING" /\ MovementOf(s).op = 0
  BY DEF MovementOf
<1>7. ApplyMovement(a, n, "OPENING", 0)
  <2>1. ApplyMovement(AccountOf(c), MovementOf(s).delta, MovementOf(s).kind, MovementOf(s).op)
    BY <1>1, <1>5, CommitPosts DEF Commit
  <2> QED
    BY <1>1, <1>6, <2>1
<1>8. ReserveGain(s) = -n /\ -n # 0
  <2>1. ReserveGain(s) = -MovementOf(s).delta
    BY DEF ReserveGain
  <2>2. MovementOf(s).delta # 0
    BY DEF Commit, WriteTill
  <2> HIDE DEF n
  <2> QED
    BY <1>1, <1>6, <2>1, <2>2
<1>9. ApplyGlobalMovement(-n, "ALLOCATION", a, 0)
  BY <1>1, <1>3, <1>8 DEF Commit, WriteReserve, ApplyGlobalMovement
<1>10. active' = [active EXCEPT ![a] = TRUE] /\ UNCHANGED <<ops, requests, handovers>>
  BY DEF Commit, WriteRows
<1>11. UNCHANGED <<today, reserveActive, locked, linked, closures, revisions>>
  BY DEF Commit
<1> QED
  BY <1>5, <1>7, <1>9, <1>10, <1>11 DEF AllocateCash

LEMMA WithdrawCommits ==
  ASSUME TypeOK, Rooted, NEW s \in Sessions, call[s] \in Calls, Current(s), Commit(s),
         call[s].kind = "withdraw"
  PROVE  CreateWithdrawal(call[s].by, call[s].account, call[s].amount, call[s].fee, call[s].key)
<1> DEFINE c == call[s]
           a == c.account
           n == Len(ops) + 1
<1>1. a \in Accounts /\ a = AccountOf(c) /\ c.key \in Keys /\ c.amount \in Nat /\ c.fee \in Nat
  BY CallFields, AccountOfCall, OperationsAssumption
<1>2. read[s][Till(a)] = [balance |-> balance[a], active |-> active[a],
                          locked |-> locked[a], linked |-> linked[a]]
  BY <1>1, CallRows, RowValues DEF Current
<1>3. read[s][KeyRow(c.by, c.key)] = {q \in requests : q.actor = c.by /\ q.key = c.key}
  BY CallRows, RowValues DEF Current
<1>4. AcceptsWithdraw(c, read[s][KeyRow(c.by, c.key)], read[s][Till(a)])
  BY <1>1 DEF Commit, Accepts
<1>5. /\ HasAccess(c.by, a) /\ ~locked[a] /\ FeeAllowed(c.by, c.amount, c.fee)
      /\ c.amount > c.fee /\ Len(ops) < MaxOps
  BY <1>1, <1>2, <1>4 DEF AcceptsWithdraw, OpenTill, HasAccess
<1>6. ~\E q \in requests : q.actor = c.by /\ q.key = c.key
  BY <1>3, <1>4 DEF AcceptsWithdraw
<1>7. /\ MovementOf(s).delta = c.fee - c.amount
      /\ MovementOf(s).kind = "OPERATION" /\ MovementOf(s).op = n
  BY DEF MovementOf
<1>8. ApplyMovement(a, c.fee - c.amount, "OPERATION", n)
  <2>1. ApplyMovement(AccountOf(c), MovementOf(s).delta, MovementOf(s).kind, MovementOf(s).op)
    BY <1>1, <1>5, CommitPosts DEF Commit
  <2> QED
    BY <1>1, <1>7, <2>1
<1>9. /\ ops' = Append(ops, [type |-> "WITHDRAWAL", status |-> "COMPLETED", agent |-> c.by,
                             account |-> c.account, amount |-> c.amount, fee |-> c.fee,
                             day |-> today])
      /\ requests' = requests \cup {[actor |-> c.by, key |-> c.key, action |-> "WITHDRAWAL", op |-> n]}
      /\ UNCHANGED <<handovers, active>>
  BY DEF Commit, WriteRows
<1>10. UNCHANGED <<today, reserve, reserveLog, reserveActive, locked, linked, closures, revisions>>
  BY ReserveLeftAlone DEF Commit
<1>11. OnlyMovement
  BY <1>9, <1>10 DEF OnlyMovement, reserveVars
<1>12. c.amount > 0
  BY <1>1, <1>5
<1>13. ClaimRequest(c.by, c.key, "WITHDRAWAL")
  BY <1>1, <1>6, <1>9, OperationsAssumption DEF ClaimRequest
<1>14. CreateOperation(c.by, a, "WITHDRAWAL", "COMPLETED", c.amount, c.fee, c.key)
  BY <1>5, <1>9, <1>10, <1>12, <1>13 DEF CreateOperation
<1> QED
  BY <1>5, <1>8, <1>11, <1>14 DEF CreateWithdrawal

\* A service that commits does what it does in one step.
LEMMA CommitIsService ==
  ASSUME TypeOK, Rooted, NEW s \in Sessions, call[s] \in Calls, Current(s), Commit(s)
  PROVE  Next
<1> DEFINE c == call[s]
<1>1. c.by \in Users
  BY CallFields
<1>2. CASE c.kind = "pay"
  <2>1. c.op \in DOMAIN ops /\ PayReceivedTransfer(c.by, c.op)
    BY <1>2, PayCommits
  <2> QED
    BY <1>1, <2>1 DEF Next, OperationsNext
<1>3. CASE c.kind = "cancel"
  <2>1. c.op \in DOMAIN ops /\ CancelOperation(c.by, c.op)
    BY <1>3, CancelCommits
  <2> QED
    BY <1>1, <2>1 DEF Next, OperationsNext
<1>4. CASE c.kind = "confirm"
  <2>1. c.handover \in DOMAIN handovers /\ ConfirmHandover(c.by, c.handover)
    BY <1>4, ConfirmCommits
  <2>2. UNCHANGED opsVars
    BY <1>4 DEF Commit, WriteRows, opsVars
  <2> QED
    BY <1>1, <2>1, <2>2 DEF Next, CashNext
<1>5. CASE c.kind = "allocate"
  <2>1. AllocateCash(c.by, c.account, c.amount) /\ c.account \in Accounts /\ c.amount \in Amounts
    BY <1>5, AllocateCommits, CallFields
  <2>2. UNCHANGED opsVars
    BY <1>5 DEF Commit, WriteRows, opsVars
  <2> QED
    BY <1>1, <2>1, <2>2 DEF Next, CashNext
<1>6. CASE c.kind = "withdraw"
  <2>1. CreateWithdrawal(c.by, c.account, c.amount, c.fee, c.key)
    BY <1>6, WithdrawCommits
  <2>2. c.account \in Accounts /\ c.amount \in OpAmounts /\ c.fee \in Fees /\ c.key \in Keys \cup {NoKey}
    BY <1>6, CallFields
  <2> QED
    BY <1>1, <2>1, <2>2 DEF Next, OperationsNext
<1> QED
  BY <1>2, <1>3, <1>4, <1>5, <1>6, CallFields


-----------------------------------------------------------------------------
(* The invariant *)

\* A session that runs a service holds the rows it has read, and the mutex if
\* it holds any; what it has read is what is committed.
Reads(s) ==
    /\ call[s] \in Calls
    /\ DOMAIN read[s] \subseteq RowsOf(call[s])
    /\ DOMAIN read[s] # {} => Mutex \in DOMAIN read[s]
    /\ \A r \in DOMAIN read[s] : owner[r] = s /\ read[s][r] = Value(r)

\* A form works on an object of the type of its row.
Shown(s) ==
    /\ call[s].form \in AccountForms
    /\ \/ call[s].row = Reserve /\ read[s][call[s].row].balance \in Nat
       \/ \E a \in Accounts : call[s].row = Till(a) /\ read[s][call[s].row].balance \in Nat
       \/ \E o \in DOMAIN ops :
             /\ call[s].row = OperationRow(o)
             /\ read[s][call[s].row] \in Operation
             /\ read[s][call[s].row].account = ops[o].account

Session(s) ==
    /\ phase[s] = "idle" => DOMAIN read[s] = {}
    /\ phase[s] = "reading" => Reads(s)
    /\ phase[s] \in {"form", "saving"} => Shown(s)

SessionsShape ==
    /\ phase \in [Sessions -> {"idle", "reading", "form", "saving"}]
    /\ DOMAIN call = Sessions
    /\ DOMAIN read = Sessions
    /\ DOMAIN owner = RowNames

\* one_primary_movement_per_operation, over all the accounts.
OnePrimaryMovement ==
    \A a, b \in Accounts : \A i \in DOMAIN log[a], j \in DOMAIN log[b] :
        (/\ log[a][i].kind = "OPERATION" /\ log[b][j].kind = "OPERATION"
         /\ log[a][i].op = log[b][j].op) => a = b /\ i = j

SessionsInv ==
    /\ TypeOK
    /\ Rooted
    /\ SessionsShape
    /\ OnePrimaryMovement
    /\ \A s \in Sessions : Session(s)

LEMMA SessionsInvInit == SessionsInit => SessionsInv
<1> SUFFICES ASSUME SessionsInit PROVE SessionsInv
  OBVIOUS
<1>1. TypeOK
  BY SessionsAssumption, CashAssumption
     DEF SessionsInit, TypeOK, CashTypeOK, AbsentClosure, Closure, Days, ClosureDays
<1>2. Rooted
  BY DEF SessionsInit, Rooted
<1>3. SessionsShape
  BY DEF SessionsInit, SessionsShape
<1>4. OnePrimaryMovement
  BY SessionsAssumption DEF SessionsInit, OnePrimaryMovement
<1>5. \A s \in Sessions : phase[s] = "idle" /\ DOMAIN read[s] = {}
  BY DEF SessionsInit
<1>6. \A s \in Sessions : Session(s)
  BY <1>5 DEF Session
<1> QED
  BY <1>1, <1>2, <1>3, <1>4, <1>6 DEF SessionsInv

\* A call reads no more rows than it names.
LEMMA RowsFinite ==
  ASSUME NEW c, Rows(c) \in Seq(RowNames)
  PROVE  Len(Rows(c)) \in Nat /\ IsFiniteSet(RowsOf(c)) /\ Cardinality(RowsOf(c)) <= Len(Rows(c))
<1> DEFINE n == Len(Rows(c))
           f == [i \in 1 .. n |-> Rows(c)[i]]
<1>1. n \in Nat /\ DOMAIN Rows(c) = 1 .. n
  OBVIOUS
<1>2. f \in Surjection(1 .. n, RowsOf(c))
  BY <1>1 DEF Surjection, RowsOf, Range
<1>3. IsFiniteSet(1 .. n) /\ Cardinality(1 .. n) = n
  BY <1>1, FS_Interval
<1> HIDE DEF f
<1> QED
  BY <1>1, <1>2, <1>3, FS_Surjection

\* A service that may commit has read all its rows.
LEMMA AllReadIsCurrent ==
  ASSUME TypeOK, Rooted, NEW s \in Sessions, Reads(s), AllRead(s)
  PROVE  Current(s) /\ Mutex \in DOMAIN read[s]
<1> DEFINE c == call[s]
           n == Len(Rows(c))
<1>1. c \in Calls /\ DOMAIN read[s] \subseteq RowsOf(c)
  BY DEF Reads
<1>2. Rows(c) \in Seq(RowNames) /\ ServiceRows(c) \in Seq(RowNames)
  BY <1>1, CallLocks, CallRows
<1>3. n \in Nat /\ IsFiniteSet(RowsOf(c)) /\ Cardinality(RowsOf(c)) <= n
  BY <1>2, RowsFinite
<1>4. Cardinality(DOMAIN read[s]) = n
  BY DEF AllRead
<1>5. DOMAIN read[s] = RowsOf(c)
  <2>1. /\ IsFiniteSet(DOMAIN read[s]) /\ Cardinality(DOMAIN read[s]) <= Cardinality(RowsOf(c))
        /\ Cardinality(DOMAIN read[s]) = Cardinality(RowsOf(c)) => DOMAIN read[s] = RowsOf(c)
    BY <1>1, <1>3, FS_Subset
  <2>2. Cardinality(RowsOf(c)) \in Nat /\ Cardinality(DOMAIN read[s]) \in Nat
    BY <1>3, <2>1, FS_CardinalityType
  <2> HIDE DEF n
  <2> QED
    BY <1>3, <1>4, <2>1, <2>2
<1>6. Mutex \in RowsOf(c)
  BY <1>2, MutexFirst
<1> QED
  BY <1>5, <1>6 DEF Current, Reads

\* Two services never hold rows at the same time.
LEMMA OneServiceHolds ==
  ASSUME NEW s \in Sessions, NEW u \in Sessions, u # s, Reads(s), Reads(u),
         Mutex \in DOMAIN read[s]
  PROVE  DOMAIN read[u] = {}
BY DEF Reads


-----------------------------------------------------------------------------
(* What a step leaves alone *)

\* Rows of operations and handovers stay, on their accounts.
AccountsKept ==
    /\ \A o \in DOMAIN ops : o \in DOMAIN ops' /\ ops'[o].account = ops[o].account
    /\ DOMAIN handovers' = DOMAIN handovers
    /\ \A h \in DOMAIN handovers : handovers'[h].account = handovers[h].account

LEMMA RootedKept == ASSUME Rooted, AccountsKept PROVE Rooted'
BY DEF Rooted, AccountsKept

LEMMA UnchangedKept == ASSUME UNCHANGED vars PROVE AccountsKept
BY DEF vars, opsVars, cashVars, AccountsKept

LEMMA RowsOfKept ==
  ASSUME TypeOK, Rooted, AccountsKept, NEW c \in Calls
  PROVE  RowsOf(c)' = RowsOf(c)
<1>1. AccountOf(c)' = AccountOf(c)
  <2>1. CASE c.kind \in {"pay", "cancel"}
    <3>1. c.op \in DOMAIN ops
      BY <2>1, CallFields DEF Rooted
    <3> QED
      BY <2>1, <3>1 DEF AccountOf, AccountsKept
  <2>2. CASE c.kind = "confirm"
    <3>1. c.handover \in DOMAIN handovers
      BY <2>2, CallFields DEF Rooted
    <3> QED
      BY <2>2, <3>1 DEF AccountOf, AccountsKept
  <2>3. CASE c.kind \in {"allocate", "withdraw"}
    BY <2>3 DEF AccountOf
  <2> QED
    BY <2>1, <2>2, <2>3, CallFields
<1> QED
  BY <1>1 DEF RowsOf, Rows, ServiceRows, Range

\* A session that a step does not run, and whose rows it leaves alone.
LEMMA OtherSession ==
  ASSUME TypeOK, Rooted, AccountsKept, NEW u \in Sessions, Session(u),
         phase'[u] = phase[u], call'[u] = call[u], read'[u] = read[u],
         phase[u] = "reading" =>
             \A r \in DOMAIN read[u] : owner'[r] = owner[r] /\ Value(r)' = Value(r)
  PROVE  Session(u)'
<1>1. ASSUME phase[u] = "reading" PROVE Reads(u)'
  <2>1. Reads(u)
    BY <1>1 DEF Session
  <2>2. RowsOf(call[u])' = RowsOf(call[u])
    <3> DEFINE c == call[u]
    <3>1. c \in Calls /\ c' = c
      BY <2>1 DEF Reads
    <3>2. \A d \in Calls : RowsOf(d)' = RowsOf(d)
      BY RowsOfKept
    <3> QED
      BY <3>1, <3>2
  <2> QED
    BY <1>1, <2>1, <2>2 DEF Reads
<1>2. ASSUME phase[u] \in {"form", "saving"} PROVE Shown(u)'
  BY <1>2 DEF Session, Shown, AccountsKept
<1> QED
  BY <1>1, <1>2 DEF Session


LEMMA ValuesUnchanged == ASSUME UNCHANGED vars PROVE \A r : Value(r)' = Value(r)
BY DEF vars, opsVars, cashVars, accountVars, reserveVars, Value

\* The parts of the invariant on the committed rows.
LEMMA RowsUnchangedInv ==
  ASSUME TypeOK, Rooted, OnePrimaryMovement, UNCHANGED vars
  PROVE  TypeOK' /\ Rooted' /\ OnePrimaryMovement'
<1>1. TypeOK'
  BY TypeStep
<1>2. Rooted'
  BY UnchangedKept, RootedKept
<1>3. OnePrimaryMovement'
  BY DEF vars, cashVars, accountVars, OnePrimaryMovement
<1> QED
  BY <1>1, <1>2, <1>3

LEMMA BeginStep ==
  ASSUME SessionsInv, NEW s \in Sessions, NEW c \in Calls, Begin(s, c)
  PROVE  SessionsInv'
<1>1. TypeOK /\ Rooted /\ SessionsShape /\ OnePrimaryMovement /\ \A u \in Sessions : Session(u)
  BY DEF SessionsInv
<1>2. UNCHANGED vars /\ AccountsKept
  BY UnchangedKept DEF Begin
<1>3. SessionsShape'
  BY <1>1 DEF SessionsShape, Begin, BeginAs
<1>4. ASSUME NEW u \in Sessions, u # s PROVE Session(u)'
  <2>1. phase'[u] = phase[u] /\ call'[u] = call[u] /\ read'[u] = read[u] /\ owner' = owner
    BY <1>1, <1>4 DEF SessionsShape, Begin, BeginAs
  <2> QED
    BY <1>1, <1>2, <2>1, OtherSession, ValuesUnchanged
<1>5. Session(s)'
  <2>1. phase'[s] = "reading" /\ call'[s] = c /\ read'[s] = read[s] /\ phase[s] = "idle"
    BY <1>1 DEF SessionsShape, Begin, BeginAs
  <2>2. DOMAIN read[s] = {}
    BY <1>1, <2>1 DEF Session
  <2> QED
    BY <2>1, <2>2 DEF Session, Reads
<1> QED
  BY <1>1, <1>2, <1>3, <1>4, <1>5, RowsUnchangedInv DEF SessionsInv

LEMMA OpenFormStep ==
  ASSUME SessionsInv, NEW s \in Sessions, NEW r \in FormRows, NEW form \in AccountForms,
         OpenForm(s, r, form)
  PROVE  SessionsInv'
<1>1. TypeOK /\ Rooted /\ SessionsShape /\ OnePrimaryMovement /\ \A u \in Sessions : Session(u)
  BY DEF SessionsInv
<1>2. UNCHANGED vars /\ AccountsKept
  BY UnchangedKept DEF OpenForm
<1>3. SessionsShape'
  BY <1>1 DEF SessionsShape, OpenForm, BeginAs
<1>4. ASSUME NEW u \in Sessions, u # s PROVE Session(u)'
  <2>1. phase'[u] = phase[u] /\ call'[u] = call[u] /\ read'[u] = read[u] /\ owner' = owner
    BY <1>1, <1>4 DEF SessionsShape, OpenForm, BeginAs
  <2> QED
    BY <1>1, <1>2, <2>1, OtherSession, ValuesUnchanged
<1>5. Session(s)'
  <2>1. /\ phase'[s] = "form" /\ call'[s].row = r /\ call'[s].form = form
        /\ read'[s][r] = Value(r)
    BY <1>1 DEF SessionsShape, OpenForm, BeginAs
  <2>2. \/ r = Reserve /\ Value(r).balance \in Nat
        \/ \E a \in Accounts : r = Till(a) /\ Value(r).balance \in Nat
        \/ \E o \in DOMAIN ops : /\ r = OperationRow(o) /\ Value(r) \in Operation
                                 /\ Value(r).account = ops[o].account
    <3>1. CASE r = Reserve
      BY <1>1, <3>1, RowValues DEF TypeOK, CashTypeOK
    <3>2. ASSUME NEW a \in Accounts, r = Till(a)
          PROVE  Value(r).balance \in Nat
      BY <1>1, <3>2, RowValues DEF TypeOK, CashTypeOK
    <3>3. ASSUME NEW o \in DOMAIN ops, r = OperationRow(o)
          PROVE  Value(r) \in Operation /\ Value(r).account = ops[o].account
      BY <1>1, <3>3, RowValues, OperationRecord
    <3> QED
      BY <3>1, <3>2, <3>3 DEF FormRows
  <2>3. Shown(s)'
    BY <1>2, <2>1, <2>2 DEF Shown, vars, opsVars
  <2> QED
    BY <2>1, <2>3 DEF Session
<1> QED
  BY <1>1, <1>2, <1>3, <1>4, <1>5, RowsUnchangedInv DEF SessionsInv

LEMMA CheckFormStep ==
  ASSUME SessionsInv, NEW s \in Sessions, CheckForm(s)
  PROVE  SessionsInv'
<1>1. TypeOK /\ Rooted /\ SessionsShape /\ OnePrimaryMovement /\ \A u \in Sessions : Session(u)
  BY DEF SessionsInv
<1>2. UNCHANGED vars /\ AccountsKept
  BY UnchangedKept DEF CheckForm
<1>3. SessionsShape'
  BY <1>1 DEF SessionsShape, CheckForm
<1>4. ASSUME NEW u \in Sessions, u # s PROVE Session(u)'
  <2>1. phase'[u] = phase[u] /\ call'[u] = call[u] /\ read'[u] = read[u] /\ owner' = owner
    BY <1>1, <1>4 DEF SessionsShape, CheckForm
  <2> QED
    BY <1>1, <1>2, <2>1, OtherSession, ValuesUnchanged
<1>5. Session(s)'
  <2>1. phase[s] = "form" /\ phase'[s] = "saving" /\ call'[s] = call[s] /\ read'[s] = read[s]
    BY <1>1 DEF SessionsShape, CheckForm
  <2>2. Shown(s)
    BY <1>1, <2>1 DEF Session
  <2>3. Shown(s)'
    BY <1>2, <2>1, <2>2 DEF Shown, vars, opsVars
  <2> QED
    BY <2>1, <2>3 DEF Session
<1> QED
  BY <1>1, <1>2, <1>3, <1>4, <1>5, RowsUnchangedInv DEF SessionsInv

\* A row that is read is locked and held from then on.
LEMMA ReadStep ==
  ASSUME SessionsInv, NEW s \in Sessions, Read(s)
  PROVE  SessionsInv'
<1> DEFINE c == call[s]
           n == Cardinality(DOMAIN read[s]) + 1
           row == Rows(c)[n]
<1>1. TypeOK /\ Rooted /\ SessionsShape /\ OnePrimaryMovement /\ \A u \in Sessions : Session(u)
  BY DEF SessionsInv
<1>2. UNCHANGED vars /\ AccountsKept
  BY UnchangedKept DEF Read
<1>3. phase[s] = "reading" /\ Reads(s) /\ c \in Calls
  BY <1>1 DEF Read, Session, Reads
<1>4. row \in RowsOf(c) /\ row \in RowNames /\ row[1] \in ForUpdate
      /\ (DOMAIN read[s] = {} => row = Mutex)
  <2>1. Rows(c) \in Seq(RowNames) /\ Rows(c)[1] = Mutex /\ \A r \in RowsOf(c) : r[1] \in ForUpdate
    BY <1>1, <1>3, CallLocks
  <2>2. n \in DOMAIN Rows(c)
    <3>1. IsFiniteSet(RowsOf(c))
      BY <2>1, RowsFinite
    <3>2. Cardinality(DOMAIN read[s]) \in Nat
      BY <1>3, <3>1, FS_Subset, FS_CardinalityType DEF Reads
    <3>3. n <= Len(Rows(c))
      BY DEF Read
    <3> QED
      BY <2>1, <3>2, <3>3
  <2>3. DOMAIN read[s] = {} => n = 1
    BY FS_EmptySet
  <2> QED
    BY <2>1, <2>2, <2>3 DEF RowsOf, Range
<1>5. /\ Free(row, s)
      /\ owner' = [owner EXCEPT ![row] = s]
      /\ read' = [read EXCEPT ![s] = [r \in DOMAIN @ \cup {row} |-> IF r = row THEN Value(r) ELSE @[r]]]
      /\ UNCHANGED <<phase, call>>
  BY <1>4 DEF Read
<1> HIDE DEF n, row
<1>6. SessionsShape'
  BY <1>1, <1>5 DEF SessionsShape
<1>7. ASSUME NEW u \in Sessions, u # s PROVE Session(u)'
  <2>1. phase'[u] = phase[u] /\ call'[u] = call[u] /\ read'[u] = read[u]
    BY <1>1, <1>5, <1>7 DEF SessionsShape
  <2>2. ASSUME phase[u] = "reading", NEW r \in DOMAIN read[u]
        PROVE  owner'[r] = owner[r]
    <3>1. owner[r] = u
      BY <1>1, <2>2 DEF Session, Reads
    <3>2. r # row
      BY <1>5, <1>7, <3>1, SessionsAssumption DEF Free
    <3> QED
      BY <1>1, <1>5, <3>2 DEF SessionsShape
  <2> QED
    BY <1>1, <1>2, <2>1, <2>2, OtherSession, ValuesUnchanged
<1>8. Session(s)'
  <2>1. /\ DOMAIN read'[s] = DOMAIN read[s] \cup {row}
        /\ read'[s][row] = Value(row)
        /\ \A r \in DOMAIN read[s] : r # row => read'[s][r] = read[s][r]
    BY <1>1, <1>5 DEF SessionsShape
  <2>2. \A r \in DOMAIN read[s] \cup {row} : owner'[r] = s
    BY <1>1, <1>3, <1>4, <1>5 DEF SessionsShape, Reads
  <2>3. \A r \in DOMAIN read[s] \cup {row} : read'[s][r] = Value(r)
    BY <1>3, <2>1 DEF Reads
  <2>4. RowsOf(c)' = RowsOf(c)
    <3>1. \A d \in Calls : RowsOf(d)' = RowsOf(d)
      BY <1>1, <1>2, RowsOfKept
    <3>2. c' = c
      BY <1>5
    <3> QED
      BY <1>3, <3>1, <3>2
  <2>5. \A r : Value(r)' = Value(r)
    BY <1>2, ValuesUnchanged
  <2>6. Mutex \in DOMAIN read[s] \cup {row} /\ DOMAIN read[s] \cup {row} \subseteq RowsOf(c)
    BY <1>3, <1>4 DEF Reads
  <2>7. Reads(s)'
    BY <1>3, <1>5, <2>1, <2>2, <2>3, <2>4, <2>5, <2>6 DEF Reads
  <2> QED
    BY <1>3, <1>5, <2>7 DEF Session
<1> QED
  BY <1>1, <1>2, <1>6, <1>7, <1>8, RowsUnchangedInv DEF SessionsInv


\* A transaction that ends frees its session and leaves the others the rows
\* they hold, if it wrote none of them.
LEMMA EndStep ==
  ASSUME TypeOK, Rooted, AccountsKept, SessionsShape, NEW s \in Sessions, End(s),
         \A u \in Sessions : Session(u),
         \A u \in Sessions \ {s} :
             phase[u] = "reading" => \A r \in DOMAIN read[u] : Value(r)' = Value(r)
  PROVE  SessionsShape' /\ \A u \in Sessions : Session(u)'
<1>1. SessionsShape'
  BY DEF SessionsShape, End, Released
<1>2. ASSUME NEW u \in Sessions, u # s PROVE Session(u)'
  <2>1. phase'[u] = phase[u] /\ call'[u] = call[u] /\ read'[u] = read[u]
    BY <1>2 DEF SessionsShape, End
  <2>2. ASSUME phase[u] = "reading", NEW r \in DOMAIN read[u] PROVE owner'[r] = owner[r]
    <3>1. owner[r] = u /\ r \in DOMAIN owner
      <4>1. Reads(u)
        BY <2>2 DEF Session
      <4>2. r \in RowsOf(call[u]) /\ call[u] \in Calls /\ owner[r] = u
        BY <2>2, <4>1 DEF Reads
      <4>3. Rows(call[u]) \in Seq(RowNames)
        BY <4>2, CallLocks
      <4> QED
        BY <4>2, <4>3 DEF RowsOf, Range, SessionsShape
    <3> QED
      BY <1>2, <3>1 DEF End, Released, SessionsShape
  <2> QED
    BY <1>2, <2>1, <2>2, OtherSession
<1>3. Session(s)'
  <2>1. phase'[s] = "idle" /\ DOMAIN read'[s] = {}
    BY DEF SessionsShape, End
  <2> QED
    BY <2>1 DEF Session
<1> QED
  BY <1>1, <1>2, <1>3

LEMMA RollBackStep ==
  ASSUME SessionsInv, NEW s \in Sessions, RollBack(s)
  PROVE  SessionsInv'
<1>1. TypeOK /\ Rooted /\ SessionsShape /\ OnePrimaryMovement /\ \A u \in Sessions : Session(u)
  BY DEF SessionsInv
<1>2. UNCHANGED vars /\ AccountsKept /\ End(s)
  BY UnchangedKept DEF RollBack
<1> QED
  BY <1>1, <1>2, EndStep, ValuesUnchanged, RowsUnchangedInv DEF SessionsInv

\* The constraint refuses a second OPERATION movement of an operation.
LEMMA PrimaryStep ==
  ASSUME TypeOK, OnePrimaryMovement, NEW s \in Sessions, AccountOf(call[s]) \in Accounts,
         Unique(s), WriteTill(s)
  PROVE  OnePrimaryMovement'
<1> DEFINE a == AccountOf(call[s])
           m == MovementOf(s)
           n == Len(log[a]) + 1
           row == [delta |-> m.delta, kind |-> m.kind, after |-> read[s][Till(a)].balance + m.delta,
                   op |-> m.op, day |-> today]
<1>1. \A b \in Accounts : log[b] \in Seq(Movement)
  BY DEF TypeOK, CashTypeOK
<1>2. log' = [log EXCEPT ![a] = Append(log[a], row)] /\ row.kind = m.kind /\ row.op = m.op
  <2>1. log' = [log EXCEPT ![a] = Append(log[a], row)]
    BY DEF WriteTill
  <2>2. row.kind = m.kind /\ row.op = m.op
    OBVIOUS
  <2> QED
    BY <2>1, <2>2
<1> HIDE DEF row
<1>3. /\ DOMAIN log'[a] = DOMAIN log[a] \cup {n} /\ n \notin DOMAIN log[a]
      /\ log'[a][n] = row
      /\ \A i \in DOMAIN log[a] : log'[a][i] = log[a][i]
  BY <1>1, <1>2 DEF TypeOK, CashTypeOK
<1>4. \A b \in Accounts : b # a => log'[b] = log[b]
  BY <1>2 DEF TypeOK, CashTypeOK
<1>5. \A b \in Accounts : \A i \in DOMAIN log[b] :
         ~(m.kind = "OPERATION" /\ log[b][i].kind = "OPERATION" /\ log[b][i].op = m.op)
  BY DEF Unique
<1> HIDE DEF n, m, a
<1>6. ASSUME NEW b \in Accounts, NEW c \in Accounts, NEW i \in DOMAIN log'[b], NEW j \in DOMAIN log'[c],
             log'[b][i].kind = "OPERATION", log'[c][j].kind = "OPERATION",
             log'[b][i].op = log'[c][j].op
      PROVE  b = c /\ i = j
  <2>1. CASE b = a /\ i = n /\ c = a /\ j = n
    BY <2>1
  <2>2. CASE b = a /\ i = n /\ ~(c = a /\ j = n)
    <3>1. j \in DOMAIN log[c] /\ log'[c][j] = log[c][j]
      BY <1>3, <1>4, <1>6, <2>2
    <3> QED
      BY <1>2, <1>3, <1>5, <1>6, <2>2, <3>1
  <2>3. CASE ~(b = a /\ i = n) /\ c = a /\ j = n
    <3>1. i \in DOMAIN log[b] /\ log'[b][i] = log[b][i]
      BY <1>3, <1>4, <1>6, <2>3
    <3> QED
      BY <1>2, <1>3, <1>5, <1>6, <2>3, <3>1
  <2>4. CASE ~(b = a /\ i = n) /\ ~(c = a /\ j = n)
    <3>1. i \in DOMAIN log[b] /\ log'[b][i] = log[b][i] /\ j \in DOMAIN log[c] /\ log'[c][j] = log[c][j]
      BY <1>3, <1>4, <1>6, <2>4
    <3> QED
      BY <1>6, <3>1 DEF OnePrimaryMovement
  <2> QED
    BY <2>1, <2>2, <2>3, <2>4
<1> QED
  BY <1>6 DEF OnePrimaryMovement

LEMMA CommitKept ==
  ASSUME TypeOK, Rooted, NEW s \in Sessions, call[s] \in Calls, Commit(s), Next
  PROVE  AccountsKept
<1>1. \A o \in DOMAIN ops : o \in DOMAIN ops' /\ ops'[o].account = ops[o].account
  <2>1. CASE \E u \in Users, a \in Accounts, type \in OpTypes, status \in {"PENDING", "COMPLETED"},
                amount \in Nat, fee \in Nat, key \in Keys \cup {NoKey} :
                CreateOperation(u, a, type, status, amount, fee, key)
    <3>1. PICK row : ops' = Append(ops, row)
      BY <2>1 DEF CreateOperation
    <3> QED
      BY <3>1 DEF TypeOK
  <2>2. CASE \A q \in DOMAIN ops : Identified(ops'[q], ops[q]) /\ DOMAIN ops' = DOMAIN ops
    BY <2>2 DEF Identified
  <2> QED
    BY <2>1, <2>2, OperationsStep
<1>2. DOMAIN handovers' = DOMAIN handovers /\ \A h \in DOMAIN handovers : handovers'[h].account = handovers[h].account
  <2>1. CASE UNCHANGED handovers
    BY <2>1
  <2>2. CASE handovers' = [handovers EXCEPT ![call[s].handover].status = "CONFIRMED"]
    <3>1. \A h \in DOMAIN handovers : handovers[h] \in Handover
      BY HandoverRow DEF TypeOK
    <3> QED
      BY <2>2, <3>1 DEF Handover
  <2> QED
    BY <2>1, <2>2 DEF Commit, WriteRows
<1> QED
  BY <1>1, <1>2 DEF AccountsKept

LEMMA CommitStep ==
  ASSUME SessionsInv, NEW s \in Sessions, Commit(s)
  PROVE  Next /\ SessionsInv'
<1>1. TypeOK /\ Rooted /\ SessionsShape /\ OnePrimaryMovement /\ \A u \in Sessions : Session(u)
  BY DEF SessionsInv
<1>2. Reads(s) /\ AllRead(s) /\ call[s] \in Calls
  BY <1>1 DEF Commit, AllRead, Session, Reads
<1>3. Current(s) /\ Mutex \in DOMAIN read[s]
  BY <1>1, <1>2, AllReadIsCurrent
<1>4. Next
  BY <1>1, <1>2, <1>3, CommitIsService
<1>5. TypeOK' /\ AccountsKept
  BY <1>1, <1>2, <1>4, TypeStep, CommitKept
<1>6. \A u \in Sessions \ {s} : phase[u] = "reading" => DOMAIN read[u] = {}
  BY <1>1, <1>2, <1>3, OneServiceHolds DEF Session
<1>7. OnePrimaryMovement'
  BY <1>1, <1>2, AccountOfCall, PrimaryStep DEF Commit
<1>8. End(s)
  BY DEF Commit
<1>9. SessionsShape' /\ \A u \in Sessions : Session(u)'
  BY <1>1, <1>5, <1>6, <1>8, EndStep
<1> QED
  BY <1>1, <1>4, <1>5, <1>7, <1>9, RootedKept DEF SessionsInv


\* A form writes the row it works on, which no other session holds, and
\* leaves the account of an operation as it is.
LEMMA SaveFormRow ==
  ASSUME TypeOK, SessionsShape, NEW s \in Sessions, Shown(s), SaveForm(s)
  PROVE  /\ TypeOK' /\ AccountsKept /\ log' = log
         /\ \A r \in RowNames : r # call[s].row => Value(r)' = Value(r)
<1> DEFINE row == call[s].row
           object == read[s][row]
           form == call[s].form
<1>1. form \in AccountForms /\ form[1] \in BOOLEAN /\ form[2] \in BOOLEAN /\ form[3] \in BOOLEAN
  BY CashAssumption DEF Shown
<1>2. UNCHANGED <<today, reserveLog, log, handovers, closures, requests, revisions>>
  BY DEF SaveForm
<1>3. CASE row = Reserve /\ object.balance \in Nat
  <2>1. row[1] = "reserve"
    BY <1>3 DEF Reserve
  <2>2. /\ UNCHANGED <<balance, active, locked, linked, ops>>
        /\ reserve' = object.balance /\ reserveActive' = form[1]
    BY <2>1 DEF SaveForm
  <2>3. TypeOK'
    BY <1>1, <1>2, <1>3, <2>2 DEF TypeOK, CashTypeOK
  <2>4. AccountsKept
    BY <1>2, <2>2 DEF AccountsKept
  <2>5. \A r \in RowNames : r # row => Value(r)' = Value(r)
    <3>1. \A r \in RowNames : r # row => r[1] # "reserve"
      BY <1>3 DEF RowNames, Mutex, Reserve, Till, OperationRow, HandoverRowOf, KeyRow
    <3> QED
      BY <1>2, <2>2, <3>1 DEF Value
  <2> QED
    BY <1>2, <2>3, <2>4, <2>5
<1>4. ASSUME NEW a \in Accounts, row = Till(a), object.balance \in Nat
      PROVE  /\ TypeOK' /\ AccountsKept
             /\ \A r \in RowNames : r # row => Value(r)' = Value(r)
  <2>1. row[1] = "till" /\ row[2] = a
    BY <1>4 DEF Till
  <2>2. /\ UNCHANGED <<reserve, reserveActive, ops>>
        /\ balance' = [balance EXCEPT ![a] = object.balance]
        /\ active' = [active EXCEPT ![a] = form[1]]
        /\ locked' = [locked EXCEPT ![a] = form[2]]
        /\ linked' = [linked EXCEPT ![a] = form[3]]
    BY <2>1 DEF SaveForm
  <2>3. TypeOK'
    BY <1>1, <1>2, <1>4, <2>2 DEF TypeOK, CashTypeOK
  <2>4. AccountsKept
    BY <1>2, <2>2 DEF AccountsKept
  <2>5. \A b \in Accounts : b # a => /\ balance'[b] = balance[b] /\ active'[b] = active[b]
                                     /\ locked'[b] = locked[b] /\ linked'[b] = linked[b]
    BY <2>2 DEF TypeOK, CashTypeOK
  <2>6. \A r \in RowNames : r # row => Value(r)' = Value(r)
    <3> SUFFICES ASSUME NEW r \in RowNames, r # row PROVE Value(r)' = Value(r)
      OBVIOUS
    <3>1. r[1] # "till" \/ (r[2] \in Accounts /\ r[2] # a)
      BY <1>4 DEF RowNames, Mutex, Reserve, Till, OperationRow, HandoverRowOf, KeyRow
    <3> QED
      BY <1>2, <2>2, <2>5, <3>1 DEF Value
  <2> QED
    BY <2>3, <2>4, <2>6
<1>5. ASSUME NEW o \in DOMAIN ops, row = OperationRow(o), object \in Operation,
             object.account = ops[o].account
      PROVE  /\ TypeOK' /\ AccountsKept
             /\ \A r \in RowNames : r # row => Value(r)' = Value(r)
  <2>1. row[1] = "operation" /\ row[2] = o
    BY <1>5 DEF OperationRow
  <2>2. /\ UNCHANGED <<balance, active, locked, linked, reserve, reserveActive>>
        /\ ops' = [ops EXCEPT ![o] = object]
    BY <2>1 DEF SaveForm
  <2>3. TypeOK'
    BY <1>2, <1>5, <2>2 DEF TypeOK, CashTypeOK
  <2>4. AccountsKept
    BY <1>2, <1>5, <2>2 DEF AccountsKept
  <2>5. \A q : q # o => ops'[q] = ops[q]
    BY <2>2 DEF TypeOK
  <2>6. \A r \in RowNames : r # row => Value(r)' = Value(r)
    <3> SUFFICES ASSUME NEW r \in RowNames, r # row PROVE Value(r)' = Value(r)
      OBVIOUS
    <3>1. r[1] # "operation" \/ r[2] # o
      BY <1>5 DEF RowNames, Mutex, Reserve, Till, OperationRow, HandoverRowOf, KeyRow
    <3> QED
      BY <1>2, <2>2, <2>5, <3>1 DEF Value
  <2> QED
    BY <2>3, <2>4, <2>6
<1> QED
  BY <1>2, <1>3, <1>4, <1>5 DEF Shown

LEMMA SaveFormStep ==
  ASSUME SessionsInv, NEW s \in Sessions, SaveForm(s)
  PROVE  SessionsInv'
<1>1. TypeOK /\ Rooted /\ SessionsShape /\ OnePrimaryMovement /\ \A u \in Sessions : Session(u)
  BY DEF SessionsInv
<1>2. Shown(s) /\ End(s) /\ Free(call[s].row, s)
  BY <1>1 DEF SaveForm, Session
<1>3. /\ TypeOK' /\ AccountsKept /\ log' = log
      /\ \A r \in RowNames : r # call[s].row => Value(r)' = Value(r)
  BY <1>1, <1>2, SaveFormRow
<1>4. ASSUME NEW u \in Sessions \ {s}, phase[u] = "reading", NEW r \in DOMAIN read[u]
      PROVE  Value(r)' = Value(r)
  <2>1. Reads(u)
    BY <1>1, <1>4 DEF Session
  <2>2. owner[r] = u /\ r \in RowsOf(call[u]) /\ call[u] \in Calls
    BY <1>4, <2>1 DEF Reads
  <2>3. r \in RowNames
    BY <1>1, <2>2, CallLocks DEF RowsOf, Range
  <2>4. r # call[s].row
    BY <1>2, <1>4, <2>2, SessionsAssumption DEF Free
  <2> QED
    BY <1>3, <2>3, <2>4
<1>5. SessionsShape' /\ \A u \in Sessions : Session(u)'
  BY <1>1, <1>2, <1>3, <1>4, EndStep
<1>6. OnePrimaryMovement'
  BY <1>1, <1>3 DEF OnePrimaryMovement
<1> QED
  BY <1>1, <1>3, <1>5, <1>6, RootedKept DEF SessionsInv

LEMMA SessionsInvStep == SessionsInv /\ [SessionsNext]_allVars => SessionsInv'
<1> SUFFICES ASSUME SessionsInv, [SessionsNext]_allVars PROVE SessionsInv'
  OBVIOUS
<1>1. CASE SessionsNext
  BY <1>1, BeginStep, ReadStep, CommitStep, RollBackStep, OpenFormStep, CheckFormStep, SaveFormStep
     DEF SessionsNext
<1>2. CASE UNCHANGED allVars
  <2>1. TypeOK /\ Rooted /\ SessionsShape /\ OnePrimaryMovement /\ \A u \in Sessions : Session(u)
    BY DEF SessionsInv
  <2>2. UNCHANGED vars /\ UNCHANGED sessionVars /\ AccountsKept
    BY <1>2, UnchangedKept DEF allVars
  <2>3. SessionsShape'
    BY <2>1, <2>2 DEF SessionsShape, sessionVars
  <2>4. ASSUME NEW u \in Sessions PROVE Session(u)'
    BY <2>1, <2>2, OtherSession, ValuesUnchanged DEF sessionVars
  <2> QED
    BY <2>1, <2>2, <2>3, <2>4, RowsUnchangedInv DEF SessionsInv
<1> QED
  BY <1>1, <1>2

-----------------------------------------------------------------------------
(* Theorems *)

\* The invariant of the sessions: locks, what was read under them, and what
\* forms work on.
THEOREM SessionsInvariant == SessionsSpec => []SessionsInv
BY SessionsInvInit, SessionsInvStep, PTL DEF SessionsSpec

\* Until its transaction ends, what a service has read is what is committed:
\* nobody else's commit gets past the rows it locked (@ledger_atomic and
\* select_for_update), a form's neither.
THEOREM ReadsStayCurrent == SessionsSpec => []ReadsAreCurrent
<1>1. SessionsInv => ReadsAreCurrent
  BY DEF SessionsInv, Session, Reads, ReadsAreCurrent
<1> QED
  BY <1>1, SessionsInvariant, PTL

\* However statements of concurrent calls and forms interleave, a service
\* commits what it does in one step on the committed rows, which is how
\* CashDesk and Operations take it.
THEOREM CommitsAreAlwaysServices == SessionsSpec => CommitsAreServices
<1>1. ASSUME SessionsInv, [SessionsNext]_allVars
      PROVE  (\E s \in Sessions : Ends(s)) => [Next]_vars
  <2> SUFFICES ASSUME NEW u \in Sessions, Ends(u) PROVE [Next]_vars
    OBVIOUS
  <2>1. SessionsShape
    BY <1>1 DEF SessionsInv
  <2>2. phase[u] = "reading" /\ phase'[u] = "idle"
    BY DEF Ends
  <2>3. CASE UNCHANGED allVars
    BY <2>3 DEF allVars
  <2>4. ASSUME NEW s \in Sessions, \/ \E c \in Calls : Begin(s, c)
                                   \/ Read(s)
                                   \/ RollBack(s)
                                   \/ \E r \in FormRows, form \in AccountForms : OpenForm(s, r, form)
                                   \/ CheckForm(s)
        PROVE  UNCHANGED vars
    BY <2>4 DEF Begin, Read, RollBack, OpenForm, CheckForm
  <2>5. ASSUME NEW s \in Sessions, Commit(s) PROVE Next
    BY <1>1, <2>5, CommitStep
  <2>6. ASSUME NEW s \in Sessions, SaveForm(s) PROVE FALSE
    <3>1. phase[s] = "saving" /\ phase' = [phase EXCEPT ![s] = "idle"]
      BY <2>6 DEF SaveForm, End
    <3> QED
      BY <2>1, <2>2, <3>1 DEF SessionsShape
  <2> QED
    BY <1>1, <2>3, <2>4, <2>5, <2>6 DEF SessionsNext
<1> QED
  BY <1>1, SessionsInvariant, PTL DEF SessionsSpec, CommitsAreServices

\* An operation has one OPERATION movement at most, whatever the forms do to
\* its status (one_primary_movement_per_operation).
THEOREM AtMostOnePayoutEver == SessionsSpec => []AtMostOnePayout
<1>1. SessionsInv => AtMostOnePayout
  <2> SUFFICES ASSUME SessionsInv, NEW o \in DOMAIN ops PROVE Cardinality(Originals(o)) <= 1
    BY DEF AtMostOnePayout
  <2>1. TypeOK /\ OnePrimaryMovement
    BY DEF SessionsInv
  <2>2. ops[o].account \in Accounts /\ log[ops[o].account] \in Seq(Movement)
    BY <2>1, OperationRecord DEF TypeOK, CashTypeOK
  <2>3. \A i, j \in Originals(o) : i = j
    BY <2>1, <2>2 DEF Originals, OnePrimaryMovement
  <2>4. CASE Originals(o) = {}
    BY <2>4, FS_EmptySet
  <2>5. CASE Originals(o) # {}
    <3>1. PICK i : Originals(o) = {i}
      BY <2>3, <2>5
    <3> QED
      BY <3>1, FS_Singleton
  <2> QED
    BY <2>4, <2>5
<1> QED
  BY <1>1, SessionsInvariant, PTL


=============================================================================
