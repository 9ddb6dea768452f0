------------------------- MODULE NotificationOutbox -------------------------
(***************************************************************************)
(* The e-mail outbox (apps/notifications): the services persist a delivery *)
(* with the notification, in their own transaction, and the processes of   *)
(* the command notification_worker send it later.                          *)
(*                                                                         *)
(* process_one claims a delivery in one transaction, sends the message     *)
(* outside any, and records the outcome in another.  A worker may die      *)
(* between them; process_batch takes back deliveries in PROCESSING whose   *)
(* row has not changed for 15 minutes.  A send ends long before that:      *)
(* every socket operation is limited by EMAIL_TIMEOUT, 15 seconds.  So     *)
(* what is taken back is what a dead worker left.                          *)
(*                                                                         *)
(* Each transaction locks the one row it works on and is one step.  A row  *)
(* that skip_locked passes over because another worker is about to change  *)
(* it is passed over before the change here.                               *)
(***************************************************************************)
EXTENDS Integers, FiniteSets

CONSTANTS
    Deliveries,    \* NotificationDelivery rows
    Workers,       \* processes of notification_worker
    MaxAttempts,   \* failures after which a delivery is given up (5)
    BatchSize,     \* deliveries listed by one pass (20)
    MaxCrashes     \* bound: worker crashes

ASSUME OutboxAssumption ==
    /\ IsFiniteSet(Deliveries)
    /\ IsFiniteSet(Workers)
    /\ MaxAttempts \in Nat \ {0}
    /\ BatchSize \in Nat \ {0}
    /\ MaxCrashes \in Nat

VARIABLES
    status,        \* status[d]: NotificationDelivery.status, "ABSENT" before the row exists
    attempts,      \* attempts[d]: NotificationDelivery.attempts
    due,           \* due[d]: next_attempt_at is past
    pc,            \* pc[w]: what worker w is doing
    todo,          \* todo[w]: the ids w listed and has not processed yet
    job,           \* job[w]: the delivery w is sending, {} for none
    mails,         \* mails[d]: messages the mail server accepted for d
    lost,          \* lost[d]: workers that died while sending d
    crashes        \* workers that died

rowVars == <<status, attempts, due>>
workerVars == <<pc, todo, job>>
countVars == <<mails, lost, crashes>>
outboxVars == <<rowVars, workerVars, countVars>>

Waiting == {"PENDING", "RETRY"}
Settled == {"SENT", "FAILED"}

-----------------------------------------------------------------------------

OutboxInit ==
    /\ status = [d \in Deliveries |-> "ABSENT"]
    /\ attempts = [d \in Deliveries |-> 0]
    /\ due = [d \in Deliveries |-> FALSE]
    /\ pc = [w \in Workers |-> "idle"]
    /\ todo = [w \in Workers |-> {}]
    /\ job = [w \in Workers |-> {}]
    /\ mails = [d \in Deliveries |-> 0]
    /\ lost = [d \in Deliveries |-> 0]
    /\ crashes = 0

\* notify, as part of a service's transaction: the delivery is due at once.
Notify(d) ==
    /\ status[d] = "ABSENT"
    /\ status' = [status EXCEPT ![d] = "PENDING"]
    /\ due' = [due EXCEPT ![d] = TRUE]
    /\ UNCHANGED <<attempts, workerVars, countVars>>

\* Time passes beyond next_attempt_at.
BackoffOver(d) ==
    /\ status[d] = "RETRY"
    /\ ~due[d]
    /\ due' = [due EXCEPT ![d] = TRUE]
    /\ UNCHANGED <<status, attempts, workerVars, countVars>>

\* Faults: deliveries that are being sent are taken back, or none is.
AbandonedAtOnce(d) == status[d] = "PROCESSING"
AbandonedNever(d) == FALSE

\* The deliveries a dead worker left in PROCESSING, 15 minutes ago or more.
Abandoned(d) == status[d] = "PROCESSING" /\ \A w \in Workers : d \notin job[w]

\* process_batch: take back abandoned deliveries, old enough, and list at
\* most BatchSize deliveries that are due, in no particular order.
ProcessBatch(w, old) ==
    /\ pc[w] = "idle"
    /\ \A d \in old : Abandoned(d)
    /\ status' = [d \in Deliveries |-> IF d \in old THEN "RETRY" ELSE status[d]]
    /\ due' = [d \in Deliveries |-> d \in old \/ due[d]]
    /\ \E ids \in SUBSET {d \in Deliveries : status'[d] \in Waiting /\ due'[d]} :
          /\ Cardinality(ids) <= BatchSize
          /\ Cardinality(ids) < BatchSize =>
                 ids = {d \in Deliveries : status'[d] \in Waiting /\ due'[d]}
          /\ ids # {} \/ old # {}
          /\ todo' = [todo EXCEPT ![w] = ids]
          /\ pc' = [pc EXCEPT ![w] = IF ids = {} THEN "idle" ELSE "listed"]
    /\ UNCHANGED <<attempts, job, countVars>>

\* What follows the processing of d: the next id of the list, or a pause.
Done(w, d) ==
    /\ todo' = [todo EXCEPT ![w] = @ \ {d}]
    /\ pc' = [pc EXCEPT ![w] = IF todo[w] = {d} THEN "idle" ELSE "listed"]

\* Fault: only a delivery that is being sent is passed over.
ClaimSettled(w, d) ==
    /\ pc[w] = "listed"
    /\ d \in todo[w]
    /\ status[d] # "PROCESSING"
    /\ status' = [status EXCEPT ![d] = "PROCESSING"]
    /\ attempts' = [attempts EXCEPT ![d] = @ + 1]
    /\ job' = [job EXCEPT ![w] = {d}]
    /\ pc' = [pc EXCEPT ![w] = "sending"]
    /\ UNCHANGED <<due, todo, countVars>>

\* process_one, first transaction: claim d, or pass over it if its status has
\* changed since it was listed.
Claim(w, d) ==
    /\ pc[w] = "listed"
    /\ d \in todo[w]
    /\ status[d] \in Waiting
    /\ status' = [status EXCEPT ![d] = "PROCESSING"]
    /\ attempts' = [attempts EXCEPT ![d] = @ + 1]
    /\ job' = [job EXCEPT ![w] = {d}]
    /\ pc' = [pc EXCEPT ![w] = "sending"]
    /\ UNCHANGED <<due, todo, countVars>>

PassOver(w, d) ==
    /\ pc[w] = "listed"
    /\ d \in todo[w]
    /\ status[d] \notin Waiting
    /\ Done(w, d)
    /\ UNCHANGED <<rowVars, job, countVars>>

\* send_mail: the server accepts the message, or an exception is raised,
\* which a server that accepted it and went silent causes too.
SendMail(w, accepted, raised) ==
    /\ pc[w] = "sending"
    /\ accepted \/ raised
    /\ pc' = [pc EXCEPT ![w] = IF raised THEN "failed" ELSE "sent"]
    /\ mails' = [d \in Deliveries |-> IF accepted /\ d \in job[w] THEN mails[d] + 1 ELSE mails[d]]
    /\ UNCHANGED <<rowVars, todo, job, lost, crashes>>

\* Fault: one attempt too many.
RecordOutcomeLate(w, d) ==
    /\ pc[w] \in {"sent", "failed"}
    /\ d \in job[w]
    /\ status' = [status EXCEPT ![d] = IF pc[w] = "sent" THEN "SENT"
                                       ELSE IF attempts[d] > MaxAttempts THEN "FAILED"
                                       ELSE "RETRY"]
    /\ due' = [due EXCEPT ![d] = IF pc[w] = "sent" THEN @ ELSE FALSE]
    /\ Done(w, d)
    /\ job' = [job EXCEPT ![w] = {}]
    /\ UNCHANGED <<attempts, countVars>>

\* process_one, last transaction: record the outcome.
RecordOutcome(w, d) ==
    /\ pc[w] \in {"sent", "failed"}
    /\ d \in job[w]
    /\ status' = [status EXCEPT ![d] = IF pc[w] = "sent" THEN "SENT"
                                       ELSE IF attempts[d] >= MaxAttempts THEN "FAILED"
                                       ELSE "RETRY"]
    /\ due' = [due EXCEPT ![d] = IF pc[w] = "sent" THEN @ ELSE FALSE]
    /\ Done(w, d)
    /\ job' = [job EXCEPT ![w] = {}]
    /\ UNCHANGED <<attempts, countVars>>

\* The process dies, at a deployment for instance, and starts again.
Crash(w) ==
    /\ pc[w] # "idle"
    /\ crashes < MaxCrashes
    /\ crashes' = crashes + 1
    /\ lost' = [d \in Deliveries |-> IF d \in job[w] THEN lost[d] + 1 ELSE lost[d]]
    /\ pc' = [pc EXCEPT ![w] = "idle"]
    /\ todo' = [todo EXCEPT ![w] = {}]
    /\ job' = [job EXCEPT ![w] = {}]
    /\ UNCHANGED <<rowVars, mails>>

WorkerStep(w) ==
    \/ \E old \in SUBSET Deliveries : ProcessBatch(w, old)
    \/ \E d \in Deliveries : Claim(w, d) \/ PassOver(w, d) \/ RecordOutcome(w, d)
    \/ \E accepted, raised \in BOOLEAN : SendMail(w, accepted, raised)

OutboxNext ==
    \/ \E d \in Deliveries : Notify(d) \/ BackoffOver(d)
    \/ \E w \in Workers : WorkerStep(w) \/ Crash(w)

OutboxSpec == OutboxInit /\ [][OutboxNext]_outboxVars

\* A worker dies finitely often and is restarted; its loop goes on for ever
\* and what a dead one left does grow 15 minutes old.  A delivery is tried a
\* bounded number of times, so no choice among those that are due starves one.
OutboxFairness ==
    /\ \A d \in Deliveries : WF_outboxVars(BackoffOver(d))
    /\ \A w \in Workers : WF_outboxVars(WorkerStep(w))

FairOutboxSpec == OutboxSpec /\ OutboxFairness

-----------------------------------------------------------------------------
(* Properties *)

\* Types, and what a worker holds in which state of its loop.
OutboxTypeOK ==
    /\ status \in [Deliveries -> {"ABSENT", "PROCESSING"} \cup Waiting \cup Settled]
    /\ attempts \in [Deliveries -> Nat]
    /\ due \in [Deliveries -> BOOLEAN]
    /\ pc \in [Workers -> {"idle", "listed", "sending", "sent", "failed"}]
    /\ todo \in [Workers -> SUBSET Deliveries]
    /\ job \in [Workers -> SUBSET Deliveries]
    /\ mails \in [Deliveries -> Nat]
    /\ lost \in [Deliveries -> Nat]
    /\ crashes \in Nat
    /\ \A w \in Workers :
          /\ job[w] \subseteq todo[w]
          /\ \A d, e \in job[w] : d = e
          /\ (todo[w] = {}) <=> (pc[w] = "idle")
          /\ (job[w] = {}) <=> (pc[w] \in {"idle", "listed"})

\* A delivery is in the hands of one worker at a time, and in PROCESSING as
\* long as it is: no outcome is recorded over another's.
OneSender ==
    \A w \in Workers : \A d \in job[w] :
        /\ status[d] = "PROCESSING"
        /\ \A other \in Workers : d \in job[other] => other = w

\* A delivery is given up after MaxAttempts tries, not counting those a dead
\* worker never reported: attempts alone may exceed the limit.
AttemptsExplained == \A d \in Deliveries : attempts[d] <= MaxAttempts + lost[d]

\* An outcome is final, and nothing is sent after it.
SettledIsFinal ==
    [][\A d \in Deliveries : status[d] \in Settled => status'[d] = status[d] /\ mails'[d] = mails[d]]_outboxVars

\* Every notification is sent or given up in the end.
EveryDeliverySettles == \A d \in Deliveries : status[d] = "PENDING" ~> status[d] \in Settled

=============================================================================
