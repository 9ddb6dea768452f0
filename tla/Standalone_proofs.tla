------------------------- MODULE Standalone_proofs --------------------------
(***************************************************************************)
(* Proofs about the two components that stand alone: NotificationOutbox,   *)
(* for any number of deliveries, workers, attempts and crashes, and        *)
(* Pricing, for any tiers, saves and operations.  They share no variable.  *)
(***************************************************************************)
EXTENDS NotificationOutbox, Pricing, Sums

-----------------------------------------------------------------------------
(* Deliveries.  AttemptsExplained alone is not inductive: a claim adds a    *)
(* try, so a delivery that can still be claimed must have one left.  A      *)
(* delivery in PROCESSING in nobody's hands has one because its worker died *)
(* (lost); one that was tried and failed has one because it was not given   *)
(* up.                                                                      *)

\* A delivery that may be tried again has a try left.
TryLeft ==
    \A d \in Deliveries :
        status[d] \notin Settled /\ (\A w \in Workers : d \notin job[w])
            => attempts[d] < MaxAttempts + lost[d]

OutboxInv == OutboxTypeOK /\ OneSender /\ AttemptsExplained /\ TryLeft

\* The invariant holds before any notification.
LEMMA OutboxInitInv == OutboxInit => OutboxInv
  BY OutboxAssumption DEF OutboxInit, OutboxInv, OutboxTypeOK, OneSender, AttemptsExplained, TryLeft,
                          Settled, Waiting

\* Types and the worker loop's bookkeeping, step by step.
LEMMA OutboxTypeStep == OutboxTypeOK /\ [OutboxNext]_outboxVars => OutboxTypeOK'
  <1> SUFFICES ASSUME OutboxTypeOK, [OutboxNext]_outboxVars PROVE OutboxTypeOK'
    OBVIOUS
  <1> USE DEF OutboxTypeOK, Waiting, Settled, countVars, rowVars, workerVars
  <1>1. ASSUME NEW d \in Deliveries, Notify(d) PROVE OutboxTypeOK'
    BY <1>1 DEF Notify
  <1>2. ASSUME NEW d \in Deliveries, BackoffOver(d) PROVE OutboxTypeOK'
    BY <1>2 DEF BackoffOver
  <1>3. ASSUME NEW w \in Workers, NEW old \in SUBSET Deliveries, ProcessBatch(w, old) PROVE OutboxTypeOK'
    <2>1. PICK ids \in SUBSET Deliveries :
             /\ todo' = [todo EXCEPT ![w] = ids]
             /\ pc' = [pc EXCEPT ![w] = IF ids = {} THEN "idle" ELSE "listed"]
      BY <1>3 DEF ProcessBatch
    <2>2. status' \in [Deliveries -> {"ABSENT", "PROCESSING"} \cup Waiting \cup Settled]
      BY <1>3 DEF ProcessBatch
    <2>3. due' \in [Deliveries -> BOOLEAN]
      BY <1>3, Zenon DEF ProcessBatch
    <2>4. UNCHANGED <<attempts, job, mails, lost, crashes>> /\ pc[w] = "idle"
      BY <1>3 DEF ProcessBatch
    <2> QED
      BY <2>1, <2>2, <2>3, <2>4
  <1>4. ASSUME NEW w \in Workers, NEW d \in Deliveries, Claim(w, d) PROVE OutboxTypeOK'
    BY <1>4 DEF Claim
  <1>5. ASSUME NEW w \in Workers, NEW d \in Deliveries, PassOver(w, d) PROVE OutboxTypeOK'
    BY <1>5 DEF PassOver, Done
  <1>6. ASSUME NEW w \in Workers, NEW d \in Deliveries, RecordOutcome(w, d) PROVE OutboxTypeOK'
    <2>1. status' \in [Deliveries -> {"ABSENT", "PROCESSING"} \cup Waiting \cup Settled]
      BY <1>6 DEF RecordOutcome
    <2>2. due' \in [Deliveries -> BOOLEAN]
      BY <1>6, Zenon DEF RecordOutcome
    <2>3. /\ todo' = [todo EXCEPT ![w] = @ \ {d}]
          /\ pc' = [pc EXCEPT ![w] = IF todo[w] = {d} THEN "idle" ELSE "listed"]
          /\ job' = [job EXCEPT ![w] = {}]
          /\ UNCHANGED <<attempts, mails, lost, crashes>>
          /\ d \in job[w]
      BY <1>6 DEF RecordOutcome, Done
    <2> QED
      BY <2>1, <2>2, <2>3
  <1>7. ASSUME NEW w \in Workers, NEW accepted \in BOOLEAN, NEW raised \in BOOLEAN,
               SendMail(w, accepted, raised)
        PROVE  OutboxTypeOK'
    BY <1>7 DEF SendMail
  <1>8. ASSUME NEW w \in Workers, Crash(w) PROVE OutboxTypeOK'
    BY <1>8 DEF Crash
  <1>9. CASE UNCHANGED outboxVars
    BY <1>9 DEF outboxVars
  <1> QED
    BY <1>1, <1>2, <1>3, <1>4, <1>5, <1>6, <1>7, <1>8, <1>9 DEF OutboxNext, WorkerStep

\* One sender per delivery, and the tries that are left, step by step.
LEMMA OutboxHoldersStep ==
    OutboxInv /\ [OutboxNext]_outboxVars => OneSender' /\ AttemptsExplained' /\ TryLeft'
  <1> SUFFICES ASSUME OutboxInv, [OutboxNext]_outboxVars
               PROVE  OneSender' /\ AttemptsExplained' /\ TryLeft'
    OBVIOUS
  <1> USE OutboxAssumption DEF OutboxInv, OutboxTypeOK, OneSender, AttemptsExplained, TryLeft,
                               Waiting, Settled, countVars, rowVars, workerVars
  <1>1. ASSUME NEW d \in Deliveries, Notify(d) PROVE OneSender' /\ AttemptsExplained' /\ TryLeft'
    BY <1>1 DEF Notify
  <1>2. ASSUME NEW d \in Deliveries, BackoffOver(d) PROVE OneSender' /\ AttemptsExplained' /\ TryLeft'
    BY <1>2 DEF BackoffOver
  <1>3. ASSUME NEW w \in Workers, NEW old \in SUBSET Deliveries, ProcessBatch(w, old)
        PROVE  OneSender' /\ AttemptsExplained' /\ TryLeft'
    BY <1>3 DEF ProcessBatch, Abandoned
  <1>4. ASSUME NEW w \in Workers, NEW d \in Deliveries, Claim(w, d)
        PROVE  OneSender' /\ AttemptsExplained' /\ TryLeft'
    BY <1>4 DEF Claim
  <1>5. ASSUME NEW w \in Workers, NEW d \in Deliveries, PassOver(w, d)
        PROVE  OneSender' /\ AttemptsExplained' /\ TryLeft'
    BY <1>5 DEF PassOver
  <1>6. ASSUME NEW w \in Workers, NEW d \in Deliveries, RecordOutcome(w, d)
        PROVE  OneSender' /\ AttemptsExplained' /\ TryLeft'
    BY <1>6 DEF RecordOutcome
  <1>7. ASSUME NEW w \in Workers, NEW accepted \in BOOLEAN, NEW raised \in BOOLEAN,
               SendMail(w, accepted, raised)
        PROVE  OneSender' /\ AttemptsExplained' /\ TryLeft'
    BY <1>7 DEF SendMail
  <1>8. ASSUME NEW w \in Workers, Crash(w) PROVE OneSender' /\ AttemptsExplained' /\ TryLeft'
    BY <1>8 DEF Crash
  <1>9. CASE UNCHANGED outboxVars
    BY <1>9 DEF outboxVars
  <1> QED
    BY <1>1, <1>2, <1>3, <1>4, <1>5, <1>6, <1>7, <1>8, <1>9 DEF OutboxNext, WorkerStep

\* The three invariants of the workers run, for every instance: what a worker
\* holds, that nobody else holds it, and how often a delivery is tried.
THEOREM OutboxInvariant == OutboxSpec => [](OutboxTypeOK /\ OneSender /\ AttemptsExplained)
  <1>1. OutboxInv /\ [OutboxNext]_outboxVars => OutboxInv'
    BY OutboxTypeStep, OutboxHoldersStep DEF OutboxInv
  <1>2. OutboxInv => OutboxTypeOK /\ OneSender /\ AttemptsExplained
    BY DEF OutboxInv
  <1> QED
    BY OutboxInitInv, <1>1, <1>2, PTL DEF OutboxSpec

\* A delivery is given up after MaxAttempts tries, but for those that a worker
\* began and died in, however many workers die.
THEOREM AttemptsAreExplained == OutboxSpec => []AttemptsExplained
  BY OutboxInvariant, PTL

\* One step never changes a settled delivery, nor mails it again.
LEMMA SettledStep ==
    OutboxInv /\ [OutboxNext]_outboxVars =>
        \A d \in Deliveries : status[d] \in Settled => status'[d] = status[d] /\ mails'[d] = mails[d]
  <1> SUFFICES ASSUME OutboxInv, [OutboxNext]_outboxVars, NEW d \in Deliveries, status[d] \in Settled
               PROVE  status'[d] = status[d] /\ mails'[d] = mails[d]
    OBVIOUS
  <1> USE DEF OutboxInv, OutboxTypeOK, OneSender, Waiting, Settled, countVars, rowVars, workerVars
  <1>1. ASSUME NEW e \in Deliveries, Notify(e) \/ BackoffOver(e)
        PROVE  status'[d] = status[d] /\ mails'[d] = mails[d]
    BY <1>1 DEF Notify, BackoffOver
  <1>2. ASSUME NEW w \in Workers, NEW old \in SUBSET Deliveries, ProcessBatch(w, old)
        PROVE  status'[d] = status[d] /\ mails'[d] = mails[d]
    BY <1>2 DEF ProcessBatch, Abandoned
  <1>3. ASSUME NEW w \in Workers, NEW e \in Deliveries, Claim(w, e) \/ PassOver(w, e) \/ RecordOutcome(w, e)
        PROVE  status'[d] = status[d] /\ mails'[d] = mails[d]
    <2>1. UNCHANGED mails /\ \A x \in Deliveries : x # e => status'[x] = status[x]
      <3>1. ASSUME Claim(w, e) PROVE UNCHANGED mails /\ \A x \in Deliveries : x # e => status'[x] = status[x]
        BY <3>1 DEF Claim
      <3>2. ASSUME PassOver(w, e) PROVE UNCHANGED mails /\ \A x \in Deliveries : x # e => status'[x] = status[x]
        BY <3>2 DEF PassOver
      <3>3. ASSUME RecordOutcome(w, e) PROVE UNCHANGED mails /\ \A x \in Deliveries : x # e => status'[x] = status[x]
        BY <3>3 DEF RecordOutcome
      <3> QED
        BY <1>3, <3>1, <3>2, <3>3
    <2>2. CASE d # e
      BY <2>1, <2>2
    <2>3. CASE d = e
      <3>1. ~Claim(w, e)
        BY <2>3 DEF Claim
      <3>2. ~RecordOutcome(w, e)
        BY <2>3 DEF RecordOutcome
      <3>3. PassOver(w, e)
        BY <1>3, <3>1, <3>2
      <3> QED
        BY <3>3 DEF PassOver
    <2> QED
      BY <2>2, <2>3
  <1>4. ASSUME NEW w \in Workers, NEW accepted \in BOOLEAN, NEW raised \in BOOLEAN,
               SendMail(w, accepted, raised)
        PROVE  status'[d] = status[d] /\ mails'[d] = mails[d]
    BY <1>4 DEF SendMail
  <1>5. ASSUME NEW w \in Workers, Crash(w) PROVE status'[d] = status[d] /\ mails'[d] = mails[d]
    BY <1>5 DEF Crash
  <1>6. CASE UNCHANGED outboxVars
    BY <1>6 DEF outboxVars
  <1> QED
    BY <1>1, <1>2, <1>3, <1>4, <1>5, <1>6 DEF OutboxNext, WorkerStep

\* The outcome of a delivery is final, whatever crashes and however many
\* workers run: nothing is sent after it.
THEOREM SettledStaysFinal == OutboxSpec => SettledIsFinal
  <1>1. OutboxInv /\ [OutboxNext]_outboxVars => OutboxInv'
    BY OutboxTypeStep, OutboxHoldersStep DEF OutboxInv
  <1>2. OutboxInv /\ [OutboxNext]_outboxVars =>
            [\A d \in Deliveries : status[d] \in Settled => status'[d] = status[d] /\ mails'[d] = mails[d]]_outboxVars
    BY SettledStep
  <1> QED
    BY OutboxInitInv, <1>1, <1>2, PTL DEF OutboxSpec, SettledIsFinal

-----------------------------------------------------------------------------
(* Pricing: the operators of the model *)

\* Moments up to t that are not none have a latest one.
LEMMA LatestElement ==
    ASSUME NEW t \in Nat, NEW T, T \subseteq 0 .. t, T # {}
    PROVE  \E x \in T : \A y \in T : y <= x
<1>. DEFINE R == {t - y : y \in T}
<1>0. \A y \in T : y \in Int /\ t - y \in Nat
  <2>1. \A y \in T : y \in 0 .. t
    OBVIOUS
  <2>. QED BY <2>1
<1>1. R \subseteq Nat /\ R # {}
  BY <1>0
<1>2. PICK m \in R : \A y \in R : m <= y
  <2>. HIDE DEF R
  <2>. QED BY <1>1, LeastElement
<1>3. PICK x \in T : m = t - x
  BY <1>2
<1>4. ASSUME NEW y \in T PROVE y <= x
  <2>1. m <= t - y
    BY <1>2
  <2>2. x \in Int /\ y \in Int
    BY <1>0
  <2>. QED BY <1>3, <2>1, <2>2
<1>. QED BY <1>4

\* A rounded quotient of amounts is an amount.
LEMMA QuotientType ==
    ASSUME NEW n \in Nat, NEW d \in Nat \ {0}
    PROVE  Quotient(n, d) \in Nat
<1>1. n \div d \in Nat
  OBVIOUS
<1>. QED BY <1>1 DEF Quotient

LEMMA ProductType ==
    ASSUME NEW n \in Nat, NEW d \in Nat
    PROVE  n * d \in Nat
OBVIOUS

\* The rate in effect is a rate, or there is none.
LEMMA RateType ==
    ASSUME NEW r \in [Times -> Rates \cup {0}], NEW t \in Times
    PROVE  RateAt(r, t) \in Rates \cup {0}
<1>. DEFINE past == {s \in 0 .. t : r[s] # 0}
            Latest(s) == \A u \in past : u <= s
<1>1. t \in Nat /\ \A s \in 0 .. t : s \in Times
  BY PricingAssumption DEF Times
<1>2. CASE past = {}
  BY <1>2 DEF RateAt
<1>3. CASE past # {}
  <2>1. past \subseteq 0 .. t
    OBVIOUS
  <2>2. \E s \in past : Latest(s)
    <3>. HIDE DEF past
    <3>. QED BY <1>1, <1>3, <2>1, LatestElement
  <2>3. (CHOOSE s \in past : Latest(s)) \in past
    BY <2>2
  <2>4. RateAt(r, t) = r[CHOOSE s \in past : Latest(s)]
    BY <1>3 DEF RateAt
  <2>. QED BY <1>1, <2>1, <2>3, <2>4
<1>. QED BY <1>2, <1>3

\* The fees of a grid are amounts.
LEMMA FeesType ==
    ASSUME NEW rows \in [TierIds -> Tier \cup {NoTier}], NEW amount
    PROVE  FeesFor(rows, amount) \subseteq Nat
<1>1. \A j \in TierIds : rows[j] # NoTier => rows[j].fee \in Nat
  BY PricingAssumption DEF Tier
<1>. QED BY <1>1 DEF FeesFor

\* What a form may hold, and what a call may be.
LEMMA NoneTyped ==
    /\ NoForm \in [row : Tier \cup {NoTier}, id : TierIds \cup {NoTier}, other : BOOLEAN]
    /\ NoOp \in Op
    /\ NoQuote \in Quote
BY PricingAssumption DEF NoForm, NoOp, NoQuote, Op, Quote


-----------------------------------------------------------------------------
(* Types and the price *)

Low == quote.op.amount_usd <= Ceiling

\* A call has seen what is in effect, with the rate it began with.
Seen ==
    quote.stage # "idle" =>
      /\ quote.op.rate \in quote.rates
      /\ RateAt(rates, now) \in quote.rates
      /\ FeesFor(tiers, quote.op.amount_usd) \subseteq quote.fees

\* What a call has stored up to its stage is explained by what it has seen.
Priced ==
    /\ quote.stage \in {"auto", "resolve"} => Low
    /\ quote.stage \in {"resolve", "fee", "fee_auto", "store"} /\ Low => quote.auto \in quote.fees
    /\ quote.stage \in {"fee", "fee_auto", "store"} /\ Low =>
         \E fee \in quote.fees : /\ quote.op.fee_usd <= fee
                                 /\ quote.manual = NoManual => quote.op.fee_usd = fee
    /\ quote.stage \in {"fee_auto", "store"} =>
         \E r \in quote.rates \ {0} : quote.op.fee = Quotient(quote.op.fee_usd, r)
    /\ quote.stage = "store" /\ Low =>
         \E fee \in quote.fees, r \in quote.rates \ {0} : quote.op.fee_auto = Quotient(fee, r)

PriceInv == PricingTypeOK /\ Seen /\ Priced

LEMMA PriceInvInit == PricingInit => PriceInv
<1>. SUFFICES ASSUME PricingInit PROVE PriceInv
  OBVIOUS
<1>. USE DEF PricingInit
<1>1. PricingTypeOK
  BY NoneTyped, PricingAssumption DEF PricingTypeOK, Times
<1>2. quote.stage = "idle"
  BY DEF NoQuote
<1>. QED BY <1>1, <1>2 DEF PriceInv, Seen, Priced

\* The edits of the grid and of the rates let a call see what they leave.
LEMMA WitnessKeeps ==
    ASSUME PriceInv, quote' = Witness(quote),
           tiers' \in [TierIds -> Tier \cup {NoTier}],
           rates' \in [Times -> Rates \cup {0}], now' \in Times
    PROVE  quote' \in Quote /\ Seen' /\ Priced'
<1>. DEFINE rate == RateAt(rates', now')
            fees == FeesFor(tiers', quote.op.amount_usd)
<1>1. rate \in Nat /\ fees \subseteq Nat
  <2>1. rate \in Rates \cup {0}
    BY RateType
  <2>2. fees \subseteq Nat
    BY FeesType
  <2>. HIDE DEF rate, fees
  <2>. QED BY <2>1, <2>2, PricingAssumption
<1>2. quote \in Quote
  BY DEF PriceInv, PricingTypeOK
<1>3. CASE quote.stage = "idle"
  <2>1. quote' = quote
    BY <1>3 DEF Witness
  <2>. QED BY <1>2, <1>3, <2>1 DEF Seen, Priced
<1>4. CASE quote.stage # "idle"
  <2>1. quote' = [quote EXCEPT !.rates = @ \cup {rate}, !.fees = @ \cup fees]
    BY <1>4 DEF Witness
  <2>. HIDE DEF rate, fees
  <2>2. /\ quote' \in Quote
        /\ quote'.stage = quote.stage /\ quote'.op = quote.op
        /\ quote'.manual = quote.manual /\ quote'.auto = quote.auto
        /\ quote'.rates = quote.rates \cup {rate} /\ quote'.fees = quote.fees \cup fees
    <3>. DEFINE q == quote
    <3>1. q.rates \subseteq Nat /\ q.fees \subseteq Nat /\ q \in Quote
      BY <1>2 DEF Quote
    <3>2. /\ q.rates \cup {rate} \in SUBSET Nat
          /\ q.fees \cup fees \in SUBSET Nat
      BY <1>1, <3>1
    <3>3. quote' = [[q EXCEPT !.rates = @ \cup {rate}] EXCEPT !.fees = @ \cup fees]
      BY <2>1, <3>1 DEF Quote
    <3>. HIDE DEF q
    <3>4. quote' \in Quote
      BY <3>1, <3>2, <3>3 DEF Quote
    <3>5. /\ quote'.stage = q.stage /\ quote'.op = q.op
          /\ quote'.manual = q.manual /\ quote'.auto = q.auto
          /\ quote'.rates = q.rates \cup {rate} /\ quote'.fees = q.fees \cup fees
      BY <3>1, <3>3 DEF Quote
    <3>. QED BY <3>4, <3>5 DEF q
  <2>3. Seen'
    BY <1>4, <2>2 DEF PriceInv, Seen, rate, fees
  <2>4. Priced'
    BY <2>2 DEF PriceInv, Priced, Low
  <2>. QED BY <2>2, <2>3, <2>4
<1>. QED BY <1>3, <1>4


\* A call that does not go on is none.
LEMMA EndKeeps ==
    ASSUME PriceInv, UNCHANGED <<tiers, form, rates, now>>, quote' = NoQuote
    PROVE  PriceInv'
<1>1. PricingTypeOK'
  BY NoneTyped DEF PriceInv, PricingTypeOK
<1>2. quote'.stage = "idle"
  BY DEF NoQuote
<1>. QED BY <1>1, <1>2 DEF PriceInv, Seen, Priced

\* A look-up sees the rate and fees that are in effect.
LEMMA LooksAt ==
    ASSUME PriceInv, quote.stage # "idle"
    PROVE  /\ RateAt(rates, now) \in quote.rates
           /\ RateAt(rates, now) \in Rates \cup {0}
           /\ FeesFor(tiers, quote.op.amount_usd) \subseteq quote.fees
           /\ FeesFor(tiers, quote.op.amount_usd) \subseteq Nat
BY RateType, FeesType DEF PriceInv, PricingTypeOK, Seen

LEMMA PriceInvStep == PriceInv /\ [PricingNext]_pricingVars => PriceInv'
<1>. SUFFICES ASSUME PriceInv, [PricingNext]_pricingVars PROVE PriceInv'
  OBVIOUS
<1>0. PricingTypeOK /\ quote \in Quote
  BY DEF PriceInv, PricingTypeOK
<1>t. \A r \in Rates \cup {0} : r \in Nat
  BY PricingAssumption
<1>1. ASSUME NEW f \in Forms, NEW i \in TierIds, NEW t \in Tier, ValidateTier(f, i, t)
      PROVE  PriceInv'
  <2>1. PricingTypeOK'
    BY <1>0, <1>1 DEF ValidateTier, PricingTypeOK
  <2>2. UNCHANGED <<tiers, rates, now, quote>>
    BY <1>1 DEF ValidateTier
  <2>. QED BY <2>1, <2>2 DEF PriceInv, Seen, Priced, Low
<1>2. ASSUME NEW f \in Forms, SaveTier(f) PROVE PriceInv'
  <2>1. /\ form[f] # NoForm /\ UNCHANGED <<rates, now>> /\ quote' = Witness(quote)
        /\ tiers' = [tiers EXCEPT ![form[f].id] = form[f].row]
        /\ form' = [g \in Forms |-> IF g = f \/ form[g] = NoForm THEN NoForm
                                    ELSE [form[g] EXCEPT !.other = TRUE]]
    BY <1>2 DEF SaveTier
  <2>2. tiers' \in [TierIds -> Tier \cup {NoTier}]
    BY <1>0, <2>1 DEF PricingTypeOK
  <2>3. form' \in [Forms -> [row : Tier \cup {NoTier}, id : TierIds \cup {NoTier}, other : BOOLEAN]]
    BY <1>0, <2>1, NoneTyped DEF PricingTypeOK
  <2>4. quote' \in Quote /\ Seen' /\ Priced'
    BY <1>0, <2>1, <2>2, WitnessKeeps DEF PricingTypeOK
  <2>. QED BY <1>0, <2>1, <2>2, <2>3, <2>4 DEF PriceInv, PricingTypeOK
<1>3. ASSUME NEW i \in TierIds, DeleteTier(i) PROVE PriceInv'
  <2>1. /\ tiers' \in [TierIds -> Tier \cup {NoTier}]
        /\ UNCHANGED <<form, rates, now>> /\ quote' = Witness(quote)
    BY <1>0, <1>3 DEF DeleteTier, PricingTypeOK
  <2>2. quote' \in Quote /\ Seen' /\ Priced'
    BY <1>0, <2>1, WitnessKeeps DEF PricingTypeOK
  <2>. QED BY <1>0, <2>1, <2>2 DEF PriceInv, PricingTypeOK
<1>4. ASSUME NEW t \in Times, NEW rate \in Rates \cup {0}, SetRate(t, rate) PROVE PriceInv'
  <2>1. /\ rates' \in [Times -> Rates \cup {0}]
        /\ UNCHANGED <<tiers, form, now>> /\ quote' = Witness(quote)
    BY <1>0, <1>4 DEF SetRate, PricingTypeOK
  <2>2. quote' \in Quote /\ Seen' /\ Priced'
    BY <1>0, <2>1, WitnessKeeps DEF PricingTypeOK
  <2>. QED BY <1>0, <2>1, <2>2 DEF PriceInv, PricingTypeOK
<1>5. CASE Tick
  <2>1. /\ now' \in Times
        /\ UNCHANGED <<tiers, form, rates>> /\ quote' = Witness(quote)
    BY <1>0, <1>5, PricingAssumption DEF Tick, PricingTypeOK, Times
  <2>2. quote' \in Quote /\ Seen' /\ Priced'
    BY <1>0, <2>1, WitnessKeeps DEF PricingTypeOK
  <2>. QED BY <1>0, <2>1, <2>2 DEF PriceInv, PricingTypeOK
<1>6. ASSUME NEW admin \in BOOLEAN, NEW amount \in Amounts, NEW manual \in Manual \cup {NoManual},
             Begin(admin, amount, manual)
      PROVE  PriceInv'
  <2>. DEFINE rate == RateAt(rates, now)
              amount_usd == ToUsd(amount, rate)
              above == amount_usd > Ceiling
              fees == FeesFor(tiers, amount_usd)
              fee_usd == IF above THEN manual ELSE 0
              op == [amount |-> amount, rate |-> rate, amount_usd |-> amount_usd,
                     fee_usd |-> fee_usd, fee |-> 0, fee_auto |-> 0]
              stage == IF above THEN "fee" ELSE "auto"
  <2>1. /\ UNCHANGED <<tiers, form, rates, now>>
        /\ above => manual # NoManual
        /\ quote' = [stage |-> stage, op |-> op, manual |-> manual, auto |-> 0,
                     rates |-> {rate}, fees |-> fees]
    BY <1>6 DEF Begin
  <2>2. rate \in Nat
    <3>1. rate \in Rates \cup {0}
      BY <1>0, RateType DEF PricingTypeOK
    <3>. HIDE DEF rate
    <3>. QED BY <3>1, PricingAssumption
  <2>3. fees \subseteq Nat
    BY <1>0, FeesType DEF PricingTypeOK
  <2>4. amount \in Nat /\ (manual # NoManual => manual \in Nat) /\ Ceiling \in Nat
    BY PricingAssumption
  <2>. HIDE DEF rate
  <2>5. amount_usd \in Nat
    BY <2>2, <2>4, ProductType DEF ToUsd
  <2>. HIDE DEF amount_usd, fees
  <2>6. stage \in {"fee", "auto"} /\ fee_usd \in Nat
    BY <2>1, <2>4
  <2>7. stage = "auto" <=> amount_usd <= Ceiling
    BY <2>4, <2>5
  <2>. HIDE DEF stage, fee_usd
  <2>9. op \in Op /\ op.rate = rate /\ op.amount_usd = amount_usd
    BY <2>2, <2>4, <2>5, <2>6 DEF Op
  <2>. HIDE DEF op
  <2>10. quote' \in Quote
    BY <2>1, <2>2, <2>3, <2>6, <2>9 DEF Quote
  <2>11. /\ quote'.stage = stage /\ quote'.op = op /\ quote'.rates = {rate} /\ quote'.fees = fees
    BY <2>1
  <2>12. Seen'
    BY <2>1, <2>9, <2>11 DEF Seen, rate, fees
  <2>13. Priced'
    BY <2>6, <2>7, <2>9, <2>11 DEF Priced, Low
  <2>. QED BY <1>0, <2>1, <2>10, <2>12, <2>13 DEF PriceInv, PricingTypeOK
<1>7. CASE LookUpAuto
  <2>. DEFINE fees == FeesFor(tiers, quote.op.amount_usd)
  <2>1. PICK fee \in fees : quote' = [quote EXCEPT !.stage = "resolve", !.auto = fee]
    BY <1>7 DEF LookUpAuto
  <2>2. UNCHANGED <<tiers, form, rates, now>> /\ quote.stage = "auto"
    BY <1>7 DEF LookUpAuto
  <2>3. fee \in quote.fees /\ fee \in Nat
    BY <2>2, LooksAt
  <2>. HIDE DEF fees
  <2>4. /\ quote' \in Quote /\ quote'.stage = "resolve" /\ quote'.auto = fee
        /\ quote'.op = quote.op /\ quote'.rates = quote.rates /\ quote'.fees = quote.fees
    BY <1>0, <2>1, <2>3 DEF Quote
  <2>5. Seen'
    BY <2>2, <2>4 DEF PriceInv, Seen
  <2>6. Priced'
    BY <2>2, <2>3, <2>4 DEF PriceInv, Priced, Low
  <2>. QED BY <1>0, <2>2, <2>4, <2>5, <2>6 DEF PriceInv, PricingTypeOK
<1>8. CASE ResolveFee
  <2>. DEFINE fees == FeesFor(tiers, quote.op.amount_usd)
  <2>1. PICK fee \in fees :
          quote' = IF quote.manual = NoManual
                   THEN [quote EXCEPT !.stage = "fee", !.op.fee_usd = fee]
                   ELSE IF quote.manual <= fee
                   THEN [quote EXCEPT !.stage = "fee", !.op.fee_usd = quote.manual]
                   ELSE NoQuote
    BY <1>8 DEF ResolveFee
  <2>2. UNCHANGED <<tiers, form, rates, now>> /\ quote.stage = "resolve"
    BY <1>8 DEF ResolveFee
  <2>3. fee \in quote.fees /\ fee \in Nat
    BY <2>2, LooksAt
  <2>. HIDE DEF fees
  <2>4. ASSUME NEW paid \in Nat, quote' = [quote EXCEPT !.stage = "fee", !.op.fee_usd = paid],
               paid <= fee, quote.manual = NoManual => paid = fee
        PROVE  PriceInv'
    <3>1. /\ quote' \in Quote /\ quote'.stage = "fee" /\ quote'.auto = quote.auto
          /\ quote'.rates = quote.rates /\ quote'.fees = quote.fees
          /\ quote'.manual = quote.manual
          /\ quote'.op = [quote.op EXCEPT !.fee_usd = paid]
      BY <1>0, <2>4 DEF Quote, Op
    <3>2. quote.op \in Op
      BY <1>0 DEF Quote
    <3>3. /\ quote'.op.rate = quote.op.rate /\ quote'.op.amount_usd = quote.op.amount_usd
          /\ quote'.op.fee_usd = paid
      BY <3>1, <3>2 DEF Op
    <3>4. Seen'
      BY <2>2, <3>1, <3>3 DEF PriceInv, Seen
    <3>5. Priced'
      BY <2>2, <2>3, <2>4, <3>1, <3>3 DEF PriceInv, Priced, Low
    <3>. QED BY <1>0, <2>2, <3>1, <3>4, <3>5 DEF PriceInv, PricingTypeOK
  <2>5. quote.manual = NoManual \/ quote.manual \in Nat
    BY <1>0, PricingAssumption DEF Quote
  <2>6. CASE quote' = NoQuote
    BY <2>2, <2>6, EndKeeps
  <2>7. CASE quote.manual = NoManual
    <3>1. quote' = [quote EXCEPT !.stage = "fee", !.op.fee_usd = fee] /\ fee <= fee
      BY <2>1, <2>3, <2>7
    <3>. QED BY <2>3, <2>4, <3>1
  <2>8. CASE quote.manual # NoManual /\ quote.manual <= fee
    <3>1. quote' = [quote EXCEPT !.stage = "fee", !.op.fee_usd = quote.manual]
      BY <2>1, <2>8
    <3>. QED BY <2>4, <2>5, <2>8, <3>1
  <2>. QED BY <2>1, <2>6, <2>7, <2>8
<1>9. CASE ConvertFee
  <2>. DEFINE rate == RateAt(rates, now)
              fee == FromUsd(quote.op.fee_usd, rate)
  <2>1. /\ UNCHANGED <<tiers, form, rates, now>> /\ quote.stage = "fee"
        /\ quote' = IF rate = 0 THEN NoQuote
                    ELSE [quote EXCEPT !.stage = "fee_auto", !.op.fee = fee]
    BY <1>9 DEF ConvertFee
  <2>2. rate \in quote.rates /\ rate \in Rates \cup {0}
    BY <2>1, LooksAt
  <2>. HIDE DEF rate
  <2>3. CASE rate = 0
    BY <2>1, <2>3, EndKeeps
  <2>4. CASE rate # 0
    <3>0. quote.op \in Op /\ quote.op.fee_usd \in Nat
      BY <1>0 DEF Quote, Op
    <3>1. fee \in Nat /\ fee = Quotient(quote.op.fee_usd, rate)
      BY <1>t, <2>2, <2>4, <3>0, QuotientType DEF FromUsd
    <3>. HIDE DEF fee
    <3>2. /\ quote' \in Quote /\ quote'.stage = "fee_auto" /\ quote'.auto = quote.auto
          /\ quote'.rates = quote.rates /\ quote'.fees = quote.fees
          /\ quote'.manual = quote.manual
          /\ quote'.op = [quote.op EXCEPT !.fee = fee]
      BY <1>0, <2>1, <2>4, <3>1 DEF Quote, Op
    <3>3. /\ quote'.op.rate = quote.op.rate /\ quote'.op.amount_usd = quote.op.amount_usd
          /\ quote'.op.fee_usd = quote.op.fee_usd /\ quote'.op.fee = fee
      BY <3>0, <3>2 DEF Op
    <3>4. Seen'
      BY <2>1, <3>2, <3>3 DEF PriceInv, Seen
    <3>5. Priced'
      BY <2>1, <2>2, <2>4, <3>1, <3>2, <3>3 DEF PriceInv, Priced, Low
    <3>. QED BY <1>0, <2>1, <3>2, <3>4, <3>5 DEF PriceInv, PricingTypeOK
  <2>. QED BY <2>3, <2>4
<1>10. CASE ConvertAuto
  <2>. DEFINE rate == RateAt(rates, now)
              fee == FromUsd(quote.auto, rate)
  <2>1. /\ UNCHANGED <<tiers, form, rates, now>> /\ quote.stage = "fee_auto"
        /\ quote' = IF rate = 0 THEN NoQuote
                    ELSE [quote EXCEPT !.stage = "store", !.op.fee_auto = fee]
    BY <1>10 DEF ConvertAuto
  <2>2. rate \in quote.rates /\ rate \in Rates \cup {0}
    BY <2>1, LooksAt
  <2>. HIDE DEF rate
  <2>3. CASE rate = 0
    BY <2>1, <2>3, EndKeeps
  <2>4. CASE rate # 0
    <3>0. quote.op \in Op /\ quote.auto \in Nat
      BY <1>0 DEF Quote
    <3>1. fee \in Nat /\ fee = Quotient(quote.auto, rate)
      BY <1>t, <2>2, <2>4, <3>0, QuotientType DEF FromUsd
    <3>. HIDE DEF fee
    <3>2. /\ quote' \in Quote /\ quote'.stage = "store" /\ quote'.auto = quote.auto
          /\ quote'.rates = quote.rates /\ quote'.fees = quote.fees
          /\ quote'.manual = quote.manual
          /\ quote'.op = [quote.op EXCEPT !.fee_auto = fee]
      BY <1>0, <2>1, <2>4, <3>1 DEF Quote, Op
    <3>3. /\ quote'.op.rate = quote.op.rate /\ quote'.op.amount_usd = quote.op.amount_usd
          /\ quote'.op.fee_usd = quote.op.fee_usd /\ quote'.op.fee = quote.op.fee
          /\ quote'.op.fee_auto = fee
      BY <3>0, <3>2 DEF Op
    <3>4. Seen'
      BY <2>1, <3>2, <3>3 DEF PriceInv, Seen
    <3>5. Priced'
      BY <2>1, <2>2, <2>4, <3>1, <3>2, <3>3 DEF PriceInv, Priced, Low
    <3>. QED BY <1>0, <2>1, <3>2, <3>4, <3>5 DEF PriceInv, PricingTypeOK
  <2>. QED BY <2>3, <2>4
<1>11. CASE Store
  BY <1>11, EndKeeps DEF Store
<1>12. CASE UNCHANGED pricingVars
  BY <1>12 DEF pricingVars, PriceInv, PricingTypeOK, Seen, Priced, Low
<1>. QED BY <1>1, <1>2, <1>3, <1>4, <1>5, <1>6, <1>7, <1>8, <1>9, <1>10, <1>11, <1>12
       DEF PricingNext


LEMMA PriceInvAlways == PricingSpec => []PriceInv
BY PriceInvInit, PriceInvStep, PTL DEF PricingSpec

\* Whatever the grid and the rates are and however they change, what a call
\* has made of them are amounts.
THEOREM PricingTypeCorrect == PricingSpec => []PricingTypeOK
<1>1. PriceInv => PricingTypeOK
  BY DEF PriceInv
<1>. QED BY <1>1, PriceInvAlways, PTL

\* However the grid and the rates change under a call, the price it stores is
\* made of rates and of a fee that were in effect while it ran, and below the
\* ceiling nobody pays more than such a fee.
THEOREM PricesAreExplained == PricingSpec => []PricesExplained
<1>1. PriceInv => PricesExplained
  <2>. SUFFICES ASSUME PriceInv, quote.stage = "store" PROVE PricesExplained
    BY DEF PricesExplained
  <2>1. quote.op.rate \in quote.rates
    BY DEF PriceInv, Seen
  <2>2. \E r \in quote.rates : r # 0 /\ quote.op.fee = Quotient(quote.op.fee_usd, r)
    BY DEF PriceInv, Priced
  <2>3. Low => /\ \E fee \in quote.fees : /\ quote.op.fee_usd <= fee
                                          /\ quote.manual = NoManual => quote.op.fee_usd = fee
               /\ \E fee \in quote.fees, r \in quote.rates :
                     r # 0 /\ quote.op.fee_auto = Quotient(fee, r)
    BY DEF PriceInv, Priced
  <2>. QED BY <2>1, <2>2, <2>3 DEF PricesExplained, Low
<1>. QED BY <1>1, PriceInvAlways, PTL


-----------------------------------------------------------------------------
(* Overlaps *)

Apart(t) == \A j \in Rows \ {t.id} : ~Overlap(tiers[j], t.row)

\* As long as no other form was saved since, a row that a form validated
\* overlaps no other row of the grid.
FormsValid ==
    \A f \in Forms : form[f] # NoForm =>
      /\ form[f].row \in Tier /\ form[f].id \in TierIds
      /\ ~form[f].other => Apart(form[f])

GridInv == PricingTypeOK /\ FormsValid

LEMMA RowsTyped ==
    PricingTypeOK => \A i \in Rows : i \in TierIds /\ tiers[i] \in Tier
BY DEF PricingTypeOK, Rows

LEMMA GridInvStep == GridInv /\ PricingTypeOK' /\ [PricingNext]_pricingVars => GridInv'
<1>. SUFFICES ASSUME GridInv, PricingTypeOK', [PricingNext]_pricingVars PROVE FormsValid'
  BY DEF GridInv
<1>0. form \in [Forms -> [row : Tier \cup {NoTier}, id : TierIds \cup {NoTier}, other : BOOLEAN]]
  BY DEF GridInv, PricingTypeOK
<1>1. ASSUME NEW f \in Forms, NEW i \in TierIds, NEW t \in Tier, ValidateTier(f, i, t)
      PROVE  FormsValid'
  <2>. DEFINE new == [row |-> t, id |-> i, other |-> FALSE]
  <2>1. /\ \A j \in Rows \ {i} : ~Overlap(tiers[j], t)
        /\ form' = [form EXCEPT ![f] = new] /\ tiers' = tiers
    BY <1>1 DEF ValidateTier
  <2>2. Apart(new)
    BY <2>1 DEF Apart
  <2>3. \A g \in Forms : form'[g] = IF g = f THEN new ELSE form[g]
    BY <1>0, <2>1
  <2>4. new.row \in Tier /\ new.id \in TierIds
    OBVIOUS
  <2>. HIDE DEF new
  <2>5. ASSUME NEW g \in Forms, form'[g] # NoForm
        PROVE  /\ form'[g].row \in Tier /\ form'[g].id \in TierIds
               /\ ~form'[g].other => Apart(form'[g])
    BY <2>2, <2>3, <2>4, <2>5 DEF GridInv, FormsValid
  <2>6. \A g : Apart(form'[g]) => Apart(form[g])'
    BY <2>1 DEF Apart, Rows
  <2>. QED BY <2>5, <2>6 DEF FormsValid
<1>2. ASSUME NEW f \in Forms, SaveTier(f) PROVE FormsValid'
  <2>1. form' = [g \in Forms |-> IF g = f \/ form[g] = NoForm THEN NoForm
                                 ELSE [form[g] EXCEPT !.other = TRUE]]
    BY <1>2 DEF SaveTier
  <2>2. ASSUME NEW g \in Forms, form'[g] # NoForm
        PROVE  form'[g].row \in Tier /\ form'[g].id \in TierIds /\ form'[g].other
    <3>1. form[g] # NoForm /\ form'[g] = [form[g] EXCEPT !.other = TRUE]
      BY <2>1, <2>2
    <3>2. form[g].row \in Tier /\ form[g].id \in TierIds
      BY <3>1 DEF GridInv, FormsValid
    <3>. QED BY <1>0, <3>1, <3>2
  <2>. QED BY <2>2 DEF FormsValid
<1>3. ASSUME NEW i \in TierIds, DeleteTier(i) PROVE FormsValid'
  <2>1. tiers' = [tiers EXCEPT ![i] = NoTier] /\ form' = form
    BY <1>3 DEF DeleteTier
  <2>2. \A j \in Rows' : j \in Rows /\ tiers'[j] = tiers[j]
    BY <2>1 DEF GridInv, PricingTypeOK, Rows
  <2>. QED BY <2>1, <2>2 DEF GridInv, FormsValid, Apart
<1>4. CASE UNCHANGED <<tiers, form>>
  BY <1>4 DEF GridInv, FormsValid, Apart, Rows
<1>. QED BY <1>1, <1>2, <1>3, <1>4
       DEF PricingNext, SetRate, Tick, Begin, LookUpAuto, ResolveFee, ConvertFee, ConvertAuto,
           Store, pricingVars

\* Rows that do not overlap hold no amount together.
LEMMA ApartHoldNothing ==
    ASSUME NEW s \in Tier, NEW t \in Tier, ~Overlap(s, t)
    PROVE  Held(s) \cap Held(t) = {}
<1>1. s \in [min : Bounds, max : Bounds, fee : TierFees] /\ t \in [min : Bounds, max : Bounds, fee : TierFees]
  BY DEF Tier
<1>2. s.min \in Int /\ s.max \in Int /\ t.min \in Int /\ t.max \in Int
  <2>1. s.min \in Bounds /\ s.max \in Bounds /\ t.min \in Bounds /\ t.max \in Bounds
    BY <1>1
  <2>2. \A b \in Bounds : b \in Int
    BY PricingAssumption
  <2>. QED BY <2>1, <2>2
<1>3. s.min > t.max \/ t.min > s.max
  BY <1>2 DEF Overlap
<1>. QED BY <1>2, <1>3 DEF Held

\* Rows that stay as they were make no new overlap.
LEMMA FewerOverlaps ==
    ASSUME \A j \in Rows' : j \in Rows /\ tiers'[j] = tiers[j]
    PROVE  Overlaps' \subseteq Overlaps
BY DEF Overlaps

\* Of two saves of tiers, the last only makes an overlap if the other was
\* committed since its row was validated.
THEOREM OverlapsComeFromConcurrentSaves == PricingSpec => OverlapsAreConcurrent
<1>1. PricingInit => GridInv
  BY PriceInvInit DEF PriceInv, GridInv, FormsValid, PricingInit
<1>2. GridInv /\ [PricingNext]_pricingVars
        => \/ Overlaps' \subseteq Overlaps
           \/ \E f \in Forms : form[f].other /\ form'[f] = NoForm
  <2>. SUFFICES ASSUME GridInv, [PricingNext]_pricingVars,
                       ~\E f \in Forms : form[f].other /\ form'[f] = NoForm
                PROVE  Overlaps' \subseteq Overlaps
    OBVIOUS
  <2>1. ASSUME NEW f \in Forms, SaveTier(f) PROVE Overlaps' \subseteq Overlaps
    <3>. DEFINE id == form[f].id
                row == form[f].row
    <3>1. /\ form[f] # NoForm /\ form'[f] = NoForm
          /\ tiers' = [tiers EXCEPT ![id] = row]
      BY <2>1 DEF SaveTier
    <3>2. row \in Tier /\ id \in TierIds /\ \A j \in Rows \ {id} : ~Overlap(tiers[j], row)
      BY <3>1 DEF GridInv, FormsValid, Apart
    <3>. HIDE DEF id, row
    <3>3. \A j \in TierIds : tiers'[j] = IF j = id THEN row ELSE tiers[j]
      BY <3>1 DEF GridInv, PricingTypeOK
    <3>4. \A j \in Rows' \ {id} : j \in Rows /\ tiers'[j] = tiers[j]
      BY <3>3 DEF Rows
    <3>5. ASSUME NEW j \in Rows \ {id} PROVE Held(tiers[j]) \cap Held(row) = {}
      <4>1. tiers[j] \in Tier /\ ~Overlap(tiers[j], row)
        BY <3>2, RowsTyped DEF GridInv
      <4>. QED BY <3>2, <4>1, ApartHoldNothing
    <3>6. ASSUME NEW p \in Overlaps' PROVE p \in Overlaps
      <4>1. /\ p \in Rows' \X Rows' /\ p[1] # p[2]
            /\ Held(tiers'[p[1]]) \cap Held(tiers'[p[2]]) # {}
        BY DEF Overlaps, Held
      <4>2. p[1] # id /\ p[2] # id
        BY <3>2, <3>3, <3>4, <3>5, <4>1
      <4>3. p \in Rows \X Rows /\ tiers'[p[1]] = tiers[p[1]] /\ tiers'[p[2]] = tiers[p[2]]
        BY <3>4, <4>1, <4>2
      <4>. QED BY <4>1, <4>3 DEF Overlaps
    <3>. QED BY <3>6
  <2>2. ASSUME NEW i \in TierIds, DeleteTier(i) PROVE Overlaps' \subseteq Overlaps
    <3>1. tiers' = [tiers EXCEPT ![i] = NoTier]
      BY <2>2 DEF DeleteTier
    <3>2. \A j \in Rows' : j \in Rows /\ tiers'[j] = tiers[j]
      BY <3>1 DEF GridInv, PricingTypeOK, Rows
    <3>. QED BY <3>2, FewerOverlaps
  <2>3. CASE tiers' = tiers
    <3>1. \A j \in Rows' : j \in Rows /\ tiers'[j] = tiers[j]
      BY <2>3 DEF Rows
    <3>. QED BY <3>1, FewerOverlaps
  <2>. QED BY <2>1, <2>2, <2>3
         DEF PricingNext, ValidateTier, SetRate, Tick, Begin, LookUpAuto, ResolveFee, ConvertFee,
             ConvertAuto, Store, pricingVars
<1>3. PriceInv => PricingTypeOK
  BY DEF PriceInv
<1>. QED BY <1>1, <1>2, <1>3, PriceInvAlways, GridInvStep, PTL DEF PricingSpec, OverlapsAreConcurrent

=============================================================================
