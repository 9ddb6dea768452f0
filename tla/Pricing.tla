------------------------------ MODULE Pricing ------------------------------
(***************************************************************************)
(* The price of an operation (apps/pricing and _pricing of                 *)
(* apps/operations): the tariff grid, the exchange rates of one currency   *)
(* against the US dollar, and the calls that price an operation from them. *)
(*                                                                         *)
(* A call holds the ledger lock, so that there is one at a time.  The grid *)
(* and the rates are edited in the admin, which does not take that lock:   *)
(* they may change between two of the call's look-ups, each of which reads *)
(* what is committed by then.                                              *)
(*                                                                         *)
(* Amounts are in cents.  A rate is the value of a unit in dollars.        *)
(***************************************************************************)
EXTENDS Integers, FiniteSets

CONSTANTS
    Amounts,       \* amounts a form may submit, in the currency of the account
    Manual,        \* fees that may be submitted by hand, in dollars
    NoManual,      \* none was
    Rates,         \* values of rate_to_usd
    Bounds,        \* bounds of a tier, in dollars
    TierFees,      \* fees of a tier, in dollars
    Ceiling,       \* above it an administrator sets the fee (5000 USD)
    TierIds,       \* bound: rows of TariffTier
    NoTier,        \* a row that is not there
    Forms,         \* admin forms that save a tier at a time
    LastTime       \* bound: moments at which a rate may come into effect

ASSUME PricingAssumption ==
    /\ Amounts \subseteq Nat \ {0}
    /\ Manual \subseteq Nat
    /\ NoManual \notin Nat
    /\ Rates \subseteq Nat \ {0}
    /\ Bounds \subseteq Nat \ {0}
    /\ TierFees \subseteq Nat
    /\ Ceiling \in Nat
    /\ LastTime \in Nat

VARIABLES
    tiers,         \* TariffTier rows of the published grid
    form,          \* form[f]: the save of a tier that f has validated
    rates,         \* rates[t]: the rate that comes into effect at t, 0 if none does
    now,           \* the moment
    quote          \* the call that is pricing an operation

pricingVars == <<tiers, form, rates, now, quote>>

-----------------------------------------------------------------------------
(* Rows *)

Times == 0 .. LastTime

\* The constraints of the table: tier_max_gte_min.
Tier == {t \in [min : Bounds, max : Bounds, fee : TierFees] : t.min <= t.max}

Rows == {i \in TierIds : tiers[i] # NoTier}

\* other: another form was saved since this one was validated.
NoForm == [row |-> NoTier, id |-> NoTier, other |-> FALSE]

NoOp == [amount |-> 0, rate |-> 0, amount_usd |-> 0, fee_usd |-> 0, fee |-> 0, fee_auto |-> 0]

Op == [amount : Nat, rate : Nat, amount_usd : Nat, fee_usd : Nat, fee : Nat, fee_auto : Nat]
Quote ==
    [stage : {"idle", "auto", "resolve", "fee", "fee_auto", "store"}, op : Op,
     manual : Manual \cup {NoManual}, auto : Nat, rates : SUBSET Nat, fees : SUBSET Nat]

\* The fields of the operation as far as they are known, the fee set by hand,
\* the automatic fee, and the rates and the automatic fees that were in effect
\* at some time since the call began.
NoQuote ==
    [stage |-> "idle", op |-> NoOp, manual |-> NoManual, auto |-> 0, rates |-> {}, fees |-> {}]

-----------------------------------------------------------------------------
(* Look-ups *)

\* Fault: ranges that share an end are apart.
OverlapInside(s, t) == s.min < t.max /\ t.min < s.max

Overlap(s, t) == s.min <= t.max /\ t.min <= s.max

\* lookup_fee: the first of the tiers that hold the amount; which one of two
\* with the same minimum comes first is not determined.
FeesFor(rows, amount) ==
    LET holding == {rows[i] : i \in {j \in TierIds :
                       rows[j] # NoTier /\ rows[j].min <= amount /\ amount <= rows[j].max}}
        first == {t \in holding : \A s \in holding : t.min <= s.min}
    IN  IF holding = {} THEN {0} ELSE {t.fee : t \in first}

\* current_rate: the latest that has come into effect, 0 if none has.
RateAt(r, t) ==
    LET past == {s \in 0 .. t : r[s] # 0}
    IN  IF past = {} THEN 0 ELSE r[CHOOSE s \in past : \A u \in past : u <= s]

\* quantize(Decimal("0.01")) rounds half to even.
Quotient(n, d) ==
    LET q == n \div d
        r == n % d
    IN  IF 2 * r > d \/ (2 * r = d /\ q % 2 = 1) THEN q + 1 ELSE q

\* to_usd and from_usd, at a rate that was looked up
ToUsd(amount, rate) == amount * rate
FromUsd(amount_usd, rate) == Quotient(amount_usd, rate)

-----------------------------------------------------------------------------
(* Grid and rates, in the admin *)

\* The call under way could have seen what the step leaves behind.
Witness(q) ==
    IF q.stage = "idle" THEN q
    ELSE [q EXCEPT !.rates = @ \cup {RateAt(rates', now')},
                   !.fees = @ \cup FeesFor(tiers', q.op.amount_usd)]

\* TariffTier.full_clean and clean: i is a new row or an edited one.
ValidateTier(f, i, t) ==
    /\ form[f] = NoForm
    /\ tiers[i] = NoTier => \A g \in Forms : form[g].id # i
    /\ \A j \in Rows \ {i} : ~Overlap(tiers[j], t)
    /\ form' = [form EXCEPT ![f] = [row |-> t, id |-> i, other |-> FALSE]]
    /\ UNCHANGED <<tiers, rates, now, quote>>

\* Its transaction is committed.
SaveTier(f) ==
    /\ form[f] # NoForm
    /\ tiers' = [tiers EXCEPT ![form[f].id] = form[f].row]
    /\ form' = [g \in Forms |-> IF g = f \/ form[g] = NoForm THEN NoForm
                                ELSE [form[g] EXCEPT !.other = TRUE]]
    /\ UNCHANGED <<rates, now>>
    /\ quote' = Witness(quote)

DeleteTier(i) ==
    /\ i \in Rows
    /\ tiers' = [tiers EXCEPT ![i] = NoTier]
    /\ UNCHANGED <<form, rates, now>>
    /\ quote' = Witness(quote)

\* A rate is entered for a moment that has none, or edited or deleted.
SetRate(t, rate) ==
    /\ rates[t] # rate
    /\ rates' = [rates EXCEPT ![t] = rate]
    /\ UNCHANGED <<tiers, form, now>>
    /\ quote' = Witness(quote)

Tick ==
    /\ now < LastTime
    /\ now' = now + 1
    /\ UNCHANGED <<tiers, form, rates>>
    /\ quote' = Witness(quote)

-----------------------------------------------------------------------------
(* Pricing an operation *)

\* _pricing up to the look-up of the rate.  The fee of an amount above the
\* ceiling is set by an administrator.
Begin(admin, amount, manual) ==
    LET rate == RateAt(rates, now)
        amount_usd == ToUsd(amount, rate)
        above == amount_usd > Ceiling
    IN  /\ quote.stage = "idle"
        /\ rate # 0
        /\ above => admin /\ manual # NoManual /\ manual > 0
        /\ quote' = [stage |-> IF above THEN "fee" ELSE "auto",
                     op |-> [amount |-> amount, rate |-> rate, amount_usd |-> amount_usd,
                            fee_usd |-> IF above THEN manual ELSE 0, fee |-> 0, fee_auto |-> 0],
                     manual |-> manual, auto |-> 0,
                     rates |-> {rate}, fees |-> FeesFor(tiers, amount_usd)]
        /\ UNCHANGED <<tiers, form, rates, now>>

\* resolve_fee without a manual fee
LookUpAuto ==
    /\ quote.stage = "auto"
    /\ \E fee \in FeesFor(tiers, quote.op.amount_usd) :
          quote' = [quote EXCEPT !.stage = "resolve", !.auto = fee]
    /\ UNCHANGED <<tiers, form, rates, now>>

\* Fault: a manual fee is not compared.
ResolveAnyFee ==
    /\ quote.stage = "resolve"
    /\ \E fee \in FeesFor(tiers, quote.op.amount_usd) :
          quote' = [quote EXCEPT !.stage = "fee",
                                 !.op.fee_usd = IF quote.manual = NoManual THEN fee ELSE quote.manual]
    /\ UNCHANGED <<tiers, form, rates, now>>

\* resolve_fee once more: a manual fee may only be lower, or the call fails.
ResolveFee ==
    /\ quote.stage = "resolve"
    /\ \E fee \in FeesFor(tiers, quote.op.amount_usd) :
          quote' = IF quote.manual = NoManual
                   THEN [quote EXCEPT !.stage = "fee", !.op.fee_usd = fee]
                   ELSE IF quote.manual <= fee
                   THEN [quote EXCEPT !.stage = "fee", !.op.fee_usd = quote.manual]
                   ELSE NoQuote
    /\ UNCHANGED <<tiers, form, rates, now>>

\* from_usd of the fee, which looks the rate up again and fails without one
ConvertFee ==
    LET rate == RateAt(rates, now) IN
    /\ quote.stage = "fee"
    /\ quote' = IF rate = 0 THEN NoQuote
                ELSE [quote EXCEPT !.stage = "fee_auto", !.op.fee = FromUsd(quote.op.fee_usd, rate)]
    /\ UNCHANGED <<tiers, form, rates, now>>

\* from_usd of the automatic fee, which looks it up a third time
ConvertAuto ==
    LET rate == RateAt(rates, now) IN
    /\ quote.stage = "fee_auto"
    /\ quote' = IF rate = 0 THEN NoQuote
                ELSE [quote EXCEPT !.stage = "store", !.op.fee_auto = FromUsd(quote.auto, rate)]
    /\ UNCHANGED <<tiers, form, rates, now>>

\* The service stores the price with the operation, and the call ends.
Store ==
    /\ quote.stage = "store"
    /\ quote' = NoQuote
    /\ UNCHANGED <<tiers, form, rates, now>>

PricingInit ==
    /\ tiers = [i \in TierIds |-> NoTier]
    /\ form = [f \in Forms |-> NoForm]
    /\ rates = [t \in Times |-> 0]
    /\ now = 0
    /\ quote = NoQuote

PricingNext ==
    \/ \E f \in Forms : (\E i \in TierIds, t \in Tier : ValidateTier(f, i, t)) \/ SaveTier(f)
    \/ \E i \in TierIds : DeleteTier(i)
    \/ \E t \in Times, rate \in Rates \cup {0} : SetRate(t, rate)
    \/ Tick
    \/ \E admin \in BOOLEAN, amount \in Amounts, manual \in Manual \cup {NoManual} :
          Begin(admin, amount, manual)
    \/ LookUpAuto \/ ResolveFee \/ ConvertFee \/ ConvertAuto \/ Store

PricingSpec == PricingInit /\ [][PricingNext]_pricingVars

-----------------------------------------------------------------------------
(* Properties *)

\* Types: whatever the grid and the rates, what a call has made of them are
\* amounts.
PricingTypeOK ==
    /\ tiers \in [TierIds -> Tier \cup {NoTier}]
    /\ form \in [Forms -> [row : Tier \cup {NoTier}, id : TierIds \cup {NoTier}, other : BOOLEAN]]
    /\ rates \in [Times -> Rates \cup {0}]
    /\ now \in Times
    /\ quote \in Quote

Held(t) == t.min .. t.max
Overlaps == {p \in Rows \X Rows : p[1] # p[2] /\ Held(tiers[p[1]]) \cap Held(tiers[p[2]]) # {}}

\* Tiers are validated and saved without a lock (pricing/models.py:100-114),
\* so two of them may overlap; but the last of two saves only makes an overlap
\* if another save was committed since its row was validated.
OverlapsAreConcurrent ==
    [][Overlaps' \subseteq Overlaps
          \/ \E f \in Forms : form[f].other /\ form'[f] = NoForm]_pricingVars

\* However the grid and the rates change under a call (operations/services.py:
\* 57-76 looks each of them up more than once), the price it stores is made of
\* rates and of a fee that were in effect while it ran, and below the ceiling
\* nobody pays more than such a fee.
PricesExplained ==
    LET op == quote.op
        converted == {r \in quote.rates : r # 0}
    IN  quote.stage = "store" =>
          /\ op.rate \in quote.rates
          /\ \E r \in converted : op.fee = Quotient(op.fee_usd, r)
          /\ op.amount_usd <= Ceiling =>
                /\ \E fee \in quote.fees :
                      /\ op.fee_usd <= fee
                      /\ quote.manual = NoManual => op.fee_usd = fee
                /\ \E fee \in quote.fees, r \in converted : op.fee_auto = Quotient(fee, r)

=============================================================================
