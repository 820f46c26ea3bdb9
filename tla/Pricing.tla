------------------------------- MODULE Pricing -------------------------------
(***************************************************************************)
(* What a payment costs, from the preview to what the provider does.       *)
(*                                                                         *)
(* A route and a project's grant for it resolve to terms and limits; the   *)
(* preview freezes the figures; what a provider is sent is computed from   *)
(* those figures at submission, with the fee terms of the binding it goes  *)
(* to, which need not be the binding the preview quoted.                   *)
(***************************************************************************)
EXTENDS Money, Sequences, FiniteSets

CONSTANTS
    Offers,    \* a route with its bindings and a project's grant, as configured
    Amounts    \* amounts requested

Sides == {"counterparty", "project"}
FeeTerms == [bps : Nat, fixed : Nat, floor : Nat \cup {None}, ceiling : Nat \cup {None}]
OwnTerms == [bps : Nat \cup {None}, fixed : Nat \cup {None}]

\* What the store's checks admit: a binding's fee is a rate and a fixed part.
ASSUME PricingOK ==
    /\ Amounts \subseteq Nat
    /\ \A o \in Offers :
        /\ o.direction \in {"collection", "disbursement"}
        /\ o.gates \in [country : BOOLEAN, version : {"none", "inactive", "active"},
                         grant : {"none", "closed", "inactive", "active"}]
        /\ o.route.processing \in FeeTerms /\ o.route.platform \in FeeTerms
        /\ o.route.minimum \in Nat /\ o.route.maximum \in Nat
        /\ o.route.bearers \in [processing : Sides, platform : Sides]
        /\ o.grant.processing \in OwnTerms /\ o.grant.platform \in OwnTerms
        /\ o.grant.minimum \in Nat \cup {None} /\ o.grant.maximum \in Nat \cup {None}
        /\ o.grant.bearers \in [processing : Sides \cup {None}, platform : Sides \cup {None}]
        /\ \A b \in DOMAIN o.bindings :
            /\ o.bindings[b].fee \in FeeTerms /\ o.bindings[b].fee.floor = None /\ o.bindings[b].fee.ceiling = None
            /\ o.bindings[b].rounding \in {"ceil", "half_up"} /\ o.bindings[b].payout \in {"deducted", "added"}

VARIABLES
    offer,     \* the configuration that applies
    payment,   \* where the payment is: the figures quoted, what was sent and to which binding
    down       \* bindings whose account is suspended or whose breaker is open

pricingVars == <<offer, payment, down>>

Bindings == DOMAIN offer.bindings
Binding(b) == offer.bindings[b]
Direction == offer.direction

\* A grant with a rate of its own replaces the route's fee altogether, its floor and ceiling included.
ResolveTerms(route, grant) ==
    IF grant.bps = None THEN route
    ELSE [bps |-> grant.bps, fixed |-> Or(grant.fixed, 0), floor |-> None, ceiling |-> None]

\* A grant narrows the route's limits and never widens them.
ResolveLimits(route, grant) ==
    [minimum |-> AtLeast(grant.minimum, route.minimum), maximum |-> AtMost(grant.maximum, route.maximum)]

TermsOf(kind) == ResolveTerms(offer.route[kind], offer.grant[kind])
Limits == ResolveLimits(offer.route, offer.grant)
Bearer(kind) == Or(offer.grant.bearers[kind], offer.route.bearers[kind])

\* The four gates, in the order they refuse.
Gate ==
    CASE ~offer.gates.country -> "COUNTRY_DISABLED"
      [] offer.gates.version = "none" -> "ROUTE_UNAVAILABLE"
      [] offer.gates.version = "inactive" -> "ROUTE_DISABLED"
      [] offer.gates.grant = "none" -> "ENTITLEMENT_MISSING"
      [] offer.gates.grant \in {"closed", "inactive"} -> "ENTITLEMENT_DISABLED"
      [] OTHER -> "open"

\* What the project is shown it may do joins open versions of the grant and of the route.
ListedWhatever == offer.gates.version # "none" /\ offer.gates.grant \notin {"none", "closed"}

Listed == /\ offer.gates.version # "none" /\ offer.gates.grant \notin {"none", "closed"}
          /\ offer.gates.country /\ offer.gates.version = "active" /\ offer.gates.grant = "active"

Figures(requested) ==
    LET fee(kind) == ComputeFee(requested, TermsOf(kind)).amount
        fees == [processing |-> fee("processing"), platform |-> fee("platform")]
        c == Compose(Direction, requested, fees, [processing |-> Bearer("processing"), platform |-> Bearer("platform")])
    IN  [processing |-> fees.processing, platform |-> fees.platform,
         charged |-> IF Direction = "collection" THEN c.counterparty ELSE c.project,
         settled |-> IF Direction = "collection" THEN c.project ELSE c.counterparty]

CounterpartyAmount(figures) == IF Direction = "collection" THEN figures.charged ELSE figures.settled

Admits(b, amount) ==
    /\ Binding(b).minimum = None \/ amount >= Binding(b).minimum
    /\ Binding(b).maximum = None \/ amount <= Binding(b).maximum

AvailableBindings(counterparty) == {b \in Bindings \ down : Admits(b, counterparty)}

\* Mutant: the bindings' limits are held against what is asked for.
ClearsRequested(requested) == \E b \in Bindings \ down : Admits(b, requested)

\* A requested amount some provider takes.
Clears(requested) == \E b \in Bindings \ down : Admits(b, CounterpartyAmount(Figures(requested)))

\* The smallest amount above that clears, or the largest below.
ProviderLimitRefusal(requested) ==
    LET above == {r \in requested + 1 .. Limits.maximum : Clears(r)}
        below == {r \in Limits.minimum .. requested - 1 : Clears(r)}
    IN  IF Clears(requested) \/ (above = {} /\ below = {}) THEN None
        ELSE IF above # {} THEN CHOOSE r \in above : \A s \in above : r <= s
        ELSE CHOOSE r \in below : \A s \in below : s <= r

-----------------------------------------------------------------------------
PricingInit ==
    /\ offer \in Offers
    /\ \E r \in Amounts : payment = [stage |-> "asked", requested |-> r, figures |-> None, binding |-> None, sent |-> 0, does |-> 0]
    /\ down \in SUBSET DOMAIN offer.bindings

\* Without a binding that takes the amount the caller is told of one that would be taken, where limits
\* are the reason; otherwise the preview is made without a binding. The store refuses negative figures.
Preview ==
    LET r == payment.requested
        f == Figures(r)
    IN  /\ payment.stage = "asked"
        /\ payment' =
             IF Gate # "open" \/ r < Limits.minimum \/ r > Limits.maximum THEN [payment EXCEPT !.stage = "refused"]
             ELSE IF AvailableBindings(CounterpartyAmount(f)) = {} /\ ProviderLimitRefusal(r) # None
                  THEN [payment EXCEPT !.stage = "told", !.sent = ProviderLimitRefusal(r)]
             ELSE IF f.charged < 0 \/ f.settled < 0 THEN [payment EXCEPT !.stage = "refused"]
             ELSE [payment EXCEPT !.stage = "quoted", !.figures = f]
        /\ UNCHANGED <<offer, down>>

\* What a provider is sent, by the way it charges its fee.
AmountToSend(b, figures) ==
    IF Direction = "collection" THEN ProviderAmountWithin(figures.charged, Binding(b).fee, Binding(b).rounding)
    ELSE IF Binding(b).payout = "deducted" THEN ProviderAmountDelivering(figures.settled, Binding(b).fee)
    ELSE figures.settled

\* What the counterparty experiences when the provider charges what its terms say.
Experience(b, sent) ==
    IF Direction = "collection" THEN Debit(sent, Binding(b).fee, Binding(b).rounding)
    ELSE IF Binding(b).payout = "deducted" THEN Delivered(sent, Binding(b).fee)
    ELSE sent

\* Of an amount from which a provider deducts all it can deliver nothing.
TakesWhole(b) == Direction = "disbursement" /\ Binding(b).payout = "deducted" /\ Binding(b).fee.bps >= Whole

\* A provider whose fee takes the whole quote raises an error before anything is sent.
SubmitTo(b) ==
    LET sent == AmountToSend(b, payment.figures)
    IN  /\ payment.stage = "quoted"
        /\ b \in AvailableBindings(CounterpartyAmount(payment.figures))
        /\ payment' = IF TakesWhole(b) \/ (Direction = "collection" /\ sent <= 0) THEN [payment EXCEPT !.stage = "failed"]
                      ELSE [payment EXCEPT !.stage = "sent", !.binding = b, !.sent = sent, !.does = Experience(b, sent)]
        /\ UNCHANGED <<offer, down>>

\* Accounts are suspended and restored, breakers open and close.
ProviderMoves(b) ==
    /\ payment.stage = "quoted"
    /\ down' = IF b \in down THEN down \ {b} ELSE down \cup {b}
    /\ UNCHANGED <<offer, payment>>

PricingNext == Preview \/ \E b \in Bindings : SubmitTo(b) \/ ProviderMoves(b)

PricingSpec == PricingInit /\ [][PricingNext]_pricingVars

-----------------------------------------------------------------------------
\* Every variable has its type.
PricingTypeOK ==
    /\ payment.stage \in {"asked", "refused", "told", "quoted", "sent", "failed"}
    /\ payment.requested \in Amounts /\ payment.sent \in Int
    /\ down \subseteq Bindings

\* Whichever binding it goes to, the payer is never debited more than quoted and at most one unit less,
\* the recipient receives what was promised, and what one side gives is what the other receives and
\* the fees; a provider's rounding is the platform's to bear (money.ts).
QuoteKept ==
    payment.stage \in {"quoted", "sent"} =>
        LET f == payment.figures
        IN  /\ f.charged = f.settled + f.processing + f.platform
            /\ payment.stage = "sent" /\ Direction = "collection" => payment.does \in {f.charged - 1, f.charged}
            /\ payment.stage = "sent" /\ Direction = "disbursement" => payment.does = f.settled

\* "the refusal names a figure the caller can use": a preview of that amount finds a binding.
RefusalIsUsable ==
    payment.stage = "told" =>
        /\ payment.sent \in Limits.minimum .. Limits.maximum
        /\ AvailableBindings(CounterpartyAmount(Figures(payment.sent))) # {}

\* What a project is shown it may do is what the gates let through, though each is computed by itself.
ListedIsPayable == Listed <=> Gate = "open"
==============================================================================
