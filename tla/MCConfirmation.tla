--------------------------- MODULE MCConfirmation ---------------------------
(***************************************************************************)
(* Instances of what a payment goes through before it is one: its price,   *)
(* its preview and its confirmation.  A behaviour plays one scene; the     *)
(* confirmations of the other scenes are at their start.                   *)
(***************************************************************************)
EXTENDS Confirmation, Pricing, PreviewReferences, TLC

CONSTANTS r1, r2, r3, r4, r5, t1, p1, p2, p3, p4, A, B, x, y, f1, f2, m1, m2, c1, c2, c3, e1, e2, i1, i2

VARIABLE scene

Offer(name, project, route, amount, payer, order) ==
    [preview |-> name, project |-> project, route |-> route, amount |-> amount, payer |-> payer,
     order |-> order]

\* A project confirms p1 twice, p2 which is the same payment again, and p3 to another payer, on a
\* route whose cap admits two of the three; p4 goes by another route, under a lock of its own, prefers
\* the other float, and takes what the first route may need.  p2 and p3 find one provider available.
TwoRoutes ==
    r1 :> Offer(p1, A, x, 1, m1, <<f1, f2>>) @@ r2 :> Offer(p1, A, x, 1, m1, <<f1, f2>>)
    @@ r3 :> Offer(p2, A, x, 1, m1, <<f1>>) @@ r4 :> Offer(p3, A, x, 1, m2, <<f2>>)
    @@ r5 :> Offer(p4, A, y, 2, m1, <<f2, f1>>)
SameOffer == Permutations({r1, r2})
TwoFunds == A :> 3 @@ B :> 2
TwoFloats == f1 :> 2 @@ f2 :> 2
TwoTransfers == t1 :> [source |-> f1, destination |-> f2, amount |-> 2, fee |-> 1]
TwoCaps == <<A, x>> :> 2 @@ <<A, y>> :> 2 @@ <<B, x>> :> 2

\* Two projects that pay from one float.
OneFloatQuotes == r1 :> Offer(p1, A, x, 2, m1, <<f1>>) @@ r2 :> Offer(p2, B, x, 2, m2, <<f1>>)
OneFloat == f1 :> 3
NoTransfers == [t \in {} |-> t]

-----------------------------------------------------------------------------
(***************************************************************************)
(* Prices: either side bears either fee, the grant's own fee or the        *)
(* route's, on a route three providers take to different limits and with   *)
(* different fees and roundings, one with a fee as large as the amount;    *)
(* and every combination of the gates.                                     *)
(***************************************************************************)
Fee(bps, fixed, floor, ceiling) == [bps |-> bps, fixed |-> fixed, floor |-> floor, ceiling |-> ceiling]
NoFee == Fee(0, 0, None, None)
Own(bps) == [bps |-> bps, fixed |-> IF bps = None THEN None ELSE 0]
Bound(fee, minimum, maximum, rounding, payout) ==
    [fee |-> fee, minimum |-> minimum, maximum |-> maximum, rounding |-> rounding, payout |-> payout]
ThreeBindings ==
    << Bound(Fee(200, 0, None, None), 30, None, "ceil", "deducted"),
       Bound(Fee(3000, 1, None, None), None, 50, "half_up", "added"),
       Bound(Fee(10000, 0, None, None), 45, 55, "half_up", "deducted") >>
Gates(country, version, granted) == [country |-> country, version |-> version, grant |-> granted]
Priced(direction, gates, processing, platform, processingBearer, platformBearer, grantBps) ==
    [direction |-> direction, gates |-> gates,
     route |-> [processing |-> processing, platform |-> platform, minimum |-> 5, maximum |-> 60,
                bearers |-> [processing |-> processingBearer, platform |-> platformBearer]],
     grant |-> [processing |-> Own(grantBps), platform |-> Own(None), minimum |-> 10, maximum |-> None,
                bearers |-> [processing |-> None, platform |-> None]],
     bindings |-> ThreeBindings]
MCOffers ==
    {Priced(d, Gates(TRUE, "active", "active"), Fee(250, 1, 2, 3), Fee(100, 0, None, None), s, t, g) :
        d \in {"collection", "disbursement"}, s \in Sides, t \in Sides, g \in {None, 1000}}
    \cup {Priced("collection", Gates(c, v, g), NoFee, NoFee, "project", "project", None) :
        c \in BOOLEAN, v \in {"none", "inactive", "active"}, g \in {"none", "closed", "inactive", "active"}}

-----------------------------------------------------------------------------
NoPricing == offer = None /\ payment = None /\ down = None
\* Calls that have asked and are not answered.
NoReferences ==
    /\ caller = [c \in Callers |-> [stage |-> "asking", reference |-> e1, intent |-> i1, answer |-> None]]
    /\ offered = [c \in Callers |-> NotOffered] /\ payments = [c \in Callers |-> "none"] /\ payerAlerts = {}

SceneInit ==
    /\ scene \in {"confirmations", "prices", "references"}
    /\ Init
    /\ IF scene = "prices" THEN PricingInit ELSE NoPricing
    /\ IF scene = "references" THEN ReferencesInit ELSE NoReferences
SceneNext ==
    /\ UNCHANGED scene
    /\ IF scene = "confirmations" THEN Next ELSE UNCHANGED vars
    /\ IF scene = "prices" THEN PricingNext ELSE UNCHANGED pricingVars
    /\ IF scene = "references" THEN ReferencesNext ELSE UNCHANGED referenceVars
SceneSpec == SceneInit /\ [][SceneNext]_<<scene, vars, pricingVars, referenceVars>>

-----------------------------------------------------------------------------
\* Whichever provider a payment goes to, both sides get what they were quoted; a project that is told
\* of another amount can pay it, and what it is shown it may do it may (money.ts, preview.service.ts,
\* route-resolver.ts).
PaidAsQuoted == scene = "prices" => PricingTypeOK /\ QuoteKept /\ RefusalIsUsable /\ ListedIsPayable
=============================================================================
