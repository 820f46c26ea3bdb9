-------------------------------- MODULE Money --------------------------------
(***************************************************************************)
(* Fee arithmetic: integers in minor units, rates in basis points.         *)
(***************************************************************************)
EXTENDS Nullable

Whole == 10000
Down(product) == product \div Whole
Left(product) == product % Whole

\* Rounded half-up, with what rounding discarded, in ten-thousandths of a unit.
ComputeFee(base, terms) ==
    LET product == base * terms.bps
        up == 2 * Left(product) >= Whole
    IN  [amount |-> AtMost(terms.ceiling, AtLeast(terms.floor, Down(product) + (IF up THEN 1 ELSE 0) + terms.fixed)),
         remainder |-> IF up THEN Left(product) - Whole ELSE Left(product)]

\* A fee its counterparty bears moves what the counterparty experiences, one the project bears its balance.
Compose(direction, requested, fees, bearers) ==
    LET borne(by) == (IF bearers.processing = by THEN fees.processing ELSE 0) + (IF bearers.platform = by THEN fees.platform ELSE 0)
        sign == IF direction = "collection" THEN 1 ELSE -1
    IN  [counterparty |-> requested + sign * borne("counterparty"), project |-> requested - sign * borne("project")]

ProviderFee(amount, terms, rounding) ==
    IF rounding = "half_up" THEN ComputeFee(amount, terms).amount
    ELSE Down(amount * terms.bps) + (IF Left(amount * terms.bps) > 0 THEN 1 ELSE 0) + terms.fixed

Debit(amount, terms, rounding) == amount + ProviderFee(amount, terms, rounding)

\* Mutant: the fee of the whole debit is taken off it.
WithinOnce(target, terms, rounding) == target - ProviderFee(target, terms, rounding)

\* From the starting point down to an amount within the target, then up to the last one that is.
ProviderAmountWithin(target, terms, rounding) ==
    LET within(a) == Debit(a, terms, rounding) <= target
        down[a \in Int] == IF a > 0 /\ ~within(a) THEN down[a - 1] ELSE a
        up[a \in Int] == IF within(a + 1) THEN up[a + 1] ELSE a
    IN  up[down[((target - terms.fixed) * Whole) \div (Whole + terms.bps)]]

Delivered(sent, terms) == Down(sent * (Whole - terms.bps)) - terms.fixed

\* From the starting point up to an amount that delivers the target, then down to the first one that does.
ProviderAmountDelivering(target, terms) ==
    LET enough(s) == Delivered(s, terms) >= target
        start == -((-(target + terms.fixed) * Whole) \div (Whole - terms.bps))
        up[s \in Int] == IF enough(s) THEN s ELSE up[s + 1]
        down[s \in Int] == IF s > 1 /\ enough(s - 1) THEN down[s - 1] ELSE s
    IN  down[up[start]]
==============================================================================
