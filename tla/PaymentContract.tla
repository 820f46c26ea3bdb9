--------------------------- MODULE PaymentContract --------------------------
(***************************************************************************)
(* What the platform promises a project about its payments, without        *)
(* attempts, jobs, providers or processes: a payment is accepted once, its *)
(* money is in exactly one place that its status explains, an unclear      *)
(* outcome holds the money, and a conclusion is final.  TransactionLifecycle*)
(* implements it.                                                          *)
(***************************************************************************)
CONSTANTS Payments, Payouts

VARIABLES status, \* what the project is told of the payment
          funds   \* where the payment's money is

contractVars == <<status, funds>>

Status == {"absent", "open", "held", "succeeded", "failed"}
Funds == {"untouched", "reserved", "suspense", "paid_out", "credited"}

Init ==
    /\ status = [t \in Payments |-> "absent"]
    /\ funds = [t \in Payments |-> "untouched"]

\* Moves the payment to a status; only a payout's money waits for the outcome.
Become(t, from, to, payout, collection) ==
    /\ status[t] \in from
    /\ status' = [status EXCEPT ![t] = to]
    /\ funds' = [funds EXCEPT ![t] = IF t \in Payouts THEN payout ELSE collection]

Accept(t) == Become(t, {"absent"}, "open", "reserved", "untouched")

Hold(t) == Become(t, {"open"}, "held", "suspense", "untouched")

Succeed(t) == Become(t, {"open", "held"}, "succeeded", "paid_out", "credited")

Fail(t) == Become(t, {"open", "held"}, "failed", "untouched", "untouched")

Next == \E t \in Payments : Accept(t) \/ Hold(t) \/ Succeed(t) \/ Fail(t)

Spec == Init /\ [][Next]_contractVars
=============================================================================
