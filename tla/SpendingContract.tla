-------------------------- MODULE SpendingContract --------------------------
(***************************************************************************)
(* What confirming promises a project, without locks, floats or database   *)
(* transactions: a request is judged from when its offer was found open    *)
(* until it is accepted or turned down, and it is accepted at one instant  *)
(* at which everything its acceptance rests on is true.  What others do    *)
(* while it is judged, the window of its offer closing among them, neither *)
(* makes the answer wrong nor shows half done.  Confirmation implements it.*)
(***************************************************************************)
EXTENDS Integers, Functions

CONSTANTS
    Requests,
    Offer,      \* for each request the offer it accepts
    Project,    \* for each request who pays,
    Allowance,  \* what its amount counts against,
    Purpose,    \* what two requests for the same payment have in common
    Price,      \* and what it costs
    Limit,      \* for each allowance what may be spent on it
    Budget      \* what each project has at first

VARIABLES
    offer,      \* whether each offer is open, taken or closed
    judged,     \* requests being judged
    payment,    \* what became of each request
    balance     \* what each project has left

spendingVars == <<offer, judged, payment, balance>>

Spent(allowance) ==
    SumFunctionOnSet(Price, {q \in Requests : payment[q] \in {"open", "succeeded"} /\ Allowance[q] = allowance})

Init ==
    /\ offer = [p \in {Offer[r] : r \in Requests} |-> "open"]
    /\ judged = {}
    /\ payment = [r \in Requests |-> "absent"]
    /\ balance = Budget

Ask(r) ==
    /\ r \notin judged /\ offer[Offer[r]] = "open"
    /\ judged' = judged \cup {r}
    /\ UNCHANGED <<offer, payment, balance>>

TurnDown(r) ==
    /\ r \in judged
    /\ judged' = judged \ {r}
    /\ UNCHANGED <<offer, payment, balance>>

\* All that is looked at and all that changes, at once.
Accept(r) ==
    /\ r \in judged /\ offer[Offer[r]] # "taken"
    /\ \A q \in Requests : Purpose[q] = Purpose[r] => payment[q] # "open"
    /\ Spent(Allowance[r]) + Price[r] <= Limit[Allowance[r]]
    /\ Price[r] <= balance[Project[r]]
    /\ judged' = judged \ {r}
    /\ offer' = [offer EXCEPT ![Offer[r]] = "taken"]
    /\ payment' = [payment EXCEPT ![r] = "open"]
    /\ balance' = [balance EXCEPT ![Project[r]] = @ - Price[r]]

Succeed(r) ==
    /\ payment[r] = "open"
    /\ payment' = [payment EXCEPT ![r] = "succeeded"]
    /\ UNCHANGED <<offer, judged, balance>>

Fail(r) ==
    /\ payment[r] = "open"
    /\ payment' = [payment EXCEPT ![r] = "failed"]
    /\ balance' = [balance EXCEPT ![Project[r]] = @ + Price[r]]
    /\ UNCHANGED <<offer, judged>>

Close(p) ==
    /\ offer[p] = "open"
    /\ offer' = [offer EXCEPT ![p] = "closed"]
    /\ UNCHANGED <<judged, payment, balance>>

Next ==
    \/ \E r \in Requests : Ask(r) \/ TurnDown(r) \/ Accept(r) \/ Succeed(r) \/ Fail(r)
    \/ \E p \in DOMAIN offer : Close(p)

Spec == Init /\ [][Next]_spendingVars
=============================================================================
