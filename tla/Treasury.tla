------------------------------- MODULE Treasury -------------------------------
(***************************************************************************)
(* The float of one provider account in one currency beside the provider's *)
(* own wallets: payments that draw on it, transfers between its wallets,   *)
(* cash-outs and the approvals they need, fundings, adjustments, and the   *)
(* worker that watches cover, drift and pending transfers.                 *)
(*                                                                         *)
(* A cash-out and a confirmation by balances are two steps, what they read *)
(* and what they commit; every other handler is one transaction.  Approvals*)
(* are decided as ApprovalService.decide does once it is reached.          *)
(***************************************************************************)
EXTENDS LedgerRecipes, FiniteSetsExt

CONSTANTS
    Collecting,        \* the float of the provider's collection wallet, paired with the others
    Payments,          \* for each payment its direction, float and fees
    Transfers,         \* for each transfer an administrator may register its wallets, amount and fee
    Cashouts,          \* for each cash-out its float and amount
    Fundings,          \* for each funding its float, None for the project's own balance, and amount
    Adjustments,       \* for each adjustment its postings
    Overrides,         \* cover amounts an administrator may set on a float
    Admins,
    InitialBooks,
    CashoutThreshold, AdjustmentThreshold, \* above these a second person approves
    TargetHours, MinimumHours,             \* hours of cover
    MaxOperations      \* bound: operations of administrators

Sides == {"debit", "credit"}
Bearers == {"counterparty", "project"}
FeesOf == [requested : Nat \ {0}, processing : Nat, platform : Nat, processingBearer : Bearers,
           platformBearer : Bearers, provider : Nat, debit : Nat \cup {None}]

\* What the console's schemas and the store's checks admit: no payment settles less than nothing; the
\* floats hold money and nothing was cashed out before.
ASSUME TreasuryOK ==
    /\ Collecting \in Floats /\ None \notin Floats \cup Admins \cup DOMAIN Cashouts
    /\ IsFiniteSet(DOMAIN Payments) /\ IsFiniteSet(DOMAIN Transfers) /\ IsFiniteSet(DOMAIN Cashouts)
    /\ IsFiniteSet(DOMAIN Adjustments)
    /\ \A p \in DOMAIN Payments :
           /\ Payments[p].direction \in {"collection", "disbursement"}
           /\ Payments[p].float \in Floats /\ Payments[p].fees \in FeesOf
           /\ Payments[p].fees.requested >=
                  IF Payments[p].direction = "disbursement" THEN X(Payments[p].fees) ELSE Y(Payments[p].fees)
    /\ \A t \in DOMAIN Transfers : /\ Transfers[t].source \in Floats /\ Transfers[t].destination \in Floats
                                   /\ Transfers[t].amount \in Nat \ {0} /\ Transfers[t].fee \in Nat
    /\ \A c \in DOMAIN Cashouts : Cashouts[c].float \in Floats /\ Cashouts[c].amount \in Nat \ {0}
    /\ \A n \in DOMAIN Fundings : Fundings[n].float \in Floats \cup {None} /\ Fundings[n].amount \in Nat \ {0}
    /\ \A j \in DOMAIN Adjustments : Adjustments[j] \in Seq([account : Accounts, side : Sides, amount : Nat \ {0}])
    /\ Overrides \subseteq Nat /\ TargetHours \in Nat /\ MinimumHours \in Nat
    /\ CashoutThreshold \in Nat /\ AdjustmentThreshold \in Nat /\ MaxOperations \in Nat
    /\ InitialBooks \in [Accounts -> Int] /\ InitialBooks["settlement"] = 0
    /\ \A f \in Floats : InitialBooks[f] >= 0
    /\ TotalOf(InitialBooks, "debit") = TotalOf(InitialBooks, "credit")

VARIABLES
    books,     \* balance of every account
    wallet,    \* what the provider's wallets hold
    payment,   \* state of each payment, and whether its money moved at the provider
    transfer,  \* status of each transfer, and whether its money moved
    cashout,   \* status of each cash-out, who initiated and who approved it
    approval,  \* status of the approval each cash-out or adjustment needed, and who decided
    funded,    \* fundings recorded
    adjusted,  \* adjustments posted
    override,  \* cover amount set on a float, None when its hours of cover count
    open,      \* fingerprints with an open alert
    desk,      \* what each administrator's cash-out read, and the float it locks
    seen,      \* pending transfers and wallets their confirmation read, None outside it
    operations,
    late       \* history: floats drawn on without a look at their liquidity

treasuryVars == <<books, wallet, payment, transfer, cashout, approval, funded, adjusted, override,
                  open, desk, seen, operations, late>>

PaymentStates == {"none", "submitted", "undetermined", "succeeded", "failed"}
OpenPayment == {"submitted", "undetermined"}

NotDecided == [status |-> "none", by |-> None, decided |-> None]
Subjects == {<<"cashout", c>> : c \in DOMAIN Cashouts} \cup {<<"adjustment", j>> : j \in DOMAIN Adjustments}

TreasuryInit ==
    /\ books = InitialBooks
    /\ wallet = [f \in Floats |-> InitialBooks[f]]
    /\ payment = [p \in DOMAIN Payments |-> [state |-> "none", moved |-> FALSE]]
    /\ transfer = [t \in DOMAIN Transfers |-> [status |-> "none", moved |-> FALSE]]
    /\ cashout = [c \in DOMAIN Cashouts |-> [status |-> "none", by |-> None, approver |-> None]]
    /\ approval = [s \in Subjects |-> NotDecided]
    /\ funded = {} /\ adjusted = {}
    /\ override = [f \in Floats |-> None]
    /\ open = {}
    /\ desk = [a \in Admins |-> None]
    /\ seen = None
    /\ operations = 0
    /\ late = {}

-----------------------------------------------------------------------------
(* What treasury reads.                                                    *)

Outgoing(p) == Payments[p].direction = "disbursement"
Fees(p) == Payments[p].fees
ProviderTakes(p) == Fees(p).requested - X(Fees(p)) + Fees(p).provider

DrawnOn(f, states) == {p \in DOMAIN Payments :
    Outgoing(p) /\ Payments[p].float = f /\ payment[p].state \in states}

OpenDisbursements(f) == SumFunction([p \in DrawnOn(f, OpenPayment) |-> ProviderTakes(p)])

FreeLiquidity(f) == books[f] - OpenDisbursements(f)

CeilDiv(n, d) == (n + d - 1) \div d

\* The day's volume per hour; the model knows one day.
OutflowPerHour(f) ==
    IF f = Collecting THEN 0
    ELSE CeilDiv(SumFunction([p \in DrawnOn(f, {"succeeded"}) |-> ProviderTakes(p)]), 24)

Band(f) ==
    LET outflow == OutflowPerHour(f)
    IN  IF override[f] # None THEN IF FreeLiquidity(f) < override[f] THEN "critical" ELSE "healthy"
        ELSE IF f = Collecting \/ outflow = 0 THEN "healthy"
        ELSE IF FreeLiquidity(f) \div outflow < MinimumHours THEN "critical"
        ELSE IF FreeLiquidity(f) \div outflow < TargetHours THEN "watch" ELSE "healthy"

AboveZero(n) == IF n > 0 THEN n ELSE 0

CoverReserve(f) == IF override[f] # None THEN override[f] ELSE OutflowPerHour(f) * TargetHours

\* What a cash-out may take: what the float of the currency exceeds its obligations by, and what the
\* wallet exceeds its reserve by, a collection wallet also restoring the one it is paired with.
Restore(f) ==
    IF f = Collecting
    THEN SumFunction([g \in Floats \ {f} |-> AboveZero(CoverReserve(g) - FreeLiquidity(g))])
    ELSE 0
Solvency == AboveZero(FloatTotal(books) - Encumbered(books))
Liquidity(f) == AboveZero(AboveZero(FreeLiquidity(f) - CoverReserve(f)) - Restore(f))
Withdrawable(f) == IF Solvency < Liquidity(f) THEN Solvency ELSE Liquidity(f)

\* Mutant: nobody locks a float.
NeverLocked(f) == FALSE

Locked(f) == \E a \in Admins : desk[a] # None /\ Cashouts[desk[a]].float = f

\* A ratio is rounded to three decimals before it is compared with one.
RatioBelowOne(float, encumbered) ==
    encumbered > 0 /\ (2000 * float + encumbered) \div (2 * encumbered) < 1000

-----------------------------------------------------------------------------
(* Payments.                                                               *)

PostEntry(postings) == Written(postings) /\ books' = Posted(books, postings)

\* The confirmation of a disbursement: the reservation is the solvency check, then its float is locked
\* and must have the amount free.
ConfirmDisbursement(p) ==
    /\ Outgoing(p) /\ payment[p].state = "none"
    /\ ~Locked(Payments[p].float)
    /\ books["available"] >= Carried(Fees(p))
    /\ FreeLiquidity(Payments[p].float) >= ProviderTakes(p)
    /\ PostEntry(Reservation(Fees(p)))
    /\ payment' = [payment EXCEPT ![p].state = "submitted"]
    /\ UNCHANGED <<wallet, transfer, cashout, approval, funded, adjusted, override, open, desk, seen,
                   operations, late>>

StartCollection(p) ==
    /\ ~Outgoing(p) /\ payment[p].state = "none"
    /\ payment' = [payment EXCEPT ![p].state = "submitted"]
    /\ UNCHANGED <<books, wallet, transfer, cashout, approval, funded, adjusted, override, open, desk,
                   seen, operations, late>>

\* The provider moves the money of a payment before the platform hears of it.
ProviderPays(p) ==
    /\ payment[p].state \in OpenPayment /\ ~payment[p].moved
    /\ payment' = [payment EXCEPT ![p].moved = TRUE]
    /\ wallet' = [wallet EXCEPT ![Payments[p].float] =
            @ + IF Outgoing(p) THEN -ProviderTakes(p) ELSE Debited(Fees(p)) - Fees(p).provider]
    /\ UNCHANGED <<books, transfer, cashout, approval, funded, adjusted, override, open, desk, seen,
                   operations, late>>

SourceOf(p) == IF payment[p].state = "undetermined" THEN "suspense" ELSE "reserved"

PaymentSucceeds(p) ==
    /\ payment[p].moved /\ payment[p].state \in OpenPayment
    /\ Outgoing(p) \/ Collectable(Fees(p))
    /\ PostEntry(IF Outgoing(p) THEN Settlement(SourceOf(p), Payments[p].float, Fees(p))
                 ELSE Collection(Payments[p].float, Fees(p)))
    /\ payment' = [payment EXCEPT ![p].state = "succeeded"]
    /\ UNCHANGED <<wallet, transfer, cashout, approval, funded, adjusted, override, open, desk, seen,
                   operations, late>>

PaymentFails(p) ==
    /\ ~payment[p].moved /\ payment[p].state \in OpenPayment
    /\ IF Outgoing(p) THEN PostEntry(Release(SourceOf(p), Fees(p))) ELSE UNCHANGED books
    /\ payment' = [payment EXCEPT ![p].state = "failed"]
    /\ UNCHANGED <<wallet, transfer, cashout, approval, funded, adjusted, override, open, desk, seen,
                   operations, late>>

PaymentUndetermined(p) ==
    /\ payment[p].state = "submitted"
    /\ IF Outgoing(p) THEN PostEntry(Suspension(Fees(p))) ELSE UNCHANGED books
    /\ payment' = [payment EXCEPT ![p].state = "undetermined"]
    /\ UNCHANGED <<wallet, transfer, cashout, approval, funded, adjusted, override, open, desk, seen,
                   operations, late>>

-----------------------------------------------------------------------------
(* Transfers between wallets.                                              *)

Operate == operations < MaxOperations /\ operations' = operations + 1

TransferEntry(t) ==
    FloatTransfer(Transfers[t].source, Transfers[t].destination, Transfers[t].amount, Transfers[t].fee)

\* The money may have moved in the provider's console before, or after.
RegisterFloatTransfer(t) ==
    /\ transfer[t].status = "none" /\ Operate
    /\ Transfers[t].source # Transfers[t].destination
    /\ ~Locked(Transfers[t].source)
    /\ FreeLiquidity(Transfers[t].source) >= Transfers[t].amount
    /\ PostEntry(TransferEntry(t))
    /\ transfer' = [transfer EXCEPT ![t].status = "pending"]
    /\ UNCHANGED <<wallet, payment, cashout, approval, funded, adjusted, override, open, desk, seen, late>>

\* What a transfer moves into a wallet, and out of it.
MovedBy(f, t) ==
    (IF f = Transfers[t].destination THEN Transfers[t].amount - Transfers[t].fee ELSE 0)
    - (IF f = Transfers[t].source THEN Transfers[t].amount ELSE 0)

ProviderTransfers(t) ==
    /\ ~transfer[t].moved
    /\ transfer' = [transfer EXCEPT ![t].moved = TRUE]
    /\ wallet' = [f \in Floats |-> wallet[f] + MovedBy(f, t)]
    /\ UNCHANGED <<books, payment, cashout, approval, funded, adjusted, override, open, desk, seen,
                   operations, late>>

Pending == {t \in DOMAIN Transfers : transfer[t].status = "pending"}
InFlight == \E p \in DOMAIN Payments : payment[p].state = "submitted"

\* A payment in flight puts the comparison off.
ReadWallets ==
    /\ seen = None /\ Pending # {} /\ ~InFlight
    /\ seen' = [transfers |-> Pending, wallet |-> wallet]
    /\ UNCHANGED <<books, wallet, payment, transfer, cashout, approval, funded, adjusted, override, open,
                   desk, operations, late>>

\* Every transfer between two wallets that read what the ledger now holds is confirmed, if it is
\* pending still.
ConfirmPendingTransfers ==
    /\ seen # None
    /\ LET agree(f) == books[f] = seen.wallet[f]
           agreed == {t \in seen.transfers : /\ transfer[t].status = "pending"
                                             /\ agree(Transfers[t].source) /\ agree(Transfers[t].destination)}
       IN  /\ transfer' = [t \in DOMAIN Transfers |->
                  IF t \in agreed THEN [transfer[t] EXCEPT !.status = "confirmed"] ELSE transfer[t]]
           /\ open' = open \ {<<"unconfirmed_transfer", t>> : t \in agreed}
    /\ seen' = None
    /\ UNCHANGED <<books, wallet, payment, cashout, approval, funded, adjusted, override, desk, operations, late>>

-----------------------------------------------------------------------------
(* Cash-outs and approvals.                                                *)

BeginCashout(a, c) ==
    /\ desk[a] = None /\ cashout[c].status = "none" /\ Operate
    /\ ~\E b \in Admins : desk[b] = c
    /\ ~Locked(Cashouts[c].float)
    /\ Cashouts[c].amount <= Withdrawable(Cashouts[c].float)
    /\ desk' = [desk EXCEPT ![a] = c]
    /\ UNCHANGED <<books, wallet, payment, transfer, cashout, approval, funded, adjusted, override, open,
                   seen, late>>

\* Above the threshold the cash-out waits for another person, below it it is posted at once.
CommitCashout(a) ==
    LET c == desk[a]
        entry == CashoutEntry(Cashouts[c].float, Cashouts[c].amount)
    IN  /\ c # None
        /\ IF Cashouts[c].amount > CashoutThreshold
           THEN /\ cashout' = [cashout EXCEPT ![c] = [status |-> "pending_approval", by |-> a, approver |-> None]]
                /\ approval' = [approval EXCEPT ![<<"cashout", c>>] = [status |-> "pending", by |-> a, decided |-> None]]
                /\ open' = open \cup {<<"approval", <<"cashout", c>>>>}
                /\ UNCHANGED books
           ELSE /\ PostEntry(entry)
                /\ cashout' = [cashout EXCEPT ![c] = [status |-> "confirmed", by |-> a, approver |-> None]]
                /\ UNCHANGED <<approval, open>>
        /\ desk' = [desk EXCEPT ![a] = None]
        /\ UNCHANGED <<wallet, payment, transfer, funded, adjusted, override, seen, operations, late>>

\* executeCashout: posted without another look at what may be withdrawn.
ExecuteCashout(c, approver) ==
    /\ approver # cashout[c].by
    /\ IF cashout[c].status = "confirmed"
       THEN UNCHANGED <<books, cashout, late>>
       ELSE /\ PostEntry(CashoutEntry(Cashouts[c].float, Cashouts[c].amount))
            /\ cashout' = [cashout EXCEPT ![c] = [status |-> "confirmed", by |-> @.by, approver |-> approver]]
            /\ late' = late \cup {Cashouts[c].float}

Decidable(s, a) == approval[s].status = "pending" /\ approval[s].by # a

\* Mutant: a declined request is executed as well.
DecideAndExecute(s, a, decision) ==
    /\ Decidable(s, a) /\ s[1] = "cashout"
    /\ ExecuteCashout(s[2], a)
    /\ approval' = [approval EXCEPT ![s] = [status |-> decision, by |-> @.by, decided |-> a]]
    /\ open' = open \ {<<"approval", s>>}
    /\ UNCHANGED <<wallet, payment, transfer, funded, adjusted, override, desk, seen, operations>>

PostAdjustment(j) ==
    /\ PostEntry(Adjustments[j])
    /\ adjusted' = adjusted \cup {j}
    /\ late' = late \cup {f \in Floats : \E i \in DOMAIN Adjustments[j] : Adjustments[j][i].account = f}

\* Declining leaves a cash-out pending approval for good.
DecideApproval(s, a, decision) ==
    /\ Decidable(s, a)
    /\ IF decision = "declined" THEN UNCHANGED <<books, cashout, adjusted, late>>
       ELSE IF s[1] = "cashout" THEN ExecuteCashout(s[2], a) /\ UNCHANGED adjusted
       ELSE PostAdjustment(s[2]) /\ UNCHANGED cashout
    /\ approval' = [approval EXCEPT ![s] = [status |-> decision, by |-> @.by, decided |-> a]]
    /\ open' = open \ {<<"approval", s>>}
    /\ UNCHANGED <<wallet, payment, transfer, funded, override, desk, seen, operations>>

-----------------------------------------------------------------------------
(* Fundings, adjustments and cover.                                        *)

RecordFunding(n) ==
    /\ n \notin funded /\ Operate
    /\ PostEntry(IF Fundings[n].float # None THEN FloatFunding(Fundings[n].float, Fundings[n].amount)
                 ELSE ProjectFunding(Fundings[n].amount))
    /\ funded' = funded \cup {n}
    /\ wallet' = [f \in Floats |-> wallet[f] + IF f = Fundings[n].float THEN Fundings[n].amount ELSE 0]
    /\ UNCHANGED <<payment, transfer, cashout, approval, adjusted, override, open, desk, seen, late>>

Magnitude(j) == Max({Adjustments[j][i].amount : i \in DOMAIN Adjustments[j]})

RequestAdjustment(j, a) ==
    /\ j \notin adjusted /\ approval[<<"adjustment", j>>].status = "none" /\ Operate
    /\ IF Magnitude(j) > AdjustmentThreshold
       THEN /\ approval' = [approval EXCEPT ![<<"adjustment", j>>] = [status |-> "pending", by |-> a, decided |-> None]]
            /\ open' = open \cup {<<"approval", <<"adjustment", j>>>>}
            /\ UNCHANGED <<books, adjusted, late>>
       ELSE PostAdjustment(j) /\ UNCHANGED <<approval, open>>
    /\ UNCHANGED <<wallet, payment, transfer, cashout, funded, override, desk, seen>>

SetThreshold(f, amount) ==
    /\ override[f] # amount /\ Operate
    /\ override' = [override EXCEPT ![f] = amount]
    /\ UNCHANGED <<books, wallet, payment, transfer, cashout, approval, funded, adjusted, open, desk, seen, late>>

CoverAlerts ==
    {<<"float_cover", f>> : f \in {g \in Floats : Band(g) # "healthy"}}
    \cup IF RatioBelowOne(FloatTotal(books), Encumbered(books)) THEN {<<"coverage_ratio">>} ELSE {}

\* Mutant: an alert that no longer holds stays open.
EvaluateCoverRaising ==
    /\ open' = open \cup CoverAlerts
    /\ UNCHANGED <<books, wallet, payment, transfer, cashout, approval, funded, adjusted, override, desk,
                   seen, operations, late>>

EvaluateCover ==
    /\ open' = {o \in open : o[1] \notin {"float_cover", "coverage_ratio"}} \cup CoverAlerts
    /\ UNCHANGED <<books, wallet, payment, transfer, cashout, approval, funded, adjusted, override, desk,
                   seen, operations, late>>

DriftAlerts == {<<"float_drift", f>> : f \in {g \in Floats : books[g] # wallet[g]}}

CheckFloatDrift ==
    /\ ~InFlight
    /\ open' = {o \in open : o[1] # "float_drift"} \cup DriftAlerts
    /\ UNCHANGED <<books, wallet, payment, transfer, cashout, approval, funded, adjusted, override, desk,
                   seen, operations, late>>

-----------------------------------------------------------------------------
PaymentSteps ==
    \E p \in DOMAIN Payments :
        \/ ConfirmDisbursement(p) \/ StartCollection(p) \/ ProviderPays(p)
        \/ PaymentSucceeds(p) \/ PaymentFails(p) \/ PaymentUndetermined(p)

OperatorSteps ==
    \/ \E t \in DOMAIN Transfers : RegisterFloatTransfer(t)
    \/ \E a \in Admins : CommitCashout(a) \/ \E c \in DOMAIN Cashouts : BeginCashout(a, c)
    \/ \E a \in Admins, s \in Subjects, decision \in {"approved", "declined"} : DecideApproval(s, a, decision)
    \/ \E n \in DOMAIN Fundings : RecordFunding(n)
    \/ \E a \in Admins, j \in DOMAIN Adjustments : RequestAdjustment(j, a)
    \/ \E f \in Floats, amount \in Overrides : SetThreshold(f, amount)

TreasuryWorker == ReadWallets \/ ConfirmPendingTransfers \/ EvaluateCover \/ CheckFloatDrift

TreasuryNext ==
    \/ PaymentSteps \/ OperatorSteps \/ TreasuryWorker
    \/ \E t \in DOMAIN Transfers : ProviderTransfers(t)

\* The worker's recurring jobs run for ever.
TreasuryFairness ==
    WF_treasuryVars(EvaluateCover) /\ WF_treasuryVars(CheckFloatDrift)

TreasurySpec == TreasuryInit /\ [][TreasuryNext]_treasuryVars /\ TreasuryFairness

-----------------------------------------------------------------------------
\* Every variable has its type.
TreasuryTypeOK ==
    /\ books \in [Accounts -> Int] /\ wallet \in [Floats -> Int]
    /\ payment \in [DOMAIN Payments -> [state : PaymentStates, moved : BOOLEAN]]
    /\ transfer \in [DOMAIN Transfers -> [status : {"none", "pending", "confirmed"}, moved : BOOLEAN]]
    /\ cashout \in [DOMAIN Cashouts -> [status : {"none", "pending_approval", "confirmed"},
                                        by : Admins \cup {None}, approver : Admins \cup {None}]]
    /\ approval \in [Subjects -> [status : {"none", "pending", "approved", "declined"},
                                  by : Admins \cup {None}, decided : Admins \cup {None}]]
    /\ funded \subseteq DOMAIN Fundings /\ adjusted \subseteq DOMAIN Adjustments
    /\ override \in [Floats -> Overrides \cup {None}]
    /\ desk \in [Admins -> DOMAIN Cashouts \cup {None}]
    /\ operations \in 0..MaxOperations /\ late \subseteq Floats

\* Whatever was collected, paid, moved, withdrawn, funded or adjusted, in whatever order and with
\* whatever the provider took, the two sides of the books are equal, and no entry that is due is one
\* the ledger refuses: a payment whose money moved is not left open by an entry that does not balance.
BooksBalance ==
    /\ TotalOf(books, "debit") = TotalOf(books, "credit")
    /\ \A p \in DOMAIN Payments : payment[p].state \in OpenPayment =>
           IF Outgoing(p) THEN Written(Settlement(SourceOf(p), Payments[p].float, Fees(p)))
           ELSE Collectable(Fees(p)) => Written(Collection(Payments[p].float, Fees(p)))
    /\ \A t \in DOMAIN Transfers : Transfers[t].fee <= Transfers[t].amount => Written(TransferEntry(t))

\* What a float's books differ from its wallet by is money on its way: payments the provider made and
\* the platform did not hear of, transfers and cash-outs recorded and not made, or made and not
\* recorded, and what adjustments say; no recipe leaves a difference of its own.
Unheard(f, p) ==
    IF Payments[p].float # f \/ ~payment[p].moved \/ payment[p].state = "succeeded" THEN 0
    ELSE IF Outgoing(p) THEN ProviderTakes(p) ELSE Fees(p).provider - Debited(Fees(p))
Unmatched(f, t) ==
    IF transfer[t].moved = (transfer[t].status # "none") THEN 0
    ELSE IF transfer[t].moved THEN -MovedBy(f, t) ELSE MovedBy(f, t)
CashedOut(f, c) ==
    IF Cashouts[c].float = f /\ cashout[c].status = "confirmed" THEN Cashouts[c].amount ELSE 0

DriftIsTiming ==
    \A f \in Floats :
        books[f] - wallet[f] =
            SumFunction([p \in DOMAIN Payments |-> Unheard(f, p)])
            + SumFunction([t \in DOMAIN Transfers |-> Unmatched(f, t)])
            - SumFunction([c \in DOMAIN Cashouts |-> CashedOut(f, c)])
            + SumFunction([j \in adjusted |-> BalanceOf(f, Adjustments[j])])

\* Every variable has its type, the books balance whatever was posted, and a float's books differ
\* from its wallet only by money on its way (treasury.service.ts, ledger.service.ts).
BooksAgree == TreasuryTypeOK /\ BooksBalance /\ DriftIsTiming

\* A float keeps what its open disbursements will take, though confirmations, transfers and cash-outs
\* contend for it, unless a cash-out approved later or an adjustment drew on it.
LiquidityKept == \A f \in Floats \ late : books[f] >= OpenDisbursements(f)

\* What left for settlement is what the cash-outs say, each once: one above the threshold when another
\* person than its initiator approved it, never when it was declined.
CashoutsSettledOnce ==
    /\ books["settlement"] = SumFunction([c \in {c \in DOMAIN Cashouts : cashout[c].status = "confirmed"} |-> Cashouts[c].amount])
                             + SumFunction([j \in adjusted |-> BalanceOf("settlement", Adjustments[j])])
    /\ \A c \in DOMAIN Cashouts : Cashouts[c].amount > CashoutThreshold =>
            /\ (cashout[c].status = "confirmed") = (approval[<<"cashout", c>>].status = "approved")
            /\ cashout[c].status = "confirmed" => cashout[c].approver \notin {None, cashout[c].by}

\* A float keeps what its open disbursements will take, and each cash-out leaves once, with a second
\* person's approval above the threshold (treasury.service.ts, approval.service.ts).
CashoutsHold == LiquidityKept /\ CashoutsSettledOnce

\* When money has stopped moving, the alerts say which floats are short of cover and which differ
\* from their wallets: every alert raised on the way was raised again or cleared.
Watched == {o \in open : o[1] \in {"float_cover", "coverage_ratio", "float_drift"}}
AlertsSettle == <>[](InFlight \/ Watched = CoverAlerts \cup DriftAlerts)
==============================================================================
