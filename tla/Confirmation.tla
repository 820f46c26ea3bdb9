----------------------------- MODULE Confirmation -----------------------------
(***************************************************************************)
(* Confirmations of disbursements and registered transfers, as database    *)
(* transactions under READ COMMITTED that take their locks one by one: the *)
(* preview's row, the entitlement for the velocity and duplicate guards,   *)
(* the project's available account for the reservation, and the floats in  *)
(* the order they are examined, that of the preview's quote first.  What   *)
(* concludes a disbursement settles its float without any of these locks.  *)
(*                                                                         *)
(* Amounts include the fees.  A transaction is named by the request that   *)
(* created it, and a lock by what it locks.  Taking a lock and the first   *)
(* read under it are one step, as are the last read and the commit.        *)
(***************************************************************************)
EXTENDS Nullable, Sequences, FiniteSets, Functions

CONSTANTS
    Requests,    \* requests to confirm a preview
    Transfers,   \* float transfers administrators register
    Quote,       \* for each request its preview's name, project, route, amount, payer and order of floats
    Transfer,    \* for each transfer its source, destination, amount and the provider's fee
    Funds,       \* what is available to each project at first
    Float,       \* balance of each float account at first
    ValueCap,    \* value that may be confirmed per project and route in a window
    Closing,     \* bound: previews whose window may close
    MaxInFlight  \* bound: database transactions at a time

Actors == Requests \cup Transfers
Previews == {Quote[r].preview : r \in Requests}
Projects == DOMAIN Funds
Floats == DOMAIN Float
Entitlement(r) == <<Quote[r].project, Quote[r].route>>
Terms(r) == <<Entitlement(r), Quote[r].payer, Quote[r].amount>>
Locks == Previews \cup Projects \cup Floats \cup {Entitlement(r) : r \in Requests}

ASSUME ConfirmationOK ==
    /\ IsFiniteSet(Requests) /\ Requests \cap Transfers = {}
    /\ \A q, r \in Requests : Quote[q].preview = Quote[r].preview => Quote[q] = Quote[r]
    /\ \A r \in Requests : /\ Quote[r].amount \in Nat \ {0} /\ Quote[r].project \in Projects
                           /\ Quote[r].order \in Seq(Floats) /\ Quote[r].order # <<>>
                           /\ Entitlement(r) \in DOMAIN ValueCap
    /\ \A e \in DOMAIN ValueCap : ValueCap[e] \in Nat
    /\ Transfer \in [Transfers -> [source : Floats, destination : Floats, amount : Nat, fee : Nat]]
    /\ \A t \in Transfers : Transfer[t].source # Transfer[t].destination
    /\ Funds \in [Projects -> Nat] /\ Float \in [Floats -> Nat] /\ None \notin Floats
    /\ Closing \subseteq Previews /\ MaxInFlight \in Nat

VARIABLES
    preview,   \* status of each preview; expired stands for a window that closed as well
    txn,       \* the transaction each request created
    available, \* balance of each project's available account
    float,     \* balance of each float account
    proc,      \* where each database transaction is, the float it examines and the balance it read
    locks,     \* locks each database transaction holds
    blind      \* history: floats drawn on behind a check, between its two reads or with none at all

store == <<preview, txn, available, float>>
vars == <<store, proc, locks, blind>>

\* submitted stands for every state from submission to conclusion, undetermined among them: the
\* guards and the treasury count them alike.
OpenStates == {"created", "submitted"}
NoTxn == [state |-> "absent", float |-> None]

Stages == {"preview", "entitlement", "reserve", "float", "open", "ended"}

\* The stage names what comes next; at the first one nothing is locked yet.
First(a) == IF a \in Requests THEN "preview" ELSE "float"
Begin(a) == [stage |-> First(a), at |-> 1, seen |-> 0]
Ended == [stage |-> "ended", at |-> 1, seen |-> 0]

Init ==
    /\ preview = [p \in Previews |-> "open"]
    /\ txn = [r \in Requests |-> NoTxn]
    /\ available = Funds
    /\ float = Float
    /\ proc = [a \in Actors |-> Begin(a)]
    /\ locks = [a \in Actors |-> {}]
    /\ blind = {}

-----------------------------------------------------------------------------
Free(l) == \A a \in Actors : l \notin locks[a]
Take(a, l) == locks' = [locks EXCEPT ![a] = @ \cup {l}]
Goto(a, stage) == proc' = [proc EXCEPT ![a].stage = stage]

\* A commit or a rollback releases every lock.
End(a) == proc' = [proc EXCEPT ![a] = Ended] /\ locks' = [locks EXCEPT ![a] = {}]

Amount(a) == IF a \in Requests THEN Quote[a].amount ELSE Transfer[a].amount
TotalOf(requests) == SumFunctionOnSet([r \in Requests |-> Amount(r)], requests)
Target(a) == IF a \in Requests THEN Quote[a].order[proc[a].at] ELSE Transfer[a].source

Room == Cardinality({a \in Actors : proc[a] \notin {Begin(a), Ended}}) < MaxInFlight

\* Mutant: the preview is read without FOR UPDATE.
LockPreviewShared(r) ==
    /\ proc[r].stage = "preview" /\ Room
    /\ IF preview[Quote[r].preview] = "open"
       THEN Goto(r, "entitlement") /\ UNCHANGED locks
       ELSE End(r)
    /\ UNCHANGED <<store, blind>>

\* A confirmed preview is answered with its transaction, an expired one is refused, and the mark an
\* expired one gets is undone by the error that follows.
LockPreview(r) ==
    /\ proc[r].stage = "preview" /\ Room
    /\ Free(Quote[r].preview)
    /\ IF preview[Quote[r].preview] = "open"
       THEN Goto(r, "entitlement") /\ Take(r, Quote[r].preview)
       ELSE End(r)
    /\ UNCHANGED <<store, blind>>

\* Mutant: what succeeded no longer counts.
ConsumingOpen(e) == {q \in Requests : txn[q].state \in OpenStates /\ Entitlement(q) = e}

Consuming(e) ==
    {q \in Requests : txn[q].state \in OpenStates \cup {"succeeded"} /\ Entitlement(q) = e}

WithinCap(r) == TotalOf(Consuming(Entitlement(r))) + Amount(r) <= ValueCap[Entitlement(r)]

\* Mutant: a transaction not submitted yet is overlooked.
SimilarSubmitted(q, r) == txn[q].state = "submitted" /\ Terms(q) = Terms(r)

Similar(q, r) == txn[q].state \in OpenStates /\ Terms(q) = Terms(r)

\* checkVelocity takes the lock the duplicate guard is evaluated under as well.
CheckGuards(r) ==
    /\ proc[r].stage = "entitlement"
    /\ Free(Entitlement(r))
    /\ IF WithinCap(r) /\ ~\E q \in Requests : Similar(q, r)
       THEN Goto(r, "reserve") /\ Take(r, Entitlement(r))
       ELSE End(r)
    /\ UNCHANGED <<store, blind>>

\* Mutant: the balance is read without the account's lock.
ReserveShared(r) ==
    /\ proc[r].stage = "reserve"
    /\ IF available[Quote[r].project] >= Amount(r) THEN Goto(r, "float") /\ UNCHANGED locks ELSE End(r)
    /\ UNCHANGED <<store, blind>>

\* The postings themselves become visible at commit.
Reserve(r) ==
    /\ proc[r].stage = "reserve"
    /\ Free(Quote[r].project)
    /\ IF available[Quote[r].project] >= Amount(r)
       THEN Goto(r, "float") /\ Take(r, Quote[r].project)
       ELSE End(r)
    /\ UNCHANGED <<store, blind>>

\* Mutant: the float is examined without its lock.
LockFloatShared(a) ==
    /\ proc[a].stage = "float"
    /\ proc[a] = Begin(a) => Room
    /\ Take(a, Target(a))
    /\ proc' = [proc EXCEPT ![a].stage = "open", ![a].seen = float[Target(a)]]
    /\ UNCHANGED <<store, blind>>

\* freeLiquidity is two reads: the balance of the float, then what is open against it.
LockFloat(a) ==
    /\ proc[a].stage = "float"
    /\ proc[a] = Begin(a) => Room
    /\ Free(Target(a))
    /\ Take(a, Target(a))
    /\ proc' = [proc EXCEPT ![a].stage = "open", ![a].seen = float[Target(a)]]
    /\ UNCHANGED <<store, blind>>

\* Only open transactions name a float here.
Open(f) == TotalOf({r \in Requests : txn[r].float = f})
Covered(a) == proc[a].seen - Open(Target(a)) >= Amount(a)

\* Mutant: one float further than there are.
LastFloatPassed(a) == a \in Transfers \/ proc[a].at > Len(Quote[a].order)

LastFloat(a) == a \in Transfers \/ proc[a].at = Len(Quote[a].order)

\* A float that falls short stays locked while the next one is examined.
FloatShort(a) ==
    /\ proc[a].stage = "open" /\ ~Covered(a)
    /\ IF LastFloat(a)
       THEN End(a)
       ELSE proc' = [proc EXCEPT ![a].stage = "float", ![a].at = @ + 1] /\ UNCHANGED locks
    /\ UNCHANGED <<store, blind>>

Confirm(r) ==
    /\ proc[r].stage = "open" /\ Covered(r)
    /\ preview' = [preview EXCEPT ![Quote[r].preview] = "confirmed"]
    /\ txn' = [txn EXCEPT ![r] = [state |-> "created", float |-> Target(r)]]
    /\ available' = [available EXCEPT ![Quote[r].project] = @ - Amount(r)]
    /\ End(r)
    /\ UNCHANGED <<float, blind>>

\* The destination receives what the provider's fee leaves, and a fee above the amount fails the posting.
RegisterTransfer(t) ==
    /\ proc[t].stage = "open" /\ Covered(t) /\ Transfer[t].fee <= Amount(t)
    /\ float' = [float EXCEPT ![Transfer[t].source] = @ - Amount(t),
                              ![Transfer[t].destination] = @ + Amount(t) - Transfer[t].fee]
    /\ End(t)
    /\ UNCHANGED <<preview, txn, available, blind>>

\* A statement fails, another guard refuses, or the store aborts one of two transactions that wait for
\* each other: floats are not locked in one order.
Abort(a) ==
    /\ proc[a] \notin {Begin(a), Ended}
    /\ End(a)
    /\ UNCHANGED <<store, blind>>

-----------------------------------------------------------------------------
WindowCloses(p) ==
    /\ p \in Closing /\ preview[p] = "open"
    /\ preview' = [preview EXCEPT ![p] = "expired"]
    /\ UNCHANGED <<txn, available, float, proc, locks, blind>>

\* The attempt goes to the float examined at confirmation or, where its provider is not available any
\* more, to another of the route: nothing looks at that one's liquidity.
Submit(r, f) ==
    /\ txn[r].state = "created"
    /\ f \in Range(Quote[r].order)
    /\ txn' = [txn EXCEPT ![r] = [state |-> "submitted", float |-> f]]
    /\ blind' = IF f = txn[r].float THEN blind ELSE blind \cup {f}
    /\ UNCHANGED <<preview, available, float, proc, locks>>

\* A provider that refused or could not be reached is followed by another; until then its float stays
\* named.  Which ones were tried is left out.
FallBack(r) ==
    /\ txn[r].state = "submitted"
    /\ txn' = [txn EXCEPT ![r].state = "created"]
    /\ UNCHANGED <<preview, available, float, proc, locks, blind>>

\* Settlement takes the transaction's row and no lock of an account.
Settle(r) ==
    /\ txn[r].state = "submitted"
    /\ txn' = [txn EXCEPT ![r] = [state |-> "succeeded", float |-> None]]
    /\ float' = [float EXCEPT ![txn[r].float] = @ - Amount(r)]
    /\ blind' = blind \cup {f \in {txn[r].float} : \E a \in Actors : proc[a].stage = "open" /\ Target(a) = f}
    /\ UNCHANGED <<preview, available, proc, locks>>

Fail(r) ==
    /\ txn[r].state \in OpenStates
    /\ txn' = [txn EXCEPT ![r] = [state |-> "failed", float |-> None]]
    /\ available' = [available EXCEPT ![Quote[r].project] = @ + Amount(r)]
    /\ UNCHANGED <<preview, float, proc, locks, blind>>

Next ==
    \/ \E r \in Requests : LockPreview(r) \/ CheckGuards(r) \/ Reserve(r) \/ Confirm(r)
    \/ \E t \in Transfers : RegisterTransfer(t)
    \/ \E a \in Actors : LockFloat(a) \/ FloatShort(a) \/ Abort(a)
    \/ \E p \in Previews : WindowCloses(p)
    \/ \E r \in Requests : FallBack(r) \/ Settle(r) \/ Fail(r) \/ \E f \in Floats : Submit(r, f)

Spec == Init /\ [][Next]_vars

-----------------------------------------------------------------------------
\* Every variable has its type.
TypeOK ==
    /\ preview \in [Previews -> {"open", "confirmed", "expired"}]
    /\ txn \in [Requests -> [state : OpenStates \cup {"absent", "succeeded", "failed"},
                             float : Floats \cup {None}]]
    /\ available \in [Projects -> Int] /\ float \in [Floats -> Int]
    /\ proc \in [Actors -> [stage : Stages, at : Nat, seen : Int]]
    /\ \A r \in Requests : proc[r].at \in DOMAIN Quote[r].order
    /\ locks \in [Actors -> SUBSET Locks]
    /\ blind \subseteq Floats

\* A preview confirms once, however many requests confirm it at a time and whatever became of the
\* transaction meanwhile, and only its transaction's commit marks it.
ConfirmedOnce ==
    \A p \in Previews :
        Cardinality({r \in Requests : Quote[r].preview = p /\ txn[r].state # "absent"})
            = IF preview[p] = "confirmed" THEN 1 ELSE 0

\* What one project moved on one route, paid or still to be paid, stays within its value cap, however
\* its confirmations interleave: a failure gives its share of the cap back.
VelocityHolds ==
    \A e \in DOMAIN ValueCap :
        TotalOf({r \in Requests : Entitlement(r) = e /\ txn[r].state \notin {"absent", "failed"}})
            <= ValueCap[e]

\* Two requests for the same payment are never both open.
NoSimilarPending ==
    \A q, r \in Requests :
        {txn[q].state, txn[r].state} \subseteq OpenStates /\ Terms(q) = Terms(r) => q = r

\* What is open against a float is covered by it, through settlements, transfers and other
\* confirmations, unless something drew on it behind a check.
FloatCoversOpen == \A f \in Floats \ blind : float[f] >= Open(f)

\* Simultaneous disbursements against one float never jointly exceed it, what conclude says of it.
FloatNeverExceeded == \A f \in Floats : float[f] >= Open(f)

-----------------------------------------------------------------------------
(***************************************************************************)
(* Confirmations implement the contract: a request is judged while its     *)
(* database transaction is open, and accepted when that commits.           *)
(***************************************************************************)
OfferStatus(p) == CASE preview[p] = "confirmed" -> "taken"
                    [] preview[p] = "expired" -> "closed"
                    [] OTHER -> "open"
Judged == {r \in Requests : proc[r].stage \notin {"preview", "ended"}}
PaymentStatus(r) == IF txn[r].state \in OpenStates THEN "open" ELSE txn[r].state

Spending == INSTANCE SpendingContract
                WITH Offer <- [r \in Requests |-> Quote[r].preview],
                     Project <- [r \in Requests |-> Quote[r].project],
                     Allowance <- [r \in Requests |-> Entitlement(r)],
                     Purpose <- [r \in Requests |-> Terms(r)],
                     Price <- [r \in Requests |-> Amount(r)],
                     Limit <- ValueCap, Budget <- Funds,
                     offer <- [p \in Previews |-> OfferStatus(p)],
                     judged <- Judged,
                     payment <- [r \in Requests |-> PaymentStatus(r)],
                     balance <- available

\* However the steps of confirmations interleave, each is accepted as at one instant: its preview not
\* confirmed yet, no like payment open, its amount within the cap and within what is available.
ImplementsSpending == Spending!Spec
==============================================================================
