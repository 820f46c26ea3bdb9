---------------------------- MODULE LedgerRecipes ----------------------------
(***************************************************************************)
(* The entries the platform writes: each recipe of the ledger service as   *)
(* the postings it hands to post, for one currency and one project.  The   *)
(* fees of a payment are f = [requested, processing, platform,             *)
(* processingBearer, platformBearer, provider, debit], where debit is what *)
(* the provider took from the payer, None when it did not say.             *)
(***************************************************************************)
EXTENDS Nullable, Sequences, FiniteSets, Functions

CONSTANT Floats \* float accounts

NamedAccounts == {"available", "reserved", "suspense", "processing", "platform",
                  "capital", "expense", "settlement"}
Accounts == Floats \cup NamedAccounts

ASSUME FloatsOK == IsFiniteSet(Floats) /\ Floats \cap NamedAccounts = {}

NormalSide(a) == IF a \in Floats \cup {"expense", "settlement"} THEN "debit" ELSE "credit"

-----------------------------------------------------------------------------
Posting(account, side, amount) == [account |-> account, side |-> side, amount |-> amount]
Debit(account, amount) == Posting(account, "debit", amount)
Credit(account, amount) == Posting(account, "credit", amount)

OnSide(p, side) == IF p.side = side THEN p.amount ELSE 0
SideTotal(postings, side) == SumFunction([i \in DOMAIN postings |-> OnSide(postings[i], side)])

\* Zero postings are dropped; what is left balances, is positive and has two sides.
Written(postings) ==
    /\ \A i \in DOMAIN postings : postings[i].amount >= 0
    /\ SideTotal(postings, "debit") = SideTotal(postings, "credit")
    /\ Cardinality({i \in DOMAIN postings : postings[i].amount # 0}) >= 2

\* What a posting adds to the balance of an account.
AddedTo(a, p) == IF p.account # a THEN 0 ELSE IF p.side = NormalSide(a) THEN p.amount ELSE -p.amount
BalanceOf(a, postings) == SumFunction([i \in DOMAIN postings |-> AddedTo(a, postings[i])])

Posted(books, postings) == [a \in Accounts |-> books[a] + BalanceOf(a, postings)]

-----------------------------------------------------------------------------
Borne(f, bearer) ==
    (IF f.processingBearer = bearer THEN f.processing ELSE 0)
    + (IF f.platformBearer = bearer THEN f.platform ELSE 0)

\* X and Y of the specification: the fees the counterparty bears and those the project bears.
X(f) == Borne(f, "counterparty")
Y(f) == Borne(f, "project")

Quoted(f) == f.requested + X(f)
Debited(f) == IF f.debit = None THEN Quoted(f) ELSE f.debit

\* A provider whose fee takes the whole collection is refused before anything is posted.
Collectable(f) == Debited(f) - f.provider > 0

\* Mutant: revenue is booked as quoted, whatever the payer was debited.
CollectionAsQuoted(float, f) ==
    << Debit(float, Debited(f) - f.provider), Debit("expense", f.provider),
       Credit("available", f.requested - Y(f)), Credit("processing", f.processing),
       Credit("platform", f.platform) >>

\* What the payer's debit lacks of the quote comes out of processing revenue, below zero if need be.
Collection(float, f) ==
    LET processing == f.processing - (Quoted(f) - Debited(f))
    IN  << Debit(float, Debited(f) - f.provider), Debit("expense", f.provider),
           Credit("available", f.requested - Y(f)),
           IF processing >= 0 THEN Credit("processing", processing) ELSE Debit("processing", -processing),
           Credit("platform", f.platform) >>

Carried(f) == f.requested + Y(f)

Reservation(f) == << Debit("available", Carried(f)), Credit("reserved", Carried(f)) >>

\* Mutant: the float pays the provider's fee out of the processing revenue.
SettlementNet(source, float, f) ==
    << Debit(source, Carried(f)), Credit(float, f.requested - X(f)),
       Credit("processing", f.processing), Credit("platform", f.platform) >>

Settlement(source, float, f) ==
    << Debit(source, Carried(f)), Debit("expense", f.provider),
       Credit(float, f.requested - X(f) + f.provider),
       Credit("processing", f.processing), Credit("platform", f.platform) >>

Release(source, f) == << Debit(source, Carried(f)), Credit("available", Carried(f)) >>

Suspension(f) == << Debit("reserved", Carried(f)), Credit("suspense", Carried(f)) >>

FloatTransfer(source, destination, amount, fee) ==
    << Credit(source, amount), Debit(destination, amount - fee), Debit("expense", fee) >>

CashoutEntry(float, amount) == << Credit(float, amount), Debit("settlement", amount) >>

FloatFunding(float, amount) == << Debit(float, amount), Credit("capital", amount) >>

ProjectFunding(amount) == << Debit("capital", amount), Credit("available", amount) >>

-----------------------------------------------------------------------------
FloatTotal(books) == SumFunction([f \in Floats |-> books[f]])
Encumbered(books) == books["available"] + books["reserved"] + books["suspense"]

OfSide(side) == {a \in Accounts : NormalSide(a) = side}
TotalOf(books, side) == SumFunction([a \in OfSide(side) |-> books[a]])
==============================================================================
