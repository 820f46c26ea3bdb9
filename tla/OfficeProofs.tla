----------------------------- MODULE OfficeProofs -----------------------------
(***************************************************************************)
(* What the treasury office decides, for every set of floats, payments,    *)
(* transfers, cash-outs, adjustments, administrators, transactions,        *)
(* conditions and statements and any number of reconciliation runs: the    *)
(* books balance and differ from the wallets by money on its way, a float  *)
(* keeps what its open disbursements will take, and what is approved takes *)
(* effect once.  At the end, for any number of calls and codes, the        *)
(* one-time codes under which an office works.                             *)
(***************************************************************************)
EXTENDS Treasury, ReconciliationRuns, ConfirmedOperations, SumTheorems, SequenceTheorems, FiniteSetTheorems, TLAPS

-----------------------------------------------------------------------------
(***************************************************************************)
(* What the ledger's entries add to an account.                            *)
(***************************************************************************)
LEMMA NamesApart ==
    /\ \A f \in Floats : f \notin NamedAccounts /\ f \in Accounts
    /\ \A f \in Floats : /\ f # "available" /\ f # "reserved" /\ f # "suspense" /\ f # "processing"
                         /\ f # "platform" /\ f # "capital" /\ f # "expense" /\ f # "settlement"
    /\ NamedAccounts \subseteq Accounts
    /\ IsFiniteSet(Accounts)
<1>1. IsFiniteSet(NamedAccounts)
  <2> DEFINE A == {"available"} \cup {"reserved"} \cup {"suspense"} \cup {"processing"}
             B == {"platform"} \cup {"capital"} \cup {"expense"} \cup {"settlement"}
  <2>1. IsFiniteSet({"available"}) /\ IsFiniteSet({"platform"})
    BY FS_Singleton
  <2>2. IsFiniteSet(A)
    BY <2>1, FS_AddElement
  <2>3. IsFiniteSet(B)
    BY <2>1, FS_AddElement
  <2>4. NamedAccounts = A \cup B
    BY DEF NamedAccounts
  <2> HIDE DEF A, B
  <2> QED BY <2>2, <2>3, <2>4, FS_Union
<1>2. IsFiniteSet(Floats)
  BY FloatsOK
<1>3. IsFiniteSet(Accounts)
  BY <1>1, <1>2, FS_Union DEF Accounts
<1>4. \A f \in Floats : f \notin NamedAccounts /\ f \in Accounts
  BY FloatsOK DEF Accounts
<1>5. NamedAccounts \subseteq Accounts
  BY DEF Accounts
<1> QED BY <1>3, <1>4, <1>5 DEF NamedAccounts

LEMMA AddedIsInt == \A a, p : p.amount \in Int => AddedTo(a, p) \in Int
BY DEF AddedTo

LEMMA BalanceOfTwo ==
    ASSUME NEW a, NEW p, NEW q, p.amount \in Int, q.amount \in Int
    PROVE  BalanceOf(a, <<p, q>>) = AddedTo(a, p) + AddedTo(a, q)
<1> DEFINE s == <<p, q>>
           g == [i \in DOMAIN s |-> AddedTo(a, s[i])]
<1>1. DOMAIN s = 1..2 /\ s[1] = p /\ s[2] = q
  OBVIOUS
<1>2. DOMAIN g = 1..2 /\ g[1] = AddedTo(a, p) /\ g[2] = AddedTo(a, q)
  BY <1>1
<1>3. g[1] \in Int /\ g[2] \in Int
  BY <1>2, AddedIsInt
<1>4. SumFunctionOnSet(g, 1..2) = g[1] + g[2]
  <2> HIDE DEF g
  <2> QED BY <1>3, SumOfTwo
<1>5. BalanceOf(a, s) = SumFunctionOnSet(g, DOMAIN g)
  BY DEF BalanceOf, SumFunction
<1> QED BY <1>2, <1>4, <1>5

LEMMA BalanceOfThree ==
    ASSUME NEW a, NEW p, NEW q, NEW r, p.amount \in Int, q.amount \in Int, r.amount \in Int
    PROVE  BalanceOf(a, <<p, q, r>>) = AddedTo(a, p) + AddedTo(a, q) + AddedTo(a, r)
<1> DEFINE s == <<p, q, r>>
           g == [i \in DOMAIN s |-> AddedTo(a, s[i])]
<1>1. DOMAIN s = 1..3 /\ s[1] = p /\ s[2] = q /\ s[3] = r
  OBVIOUS
<1>2. DOMAIN g = 1..3 /\ g[1] = AddedTo(a, p) /\ g[2] = AddedTo(a, q) /\ g[3] = AddedTo(a, r)
  BY <1>1
<1>3. g[1] \in Int /\ g[2] \in Int /\ g[3] \in Int
  BY <1>2, AddedIsInt
<1>4. SumFunctionOnSet(g, 1..3) = g[1] + g[2] + g[3]
  <2> HIDE DEF g
  <2> QED BY <1>3, SumOfThree
<1>5. BalanceOf(a, s) = SumFunctionOnSet(g, DOMAIN g)
  BY DEF BalanceOf, SumFunction
<1> QED BY <1>2, <1>4, <1>5

LEMMA BalanceOfFive ==
    ASSUME NEW a, NEW p, NEW q, NEW r, NEW u, NEW v,
           p.amount \in Int, q.amount \in Int, r.amount \in Int, u.amount \in Int, v.amount \in Int
    PROVE  BalanceOf(a, <<p, q, r, u, v>>) =
               AddedTo(a, p) + AddedTo(a, q) + AddedTo(a, r) + AddedTo(a, u) + AddedTo(a, v)
<1> DEFINE s == <<p, q, r, u, v>>
           g == [i \in DOMAIN s |-> AddedTo(a, s[i])]
<1>1. DOMAIN s = 1..5 /\ s[1] = p /\ s[2] = q /\ s[3] = r /\ s[4] = u /\ s[5] = v
  OBVIOUS
<1>2. /\ DOMAIN g = 1..5 /\ g[1] = AddedTo(a, p) /\ g[2] = AddedTo(a, q) /\ g[3] = AddedTo(a, r)
      /\ g[4] = AddedTo(a, u) /\ g[5] = AddedTo(a, v)
  BY <1>1
<1>3. g[1] \in Int /\ g[2] \in Int /\ g[3] \in Int /\ g[4] \in Int /\ g[5] \in Int
  BY <1>2, AddedIsInt
<1>4. SumFunctionOnSet(g, 1..5) = g[1] + g[2] + g[3] + g[4] + g[5]
  <2> HIDE DEF g
  <2> QED BY <1>3, SumOfFive
<1>5. BalanceOf(a, s) = SumFunctionOnSet(g, DOMAIN g)
  BY DEF BalanceOf, SumFunction
<1> QED BY <1>2, <1>4, <1>5

\* Debit and credit postings, on an account and elsewhere.
LEMMA AddedBy ==
    \A a, b, n : /\ a # b => AddedTo(a, Debit(b, n)) = 0 /\ AddedTo(a, Credit(b, n)) = 0
                 /\ AddedTo(a, Debit(a, n)) = IF NormalSide(a) = "debit" THEN n ELSE -n
                 /\ AddedTo(a, Credit(a, n)) = IF NormalSide(a) = "debit" THEN -n ELSE n
                 /\ Debit(b, n).amount = n /\ Credit(b, n).amount = n
BY DEF AddedTo, Debit, Credit, Posting, NormalSide

LEMMA NormalSides ==
    /\ \A f \in Floats : NormalSide(f) = "debit"
    /\ NormalSide("settlement") = "debit" /\ NormalSide("expense") = "debit"
BY DEF NormalSide

\* What the recipes add to a float and to the settlement account; nothing else reaches them.
Told == Floats \cup {"settlement"}

LEMMA CashoutAdds ==
    ASSUME NEW f \in Floats, NEW n \in Int, NEW a \in Told
    PROVE  BalanceOf(a, CashoutEntry(f, n)) = IF a = f THEN -n ELSE IF a = "settlement" THEN n ELSE 0
<1>1. BalanceOf(a, CashoutEntry(f, n)) = AddedTo(a, Credit(f, n)) + AddedTo(a, Debit("settlement", n))
  BY BalanceOfTwo, AddedBy DEF CashoutEntry
<1> QED BY <1>1, AddedBy, NormalSides, NamesApart DEF Told

LEMMA TransferAdds ==
    ASSUME NEW f \in Floats, NEW g \in Floats, f # g, NEW n \in Int, NEW m \in Int, NEW a \in Told
    PROVE  BalanceOf(a, FloatTransfer(f, g, n, m)) = IF a = f THEN -n ELSE IF a = g THEN n - m ELSE 0
<1>1. BalanceOf(a, FloatTransfer(f, g, n, m)) =
          AddedTo(a, Credit(f, n)) + AddedTo(a, Debit(g, n - m)) + AddedTo(a, Debit("expense", m))
  BY BalanceOfThree, AddedBy DEF FloatTransfer
<1>2. AddedTo(a, Debit("expense", m)) = 0
  BY AddedBy, NamesApart DEF Told
<1> QED BY <1>1, <1>2, AddedBy, NormalSides, NamesApart DEF Told

LEMMA FundingAdds ==
    ASSUME NEW f \in Floats, NEW n \in Int, NEW a \in Told
    PROVE  /\ BalanceOf(a, FloatFunding(f, n)) = IF a = f THEN n ELSE 0
           /\ BalanceOf(a, ProjectFunding(n)) = 0
<1>1. BalanceOf(a, FloatFunding(f, n)) = AddedTo(a, Debit(f, n)) + AddedTo(a, Credit("capital", n))
  BY BalanceOfTwo, AddedBy DEF FloatFunding
<1>2. BalanceOf(a, ProjectFunding(n)) = AddedTo(a, Debit("capital", n)) + AddedTo(a, Credit("available", n))
  BY BalanceOfTwo, AddedBy DEF ProjectFunding
<1>3. AddedTo(a, Debit("capital", n)) = 0 /\ AddedTo(a, Credit("capital", n)) = 0 /\ AddedTo(a, Credit("available", n)) = 0
  BY AddedBy, NamesApart DEF Told
<1> QED BY <1>1, <1>2, <1>3, AddedBy, NormalSides DEF Told

LEMMA ReservingAdds ==
    ASSUME NEW f, Carried(f) \in Int, NEW s \in {"reserved", "suspense"}, NEW a \in Told
    PROVE  BalanceOf(a, Reservation(f)) = 0 /\ BalanceOf(a, Release(s, f)) = 0 /\ BalanceOf(a, Suspension(f)) = 0
<1> DEFINE n == Carried(f)
<1>1. /\ BalanceOf(a, Reservation(f)) = AddedTo(a, Debit("available", n)) + AddedTo(a, Credit("reserved", n))
      /\ BalanceOf(a, Release(s, f)) = AddedTo(a, Debit(s, n)) + AddedTo(a, Credit("available", n))
      /\ BalanceOf(a, Suspension(f)) = AddedTo(a, Debit("reserved", n)) + AddedTo(a, Credit("suspense", n))
  BY BalanceOfTwo, AddedBy DEF Reservation, Release, Suspension
<1>2. \A b \in {"available", "reserved", "suspense"} : AddedTo(a, Debit(b, n)) = 0 /\ AddedTo(a, Credit(b, n)) = 0
  BY AddedBy, NamesApart DEF Told
<1> QED BY <1>1, <1>2

LEMMA SettlementAdds ==
    ASSUME NEW f \in FeesOf, NEW x \in Int, X(f) = x, Carried(f) \in Int, NEW s \in {"reserved", "suspense"},
           NEW g \in Floats, NEW a \in Told
    PROVE  BalanceOf(a, Settlement(s, g, f)) = IF a = g THEN -(f.requested - X(f) + f.provider) ELSE 0
<1> DEFINE n == f.requested - X(f) + f.provider
<1>1. n \in Int /\ f.provider \in Int /\ f.processing \in Int /\ f.platform \in Int
  BY DEF FeesOf
<1>2. BalanceOf(a, Settlement(s, g, f)) =
          AddedTo(a, Debit(s, Carried(f))) + AddedTo(a, Debit("expense", f.provider)) + AddedTo(a, Credit(g, n))
          + AddedTo(a, Credit("processing", f.processing)) + AddedTo(a, Credit("platform", f.platform))
  BY <1>1, BalanceOfFive, AddedBy DEF Settlement
<1>3. /\ AddedTo(a, Debit(s, Carried(f))) = 0 /\ AddedTo(a, Debit("expense", f.provider)) = 0
      /\ AddedTo(a, Credit("processing", f.processing)) = 0 /\ AddedTo(a, Credit("platform", f.platform)) = 0
  BY AddedBy, NamesApart DEF Told
<1>4. AddedTo(a, Credit(g, n)) = IF a = g THEN -n ELSE 0
  BY AddedBy, NormalSides
<1> HIDE DEF n
<1> QED BY <1>1, <1>2, <1>3, <1>4 DEF n

LEMMA CollectionAdds ==
    ASSUME NEW f \in FeesOf, Quoted(f) \in Int, Debited(f) \in Int, Y(f) \in Int, NEW g \in Floats, NEW a \in Told
    PROVE  BalanceOf(a, Collection(g, f)) = IF a = g THEN Debited(f) - f.provider ELSE 0
<1> DEFINE n == Debited(f) - f.provider
           m == f.processing - (Quoted(f) - Debited(f))
           d == IF m >= 0 THEN Credit("processing", m) ELSE Debit("processing", -m)
<1>1. n \in Int /\ m \in Int /\ f.provider \in Int /\ f.platform \in Int /\ f.requested - Y(f) \in Int
  BY DEF FeesOf
<1>2. d.amount \in Int /\ AddedTo(a, d) = 0
  <2>1. "processing" # a
    BY NamesApart DEF Told
  <2> HIDE DEF m
  <2> QED BY <1>1, <2>1, AddedBy
<1>3. Collection(g, f) = << Debit(g, n), Debit("expense", f.provider), Credit("available", f.requested - Y(f)), d,
                            Credit("platform", f.platform) >>
  BY DEF Collection
<1>4. BalanceOf(a, Collection(g, f)) =
          AddedTo(a, Debit(g, n)) + AddedTo(a, Debit("expense", f.provider))
          + AddedTo(a, Credit("available", f.requested - Y(f))) + AddedTo(a, d) + AddedTo(a, Credit("platform", f.platform))
  <2> HIDE DEF d, n
  <2> QED BY <1>1, <1>2, <1>3, BalanceOfFive, AddedBy
<1>5. /\ AddedTo(a, Debit("expense", f.provider)) = 0 /\ AddedTo(a, Credit("available", f.requested - Y(f))) = 0
      /\ AddedTo(a, Credit("platform", f.platform)) = 0
  BY AddedBy, NamesApart DEF Told
<1>6. AddedTo(a, Debit(g, n)) = IF a = g THEN n ELSE 0
  BY AddedBy, NormalSides
<1> HIDE DEF n, d
<1> QED BY <1>1, <1>2, <1>4, <1>5, <1>6 DEF n

-----------------------------------------------------------------------------
(***************************************************************************)
(* Types of the treasury.                                                  *)
(***************************************************************************)
LEMMA FeeTypes ==
    ASSUME NEW p \in DOMAIN Payments
    PROVE  /\ Payments[p].float \in Floats /\ Fees(p) \in FeesOf
           /\ X(Fees(p)) \in Nat /\ Y(Fees(p)) \in Nat /\ Carried(Fees(p)) \in Nat
           /\ Quoted(Fees(p)) \in Int /\ Debited(Fees(p)) \in Int
           /\ ProviderTakes(p) \in Int /\ Fees(p).provider \in Nat
           /\ Outgoing(p) => ProviderTakes(p) \in Nat
<1> DEFINE f == Payments[p].fees
<1>1. /\ f \in FeesOf /\ Payments[p].float \in Floats
      /\ Payments[p].direction = "disbursement" => f.requested >= X(f)
  BY TreasuryOK
<1> HIDE DEF f
<1>2. /\ f.requested \in Nat /\ f.processing \in Nat /\ f.platform \in Nat /\ f.provider \in Nat
      /\ f.debit = None \/ f.debit \in Nat
  BY <1>1 DEF FeesOf
<1>3. X(f) \in Nat /\ Y(f) \in Nat
  <2>1. ASSUME NEW b PROVE Borne(f, b) \in Nat
    <3>1. (IF f.processingBearer = b THEN f.processing ELSE 0) \in Nat
      BY <1>2
    <3>2. (IF f.platformBearer = b THEN f.platform ELSE 0) \in Nat
      BY <1>2
    <3> QED BY <3>1, <3>2 DEF Borne
  <2> QED BY <2>1 DEF X, Y
<1>4. Quoted(f) \in Int /\ Debited(f) \in Int /\ Carried(f) \in Nat
  BY <1>2, <1>3 DEF Quoted, Debited, Carried
<1>5. Fees(p) = f /\ ProviderTakes(p) = f.requested - X(f) + f.provider
  BY DEF Fees, ProviderTakes, f
<1>6. Outgoing(p) => f.requested >= X(f)
  BY <1>1 DEF Outgoing
<1> QED BY <1>1, <1>2, <1>3, <1>4, <1>5, <1>6

LEMMA BalanceIsInt ==
    ASSUME NEW s \in Seq([account : Accounts, side : Sides, amount : Int])
    PROVE  \A a : BalanceOf(a, s) \in Int
<1> TAKE a
<1>1. Len(s) \in Nat /\ DOMAIN s = 1..Len(s) /\ \A i \in DOMAIN s : s[i].amount \in Int
  <2> DEFINE R == [account : Accounts, side : Sides, amount : Int]
  <2>1. s \in Seq(R) /\ \A x \in R : x.amount \in Int
    OBVIOUS
  <2> HIDE DEF R
  <2> QED BY <2>1
<1> DEFINE g == [i \in DOMAIN s |-> AddedTo(a, s[i])]
<1>2. \A i \in DOMAIN s : g[i] \in Int
  BY <1>1, AddedIsInt
<1>3. IsFiniteSet(DOMAIN s)
  BY <1>1, FS_Interval
<1>4. SumFunctionOnSet(g, DOMAIN s) \in Int
  <2> HIDE DEF g
  <2> QED BY <1>2, <1>3, SumIsInt
<1> QED BY <1>4 DEF BalanceOf, SumFunction

Entries == Seq([account : Accounts, side : Sides, amount : Int])

LEMMA PostingTypes ==
    \A a \in Accounts, n \in Int : /\ Debit(a, n) \in [account : Accounts, side : Sides, amount : Int]
                                   /\ Credit(a, n) \in [account : Accounts, side : Sides, amount : Int]
BY DEF Debit, Credit, Posting, Sides

LEMMA EntryTypes ==
    /\ \A p \in DOMAIN Payments :
           /\ Reservation(Fees(p)) \in Entries /\ Suspension(Fees(p)) \in Entries
           /\ Release(SourceOf(p), Fees(p)) \in Entries
           /\ Settlement(SourceOf(p), Payments[p].float, Fees(p)) \in Entries
           /\ Collection(Payments[p].float, Fees(p)) \in Entries
    /\ \A t \in DOMAIN Transfers : TransferEntry(t) \in Entries
    /\ \A c \in DOMAIN Cashouts : CashoutEntry(Cashouts[c].float, Cashouts[c].amount) \in Entries
    /\ \A n \in DOMAIN Fundings : /\ Fundings[n].float # None => FloatFunding(Fundings[n].float, Fundings[n].amount) \in Entries
                                  /\ ProjectFunding(Fundings[n].amount) \in Entries
    /\ \A j \in DOMAIN Adjustments : Adjustments[j] \in Entries
<1> DEFINE R == [account : Accounts, side : Sides, amount : Int]
<1>0. \A a \in Accounts, n \in Int : Debit(a, n) \in R /\ Credit(a, n) \in R
  BY PostingTypes
<1>00. Entries = Seq(R)
  BY DEF Entries
<1> HIDE DEF R
<1>1. /\ "available" \in Accounts /\ "reserved" \in Accounts /\ "suspense" \in Accounts /\ "processing" \in Accounts
      /\ "platform" \in Accounts /\ "capital" \in Accounts /\ "expense" \in Accounts /\ "settlement" \in Accounts
      /\ \A f \in Floats : f \in Accounts
  BY DEF Accounts, NamedAccounts
<1>2. ASSUME NEW p \in DOMAIN Payments
      PROVE  /\ Reservation(Fees(p)) \in Entries /\ Suspension(Fees(p)) \in Entries
             /\ Release(SourceOf(p), Fees(p)) \in Entries
             /\ Settlement(SourceOf(p), Payments[p].float, Fees(p)) \in Entries
             /\ Collection(Payments[p].float, Fees(p)) \in Entries
  <2> DEFINE f == Fees(p)
             s == SourceOf(p)
             g == Payments[p].float
  <2>1. /\ g \in Floats /\ f \in FeesOf /\ X(f) \in Int /\ Y(f) \in Int /\ Carried(f) \in Int
        /\ Quoted(f) \in Int /\ Debited(f) \in Int
    <3>1. /\ g \in Floats /\ f \in FeesOf /\ X(f) \in Nat /\ Y(f) \in Nat /\ Carried(f) \in Nat
          /\ Quoted(f) \in Int /\ Debited(f) \in Int
      BY FeeTypes, Zenon
    <3> HIDE DEF f, g
    <3> QED BY <3>1
  <2> DEFINE m == f.processing - (Quoted(f) - Debited(f))
             d == IF m >= 0 THEN Credit("processing", m) ELSE Debit("processing", -m)
  <2>2. s \in Accounts
    BY <1>1 DEF SourceOf
  <2> HIDE DEF f, s, g
  <2>3. f.requested \in Int /\ f.processing \in Int /\ f.platform \in Int /\ f.provider \in Int
    BY <2>1 DEF FeesOf
  <2>4. Reservation(f) \in Entries /\ Suspension(f) \in Entries /\ Release(s, f) \in Entries
    <3> QED BY <1>00, <1>0, <1>1, <2>1, <2>2 DEF Reservation, Suspension, Release
  <2>5. Settlement(s, g, f) \in Entries
    <3>1. f.requested - X(f) + f.provider \in Int
      BY <2>1, <2>3
    <3>2. /\ Debit(s, Carried(f)) \in R /\ Debit("expense", f.provider) \in R
          /\ Credit(g, f.requested - X(f) + f.provider) \in R
          /\ Credit("processing", f.processing) \in R /\ Credit("platform", f.platform) \in R
      BY <1>0, <1>1, <2>1, <2>2, <2>3, <3>1
    <3> QED BY <1>00, <3>2 DEF Settlement
  <2>6. Collection(g, f) \in Entries
    <3>1. m \in Int /\ Debited(f) - f.provider \in Int /\ f.requested - Y(f) \in Int
      BY <2>1, <2>3
    <3>2. d \in R
      <4> HIDE DEF m
      <4> QED BY <1>0, <1>1, <3>1
    <3>3. /\ Debit(g, Debited(f) - f.provider) \in R /\ Debit("expense", f.provider) \in R
          /\ Credit("available", f.requested - Y(f)) \in R /\ Credit("platform", f.platform) \in R
      BY <1>0, <1>1, <2>1, <2>3, <3>1
    <3>4. Collection(g, f) = << Debit(g, Debited(f) - f.provider), Debit("expense", f.provider),
                                Credit("available", f.requested - Y(f)), d, Credit("platform", f.platform) >>
      BY DEF Collection
    <3> HIDE DEF d
    <3> QED BY <1>00, <3>2, <3>3, <3>4
  <2> QED BY <2>4, <2>5, <2>6 DEF f, s, g
<1>3. ASSUME NEW t \in DOMAIN Transfers PROVE TransferEntry(t) \in Entries
  <2>1. /\ Transfers[t].source \in Accounts /\ Transfers[t].destination \in Accounts
        /\ Transfers[t].amount \in Int /\ Transfers[t].fee \in Int
    BY <1>1, TreasuryOK
  <2>2. /\ Credit(Transfers[t].source, Transfers[t].amount) \in R
        /\ Debit(Transfers[t].destination, Transfers[t].amount - Transfers[t].fee) \in R
        /\ Debit("expense", Transfers[t].fee) \in R
    BY <1>0, <1>1, <2>1
  <2> QED BY <1>00, <2>2 DEF TransferEntry, FloatTransfer
<1>4. ASSUME NEW c \in DOMAIN Cashouts PROVE CashoutEntry(Cashouts[c].float, Cashouts[c].amount) \in Entries
  <2>0. Cashouts[c].float \in Accounts /\ Cashouts[c].amount \in Int
    BY <1>1, TreasuryOK
  <2>1. Credit(Cashouts[c].float, Cashouts[c].amount) \in R /\ Debit("settlement", Cashouts[c].amount) \in R
    BY <1>0, <1>1, <2>0
  <2> QED BY <1>00, <2>1 DEF CashoutEntry
<1>5. ASSUME NEW n \in DOMAIN Fundings
      PROVE  /\ Fundings[n].float # None => FloatFunding(Fundings[n].float, Fundings[n].amount) \in Entries
             /\ ProjectFunding(Fundings[n].amount) \in Entries
  <2>1. /\ Fundings[n].amount \in Int
        /\ Fundings[n].float # None => Fundings[n].float \in Accounts
    BY <1>1, TreasuryOK
  <2>2. /\ Debit("capital", Fundings[n].amount) \in R /\ Credit("available", Fundings[n].amount) \in R
        /\ Credit("capital", Fundings[n].amount) \in R
        /\ Fundings[n].float # None => Debit(Fundings[n].float, Fundings[n].amount) \in R
    BY <1>0, <1>1, <2>1
  <2> QED BY <1>00, <2>2 DEF FloatFunding, ProjectFunding
<1>6. ASSUME NEW j \in DOMAIN Adjustments PROVE Adjustments[j] \in Entries
  <2> DEFINE Q == [account : Accounts, side : Sides, amount : Nat \ {0}]
  <2>1. Adjustments[j] \in Seq(Q)
    BY TreasuryOK
  <2>2. Q \subseteq R
    BY DEF R
  <2> HIDE DEF Q
  <2> QED BY <1>00, <2>1, <2>2
<1> QED BY <1>2, <1>3, <1>4, <1>5, <1>6

LEMMA PostedTypes ==
    ASSUME TreasuryTypeOK, NEW e \in Entries, PostEntry(e)
    PROVE  /\ books' \in [Accounts -> Int]
           /\ \A a \in Accounts : books'[a] = books[a] + BalanceOf(a, e)
<1>1. \A a \in Accounts : BalanceOf(a, e) \in Int
  BY BalanceIsInt DEF Entries
<1>2. books' = [a \in Accounts |-> books[a] + BalanceOf(a, e)]
  BY DEF PostEntry, Posted
<1> QED BY <1>1, <1>2 DEF TreasuryTypeOK
-----------------------------------------------------------------------------
(***************************************************************************)
(* Every variable keeps its type.                                          *)
(***************************************************************************)
CashoutRow == [status : {"none", "pending_approval", "confirmed"}, by : Admins \cup {None}, approver : Admins \cup {None}]
ApprovalRow == [status : {"none", "pending", "approved", "declined"}, by : Admins \cup {None}, decided : Admins \cup {None}]

LEMMA PaymentPaid ==
    ASSUME NEW m \in [DOMAIN Payments -> [state : PaymentStates, moved : BOOLEAN]], NEW p \in DOMAIN Payments
    PROVE  [m EXCEPT ![p].moved = TRUE] \in [DOMAIN Payments -> [state : PaymentStates, moved : BOOLEAN]]
OBVIOUS

LEMMA PaymentMoves ==
    ASSUME NEW m \in [DOMAIN Payments -> [state : PaymentStates, moved : BOOLEAN]], NEW p \in DOMAIN Payments,
           NEW s \in PaymentStates
    PROVE  /\ [m EXCEPT ![p].state = s] \in [DOMAIN Payments -> [state : PaymentStates, moved : BOOLEAN]]
           /\ [m EXCEPT ![p].moved = TRUE] \in [DOMAIN Payments -> [state : PaymentStates, moved : BOOLEAN]]
           /\ \A q \in DOMAIN Payments :
                  /\ [m EXCEPT ![p].state = s][q] = [state |-> IF q = p THEN s ELSE m[q].state, moved |-> m[q].moved]
                  /\ [m EXCEPT ![p].moved = TRUE][q] = [state |-> m[q].state, moved |-> q = p \/ m[q].moved]
OBVIOUS

LEMMA TransferMoves ==
    ASSUME NEW m \in [DOMAIN Transfers -> [status : {"none", "pending", "confirmed"}, moved : BOOLEAN]],
           NEW t \in DOMAIN Transfers
    PROVE  /\ [m EXCEPT ![t].status = "pending"] \in [DOMAIN Transfers -> [status : {"none", "pending", "confirmed"}, moved : BOOLEAN]]
           /\ [m EXCEPT ![t].moved = TRUE] \in [DOMAIN Transfers -> [status : {"none", "pending", "confirmed"}, moved : BOOLEAN]]
           /\ \A u \in DOMAIN Transfers :
                  /\ [m EXCEPT ![t].status = "pending"][u] = [status |-> IF u = t THEN "pending" ELSE m[u].status, moved |-> m[u].moved]
                  /\ [m EXCEPT ![t].moved = TRUE][u] = [status |-> m[u].status, moved |-> u = t \/ m[u].moved]
OBVIOUS

LEMMA RowTypes ==
    ASSUME NEW a \in Admins, NEW b \in Admins \cup {None}
    PROVE  /\ [status |-> "pending_approval", by |-> a, approver |-> None] \in CashoutRow
           /\ [status |-> "confirmed", by |-> a, approver |-> None] \in CashoutRow
           /\ [status |-> "confirmed", by |-> b, approver |-> a] \in CashoutRow
           /\ [status |-> "pending", by |-> a, decided |-> None] \in ApprovalRow
           /\ [status |-> "approved", by |-> b, decided |-> a] \in ApprovalRow
           /\ [status |-> "declined", by |-> b, decided |-> a] \in ApprovalRow
BY DEF CashoutRow, ApprovalRow

LEMMA RowBy ==
    /\ \A r \in CashoutRow : r.by \in Admins \cup {None}
    /\ \A r \in ApprovalRow : r.by \in Admins \cup {None}
BY DEF CashoutRow, ApprovalRow

LEMMA WalletMoves ==
    ASSUME NEW m \in [Floats -> Int], NEW f \in Floats, NEW n \in Int
    PROVE  [m EXCEPT ![f] = @ + n] \in [Floats -> Int]
OBVIOUS

LEMMA InitialTypes == TreasuryInit => TreasuryTypeOK
<1> SUFFICES ASSUME TreasuryInit PROVE TreasuryTypeOK
  OBVIOUS
<1>1. books \in [Accounts -> Int] /\ wallet \in [Floats -> Int]
  BY TreasuryOK DEF TreasuryInit, Accounts
<1>2. payment \in [DOMAIN Payments -> [state : PaymentStates, moved : BOOLEAN]]
  BY DEF TreasuryInit, PaymentStates
<1>3. transfer \in [DOMAIN Transfers -> [status : {"none", "pending", "confirmed"}, moved : BOOLEAN]]
  BY DEF TreasuryInit
<1>4. cashout \in [DOMAIN Cashouts -> CashoutRow]
  BY DEF TreasuryInit, CashoutRow
<1>5. approval \in [Subjects -> ApprovalRow]
  BY DEF TreasuryInit, ApprovalRow, NotDecided
<1>6. /\ funded \subseteq DOMAIN Fundings /\ adjusted \subseteq DOMAIN Adjustments
      /\ override \in [Floats -> Overrides \cup {None}]
      /\ desk \in [Admins -> DOMAIN Cashouts \cup {None}]
      /\ operations \in 0..MaxOperations /\ late \subseteq Floats
  BY TreasuryOK DEF TreasuryInit
<1> QED BY <1>1, <1>2, <1>3, <1>4, <1>5, <1>6 DEF TreasuryTypeOK, CashoutRow, ApprovalRow

\* A step leaves the books as they are, or posts one entry.
Posts == UNCHANGED books \/ \E e \in Entries : PostEntry(e)

LEMMA StepPosts ==
    ASSUME TreasuryTypeOK, TreasuryNext
    PROVE  Posts
<1>0. ASSUME NEW e \in Entries, PostEntry(e) PROVE Posts
  BY <1>0 DEF Posts
<1>00. ASSUME UNCHANGED books PROVE Posts
  BY <1>00 DEF Posts
<1>1. CASE PaymentSteps
  <2>1. PICK p \in DOMAIN Payments : \/ ConfirmDisbursement(p) \/ StartCollection(p) \/ ProviderPays(p)
                                     \/ PaymentSucceeds(p) \/ PaymentFails(p) \/ PaymentUndetermined(p)
    BY <1>1 DEF PaymentSteps
  <2> QED BY <2>1, <1>0, <1>00, EntryTypes
          DEF ConfirmDisbursement, StartCollection, ProviderPays, PaymentSucceeds, PaymentFails, PaymentUndetermined
<1>2. CASE OperatorSteps
  <2>1. ASSUME NEW t \in DOMAIN Transfers, RegisterFloatTransfer(t) PROVE Posts
    BY <2>1, <1>0, EntryTypes DEF RegisterFloatTransfer
  <2>2. ASSUME NEW a \in Admins, CommitCashout(a) PROVE Posts
    <3>1. desk[a] \in DOMAIN Cashouts
      BY <2>2 DEF CommitCashout, TreasuryTypeOK
    <3> QED BY <2>2, <3>1, <1>0, <1>00, EntryTypes DEF CommitCashout
  <2>3. ASSUME NEW a \in Admins, NEW c, BeginCashout(a, c) PROVE Posts
    BY <2>3, <1>00 DEF BeginCashout
  <2>4. ASSUME NEW a \in Admins, NEW s \in Subjects, NEW decision, DecideApproval(s, a, decision)
        PROVE  Posts
    <3>1. CASE UNCHANGED books
      BY <3>1, <1>00
    <3>2. CASE s[1] = "cashout" /\ ExecuteCashout(s[2], a)
      <4>1. s[2] \in DOMAIN Cashouts
        BY <3>2 DEF Subjects
      <4> QED BY <3>2, <4>1, <1>0, <1>00, EntryTypes DEF ExecuteCashout
    <3>3. CASE s[1] # "cashout" /\ PostAdjustment(s[2])
      <4>1. s[2] \in DOMAIN Adjustments
        BY <3>3 DEF Subjects
      <4> QED BY <3>3, <4>1, <1>0, EntryTypes DEF PostAdjustment
    <3> QED BY <2>4, <3>1, <3>2, <3>3 DEF DecideApproval
  <2>5. ASSUME NEW n \in DOMAIN Fundings, RecordFunding(n) PROVE Posts
    BY <2>5, <1>0, EntryTypes DEF RecordFunding
  <2>6. ASSUME NEW a \in Admins, NEW j \in DOMAIN Adjustments, RequestAdjustment(j, a)
        PROVE  Posts
    BY <2>6, <1>0, <1>00, EntryTypes DEF RequestAdjustment, PostAdjustment
  <2>7. ASSUME NEW f, NEW amount, SetThreshold(f, amount) PROVE Posts
    BY <2>7, <1>00 DEF SetThreshold
  <2> QED BY <1>2, <2>1, <2>2, <2>3, <2>4, <2>5, <2>6, <2>7 DEF OperatorSteps
<1>3. CASE TreasuryWorker \/ \E t \in DOMAIN Transfers : ProviderTransfers(t)
  BY <1>3, <1>00 DEF TreasuryWorker, ReadWallets, ConfirmPendingTransfers, EvaluateCover, CheckFloatDrift,
                     ProviderTransfers
<1> QED BY <1>1, <1>2, <1>3 DEF TreasuryNext

\* Whatever is posted, the books stay whole numbers.
LEMMA BooksTyped ==
    ASSUME TreasuryTypeOK, TreasuryNext
    PROVE  books' \in [Accounts -> Int]
BY StepPosts, PostedTypes DEF Posts, TreasuryTypeOK

\* Every variable of the treasury keeps its type (treasury.service.ts, approval.service.ts).
THEOREM TreasuryTypeCorrect == TreasurySpec => []TreasuryTypeOK
<1>1. ASSUME TreasuryTypeOK, [TreasuryNext]_treasuryVars PROVE TreasuryTypeOK'
  <2>0. CASE UNCHANGED treasuryVars
    BY <1>1, <2>0 DEF TreasuryTypeOK, treasuryVars
  <2> SUFFICES ASSUME TreasuryNext PROVE TreasuryTypeOK'
    BY <1>1, <2>0
  <2> DEFINE Rest == /\ wallet' \in [Floats -> Int]
                     /\ payment' \in [DOMAIN Payments -> [state : PaymentStates, moved : BOOLEAN]]
                     /\ transfer' \in [DOMAIN Transfers -> [status : {"none", "pending", "confirmed"}, moved : BOOLEAN]]
                     /\ cashout' \in [DOMAIN Cashouts -> CashoutRow] /\ approval' \in [Subjects -> ApprovalRow]
                     /\ funded' \subseteq DOMAIN Fundings /\ adjusted' \subseteq DOMAIN Adjustments
                     /\ override' \in [Floats -> Overrides \cup {None}]
                     /\ desk' \in [Admins -> DOMAIN Cashouts \cup {None}]
                     /\ operations' \in 0..MaxOperations /\ late' \subseteq Floats
  <2>1. books' \in [Accounts -> Int]
    BY <1>1, BooksTyped
  <2>2. /\ wallet \in [Floats -> Int]
        /\ payment \in [DOMAIN Payments -> [state : PaymentStates, moved : BOOLEAN]]
        /\ transfer \in [DOMAIN Transfers -> [status : {"none", "pending", "confirmed"}, moved : BOOLEAN]]
        /\ cashout \in [DOMAIN Cashouts -> CashoutRow] /\ approval \in [Subjects -> ApprovalRow]
        /\ funded \subseteq DOMAIN Fundings /\ adjusted \subseteq DOMAIN Adjustments
        /\ override \in [Floats -> Overrides \cup {None}]
        /\ desk \in [Admins -> DOMAIN Cashouts \cup {None}]
        /\ operations \in 0..MaxOperations /\ late \subseteq Floats
    BY <1>1 DEF TreasuryTypeOK, CashoutRow, ApprovalRow
  <2>3. ASSUME PaymentSteps PROVE Rest
    <3>1. PICK p \in DOMAIN Payments : \/ ConfirmDisbursement(p) \/ StartCollection(p) \/ ProviderPays(p)
                                       \/ PaymentSucceeds(p) \/ PaymentFails(p) \/ PaymentUndetermined(p)
      BY <2>3 DEF PaymentSteps
    <3>2. /\ UNCHANGED <<transfer, cashout, approval, funded, adjusted, override, desk, operations, late>>
      BY <3>1 DEF ConfirmDisbursement, StartCollection, ProviderPays, PaymentSucceeds, PaymentFails, PaymentUndetermined
    <3>3. payment' \in [DOMAIN Payments -> [state : PaymentStates, moved : BOOLEAN]]
      <4>1. \/ payment' = [payment EXCEPT ![p].moved = TRUE]
            \/ \E s \in {"submitted", "undetermined", "succeeded", "failed"} : payment' = [payment EXCEPT ![p].state = s]
        BY <3>1 DEF ConfirmDisbursement, StartCollection, ProviderPays, PaymentSucceeds, PaymentFails, PaymentUndetermined
      <4>2. {"submitted", "undetermined", "succeeded", "failed"} \subseteq PaymentStates
        BY DEF PaymentStates
      <4>3. CASE payment' = [payment EXCEPT ![p].moved = TRUE]
        BY <2>2, <4>3, PaymentPaid
      <4>4. ASSUME NEW s \in PaymentStates, payment' = [payment EXCEPT ![p].state = s]
            PROVE  payment' \in [DOMAIN Payments -> [state : PaymentStates, moved : BOOLEAN]]
        BY <2>2, <4>4, PaymentMoves
      <4> QED BY <4>1, <4>2, <4>3, <4>4
    <3>4. wallet' \in [Floats -> Int]
      <4>1. CASE ProviderPays(p)
        <5> DEFINE n == IF Outgoing(p) THEN -ProviderTakes(p) ELSE Debited(Fees(p)) - Fees(p).provider
        <5>1. n \in Int
          <6>1. ProviderTakes(p) \in Int /\ Debited(Fees(p)) \in Int /\ Fees(p).provider \in Int
            BY FeeTypes
          <6> QED BY <6>1
        <5>2. wallet' = [wallet EXCEPT ![Payments[p].float] = @ + n]
          BY <4>1 DEF ProviderPays
        <5>3. Payments[p].float \in Floats
          BY FeeTypes
        <5> HIDE DEF n
        <5>4. [wallet EXCEPT ![Payments[p].float] = @ + n] \in [Floats -> Int]
          BY <2>2, <5>1, <5>3, WalletMoves
        <5> QED BY <5>2, <5>4
      <4>2. CASE ~ProviderPays(p)
        BY <2>2, <3>1, <4>2
           DEF ConfirmDisbursement, StartCollection, PaymentSucceeds, PaymentFails, PaymentUndetermined
      <4> QED BY <4>1, <4>2
    <3> QED BY <2>2, <3>2, <3>3, <3>4
  <2>4. ASSUME OperatorSteps PROVE Rest
    <3>1. ASSUME NEW t \in DOMAIN Transfers, RegisterFloatTransfer(t) PROVE Rest
      <4>1. transfer' = [transfer EXCEPT ![t].status = "pending"] /\ operations' \in 0..MaxOperations
        BY <2>2, <3>1, TreasuryOK DEF RegisterFloatTransfer, Operate
      <4>2. UNCHANGED <<wallet, payment, cashout, approval, funded, adjusted, override, desk, late>>
        BY <3>1 DEF RegisterFloatTransfer
      <4> QED BY <2>2, <4>1, <4>2, TransferMoves
    <3>2. ASSUME NEW a \in Admins, CommitCashout(a) PROVE Rest
      <4>1. desk[a] \in DOMAIN Cashouts /\ <<"cashout", desk[a]>> \in Subjects
        BY <2>2, <3>2 DEF CommitCashout, Subjects
      <4>2. cashout' \in [DOMAIN Cashouts -> CashoutRow]
        <5>1. \E r \in CashoutRow : cashout' = [cashout EXCEPT ![desk[a]] = r]
          BY <3>2, RowTypes DEF CommitCashout
        <5> QED BY <2>2, <4>1, <5>1
      <4>3. approval' \in [Subjects -> ApprovalRow]
        <5>1. \/ \E r \in ApprovalRow : approval' = [approval EXCEPT ![<<"cashout", desk[a]>>] = r]
              \/ approval' = approval
          BY <3>2, RowTypes DEF CommitCashout
        <5> QED BY <2>2, <4>1, <5>1
      <4>4. desk' \in [Admins -> DOMAIN Cashouts \cup {None}]
        BY <2>2, <3>2 DEF CommitCashout
      <4>5. UNCHANGED <<wallet, payment, transfer, funded, adjusted, override, operations, late>>
        BY <3>2 DEF CommitCashout
      <4> QED BY <2>2, <4>2, <4>3, <4>4, <4>5
    <3>3. ASSUME NEW a \in Admins, NEW c \in DOMAIN Cashouts, BeginCashout(a, c) PROVE Rest
      <4>1. desk' \in [Admins -> DOMAIN Cashouts \cup {None}] /\ operations' \in 0..MaxOperations
        BY <2>2, <3>3, TreasuryOK DEF BeginCashout, Operate
      <4>2. UNCHANGED <<wallet, payment, transfer, cashout, approval, funded, adjusted, override, late>>
        BY <3>3 DEF BeginCashout
      <4> QED BY <2>2, <4>1, <4>2
    <3>4. ASSUME NEW a \in Admins, NEW s \in Subjects, NEW decision \in {"approved", "declined"}, DecideApproval(s, a, decision)
          PROVE  Rest
      <4>1. approval' \in [Subjects -> ApprovalRow]
        <5>1. approval' = [approval EXCEPT ![s] = [status |-> decision, by |-> approval[s].by, decided |-> a]]
          BY <3>4 DEF DecideApproval
        <5>2. approval[s].by \in Admins \cup {None}
          BY <2>2, RowBy
        <5>3. [status |-> decision, by |-> approval[s].by, decided |-> a] \in ApprovalRow
          BY <5>2, RowTypes
        <5> QED BY <2>2, <5>1, <5>3
      <4>2. UNCHANGED <<wallet, payment, transfer, funded, override, desk, operations>>
        BY <3>4 DEF DecideApproval
      <4>3. /\ cashout' \in [DOMAIN Cashouts -> CashoutRow] /\ adjusted' \subseteq DOMAIN Adjustments /\ late' \subseteq Floats
        <5>1. CASE decision = "declined"
          BY <2>2, <3>4, <5>1 DEF DecideApproval
        <5>2. CASE decision # "declined" /\ s[1] = "cashout"
          <6>1. s[2] \in DOMAIN Cashouts
            BY <5>2 DEF Subjects
          <6>2. Cashouts[s[2]].float \in Floats
            BY <6>1, TreasuryOK
          <6>3. ExecuteCashout(s[2], a) /\ UNCHANGED adjusted
            BY <3>4, <5>2 DEF DecideApproval
          <6>4. /\ \/ cashout' = cashout
                   \/ cashout' = [cashout EXCEPT ![s[2]] = [status |-> "confirmed", by |-> cashout[s[2]].by, approver |-> a]]
                /\ late' = late \/ late' = late \cup {Cashouts[s[2]].float}
            BY <6>3 DEF ExecuteCashout
          <6>5. cashout' \in [DOMAIN Cashouts -> CashoutRow]
            <7>1. [status |-> "confirmed", by |-> cashout[s[2]].by, approver |-> a] \in CashoutRow
              <8>1. cashout[s[2]].by \in Admins \cup {None}
                BY <2>2, <6>1, RowBy
              <8> QED BY <8>1, RowTypes
            <7> QED BY <2>2, <6>1, <6>4, <7>1
          <6> QED BY <2>2, <6>2, <6>3, <6>4, <6>5
        <5>3. CASE decision # "declined" /\ s[1] # "cashout"
          <6>1. s[2] \in DOMAIN Adjustments
            BY <5>3 DEF Subjects
          <6>2. PostAdjustment(s[2]) /\ UNCHANGED cashout
            BY <3>4, <5>3 DEF DecideApproval
          <6> QED BY <2>2, <6>1, <6>2 DEF PostAdjustment
        <5> QED BY <5>1, <5>2, <5>3
      <4> QED BY <2>2, <4>1, <4>2, <4>3
    <3>5. ASSUME NEW n \in DOMAIN Fundings, RecordFunding(n) PROVE Rest
      <4>1. wallet' \in [Floats -> Int]
        <5>1. Fundings[n].amount \in Int
          BY TreasuryOK
        <5> QED BY <2>2, <3>5, <5>1 DEF RecordFunding
      <4>2. funded' \subseteq DOMAIN Fundings /\ operations' \in 0..MaxOperations
        BY <2>2, <3>5, TreasuryOK DEF RecordFunding, Operate
      <4>3. UNCHANGED <<payment, transfer, cashout, approval, adjusted, override, desk, late>>
        BY <3>5 DEF RecordFunding
      <4> QED BY <2>2, <4>1, <4>2, <4>3
    <3>6. ASSUME NEW a \in Admins, NEW j \in DOMAIN Adjustments, RequestAdjustment(j, a) PROVE Rest
      <4>1. approval' \in [Subjects -> ApprovalRow]
        <5>1. <<"adjustment", j>> \in Subjects
          BY DEF Subjects
        <5>2. \/ \E r \in ApprovalRow : approval' = [approval EXCEPT ![<<"adjustment", j>>] = r]
              \/ approval' = approval
          BY <3>6, RowTypes DEF RequestAdjustment
        <5> QED BY <2>2, <5>1, <5>2
      <4>2. adjusted' \subseteq DOMAIN Adjustments /\ late' \subseteq Floats
        BY <2>2, <3>6 DEF RequestAdjustment, PostAdjustment
      <4>3. operations' \in 0..MaxOperations
        BY <2>2, <3>6, TreasuryOK DEF RequestAdjustment, Operate
      <4>4. UNCHANGED <<wallet, payment, transfer, cashout, funded, override, desk>>
        BY <3>6 DEF RequestAdjustment
      <4> QED BY <2>2, <4>1, <4>2, <4>3, <4>4
    <3>7. ASSUME NEW f \in Floats, NEW amount \in Overrides, SetThreshold(f, amount) PROVE Rest
      <4>1. override' \in [Floats -> Overrides \cup {None}] /\ operations' \in 0..MaxOperations
        BY <2>2, <3>7, TreasuryOK DEF SetThreshold, Operate
      <4>2. UNCHANGED <<wallet, payment, transfer, cashout, approval, funded, adjusted, desk, late>>
        BY <3>7 DEF SetThreshold
      <4> QED BY <2>2, <4>1, <4>2
    <3> HIDE DEF Rest
    <3> QED BY <2>4, <3>1, <3>2, <3>3, <3>4, <3>5, <3>6, <3>7 DEF OperatorSteps
  <2>5. ASSUME TreasuryWorker PROVE Rest
    <3>1. UNCHANGED <<wallet, payment, cashout, approval, funded, adjusted, override, desk, operations, late>>
      BY <2>5 DEF TreasuryWorker, ReadWallets, ConfirmPendingTransfers, EvaluateCover, CheckFloatDrift
    <3>2. transfer' \in [DOMAIN Transfers -> [status : {"none", "pending", "confirmed"}, moved : BOOLEAN]]
      <4>1. CASE ConfirmPendingTransfers
        <5>1. PICK T : transfer' = [t \in DOMAIN Transfers |->
                          IF t \in T THEN [transfer[t] EXCEPT !.status = "confirmed"] ELSE transfer[t]]
          BY <4>1 DEF ConfirmPendingTransfers
        <5> QED BY <2>2, <5>1
      <4>2. CASE ~ConfirmPendingTransfers
        BY <2>2, <2>5, <4>2 DEF TreasuryWorker, ReadWallets, EvaluateCover, CheckFloatDrift
      <4> QED BY <4>1, <4>2
    <3> QED BY <2>2, <3>1, <3>2
  <2>6. ASSUME NEW t \in DOMAIN Transfers, ProviderTransfers(t) PROVE Rest
    <3>1. wallet' \in [Floats -> Int]
      <4>1. /\ Transfers[t].source \in Floats /\ Transfers[t].destination \in Floats
            /\ Transfers[t].amount \in Int /\ Transfers[t].fee \in Int
        BY TreasuryOK
      <4>2. \A f \in Floats : MovedBy(f, t) \in Int
        BY <4>1 DEF MovedBy
      <4> QED BY <2>2, <2>6, <4>2 DEF ProviderTransfers
    <3>2. transfer' = [transfer EXCEPT ![t].moved = TRUE]
      BY <2>6 DEF ProviderTransfers
    <3>3. UNCHANGED <<payment, cashout, approval, funded, adjusted, override, desk, operations, late>>
      BY <2>6 DEF ProviderTransfers
    <3> QED BY <2>2, <3>1, <3>2, <3>3, TransferMoves
  <2>7. Rest
    <3> HIDE DEF Rest
    <3> QED BY <2>3, <2>4, <2>5, <2>6 DEF TreasuryNext
  <2> QED BY <2>1, <2>7 DEF TreasuryTypeOK, CashoutRow, ApprovalRow
<1> QED BY <1>1, InitialTypes, PTL DEF TreasurySpec

-----------------------------------------------------------------------------
(***************************************************************************)
(* What open disbursements will take, and what the cash-outs and the       *)
(* adjustments came to, as one step changes them.                          *)
(***************************************************************************)
OpenIn(f, m) == {p \in DOMAIN Payments : Outgoing(p) /\ Payments[p].float = f /\ m[p].state \in OpenPayment}
OpenSum(f, m) == SumFunction([p \in OpenIn(f, m) |-> ProviderTakes(p)])
Draw(f, m, p) == IF p \in OpenIn(f, m) THEN ProviderTakes(p) ELSE 0

LEMMA OpenIsSum == \A f : OpenDisbursements(f) = OpenSum(f, payment)
BY DEF OpenDisbursements, OpenSum, DrawnOn, OpenIn

LEMMA OpenIsSumNext == \A f : OpenDisbursements(f)' = OpenSum(f, payment')
BY DEF OpenDisbursements, OpenSum, DrawnOn, OpenIn, Outgoing, ProviderTakes, Fees

LEMMA OpenOverAll ==
    ASSUME NEW f, NEW m
    PROVE  OpenSum(f, m) = SumFunctionOnSet([p \in DOMAIN Payments |-> Draw(f, m, p)], DOMAIN Payments)
<1> DEFINE T == OpenIn(f, m)
           g == [p \in T |-> ProviderTakes(p)]
           h == [p \in DOMAIN Payments |-> Draw(f, m, p)]
<1>1. T \subseteq DOMAIN Payments /\ DOMAIN g = T
  BY DEF OpenIn
<1>2. \A p \in T : g[p] \in Int
  BY <1>1, FeeTypes
<1>3. \A p \in DOMAIN Payments : h[p] = IF p \in T THEN g[p] ELSE 0
  BY DEF Draw
<1>4. IsFiniteSet(DOMAIN Payments)
  BY TreasuryOK
<1>5. SumFunctionOnSet(h, DOMAIN Payments) = SumFunctionOnSet(g, T)
  <2> HIDE DEF g, h, T
  <2> QED BY <1>1, <1>2, <1>3, <1>4, SumElsewhereZero
<1> QED BY <1>1, <1>5 DEF OpenSum, SumFunction

LEMMA DrawIsNat == ASSUME NEW f, NEW m, NEW p \in DOMAIN Payments PROVE Draw(f, m, p) \in Nat
BY FeeTypes DEF Draw, OpenIn

LEMMA OpenIsNat == ASSUME NEW f, NEW m PROVE OpenSum(f, m) \in Nat
<1> DEFINE h == [p \in DOMAIN Payments |-> Draw(f, m, p)]
<1>1. \A p \in DOMAIN Payments : h[p] \in Nat
  BY DrawIsNat
<1>2. IsFiniteSet(DOMAIN Payments)
  BY TreasuryOK
<1>3. SumFunctionOnSet(h, DOMAIN Payments) \in Nat
  <2> HIDE DEF h
  <2> QED BY <1>1, <1>2, SumIsNat
<1> QED BY <1>3, OpenOverAll

\* One payment changes state.
LEMMA OpenStep ==
    ASSUME NEW f, NEW m, NEW n, NEW p \in DOMAIN Payments,
           \A q \in DOMAIN Payments : q # p => n[q].state = m[q].state
    PROVE  OpenSum(f, n) = OpenSum(f, m) - Draw(f, m, p) + Draw(f, n, p)
<1> DEFINE h == [q \in DOMAIN Payments |-> Draw(f, m, q)]
           k == [q \in DOMAIN Payments |-> Draw(f, n, q)]
<1>1. \A q \in DOMAIN Payments : h[q] \in Int /\ k[q] \in Int
  BY DrawIsNat
<1>2. \A q \in DOMAIN Payments : q # p => k[q] = h[q]
  BY DEF Draw, OpenIn
<1>3. IsFiniteSet(DOMAIN Payments)
  BY TreasuryOK
<1>4. h[p] = Draw(f, m, p) /\ k[p] = Draw(f, n, p)
  OBVIOUS
<1>5. SumFunctionOnSet(k, DOMAIN Payments) = SumFunctionOnSet(h, DOMAIN Payments) - h[p] + k[p]
  <2> HIDE DEF h, k
  <2> QED BY <1>1, <1>2, <1>3, SumChange
<1> QED BY <1>4, <1>5, OpenOverAll

ConfirmedSum(m) ==
    SumFunction([c \in {c \in DOMAIN Cashouts : m[c].status = "confirmed"} |-> Cashouts[c].amount])
AdjustedSum(a, J) == SumFunction([j \in J |-> BalanceOf(a, Adjustments[j])])

\* One cash-out is confirmed.
LEMMA ConfirmedStep ==
    ASSUME NEW m, NEW n, NEW c \in DOMAIN Cashouts, m[c].status # "confirmed", n[c].status = "confirmed",
           \A d \in DOMAIN Cashouts : d # c => n[d].status = m[d].status
    PROVE  ConfirmedSum(n) = Cashouts[c].amount + ConfirmedSum(m)
<1> DEFINE S == {d \in DOMAIN Cashouts : m[d].status = "confirmed"}
           T == {d \in DOMAIN Cashouts : n[d].status = "confirmed"}
           f == [d \in T |-> Cashouts[d].amount]
           g == [d \in S |-> Cashouts[d].amount]
<1>1. T = S \cup {c} /\ c \notin S
  OBVIOUS
<1>2. IsFiniteSet(S)
  BY TreasuryOK, FS_Subset
<1>3. DOMAIN f = S \cup {c} /\ DOMAIN g = S /\ f[c] \in Int /\ \A d \in S : f[d] \in Int /\ g[d] = f[d]
  <2>1. \A d \in DOMAIN Cashouts : Cashouts[d].amount \in Int
    BY TreasuryOK
  <2> QED BY <1>1, <2>1
<1>4. SumFunction(f) = f[c] + SumFunction(g)
  <2> HIDE DEF f, g, S, T
  <2> QED BY <1>1, <1>2, <1>3, SumExtended
<1> QED BY <1>1, <1>4 DEF ConfirmedSum

\* One adjustment is posted.
LEMMA AdjustedStep ==
    ASSUME NEW a, NEW J \in SUBSET DOMAIN Adjustments, NEW j \in DOMAIN Adjustments, j \notin J
    PROVE  AdjustedSum(a, J \cup {j}) = BalanceOf(a, Adjustments[j]) + AdjustedSum(a, J)
<1> DEFINE f == [i \in J \cup {j} |-> BalanceOf(a, Adjustments[i])]
           g == [i \in J |-> BalanceOf(a, Adjustments[i])]
<1>1. IsFiniteSet(J)
  BY TreasuryOK, FS_Subset
<1>2. \A i \in DOMAIN Adjustments : BalanceOf(a, Adjustments[i]) \in Int
  BY EntryTypes, BalanceIsInt DEF Entries
<1>3. DOMAIN f = J \cup {j} /\ DOMAIN g = J /\ f[j] \in Int /\ \A i \in J : f[i] \in Int /\ g[i] = f[i]
  BY <1>2
<1>4. SumFunction(f) = f[j] + SumFunction(g)
  <2> HIDE DEF f, g
  <2> QED BY <1>1, <1>3, SumExtended
<1> QED BY <1>4 DEF AdjustedSum

LEMMA SumsAreInt ==
    /\ \A m : ConfirmedSum(m) \in Int
    /\ \A a, J : J \subseteq DOMAIN Adjustments => AdjustedSum(a, J) \in Int
<1>1. ASSUME NEW m PROVE ConfirmedSum(m) \in Int
  <2> DEFINE S == {d \in DOMAIN Cashouts : m[d].status = "confirmed"}
             g == [d \in S |-> Cashouts[d].amount]
  <2>1. IsFiniteSet(S)
    BY TreasuryOK, FS_Subset
  <2>2. \A d \in S : g[d] \in Int
    BY TreasuryOK
  <2>3. DOMAIN g = S
    OBVIOUS
  <2>4. SumFunctionOnSet(g, S) \in Int
    <3> HIDE DEF g, S
    <3> QED BY <2>1, <2>2, SumIsInt
  <2> QED BY <2>3, <2>4 DEF ConfirmedSum, SumFunction
<1>2. ASSUME NEW a, NEW J, J \subseteq DOMAIN Adjustments PROVE AdjustedSum(a, J) \in Int
  <2> DEFINE g == [i \in J |-> BalanceOf(a, Adjustments[i])]
  <2>1. IsFiniteSet(J)
    BY <1>2, TreasuryOK, FS_Subset
  <2>2. \A i \in DOMAIN Adjustments : BalanceOf(a, Adjustments[i]) \in Int
    BY EntryTypes, BalanceIsInt DEF Entries
  <2>3. DOMAIN g = J /\ \A i \in J : g[i] \in Int
    BY <1>2, <2>2
  <2>4. SumFunctionOnSet(g, J) \in Int
    <3> HIDE DEF g
    <3> QED BY <2>1, <2>3, SumIsInt
  <2> QED BY <2>3, <2>4 DEF AdjustedSum, SumFunction
<1> QED BY <1>1, <1>2

\* An entry leaves an account it does not name as it was.
LEMMA NotNamed ==
    ASSUME NEW e \in Entries, NEW a, \A i \in DOMAIN e : e[i].account # a
    PROVE  BalanceOf(a, e) = 0
<1> DEFINE R == [account : Accounts, side : Sides, amount : Int]
           g == [i \in DOMAIN e |-> AddedTo(a, e[i])]
<1>1. Len(e) \in Nat /\ DOMAIN e = 1..Len(e)
  <2>1. e \in Seq(R)
    BY DEF Entries
  <2> HIDE DEF R
  <2> QED BY <2>1
<1>2. IsFiniteSet(DOMAIN e)
  BY <1>1, FS_Interval
<1>3. \A i \in DOMAIN e : g[i] = 0
  BY DEF AddedTo
<1>4. DOMAIN g = DOMAIN e
  OBVIOUS
<1>5. SumFunctionOnSet(g, DOMAIN e) = 0
  <2> HIDE DEF g
  <2> QED BY <1>2, <1>3, SumOfZeros
<1> QED BY <1>4, <1>5 DEF BalanceOf, SumFunction

-----------------------------------------------------------------------------
(***************************************************************************)
(* Desks, approvals and adjustments.                                       *)
(***************************************************************************)
\* A cash-out somebody works on is not recorded yet, and holds its float alone.
DeskWaits ==
    /\ \A a \in Admins : desk[a] # None => cashout[desk[a]].status = "none"
    /\ \A a, b \in Admins : /\ desk[a] # None /\ desk[b] # None /\ Cashouts[desk[a]].float = Cashouts[desk[b]].float
                            => a = b

\* A cash-out stands as its approval does.
StandsAs(c, row, decision) ==
    CASE row.status = "none" -> decision.status = "none"
      [] row.status = "pending_approval" -> Cashouts[c].amount > CashoutThreshold /\ decision.status \in {"pending", "declined"}
      [] row.status = "confirmed" -> IF Cashouts[c].amount > CashoutThreshold
                                     THEN decision.status = "approved" /\ row.approver \notin {None, row.by}
                                     ELSE decision.status = "none"
ApprovedAsDecided == \A c \in DOMAIN Cashouts : StandsAs(c, cashout[c], approval[<<"cashout", c>>])

\* An adjustment that waits for a second person was not posted.
AdjustedOnce == \A j \in DOMAIN Adjustments : approval[<<"adjustment", j>>].status = "pending" => j \notin adjusted

PeopleInv == DeskWaits /\ ApprovedAsDecided /\ AdjustedOnce

LEMMA SubjectsApart ==
    /\ \A c \in DOMAIN Cashouts : <<"cashout", c>> \in Subjects
    /\ \A j \in DOMAIN Adjustments : <<"adjustment", j>> \in Subjects
    /\ \A c, j : <<"cashout", c>> # <<"adjustment", j>>
    /\ \A c, d : <<"cashout", c>> = <<"cashout", d>> => c = d
    /\ \A i, j : <<"adjustment", i>> = <<"adjustment", j>> => i = j
    /\ \A s \in Subjects : \/ s[1] = "cashout" /\ s[2] \in DOMAIN Cashouts /\ s = <<"cashout", s[2]>>
                           \/ s[1] = "adjustment" /\ s[2] \in DOMAIN Adjustments /\ s = <<"adjustment", s[2]>>
BY DEF Subjects

\* The variables as functions, without their ranges.
LEMMA Shapes ==
    ASSUME TreasuryTypeOK
    PROVE  /\ cashout \in [DOMAIN Cashouts -> CashoutRow] /\ approval \in [Subjects -> ApprovalRow]
           /\ desk \in [Admins -> DOMAIN Cashouts \cup {None}] /\ adjusted \subseteq DOMAIN Adjustments
           /\ payment \in [DOMAIN Payments -> [state : PaymentStates, moved : BOOLEAN]]
           /\ books \in [Accounts -> Int] /\ wallet \in [Floats -> Int] /\ late \subseteq Floats
           /\ transfer \in [DOMAIN Transfers -> [status : {"none", "pending", "confirmed"}, moved : BOOLEAN]]
           /\ override \in [Floats -> Overrides \cup {None}]
BY DEF TreasuryTypeOK, CashoutRow, ApprovalRow

LEMMA PeopleInit == TreasuryInit => PeopleInv
<1> SUFFICES ASSUME TreasuryInit PROVE PeopleInv
  OBVIOUS
<1>1. DeskWaits
  BY DEF TreasuryInit, DeskWaits
<1>2. ASSUME NEW c \in DOMAIN Cashouts PROVE StandsAs(c, cashout[c], approval[<<"cashout", c>>])
  <2>1. cashout[c].status = "none" /\ approval[<<"cashout", c>>].status = "none"
    BY SubjectsApart DEF TreasuryInit, NotDecided
  <2> QED BY <2>1 DEF StandsAs
<1>3. AdjustedOnce
  BY DEF TreasuryInit, AdjustedOnce
<1> QED BY <1>1, <1>2, <1>3 DEF PeopleInv, ApprovedAsDecided

\* Steps that record no cash-out, approval or adjustment.
LEMMA OthersLeavePeople ==
    ASSUME TreasuryTypeOK, PeopleInv, UNCHANGED <<desk, cashout, approval, adjusted>>
    PROVE  PeopleInv'
BY DEF PeopleInv, DeskWaits, ApprovedAsDecided, AdjustedOnce

LEMMA BeginKeepsPeople ==
    ASSUME TreasuryTypeOK, PeopleInv, NEW a \in Admins, NEW c \in DOMAIN Cashouts, BeginCashout(a, c)
    PROVE  PeopleInv'
<1>0. desk' = [desk EXCEPT ![a] = c] /\ UNCHANGED <<cashout, approval, adjusted>>
  BY DEF BeginCashout
<1>1. DeskWaits'
  <2>1. cashout[c].status = "none" /\ \A b \in Admins : desk[b] # None => Cashouts[desk[b]].float # Cashouts[c].float
    BY DEF BeginCashout, Locked
  <2>2. \A b \in Admins : desk'[b] = IF b = a THEN c ELSE desk[b]
    BY <1>0, Shapes
  <2>3. \A b \in Admins : desk'[b] # None => cashout'[desk'[b]].status = "none"
    BY <1>0, <2>1, <2>2 DEF PeopleInv, DeskWaits
  <2>4. \A b, d \in Admins : /\ desk'[b] # None /\ desk'[d] # None /\ Cashouts[desk'[b]].float = Cashouts[desk'[d]].float
                             => b = d
    BY <2>1, <2>2 DEF PeopleInv, DeskWaits
  <2> QED BY <2>3, <2>4 DEF DeskWaits
<1>2. ApprovedAsDecided' /\ AdjustedOnce'
  BY <1>0 DEF PeopleInv, ApprovedAsDecided, AdjustedOnce
<1> QED BY <1>1, <1>2 DEF PeopleInv

LEMMA CommitKeepsPeople ==
    ASSUME TreasuryTypeOK, PeopleInv, NEW a \in Admins, CommitCashout(a)
    PROVE  PeopleInv'
<1> DEFINE c == desk[a]
           large == Cashouts[c].amount > CashoutThreshold
           row == [status |-> IF large THEN "pending_approval" ELSE "confirmed", by |-> a, approver |-> None]
<1>1. c \in DOMAIN Cashouts /\ c # None /\ cashout[c].status = "none" /\ desk' = [desk EXCEPT ![a] = None]
  BY Shapes DEF CommitCashout, PeopleInv, DeskWaits
<1>2. cashout' = [cashout EXCEPT ![c] = row] /\ UNCHANGED adjusted
  BY DEF CommitCashout
<1>3. approval' = IF large THEN [approval EXCEPT ![<<"cashout", c>>] = [status |-> "pending", by |-> a, decided |-> None]]
                  ELSE approval
  BY DEF CommitCashout
<1>4. \A d \in DOMAIN Cashouts : cashout'[d] = IF d = c THEN row ELSE cashout[d]
  BY <1>1, <1>2, Shapes
<1>5. \A b \in Admins : desk'[b] = IF b = a THEN None ELSE desk[b]
  BY <1>1, Shapes
<1>6. DeskWaits'
  <2>1. \A b \in Admins : desk'[b] # None => desk'[b] = desk[b] /\ desk[b] # c
    BY <1>1, <1>5 DEF PeopleInv, DeskWaits
  <2>2. \A b \in Admins : desk'[b] # None => cashout'[desk'[b]].status = "none"
    BY <1>4, <2>1, Shapes DEF PeopleInv, DeskWaits
  <2>3. \A b, d \in Admins : /\ desk'[b] # None /\ desk'[d] # None /\ Cashouts[desk'[b]].float = Cashouts[desk'[d]].float
                             => b = d
    BY <1>5 DEF PeopleInv, DeskWaits
  <2> QED BY <2>2, <2>3 DEF DeskWaits
<1>7. /\ \A d \in DOMAIN Cashouts : d # c => approval'[<<"cashout", d>>] = approval[<<"cashout", d>>]
      /\ \A j \in DOMAIN Adjustments : approval'[<<"adjustment", j>>] = approval[<<"adjustment", j>>]
      /\ approval'[<<"cashout", c>>] = IF large THEN [status |-> "pending", by |-> a, decided |-> None] ELSE approval[<<"cashout", c>>]
  <2>1. <<"cashout", c>> \in Subjects
    BY <1>1, SubjectsApart
  <2>2. \A s \in Subjects : s # <<"cashout", c>> => approval'[s] = approval[s]
    BY <1>3, Shapes
  <2>3. approval'[<<"cashout", c>>] = IF large THEN [status |-> "pending", by |-> a, decided |-> None] ELSE approval[<<"cashout", c>>]
    <3> HIDE DEF large
    <3> QED BY <1>3, <2>1, Shapes
  <2> QED BY <2>2, <2>3, SubjectsApart
<1>8. ApprovedAsDecided'
  <2>1. ASSUME NEW d \in DOMAIN Cashouts PROVE StandsAs(d, cashout'[d], approval'[<<"cashout", d>>])
    <3>1. StandsAs(d, cashout[d], approval[<<"cashout", d>>])
      BY DEF PeopleInv, ApprovedAsDecided
    <3>2. CASE d # c
      BY <3>1, <3>2, <1>4, <1>7
    <3>3. CASE d = c /\ large
      <4>1. row.status = "pending_approval" /\ approval'[<<"cashout", c>>].status = "pending"
        BY <1>7, <3>3
      <4>2. cashout'[d] = row
        BY <1>4, <3>3
      <4> QED BY <3>3, <4>1, <4>2 DEF StandsAs
    <3>4. CASE d = c /\ ~large
      <4>1. row.status = "confirmed" /\ approval'[<<"cashout", c>>] = approval[<<"cashout", c>>]
        BY <1>7, <3>4
      <4>2. approval[<<"cashout", c>>].status = "none"
        BY <1>1, <3>1, <3>4 DEF StandsAs
      <4>3. cashout'[d] = row
        BY <1>4, <3>4
      <4> QED BY <3>4, <4>1, <4>2, <4>3 DEF StandsAs
    <3> QED BY <3>2, <3>3, <3>4
  <2> QED BY <2>1 DEF ApprovedAsDecided
<1>9. AdjustedOnce'
  BY <1>2, <1>7 DEF PeopleInv, AdjustedOnce
<1> QED BY <1>6, <1>8, <1>9 DEF PeopleInv

LEMMA DecisionKeepsPeople ==
    ASSUME TreasuryTypeOK, PeopleInv, NEW a \in Admins, NEW s \in Subjects,
           NEW decision \in {"approved", "declined"}, DecideApproval(s, a, decision)
    PROVE  PeopleInv'
<1>1. /\ approval' = [approval EXCEPT ![s] = [status |-> decision, by |-> approval[s].by, decided |-> a]]
      /\ approval[s].status = "pending" /\ UNCHANGED desk
  BY DEF DecideApproval, Decidable
<1>2. /\ \A r \in Subjects : r # s => approval'[r] = approval[r]
      /\ approval'[s].status = decision
  BY <1>1, Shapes
<1>3. CASE s[1] = "cashout"
  <2> DEFINE c == s[2]
             row == [status |-> "confirmed", by |-> cashout[c].by, approver |-> a]
  <2>1. c \in DOMAIN Cashouts /\ s = <<"cashout", c>>
    BY <1>3, SubjectsApart
  <2>2. StandsAs(c, cashout[c], approval[s])
    BY <2>1 DEF PeopleInv, ApprovedAsDecided
  <2>3. cashout[c].status = "pending_approval" /\ Cashouts[c].amount > CashoutThreshold
    <3>1. cashout[c].status \in {"none", "pending_approval", "confirmed"}
      BY <2>1, Shapes DEF CashoutRow
    <3>2. approval[s].status = "pending"
      BY <1>1
    <3> QED BY <2>2, <3>1, <3>2 DEF StandsAs
  <2>4. UNCHANGED adjusted /\ cashout' = IF decision = "declined" THEN cashout ELSE [cashout EXCEPT ![c] = row]
    BY <1>3, <2>3 DEF DecideApproval, ExecuteCashout
  <2>5. \A d \in DOMAIN Cashouts : cashout'[d] = IF d = c /\ decision # "declined" THEN row ELSE cashout[d]
    BY <2>1, <2>4, Shapes
  <2>6. DeskWaits'
    <3>1. \A b \in Admins : desk[b] # None => desk[b] # c /\ desk[b] \in DOMAIN Cashouts
      BY <2>3, Shapes DEF PeopleInv, DeskWaits
    <3>2. \A b \in Admins : desk'[b] # None => cashout'[desk'[b]].status = "none"
      BY <1>1, <2>5, <3>1 DEF PeopleInv, DeskWaits
    <3> QED BY <1>1, <3>2 DEF PeopleInv, DeskWaits
  <2>7. ApprovedAsDecided'
    <3>1. ASSUME NEW d \in DOMAIN Cashouts PROVE StandsAs(d, cashout'[d], approval'[<<"cashout", d>>])
      <4>1. CASE d # c
        <5>1. StandsAs(d, cashout[d], approval[<<"cashout", d>>])
          BY DEF PeopleInv, ApprovedAsDecided
        <5>2. approval'[<<"cashout", d>>] = approval[<<"cashout", d>>]
          BY <1>2, <2>1, <4>1, SubjectsApart
        <5> QED BY <2>5, <4>1, <5>1, <5>2
      <4>2. CASE d = c /\ decision = "declined"
        <5>1. cashout'[d].status = "pending_approval" /\ approval'[<<"cashout", d>>].status = "declined"
          BY <1>2, <2>1, <2>3, <2>5, <4>2
        <5> QED BY <2>3, <4>2, <5>1 DEF StandsAs
      <4>3. CASE d = c /\ decision # "declined"
        <5>1. a # None /\ a # cashout[c].by
          BY TreasuryOK, <1>3, <2>1, <4>3 DEF DecideApproval, ExecuteCashout
        <5>2. cashout'[d] = row /\ approval'[<<"cashout", d>>].status = "approved"
          BY <1>2, <2>1, <2>5, <4>3
        <5>3. row.status = "confirmed" /\ row.approver = a /\ row.by = cashout[c].by
          OBVIOUS
        <5> QED BY <2>3, <4>3, <5>1, <5>2, <5>3 DEF StandsAs
      <4> QED BY <4>1, <4>2, <4>3
    <3> QED BY <3>1 DEF ApprovedAsDecided
  <2>8. AdjustedOnce'
    <3>1. \A j \in DOMAIN Adjustments : approval'[<<"adjustment", j>>] = approval[<<"adjustment", j>>]
      BY <1>2, <2>1, SubjectsApart
    <3> QED BY <2>4, <3>1 DEF PeopleInv, AdjustedOnce
  <2> QED BY <2>6, <2>7, <2>8 DEF PeopleInv
<1>4. CASE s[1] = "adjustment"
  <2>1. s[2] \in DOMAIN Adjustments /\ s = <<"adjustment", s[2]>>
    BY <1>4, SubjectsApart
  <2>2. UNCHANGED cashout /\ adjusted' \subseteq adjusted \cup {s[2]}
    BY <1>4 DEF DecideApproval, PostAdjustment
  <2>3. DeskWaits'
    BY <1>1, <2>2 DEF PeopleInv, DeskWaits
  <2>4. ApprovedAsDecided'
    <3>1. \A d \in DOMAIN Cashouts : approval'[<<"cashout", d>>] = approval[<<"cashout", d>>]
      BY <1>2, <2>1, SubjectsApart
    <3> QED BY <2>2, <3>1 DEF PeopleInv, ApprovedAsDecided
  <2>5. AdjustedOnce'
    <3>1. \A j \in DOMAIN Adjustments : j # s[2] => approval'[<<"adjustment", j>>] = approval[<<"adjustment", j>>]
      BY <1>2, <2>1, SubjectsApart
    <3>2. approval'[<<"adjustment", s[2]>>].status # "pending"
      BY <1>2, <2>1
    <3> QED BY <2>2, <3>1, <3>2 DEF PeopleInv, AdjustedOnce
  <2> QED BY <2>3, <2>4, <2>5 DEF PeopleInv
<1> QED BY <1>3, <1>4, SubjectsApart

LEMMA RequestKeepsPeople ==
    ASSUME TreasuryTypeOK, PeopleInv, NEW a \in Admins, NEW j \in DOMAIN Adjustments, RequestAdjustment(j, a)
    PROVE  PeopleInv'
<1>1. /\ j \notin adjusted /\ approval[<<"adjustment", j>>].status = "none" /\ UNCHANGED <<cashout, desk>>
      /\ \/ /\ approval' = [approval EXCEPT ![<<"adjustment", j>>] = [status |-> "pending", by |-> a, decided |-> None]]
            /\ UNCHANGED adjusted
         \/ UNCHANGED approval /\ adjusted' = adjusted \cup {j}
  BY DEF RequestAdjustment, PostAdjustment
<1>2. \A r \in Subjects : r # <<"adjustment", j>> => approval'[r] = approval[r]
  BY <1>1, Shapes
<1>3. \A d \in DOMAIN Cashouts : approval'[<<"cashout", d>>] = approval[<<"cashout", d>>]
  BY <1>2, SubjectsApart
<1>4. \A i \in DOMAIN Adjustments : i # j => approval'[<<"adjustment", i>>] = approval[<<"adjustment", i>>]
  BY <1>2, SubjectsApart
<1>5. approval'[<<"adjustment", j>>].status = "pending" => j \notin adjusted'
  BY <1>1
<1>6. DeskWaits'
  BY <1>1 DEF PeopleInv, DeskWaits
<1>7. ApprovedAsDecided'
  BY <1>1, <1>3 DEF PeopleInv, ApprovedAsDecided
<1>8. AdjustedOnce'
  <2>1. adjusted' \subseteq adjusted \cup {j}
    BY <1>1
  <2> QED BY <1>4, <1>5, <2>1 DEF PeopleInv, AdjustedOnce
<1> QED BY <1>6, <1>7, <1>8 DEF PeopleInv

LEMMA PeopleStep ==
    ASSUME TreasuryTypeOK, PeopleInv, [TreasuryNext]_treasuryVars
    PROVE  PeopleInv'
<1>1. CASE UNCHANGED treasuryVars
  BY <1>1, OthersLeavePeople DEF treasuryVars
<1>2. CASE PaymentSteps \/ TreasuryWorker \/ \E t \in DOMAIN Transfers : ProviderTransfers(t)
  <2>1. UNCHANGED <<desk, cashout, approval, adjusted>>
    BY <1>2 DEF PaymentSteps, ConfirmDisbursement, StartCollection, ProviderPays, PaymentSucceeds, PaymentFails,
                PaymentUndetermined, TreasuryWorker, ReadWallets, ConfirmPendingTransfers, EvaluateCover,
                CheckFloatDrift, ProviderTransfers
  <2> QED BY <2>1, OthersLeavePeople
<1>3. CASE OperatorSteps
  <2>1. CASE \/ \E t \in DOMAIN Transfers : RegisterFloatTransfer(t)
             \/ \E n \in DOMAIN Fundings : RecordFunding(n)
             \/ \E f \in Floats, amount \in Overrides : SetThreshold(f, amount)
    <3>1. UNCHANGED <<desk, cashout, approval, adjusted>>
      BY <2>1 DEF RegisterFloatTransfer, RecordFunding, SetThreshold
    <3> QED BY <3>1, OthersLeavePeople
  <2> QED BY <1>3, <2>1, BeginKeepsPeople, CommitKeepsPeople, DecisionKeepsPeople, RequestKeepsPeople DEF OperatorSteps
<1> QED BY <1>1, <1>2, <1>3 DEF TreasuryNext

-----------------------------------------------------------------------------
(***************************************************************************)
(* What each step adds to the floats and to the settlement account, and    *)
(* that a float keeps what its open disbursements will take.               *)
(***************************************************************************)
\* What a payment that succeeds adds to its float.
Gain(p) == IF Outgoing(p) THEN -ProviderTakes(p) ELSE Debited(Fees(p)) - Fees(p).provider

LEMMA GainIsInt == ASSUME NEW p \in DOMAIN Payments PROVE Gain(p) \in Int
BY FeeTypes DEF Gain

LEMMA PaymentAdds ==
    ASSUME TreasuryTypeOK, NEW p \in DOMAIN Payments,
           \/ ConfirmDisbursement(p) \/ StartCollection(p) \/ ProviderPays(p)
           \/ PaymentSucceeds(p) \/ PaymentFails(p) \/ PaymentUndetermined(p),
           NEW a \in Told
    PROVE  books'[a] = books[a] + IF a = Payments[p].float /\ payment'[p].state = "succeeded" /\ payment[p].state # "succeeded"
                                  THEN Gain(p) ELSE 0
<1>0. a \in Accounts /\ books[a] \in Int
  BY Shapes, NamesApart DEF Told, NamedAccounts
<1>1. Payments[p].float \in Floats /\ Fees(p) \in FeesOf /\ Carried(Fees(p)) \in Int /\ SourceOf(p) \in {"reserved", "suspense"}
  <2>1. Payments[p].float \in Floats /\ Fees(p) \in FeesOf /\ Carried(Fees(p)) \in Nat
    BY FeeTypes
  <2>2. SourceOf(p) \in {"reserved", "suspense"}
    BY DEF SourceOf
  <2> QED BY <2>1, <2>2
<1>2. /\ \A s \in PaymentStates : payment' = [payment EXCEPT ![p].state = s] => payment'[p].state = s
      /\ payment' = [payment EXCEPT ![p].moved = TRUE] => payment'[p].state = payment[p].state
  BY Shapes, PaymentMoves
<1>3. {"none", "submitted", "undetermined", "succeeded", "failed"} \subseteq PaymentStates
  BY DEF PaymentStates
<1>4. ASSUME UNCHANGED books, payment'[p].state # "succeeded" \/ payment[p].state = payment'[p].state
      PROVE  books'[a] = books[a] + IF a = Payments[p].float /\ payment'[p].state = "succeeded" /\ payment[p].state # "succeeded"
                                    THEN Gain(p) ELSE 0
  BY <1>0, <1>4
<1>5. ASSUME NEW e \in {Reservation(Fees(p)), Release(SourceOf(p), Fees(p)), Suspension(Fees(p))},
             PostEntry(e), payment'[p].state # "succeeded"
      PROVE  books'[a] = books[a] + IF a = Payments[p].float /\ payment'[p].state = "succeeded" /\ payment[p].state # "succeeded"
                                    THEN Gain(p) ELSE 0
  <2>1. e \in Entries
    BY EntryTypes
  <2>2. BalanceOf(a, e) = 0
    BY <1>1, ReservingAdds
  <2> QED BY <1>0, <1>5, <2>1, <2>2, PostedTypes
<1>6. CASE ConfirmDisbursement(p)
  <2>1. PostEntry(Reservation(Fees(p))) /\ payment'[p].state = "submitted"
    BY <1>2, <1>3, <1>6 DEF ConfirmDisbursement
  <2> QED BY <1>5, <2>1
<1>7. CASE StartCollection(p)
  <2>1. UNCHANGED books /\ payment'[p].state = "submitted"
    BY <1>2, <1>3, <1>7 DEF StartCollection
  <2> QED BY <1>4, <2>1
<1>8. CASE ProviderPays(p)
  <2>1. UNCHANGED books /\ payment'[p].state = payment[p].state
    BY <1>2, <1>8 DEF ProviderPays
  <2> QED BY <1>4, <2>1
<1>9. CASE PaymentSucceeds(p)
  <2>1. payment'[p].state = "succeeded" /\ payment[p].state # "succeeded"
    BY <1>2, <1>3, <1>9 DEF PaymentSucceeds, OpenPayment
  <2>2. CASE Outgoing(p)
    <3> DEFINE e == Settlement(SourceOf(p), Payments[p].float, Fees(p))
    <3>1. PostEntry(e) /\ e \in Entries
      BY <1>9, <2>2, EntryTypes DEF PaymentSucceeds
    <3>2. X(Fees(p)) \in Int
      <4>1. X(Fees(p)) \in Nat
        BY FeeTypes
      <4> QED BY <4>1
    <3>3. BalanceOf(a, e) = IF a = Payments[p].float THEN -ProviderTakes(p) ELSE 0
      BY <1>1, <3>2, SettlementAdds DEF ProviderTakes
    <3> HIDE DEF e
    <3> QED BY <1>0, <2>1, <2>2, <3>1, <3>3, PostedTypes DEF Gain
  <2>3. CASE ~Outgoing(p)
    <3> DEFINE e == Collection(Payments[p].float, Fees(p))
    <3>1. PostEntry(e) /\ e \in Entries
      BY <1>9, <2>3, EntryTypes DEF PaymentSucceeds
    <3>2. Quoted(Fees(p)) \in Int /\ Debited(Fees(p)) \in Int /\ Y(Fees(p)) \in Int
      <4>1. Quoted(Fees(p)) \in Int /\ Debited(Fees(p)) \in Int /\ Y(Fees(p)) \in Nat
        BY FeeTypes
      <4> QED BY <4>1
    <3>3. BalanceOf(a, e) = IF a = Payments[p].float THEN Debited(Fees(p)) - Fees(p).provider ELSE 0
      BY <1>1, <3>2, CollectionAdds
    <3> HIDE DEF e
    <3> QED BY <1>0, <2>1, <2>3, <3>1, <3>3, PostedTypes DEF Gain
  <2> QED BY <2>2, <2>3
<1>10. CASE PaymentFails(p)
  <2>1. payment'[p].state = "failed"
    BY <1>2, <1>3, <1>10 DEF PaymentFails
  <2>2. UNCHANGED books \/ PostEntry(Release(SourceOf(p), Fees(p)))
    BY <1>10 DEF PaymentFails
  <2> QED BY <1>4, <1>5, <2>1, <2>2
<1>11. CASE PaymentUndetermined(p)
  <2>1. payment'[p].state = "undetermined"
    BY <1>2, <1>3, <1>11 DEF PaymentUndetermined
  <2>2. UNCHANGED books \/ PostEntry(Suspension(Fees(p)))
    BY <1>11 DEF PaymentUndetermined
  <2> QED BY <1>4, <1>5, <2>1, <2>2
<1> QED BY <1>6, <1>7, <1>8, <1>9, <1>10, <1>11

\* A float nobody drew on later covers its open disbursements, and above them the cash-out somebody
\* works on.
LiquidityCovered ==
    \A f \in Floats \ late :
        /\ books[f] >= OpenSum(f, payment)
        /\ \A a \in Admins : desk[a] # None /\ Cashouts[desk[a]].float = f =>
               books[f] - OpenSum(f, payment) >= Cashouts[desk[a]].amount

\* What left for settlement.
SettledSum == books["settlement"] = ConfirmedSum(cashout) + AdjustedSum("settlement", adjusted)

TreasuryInv == TreasuryTypeOK /\ PeopleInv /\ LiquidityCovered /\ SettledSum

\* What a state of the books covers.
CoveredBy(b, n, d, f) ==
    /\ b[f] >= n
    /\ \A a \in Admins : d[a] # None /\ Cashouts[d[a]].float = f => b[f] - n >= Cashouts[d[a]].amount

LEMMA CoveredMeans == LiquidityCovered = \A f \in Floats \ late : CoveredBy(books, OpenSum(f, payment), desk, f)
BY DEF LiquidityCovered, CoveredBy

LEMMA CoveredNext ==
    LiquidityCovered' = \A f \in Floats \ late' : CoveredBy(books', OpenSum(f, payment'), desk', f)
BY DEF LiquidityCovered, CoveredBy, OpenSum, OpenIn, Outgoing, ProviderTakes, Fees

\* Money comes in, or the open disbursements take less: what was covered still is.
LEMMA CoveredMore ==
    ASSUME NEW f \in Floats, NEW b, NEW c, NEW n \in Int, NEW m \in Int, NEW d, NEW e,
           CoveredBy(b, n, d, f), b[f] \in Int, c[f] \in Int, c[f] - m >= b[f] - n,
           \A a \in Admins : e[a] # None => e[a] = d[a],
           \A a \in Admins : d[a] # None => Cashouts[d[a]].amount \in Int
    PROVE  CoveredBy(c, m, e, f)
BY DEF CoveredBy

LEMMA PaymentKeepsCover ==
    ASSUME TreasuryInv, NEW p \in DOMAIN Payments,
           \/ ConfirmDisbursement(p) \/ StartCollection(p) \/ ProviderPays(p)
           \/ PaymentSucceeds(p) \/ PaymentFails(p) \/ PaymentUndetermined(p)
    PROVE  LiquidityCovered' /\ SettledSum'
<1>0. TreasuryTypeOK
  BY DEF TreasuryInv
<1>1. UNCHANGED <<desk, late, cashout, adjusted>>
  BY DEF ConfirmDisbursement, StartCollection, ProviderPays, PaymentSucceeds, PaymentFails, PaymentUndetermined
<1>2. \A q \in DOMAIN Payments : q # p => payment'[q].state = payment[q].state
  <2>1. \/ payment' = [payment EXCEPT ![p].moved = TRUE]
        \/ \E s : payment' = [payment EXCEPT ![p].state = s]
    BY DEF ConfirmDisbursement, StartCollection, ProviderPays, PaymentSucceeds, PaymentFails, PaymentUndetermined
  <2> QED BY <1>0, <2>1, Shapes
<1>3. Payments[p].float \in Floats /\ ProviderTakes(p) \in Int
  BY FeeTypes
<1>4. SettledSum'
  <2>1. "settlement" \in Told /\ "settlement" # Payments[p].float
    BY <1>3, NamesApart DEF Told
  <2>2. books["settlement"] \in Int
    BY <1>0, Shapes DEF Accounts, NamedAccounts
  <2>3. books'["settlement"] = books["settlement"]
    BY <1>0, <2>1, <2>2, PaymentAdds
  <2>4. SettledSum
    BY DEF TreasuryInv
  <2> QED BY <1>1, <2>3, <2>4 DEF SettledSum, ConfirmedSum, AdjustedSum
<1>5. ASSUME NEW f \in Floats \ late PROVE CoveredBy(books', OpenSum(f, payment'), desk', f)
  <2> DEFINE n == OpenSum(f, payment)
             m == OpenSum(f, payment')
             gain == IF f = Payments[p].float /\ payment'[p].state = "succeeded" /\ payment[p].state # "succeeded"
                     THEN Gain(p) ELSE 0
  <2>1. CoveredBy(books, n, desk, f)
    BY CoveredMeans DEF TreasuryInv
  <2>2. n \in Nat /\ m \in Nat /\ m = n - Draw(f, payment, p) + Draw(f, payment', p)
    BY <1>2, OpenIsNat, OpenStep
  <2>3. books'[f] = books[f] + gain
    <3>1. f \in Told
      BY DEF Told
    <3> QED BY <1>0, <3>1, PaymentAdds
  <2>4. books[f] \in Int /\ Gain(p) \in Int /\ Draw(f, payment, p) \in Nat /\ Draw(f, payment', p) \in Nat
    BY <1>0, Shapes, GainIsInt, DrawIsNat, NamesApart
  <2>5. \A a \in Admins : desk[a] # None => Cashouts[desk[a]].amount \in Int
    BY <1>0, Shapes, TreasuryOK
  <2>6. /\ payment[p].state \in PaymentStates
        /\ \A s \in PaymentStates : payment' = [payment EXCEPT ![p].state = s] => payment'[p].state = s
        /\ payment' = [payment EXCEPT ![p].moved = TRUE] => payment'[p].state = payment[p].state
    BY <1>0, Shapes, PaymentMoves
  <2>7. {"none", "submitted", "undetermined", "succeeded", "failed"} \subseteq PaymentStates
    BY DEF PaymentStates
  <2>8. CASE ConfirmDisbursement(p) /\ f = Payments[p].float
    <3>1. payment[p].state = "none" /\ payment'[p].state = "submitted" /\ Outgoing(p)
      BY <2>6, <2>7, <2>8 DEF ConfirmDisbursement
    <3>2. Draw(f, payment, p) = 0 /\ Draw(f, payment', p) = ProviderTakes(p)
      BY <2>8, <3>1 DEF Draw, OpenIn, OpenPayment
    <3>3. books[f] - n >= ProviderTakes(p)
      BY <2>8, OpenIsSum DEF ConfirmDisbursement, FreeLiquidity
    <3>4. books'[f] = books[f]
      BY <2>3, <2>4, <3>1
    <3>5. \A a \in Admins : desk[a] # None => Cashouts[desk[a]].float # f
      BY <2>8 DEF ConfirmDisbursement, Locked
    <3>6. books'[f] >= m
      <4> HIDE DEF n, m
      <4> QED BY <1>3, <2>2, <2>4, <3>2, <3>3, <3>4
    <3> QED BY <1>1, <3>5, <3>6 DEF CoveredBy
  <2>9. ASSUME ~(ConfirmDisbursement(p) /\ f = Payments[p].float)
        PROVE  Draw(f, payment', p) - Draw(f, payment, p) <= gain
    <3>1. CASE f # Payments[p].float
      <4>1. Draw(f, payment, p) = 0 /\ Draw(f, payment', p) = 0
        BY <3>1 DEF Draw, OpenIn
      <4> QED BY <3>1, <4>1
    <3>2. CASE f = Payments[p].float /\ PaymentSucceeds(p) /\ Outgoing(p)
      <4>1. payment[p].state \in OpenPayment /\ payment'[p].state = "succeeded"
        BY <2>6, <2>7, <3>2 DEF PaymentSucceeds
      <4>2. Draw(f, payment, p) = ProviderTakes(p) /\ Draw(f, payment', p) = 0
        BY <3>2, <4>1 DEF Draw, OpenIn, OpenPayment
      <4>3. gain = -ProviderTakes(p)
        BY <3>2, <4>1 DEF Gain, OpenPayment
      <4> QED BY <1>3, <4>2, <4>3
    <3>3. CASE f = Payments[p].float /\ PaymentSucceeds(p) /\ ~Outgoing(p)
      <4>1. Draw(f, payment, p) = 0 /\ Draw(f, payment', p) = 0
        BY <3>3 DEF Draw, OpenIn
      <4>2. Gain(p) >= 0
        <5>1. Debited(Fees(p)) - Fees(p).provider > 0
          BY <3>3 DEF PaymentSucceeds, Collectable
        <5> QED BY <3>3, <5>1, FeeTypes DEF Gain
      <4> QED BY <2>4, <4>1, <4>2
    <3>4. CASE f = Payments[p].float /\ ~PaymentSucceeds(p)
      <4>1. payment'[p].state = "succeeded" => payment[p].state = "succeeded"
        BY <2>6, <2>7, <3>4 DEF ConfirmDisbursement, StartCollection, ProviderPays, PaymentFails, PaymentUndetermined
      <4>2. gain = 0
        BY <4>1
      <4>3. Outgoing(p) /\ payment'[p].state \in OpenPayment => payment[p].state \in OpenPayment
        BY <2>6, <2>7, <2>9, <3>4 DEF StartCollection, ProviderPays, PaymentFails, PaymentUndetermined, OpenPayment
      <4>4. Draw(f, payment', p) <= Draw(f, payment, p)
        <5>1. p \in OpenIn(f, payment') => p \in OpenIn(f, payment)
          BY <4>3 DEF OpenIn
        <5> QED BY <2>4, <5>1 DEF Draw
      <4> QED BY <2>4, <4>2, <4>4
    <3> QED BY <3>1, <3>2, <3>3, <3>4
  <2>10. CASE ~(ConfirmDisbursement(p) /\ f = Payments[p].float)
    <3>1. gain \in Int
      BY <2>4
    <3>2. books'[f] - m >= books[f] - n /\ books'[f] \in Int
      <4>1. Draw(f, payment', p) - Draw(f, payment, p) <= gain
        BY <2>9, <2>10
      <4> HIDE DEF n, m, gain
      <4> QED BY <2>2, <2>3, <2>4, <3>1, <4>1
    <3>3. desk' = desk /\ n \in Int /\ m \in Int
      BY <1>1, <2>2
    <3>4. CoveredBy(books', m, desk', f)
      <4> HIDE DEF n, m
      <4> QED BY <2>1, <2>4, <2>5, <3>2, <3>3 DEF CoveredBy
    <3> QED BY <3>4
  <2> QED BY <2>8, <2>10
<1> QED BY <1>1, <1>4, <1>5, CoveredNext

LEMMA CoverKept ==
    ASSUME TreasuryInv, UNCHANGED payment, late \subseteq late',
           \A f \in Floats \ late' :
               \/ CoveredBy(books', OpenSum(f, payment), desk', f)
               \/ /\ books'[f] >= books[f] /\ books'[f] \in Int
                  /\ \A a \in Admins : desk'[a] # None => desk'[a] = desk[a]
    PROVE  LiquidityCovered'
<1>1. ASSUME NEW f \in Floats \ late', books'[f] >= books[f], books'[f] \in Int,
             \A a \in Admins : desk'[a] # None => desk'[a] = desk[a]
      PROVE  CoveredBy(books', OpenSum(f, payment), desk', f)
  <2> DEFINE n == OpenSum(f, payment)
  <2>1. CoveredBy(books, n, desk, f)
    BY CoveredMeans DEF TreasuryInv
  <2>2. n \in Int /\ books[f] \in Int
    <3>1. n \in Nat /\ books[f] \in Int
      BY OpenIsNat, Shapes, NamesApart DEF TreasuryInv
    <3> HIDE DEF n
    <3> QED BY <3>1
  <2>3. \A a \in Admins : desk[a] # None => Cashouts[desk[a]].amount \in Int
    BY Shapes, TreasuryOK DEF TreasuryInv
  <2>4. CoveredBy(books', n, desk', f)
    <3> HIDE DEF n
    <3> QED BY <1>1, <2>1, <2>2, <2>3 DEF CoveredBy
  <2> QED BY <2>4
<1>2. \A f \in Floats \ late' : CoveredBy(books', OpenSum(f, payment), desk', f)
  BY <1>1
<1>3. \A f \in Floats \ late' : CoveredBy(books', OpenSum(f, payment'), desk', f)
  BY <1>2
<1> QED BY <1>3, CoveredNext

LEMMA SettledNext ==
    SettledSum' = (books'["settlement"] = ConfirmedSum(cashout') + AdjustedSum("settlement", adjusted'))
BY DEF SettledSum, ConfirmedSum, AdjustedSum

LEMMA OthersKeepCover ==
    ASSUME TreasuryInv, UNCHANGED <<books, payment, desk, late, cashout, adjusted>>
    PROVE  LiquidityCovered' /\ SettledSum'
<1>1. \A f \in Floats : books[f] \in Int
  BY Shapes, NamesApart DEF TreasuryInv
<1>2. LiquidityCovered'
  BY <1>1, CoverKept
<1>3. SettledSum'
  BY DEF TreasuryInv, SettledSum, ConfirmedSum, AdjustedSum
<1> QED BY <1>2, <1>3

\* An entry of fundings, transfers or cash-outs, account by account.
LEMMA EntryAdds ==
    ASSUME TreasuryTypeOK, NEW e \in Entries, PostEntry(e), NEW a \in Told
    PROVE  /\ books[a] \in Int /\ BalanceOf(a, e) \in Int /\ books'[a] = books[a] + BalanceOf(a, e)
<1>1. a \in Accounts
  BY NamesApart DEF Told, NamedAccounts
<1> QED BY <1>1, PostedTypes, BalanceIsInt, Shapes DEF Entries

LEMMA WrittenIsPositive ==
    ASSUME NEW p, NEW q, NEW r, Written(<<p, q, r>>)
    PROVE  p.amount >= 0 /\ q.amount >= 0 /\ r.amount >= 0
<1> DEFINE s == <<p, q, r>>
<1>1. 1 \in DOMAIN s /\ 2 \in DOMAIN s /\ 3 \in DOMAIN s /\ s[1] = p /\ s[2] = q /\ s[3] = r
  OBVIOUS
<1>2. \A i \in DOMAIN s : s[i].amount >= 0
  BY DEF Written
<1> HIDE DEF s
<1> QED BY <1>1, <1>2

LEMMA TransferKeepsCover ==
    ASSUME TreasuryInv, NEW t \in DOMAIN Transfers, RegisterFloatTransfer(t)
    PROVE  LiquidityCovered' /\ SettledSum'
<1> DEFINE source == Transfers[t].source
           destination == Transfers[t].destination
           amount == Transfers[t].amount
           fee == Transfers[t].fee
<1>1. /\ source \in Floats /\ destination \in Floats /\ source # destination
      /\ amount \in Int /\ fee \in Int
  BY TreasuryOK DEF RegisterFloatTransfer
<1>2. TransferEntry(t) \in Entries /\ PostEntry(TransferEntry(t)) /\ TreasuryTypeOK
  BY EntryTypes DEF RegisterFloatTransfer, TreasuryInv
<1>3. TransferEntry(t) = << Credit(source, amount), Debit(destination, amount - fee), Debit("expense", fee) >>
  BY DEF TransferEntry, FloatTransfer
<1>4. amount - fee >= 0
  <2>1. Debit(destination, amount - fee).amount >= 0
    BY <1>2, <1>3, WrittenIsPositive DEF PostEntry
  <2> QED BY <2>1, AddedBy
<1>5. \A a \in Told : /\ books[a] \in Int
                      /\ books'[a] = books[a] + IF a = source THEN -amount ELSE IF a = destination THEN amount - fee ELSE 0
  <2>1. \A a \in Told : BalanceOf(a, TransferEntry(t)) = IF a = source THEN -amount ELSE IF a = destination THEN amount - fee ELSE 0
    BY <1>1, TransferAdds DEF TransferEntry
  <2> QED BY <1>2, <2>1, EntryAdds
<1>6. UNCHANGED <<payment, desk, late, cashout, adjusted>>
  BY DEF RegisterFloatTransfer
<1>7. ASSUME NEW f \in Floats \ late
      PROVE  \/ CoveredBy(books', OpenSum(f, payment), desk', f)
             \/ /\ books'[f] >= books[f] /\ books'[f] \in Int
                /\ \A a \in Admins : desk'[a] # None => desk'[a] = desk[a]
  <2>1. f \in Told
    BY DEF Told
  <2>2. CASE f # source
    <3>1. books'[f] >= books[f] /\ books'[f] \in Int
      <4> HIDE DEF source, destination, amount, fee
      <4> QED BY <1>1, <1>4, <1>5, <2>1, <2>2
    <3> QED BY <1>6, <3>1
  <2>3. CASE f = source
    <3> DEFINE n == OpenSum(f, payment)
    <3>1. books[f] - n >= amount
      BY <2>3, OpenIsSum DEF RegisterFloatTransfer, FreeLiquidity
    <3>2. n \in Nat
      BY OpenIsNat
    <3>3. books'[f] >= n
      <4> HIDE DEF n, source, destination, amount, fee
      <4> QED BY <1>1, <1>5, <2>1, <2>3, <3>1, <3>2
    <3>4. \A a \in Admins : desk'[a] # None => Cashouts[desk'[a]].float # f
      BY <1>6, <2>3 DEF RegisterFloatTransfer, Locked
    <3> QED BY <3>3, <3>4 DEF CoveredBy
  <2> QED BY <2>2, <2>3
<1>8. LiquidityCovered'
  BY <1>6, <1>7, CoverKept
<1>9. SettledSum'
  <2>1. "settlement" \in Told /\ "settlement" # source /\ "settlement" # destination
    BY <1>1, NamesApart DEF Told
  <2>2. books'["settlement"] = books["settlement"]
    BY <1>5, <2>1
  <2> QED BY <1>6, <2>2 DEF TreasuryInv, SettledSum, ConfirmedSum, AdjustedSum
<1> QED BY <1>8, <1>9

LEMMA FundingKeepsCover ==
    ASSUME TreasuryInv, NEW n \in DOMAIN Fundings, RecordFunding(n)
    PROVE  LiquidityCovered' /\ SettledSum'
<1> DEFINE amount == Fundings[n].amount
           float == Fundings[n].float
           e == IF float # None THEN FloatFunding(float, amount) ELSE ProjectFunding(amount)
<1>1. amount \in Nat /\ (float # None => float \in Floats)
  BY TreasuryOK
<1>2. e \in Entries /\ PostEntry(e) /\ TreasuryTypeOK
  BY EntryTypes DEF RecordFunding, TreasuryInv
<1>3. \A a \in Told : BalanceOf(a, e) = IF a = float /\ float # None THEN amount ELSE 0
  <2> TAKE a \in Told
  <2>1. CASE float # None
    BY <1>1, <2>1, FundingAdds
  <2>2. CASE float = None
    <3>1. Collecting \in Floats
      BY TreasuryOK
    <3> QED BY <1>1, <2>2, <3>1, FundingAdds
  <2> QED BY <2>1, <2>2
<1>4. \A a \in Told : books[a] \in Int /\ books'[a] = books[a] + IF a = float /\ float # None THEN amount ELSE 0
  <2> HIDE DEF e, amount, float
  <2> QED BY <1>2, <1>3, EntryAdds
<1>5. UNCHANGED <<payment, desk, late, cashout, adjusted>>
  BY DEF RecordFunding
<1>6. \A f \in Floats : books'[f] >= books[f] /\ books'[f] \in Int
  <2>1. \A f \in Floats : f \in Told
    BY DEF Told
  <2> HIDE DEF e, amount, float
  <2> QED BY <1>1, <1>4, <2>1
<1>7. LiquidityCovered'
  BY <1>5, <1>6, CoverKept
<1>8. SettledSum'
  <2>1. "settlement" \in Told /\ (float # None => "settlement" # float)
    BY <1>1, NamesApart DEF Told
  <2>2. books'["settlement"] = books["settlement"]
    BY <1>4, <2>1
  <2> QED BY <1>5, <2>2 DEF TreasuryInv, SettledSum, ConfirmedSum, AdjustedSum
<1> QED BY <1>7, <1>8

\* A cash-out that is posted: its float pays it, and the settlement account shows it.
LEMMA CashoutPosts ==
    ASSUME TreasuryTypeOK, NEW c \in DOMAIN Cashouts, PostEntry(CashoutEntry(Cashouts[c].float, Cashouts[c].amount))
    PROVE  /\ \A f \in Floats : /\ books[f] \in Int /\ Cashouts[c].amount \in Int
                                /\ books'[f] = books[f] - (IF f = Cashouts[c].float THEN Cashouts[c].amount ELSE 0)
           /\ books'["settlement"] = books["settlement"] + Cashouts[c].amount
           /\ books["settlement"] \in Int
<1> DEFINE e == CashoutEntry(Cashouts[c].float, Cashouts[c].amount)
<1>1. e \in Entries /\ Cashouts[c].float \in Floats /\ Cashouts[c].amount \in Int
  BY EntryTypes, TreasuryOK
<1>2. \A a \in Told : BalanceOf(a, e) = IF a = Cashouts[c].float THEN -Cashouts[c].amount
                                         ELSE IF a = "settlement" THEN Cashouts[c].amount ELSE 0
  BY <1>1, CashoutAdds
<1>3. \A a \in Told : books[a] \in Int /\ books'[a] = books[a] + BalanceOf(a, e)
  BY <1>1, EntryAdds
<1>4. "settlement" \in Told /\ Floats \subseteq Told /\ "settlement" \notin Floats
  BY NamesApart DEF Told
<1> HIDE DEF e
<1> QED BY <1>1, <1>2, <1>3, <1>4

LEMMA CommitKeepsCover ==
    ASSUME TreasuryInv, NEW a \in Admins, CommitCashout(a)
    PROVE  LiquidityCovered' /\ SettledSum'
<1> DEFINE c == desk[a]
           row == [status |-> IF Cashouts[c].amount > CashoutThreshold THEN "pending_approval" ELSE "confirmed",
                   by |-> a, approver |-> None]
<1>0. TreasuryTypeOK /\ PeopleInv /\ SettledSum
  BY DEF TreasuryInv
<1>1. /\ c \in DOMAIN Cashouts /\ c # None /\ cashout[c].status = "none"
      /\ desk' = [desk EXCEPT ![a] = None] /\ UNCHANGED <<payment, late, adjusted>>
      /\ cashout' = [cashout EXCEPT ![c] = row]
  BY <1>0, Shapes DEF CommitCashout, PeopleInv, DeskWaits
<1>2. \A b \in Admins : desk'[b] = IF b = a THEN None ELSE desk[b]
  BY <1>0, <1>1, Shapes
<1>3. \A d \in DOMAIN Cashouts : cashout'[d] = IF d = c THEN row ELSE cashout[d]
  BY <1>0, <1>1, Shapes
<1>4. CASE Cashouts[c].amount > CashoutThreshold
  <2>1. UNCHANGED books
    BY <1>4 DEF CommitCashout
  <2>2. \A f \in Floats : books'[f] >= books[f] /\ books'[f] \in Int
    BY <1>0, <2>1, Shapes, NamesApart
  <2>3. LiquidityCovered'
    BY <1>1, <1>2, <2>2, CoverKept
  <2>4. {d \in DOMAIN Cashouts : cashout'[d].status = "confirmed"} = {d \in DOMAIN Cashouts : cashout[d].status = "confirmed"}
    <3>1. row.status = "pending_approval"
      BY <1>4
    <3> HIDE DEF row
    <3> QED BY <1>1, <1>3, <3>1
  <2>5. ConfirmedSum(cashout') = ConfirmedSum(cashout)
    BY <2>4 DEF ConfirmedSum
  <2>6. SettledSum'
    BY <1>0, <1>1, <2>1, <2>5, SettledNext DEF SettledSum
  <2> QED BY <2>3, <2>6
<1>5. CASE ~(Cashouts[c].amount > CashoutThreshold)
  <2>1. PostEntry(CashoutEntry(Cashouts[c].float, Cashouts[c].amount))
    BY <1>5 DEF CommitCashout
  <2>2. /\ \A f \in Floats : /\ books[f] \in Int /\ Cashouts[c].amount \in Int
                             /\ books'[f] = books[f] - (IF f = Cashouts[c].float THEN Cashouts[c].amount ELSE 0)
        /\ books'["settlement"] = books["settlement"] + Cashouts[c].amount
        /\ books["settlement"] \in Int
    BY <1>0, <1>1, <2>1, CashoutPosts
  <2>3. ASSUME NEW f \in Floats \ late
        PROVE  \/ CoveredBy(books', OpenSum(f, payment), desk', f)
               \/ /\ books'[f] >= books[f] /\ books'[f] \in Int
                  /\ \A b \in Admins : desk'[b] # None => desk'[b] = desk[b]
    <3>1. CASE f # Cashouts[c].float
      <4>1. books'[f] = books[f] /\ books[f] \in Int
        BY <2>2, <3>1
      <4> QED BY <1>2, <4>1
    <3>2. CASE f = Cashouts[c].float
      <4> DEFINE n == OpenSum(f, payment)
      <4>1. CoveredBy(books, n, desk, f) /\ n \in Nat
        BY CoveredMeans, OpenIsNat DEF TreasuryInv
      <4>2. books[f] - n >= Cashouts[c].amount
        BY <1>1, <3>2, <4>1 DEF CoveredBy
      <4>3. books'[f] >= n
        <5> HIDE DEF n, c
        <5> QED BY <2>2, <3>2, <4>1, <4>2
      <4>4. \A b \in Admins : desk'[b] # None => Cashouts[desk'[b]].float # f
        BY <1>0, <1>1, <1>2, <3>2 DEF PeopleInv, DeskWaits
      <4> QED BY <4>3, <4>4 DEF CoveredBy
    <3> QED BY <3>1, <3>2
  <2>4. LiquidityCovered'
    BY <1>1, <2>3, CoverKept
  <2>5. ConfirmedSum(cashout') = Cashouts[c].amount + ConfirmedSum(cashout)
    <3>1. cashout'[c].status = "confirmed" /\ \A d \in DOMAIN Cashouts : d # c => cashout'[d].status = cashout[d].status
      BY <1>1, <1>3, <1>5
    <3>2. cashout[c].status # "confirmed"
      BY <1>1
    <3>3. c \in DOMAIN Cashouts
      BY <1>1
    <3> HIDE DEF c, row
    <3> QED BY <3>1, <3>2, <3>3, ConfirmedStep, ZenonT(30)
  <2>6. SettledSum'
    <3>1. ConfirmedSum(cashout) \in Int /\ AdjustedSum("settlement", adjusted) \in Int
      BY <1>0, SumsAreInt, Shapes
    <3>2. Cashouts[c].amount \in Int
      BY <1>1, TreasuryOK
    <3>3. books'["settlement"] = ConfirmedSum(cashout') + AdjustedSum("settlement", adjusted)
      BY <1>0, <2>2, <2>5, <3>1, <3>2 DEF SettledSum
    <3> QED BY <1>1, <3>3, SettledNext
  <2> QED BY <2>4, <2>6
<1> QED BY <1>4, <1>5

\* An adjustment that is posted, once: the floats it names are drawn on late, the others stand.
LEMMA AdjustmentKeepsCover ==
    ASSUME TreasuryInv, NEW j \in DOMAIN Adjustments, j \notin adjusted, PostAdjustment(j),
           UNCHANGED <<payment, desk, cashout>>
    PROVE  LiquidityCovered' /\ SettledSum'
<1>0. TreasuryTypeOK /\ SettledSum /\ adjusted \subseteq DOMAIN Adjustments
  BY Shapes DEF TreasuryInv
<1>1. /\ PostEntry(Adjustments[j]) /\ adjusted' = adjusted \cup {j}
      /\ late' = late \cup {f \in Floats : \E i \in DOMAIN Adjustments[j] : Adjustments[j][i].account = f}
  BY DEF PostAdjustment
<1>2. Adjustments[j] \in Entries
  BY EntryTypes
<1>3. ASSUME NEW f \in Floats \ late'
      PROVE  books'[f] >= books[f] /\ books'[f] \in Int
  <2>1. \A i \in DOMAIN Adjustments[j] : Adjustments[j][i].account # f
    BY <1>1, <1>3
  <2>2. BalanceOf(f, Adjustments[j]) = 0
    BY <1>2, <2>1, NotNamed
  <2>3. f \in Told
    BY DEF Told
  <2> QED BY <1>0, <1>1, <1>2, <2>2, <2>3, EntryAdds
<1>4. LiquidityCovered'
  BY <1>1, <1>3, CoverKept
<1>5. SettledSum'
  <2> DEFINE n == BalanceOf("settlement", Adjustments[j])
  <2>1. "settlement" \in Told
    BY DEF Told
  <2>2. books'["settlement"] = books["settlement"] + n /\ books["settlement"] \in Int /\ n \in Int
    BY <1>0, <1>1, <1>2, <2>1, EntryAdds
  <2>3. AdjustedSum("settlement", adjusted') = n + AdjustedSum("settlement", adjusted)
    BY <1>0, <1>1, AdjustedStep
  <2>4. ConfirmedSum(cashout) \in Int /\ AdjustedSum("settlement", adjusted) \in Int
    BY <1>0, SumsAreInt
  <2>5. books["settlement"] = ConfirmedSum(cashout) + AdjustedSum("settlement", adjusted)
    BY <1>0 DEF SettledSum
  <2>6. books'["settlement"] = ConfirmedSum(cashout) + AdjustedSum("settlement", adjusted')
    <3> HIDE DEF n
    <3> QED BY <2>2, <2>3, <2>4, <2>5
  <2> QED BY <2>6, SettledNext
<1> QED BY <1>4, <1>5

LEMMA DecisionKeepsCover ==
    ASSUME TreasuryInv, NEW a \in Admins, NEW s \in Subjects,
           NEW decision \in {"approved", "declined"}, DecideApproval(s, a, decision)
    PROVE  LiquidityCovered' /\ SettledSum'
<1>0. TreasuryTypeOK /\ PeopleInv /\ SettledSum
  BY DEF TreasuryInv
<1>1. UNCHANGED <<payment, desk>> /\ approval[s].status = "pending"
  BY DEF DecideApproval, Decidable
<1>2. CASE decision = "declined"
  BY <1>1, <1>2, OthersKeepCover DEF DecideApproval
<1>3. CASE decision # "declined" /\ s[1] = "cashout"
  <2> DEFINE c == s[2]
             row == [status |-> "confirmed", by |-> cashout[c].by, approver |-> a]
  <2>1. c \in DOMAIN Cashouts /\ s = <<"cashout", c>>
    BY <1>3, SubjectsApart
  <2>2. ExecuteCashout(c, a) /\ UNCHANGED adjusted
    BY <1>3 DEF DecideApproval
  <2>3. cashout[c].status = "pending_approval"
    <3>1. cashout[c].status \in {"none", "pending_approval", "confirmed"}
      BY <1>0, <2>1, Shapes DEF CashoutRow
    <3>2. StandsAs(c, cashout[c], approval[s])
      BY <1>0, <2>1 DEF PeopleInv, ApprovedAsDecided
    <3> QED BY <1>1, <3>1, <3>2 DEF StandsAs
  <2>4. /\ PostEntry(CashoutEntry(Cashouts[c].float, Cashouts[c].amount))
        /\ cashout' = [cashout EXCEPT ![c] = row] /\ late' = late \cup {Cashouts[c].float}
    BY <2>2, <2>3 DEF ExecuteCashout
  <2>5. /\ \A f \in Floats : /\ books[f] \in Int /\ Cashouts[c].amount \in Int
                             /\ books'[f] = books[f] - (IF f = Cashouts[c].float THEN Cashouts[c].amount ELSE 0)
        /\ books'["settlement"] = books["settlement"] + Cashouts[c].amount
        /\ books["settlement"] \in Int
    BY <1>0, <2>1, <2>4, CashoutPosts
  <2>6. \A f \in Floats \ late' : books'[f] >= books[f] /\ books'[f] \in Int
    <3> HIDE DEF c
    <3> QED BY <2>4, <2>5
  <2>7. LiquidityCovered'
    BY <1>1, <2>4, <2>6, CoverKept
  <2>8. ConfirmedSum(cashout') = Cashouts[c].amount + ConfirmedSum(cashout)
    <3>1. \A d \in DOMAIN Cashouts : cashout'[d] = IF d = c THEN row ELSE cashout[d]
      BY <1>0, <2>1, <2>4, Shapes
    <3>2. cashout'[c].status = "confirmed" /\ \A d \in DOMAIN Cashouts : d # c => cashout'[d].status = cashout[d].status
      BY <2>1, <3>1
    <3>3. cashout[c].status # "confirmed" /\ c \in DOMAIN Cashouts
      BY <2>1, <2>3
    <3> HIDE DEF c, row
    <3> QED BY <3>2, <3>3, ConfirmedStep, ZenonT(30)
  <2>9. SettledSum'
    <3>1. ConfirmedSum(cashout) \in Int /\ AdjustedSum("settlement", adjusted) \in Int
      BY <1>0, SumsAreInt, Shapes
    <3>2. Cashouts[c].amount \in Int
      BY <2>1, TreasuryOK
    <3>3. books'["settlement"] = ConfirmedSum(cashout') + AdjustedSum("settlement", adjusted)
      BY <1>0, <2>5, <2>8, <3>1, <3>2 DEF SettledSum
    <3> QED BY <2>2, <3>3, SettledNext
  <2> QED BY <2>7, <2>9
<1>4. CASE decision # "declined" /\ s[1] # "cashout"
  <2>1. s[2] \in DOMAIN Adjustments /\ s = <<"adjustment", s[2]>>
    BY <1>4, SubjectsApart
  <2>2. PostAdjustment(s[2]) /\ UNCHANGED cashout
    BY <1>4 DEF DecideApproval
  <2>3. s[2] \notin adjusted
    BY <1>0, <1>1, <2>1 DEF PeopleInv, AdjustedOnce
  <2> QED BY <1>1, <2>1, <2>2, <2>3, AdjustmentKeepsCover
<1> QED BY <1>2, <1>3, <1>4

LEMMA RequestKeepsCover ==
    ASSUME TreasuryInv, NEW a \in Admins, NEW j \in DOMAIN Adjustments, RequestAdjustment(j, a)
    PROVE  LiquidityCovered' /\ SettledSum'
<1>1. j \notin adjusted /\ UNCHANGED <<payment, desk, cashout>>
  BY DEF RequestAdjustment
<1>2. UNCHANGED <<books, adjusted, late>> \/ PostAdjustment(j)
  BY DEF RequestAdjustment
<1> QED BY <1>1, <1>2, OthersKeepCover, AdjustmentKeepsCover

\* What may be withdrawn leaves what open disbursements will take.
LEMMA ReservesArePositive ==
    ASSUME TreasuryTypeOK, NEW f \in Floats
    PROVE  CoverReserve(f) \in Nat
<1>1. OutflowPerHour(f) \in Nat
  <2> DEFINE S == DrawnOn(f, {"succeeded"})
             g == [p \in S |-> ProviderTakes(p)]
             n == SumFunction(g)
  <2>1. IsFiniteSet(S)
    BY TreasuryOK, FS_Subset DEF DrawnOn
  <2>2. \A p \in S : g[p] \in Nat
    BY FeeTypes DEF DrawnOn
  <2>3. DOMAIN g = S
    OBVIOUS
  <2>4. SumFunctionOnSet(g, S) \in Nat
    <3> HIDE DEF g, S
    <3> QED BY <2>1, <2>2, SumIsNat
  <2>5. n \in Nat
    BY <2>3, <2>4 DEF SumFunction
  <2>6. CeilDiv(n, 24) \in Nat
    <3> HIDE DEF n
    <3> QED BY <2>5 DEF CeilDiv
  <2> QED BY <2>6 DEF OutflowPerHour
<1>2. override[f] # None => override[f] \in Nat
  <2>1. override[f] \in Overrides \cup {None}
    BY Shapes
  <2> QED BY <2>1, TreasuryOK
<1>3. OutflowPerHour(f) * TargetHours \in Nat
  <2>1. TargetHours \in Nat
    BY TreasuryOK
  <2> HIDE DEF OutflowPerHour
  <2>2. \A m, n \in Nat : m * n \in Nat
    OBVIOUS
  <2> QED BY <1>1, <2>1, <2>2
<1> QED BY <1>2, <1>3 DEF CoverReserve

LEMMA WithdrawableIsFree ==
    ASSUME TreasuryTypeOK, NEW f \in Floats, NEW n \in Nat, n > 0, n <= Withdrawable(f)
    PROVE  books[f] - OpenSum(f, payment) >= n
<1>1. books[f] \in Int /\ OpenSum(f, payment) \in Nat
  BY Shapes, NamesApart, OpenIsNat
<1>2. FreeLiquidity(f) = books[f] - OpenSum(f, payment) /\ FreeLiquidity(f) \in Int
  BY <1>1, OpenIsSum DEF FreeLiquidity
<1>3. CoverReserve(f) \in Nat
  BY ReservesArePositive
<1>4. Restore(f) \in Nat
  <2> DEFINE S == Floats \ {f}
             g == [h \in S |-> AboveZero(CoverReserve(h) - FreeLiquidity(h))]
  <2>1. IsFiniteSet(S)
    BY FloatsOK, FS_Subset
  <2>2. \A h \in S : g[h] \in Nat
    <3> TAKE h \in S
    <3>1. CoverReserve(h) \in Nat /\ books[h] \in Int /\ OpenSum(h, payment) \in Nat
      BY ReservesArePositive, Shapes, NamesApart, OpenIsNat
    <3>2. FreeLiquidity(h) = books[h] - OpenSum(h, payment)
      BY OpenIsSum DEF FreeLiquidity
    <3> QED BY <3>1, <3>2 DEF AboveZero
  <2>3. DOMAIN g = S
    OBVIOUS
  <2>4. SumFunctionOnSet(g, S) \in Nat
    <3> HIDE DEF g, S
    <3> QED BY <2>1, <2>2, SumIsNat
  <2> QED BY <2>3, <2>4 DEF Restore, SumFunction
<1>5. n <= Liquidity(f)
  <2>1. Solvency < Liquidity(f) => Withdrawable(f) = Solvency
    BY DEF Withdrawable
  <2>2. Solvency \in Int /\ Liquidity(f) \in Int
    <3>1. Liquidity(f) \in Int
      BY <1>2, <1>3, <1>4 DEF Liquidity, AboveZero
    <3>2. FloatTotal(books) \in Int
      <4> DEFINE g == [h \in Floats |-> books[h]]
      <4>1. \A h \in Floats : g[h] \in Int
        BY Shapes, NamesApart
      <4>2. SumFunctionOnSet(g, Floats) \in Int
        <5>1. IsFiniteSet(Floats)
          BY FloatsOK
        <5> HIDE DEF g
        <5> QED BY <4>1, <5>1, SumIsInt
      <4> QED BY <4>2 DEF FloatTotal, SumFunction
    <3>3. Encumbered(books) \in Int
      <4>1. books["available"] \in Int /\ books["reserved"] \in Int /\ books["suspense"] \in Int
        BY Shapes DEF Accounts, NamedAccounts
      <4> QED BY <4>1 DEF Encumbered
    <3> QED BY <3>1, <3>2, <3>3 DEF Solvency, AboveZero
  <2>3. Solvency < Liquidity(f) \/ Withdrawable(f) = Liquidity(f)
    BY DEF Withdrawable
  <2> HIDE DEF Solvency, Liquidity, Withdrawable
  <2> QED BY <2>1, <2>2, <2>3
<1>6. n <= FreeLiquidity(f) - CoverReserve(f) - Restore(f)
  BY <1>2, <1>3, <1>4, <1>5 DEF Liquidity, AboveZero
<1> QED BY <1>1, <1>2, <1>3, <1>4, <1>6

LEMMA BeginKeepsCover ==
    ASSUME TreasuryInv, NEW a \in Admins, NEW c \in DOMAIN Cashouts, BeginCashout(a, c)
    PROVE  LiquidityCovered' /\ SettledSum'
<1>0. TreasuryTypeOK /\ SettledSum
  BY DEF TreasuryInv
<1>1. desk' = [desk EXCEPT ![a] = c] /\ UNCHANGED <<books, payment, late, cashout, adjusted>>
  BY DEF BeginCashout
<1>2. \A b \in Admins : desk'[b] = IF b = a THEN c ELSE desk[b]
  BY <1>0, <1>1, Shapes
<1>3. Cashouts[c].float \in Floats /\ Cashouts[c].amount \in Nat /\ Cashouts[c].amount > 0
  <2>1. Cashouts[c].amount \in Nat \ {0} /\ Cashouts[c].float \in Floats
    BY TreasuryOK
  <2> QED BY <2>1
<1>4. books[Cashouts[c].float] - OpenSum(Cashouts[c].float, payment) >= Cashouts[c].amount
  <2>1. Cashouts[c].amount <= Withdrawable(Cashouts[c].float)
    BY DEF BeginCashout
  <2> QED BY <1>0, <1>3, <2>1, WithdrawableIsFree
<1>5. ASSUME NEW f \in Floats \ late PROVE CoveredBy(books', OpenSum(f, payment), desk', f)
  <2>1. CoveredBy(books, OpenSum(f, payment), desk, f)
    BY CoveredMeans DEF TreasuryInv
  <2> QED BY <1>1, <1>2, <1>4, <2>1 DEF CoveredBy
<1>6. LiquidityCovered'
  BY <1>1, <1>5, CoverKept
<1>7. SettledSum'
  BY <1>0, <1>1, SettledNext DEF SettledSum
<1> QED BY <1>6, <1>7

LEMMA CoverInit == TreasuryInit => LiquidityCovered /\ SettledSum
<1> SUFFICES ASSUME TreasuryInit PROVE LiquidityCovered /\ SettledSum
  OBVIOUS
<1>1. ASSUME NEW f \in Floats PROVE books[f] >= OpenSum(f, payment)
  <2>1. OpenIn(f, payment) = {}
    BY DEF TreasuryInit, OpenIn, OpenPayment
  <2> DEFINE g == [p \in OpenIn(f, payment) |-> ProviderTakes(p)]
  <2>2. DOMAIN g = {}
    BY <2>1
  <2>3. SumFunction(g) = 0
    <3> HIDE DEF g
    <3> QED BY <2>2, SumEmpty DEF SumFunction
  <2>4. books[f] >= 0
    BY TreasuryOK DEF TreasuryInit
  <2> QED BY <2>3, <2>4 DEF OpenSum
<1>2. \A a \in Admins : desk[a] = None
  BY DEF TreasuryInit
<1>3. SettledSum
  <2> DEFINE g == [d \in {d \in DOMAIN Cashouts : cashout[d].status = "confirmed"} |-> Cashouts[d].amount]
             h == [j \in adjusted |-> BalanceOf("settlement", Adjustments[j])]
  <2>1. DOMAIN g = {} /\ DOMAIN h = {}
    BY DEF TreasuryInit
  <2>2. SumFunction(g) = 0 /\ SumFunction(h) = 0
    <3> HIDE DEF g, h
    <3> QED BY <2>1, SumEmpty DEF SumFunction
  <2>3. books["settlement"] = 0
    BY TreasuryOK DEF TreasuryInit
  <2> QED BY <2>2, <2>3 DEF SettledSum, ConfirmedSum, AdjustedSum
<1> QED BY <1>1, <1>2, <1>3 DEF LiquidityCovered

LEMMA TreasuryInvStep ==
    ASSUME TreasuryInv, TreasuryTypeOK', [TreasuryNext]_treasuryVars
    PROVE  TreasuryInv'
<1>1. PeopleInv'
  BY PeopleStep DEF TreasuryInv
<1>2. CASE UNCHANGED treasuryVars \/ TreasuryWorker \/ \E t \in DOMAIN Transfers : ProviderTransfers(t)
  <2>1. UNCHANGED <<books, payment, desk, late, cashout, adjusted>>
    BY <1>2 DEF treasuryVars, TreasuryWorker, ReadWallets, ConfirmPendingTransfers, EvaluateCover, CheckFloatDrift,
                ProviderTransfers
  <2> QED BY <1>1, <2>1, OthersKeepCover DEF TreasuryInv
<1>3. CASE PaymentSteps
  BY <1>1, <1>3, PaymentKeepsCover DEF TreasuryInv, PaymentSteps
<1>4. CASE OperatorSteps
  <2>1. ASSUME NEW f \in Floats, NEW amount \in Overrides, SetThreshold(f, amount)
        PROVE  LiquidityCovered' /\ SettledSum'
    BY <2>1, OthersKeepCover DEF SetThreshold
  <2>2. LiquidityCovered' /\ SettledSum'
    BY <1>4, <2>1, TransferKeepsCover, CommitKeepsCover, BeginKeepsCover, DecisionKeepsCover, FundingKeepsCover,
       RequestKeepsCover DEF OperatorSteps
  <2> QED BY <1>1, <2>2 DEF TreasuryInv
<1> QED BY <1>2, <1>3, <1>4 DEF TreasuryNext

\* A float keeps what its open disbursements will take, and each cash-out leaves once, with a second
\* person's approval above the threshold (treasury.service.ts, approval.service.ts).
THEOREM CashoutsAlwaysHold == TreasurySpec => []CashoutsHold
<1>1. TreasuryInit => TreasuryInv
  BY InitialTypes, PeopleInit, CoverInit DEF TreasuryInv
<1>2. TreasuryInv /\ TreasuryTypeOK' /\ [TreasuryNext]_treasuryVars => TreasuryInv'
  BY TreasuryInvStep
<1>3. TreasuryInv => CashoutsHold
  <2> SUFFICES ASSUME TreasuryInv PROVE CashoutsHold
    OBVIOUS
  <2>1. LiquidityKept
    <3>1. \A f \in Floats \ late : books[f] >= OpenSum(f, payment)
      BY DEF TreasuryInv, LiquidityCovered
    <3> QED BY <3>1, OpenIsSum DEF LiquidityKept
  <2>2. CashoutsSettledOnce
    <3>1. books["settlement"] = SumFunction([c \in {c \in DOMAIN Cashouts : cashout[c].status = "confirmed"} |-> Cashouts[c].amount])
                                + SumFunction([j \in adjusted |-> BalanceOf("settlement", Adjustments[j])])
      BY DEF TreasuryInv, SettledSum, ConfirmedSum, AdjustedSum
    <3>2. ASSUME NEW c \in DOMAIN Cashouts, Cashouts[c].amount > CashoutThreshold
          PROVE  /\ (cashout[c].status = "confirmed") = (approval[<<"cashout", c>>].status = "approved")
                 /\ cashout[c].status = "confirmed" => cashout[c].approver \notin {None, cashout[c].by}
      <4>1. StandsAs(c, cashout[c], approval[<<"cashout", c>>])
        BY DEF TreasuryInv, PeopleInv, ApprovedAsDecided
      <4>2. cashout[c].status \in {"none", "pending_approval", "confirmed"}
        BY Shapes DEF TreasuryInv, CashoutRow
      <4> QED BY <3>2, <4>1, <4>2 DEF StandsAs
    <3> QED BY <3>1, <3>2 DEF CashoutsSettledOnce
  <2> QED BY <2>1, <2>2 DEF CashoutsHold
<1> QED BY <1>1, <1>2, <1>3, TreasuryTypeCorrect, PTL DEF TreasurySpec

-----------------------------------------------------------------------------
(***************************************************************************)
(* The books balance.                                                      *)
(***************************************************************************)
\* What an entry adds to the accounts of a side.
SideGain(e, side) == SumFunctionOnSet([a \in OfSide(side) |-> BalanceOf(a, e)], OfSide(side))

\* What one posting adds to the accounts of a side.
PostingGain(p, side) ==
    IF p.account \in OfSide(side) THEN IF p.side = side THEN p.amount ELSE -p.amount ELSE 0

LEMMA SidesFinite == \A side : IsFiniteSet(OfSide(side))
BY NamesApart, FS_Subset DEF OfSide

LEMMA OnePosting ==
    ASSUME NEW p, p.amount \in Int, NEW side, NEW g, \A a \in OfSide(side) : g[a] = AddedTo(a, p)
    PROVE  SumFunctionOnSet(g, OfSide(side)) = PostingGain(p, side)
<1> DEFINE S == OfSide(side)
<1>1. \A a \in S : NormalSide(a) = side
  BY DEF OfSide
<1>2. IsFiniteSet(S)
  BY SidesFinite
<1>3. CASE p.account \in S
  <2>1. \A a \in S : g[a] \in Int
    BY AddedIsInt
  <2>2. SumFunctionOnSet(g, S) = g[p.account] + SumFunctionOnSet(g, S \ {p.account})
    <3> HIDE DEF S
    <3> QED BY <1>2, <1>3, <2>1, SumRemove
  <2>3. SumFunctionOnSet(g, S \ {p.account}) = 0
    <3>1. \A a \in S \ {p.account} : g[a] = 0
      BY DEF AddedTo
    <3>2. IsFiniteSet(S \ {p.account})
      BY <1>2, FS_Subset
    <3> QED BY <3>1, <3>2, SumOfZeros
  <2>4. g[p.account] = PostingGain(p, side)
    BY <1>1, <1>3 DEF AddedTo, PostingGain
  <2>5. g[p.account] \in Int
    BY <1>3, <2>1
  <2> HIDE DEF S
  <2> QED BY <2>2, <2>3, <2>4, <2>5 DEF S
<1>4. CASE p.account \notin S
  <2>1. \A a \in S : g[a] = 0
    BY <1>4 DEF AddedTo
  <2>2. SumFunctionOnSet(g, S) = 0
    BY <1>2, <2>1, SumOfZeros
  <2> QED BY <1>4, <2>2 DEF PostingGain
<1> QED BY <1>3, <1>4

LEMMA EntryShape ==
    ASSUME NEW e \in Entries
    PROVE  /\ IsFiniteSet(DOMAIN e)
           /\ \A i \in DOMAIN e : e[i].account \in Accounts /\ e[i].side \in Sides /\ e[i].amount \in Int
<1> DEFINE R == [account : Accounts, side : Sides, amount : Int]
<1>1. e \in Seq(R)
  BY DEF Entries
<1>2. \A r \in R : r.account \in Accounts /\ r.side \in Sides /\ r.amount \in Int
  OBVIOUS
<1> HIDE DEF R
<1>3. Len(e) \in Nat /\ DOMAIN e = 1..Len(e) /\ \A i \in DOMAIN e : e[i] \in R
  BY <1>1
<1>4. IsFiniteSet(DOMAIN e)
  BY <1>3, FS_Interval
<1> QED BY <1>2, <1>3, <1>4

LEMMA SideGainIsSum ==
    ASSUME NEW e \in Entries, NEW side
    PROVE  SideGain(e, side) = SumFunctionOnSet([i \in DOMAIN e |-> PostingGain(e[i], side)], DOMAIN e)
<1> DEFINE S == OfSide(side)
           T == DOMAIN e
           F == [a \in S |-> [i \in T |-> AddedTo(a, e[i])]]
           C == [i \in T |-> SumFunctionOnSet([a \in S |-> F[a][i]], S)]
           k == [i \in T |-> PostingGain(e[i], side)]
<1>1. IsFiniteSet(S) /\ IsFiniteSet(T) /\ \A i \in T : e[i].amount \in Int
  BY SidesFinite, EntryShape
<1>2. \A a \in S : \A i \in T : F[a][i] = AddedTo(a, e[i]) /\ F[a][i] \in Int
  BY <1>1, AddedIsInt
<1>3. ByRows(F, S, T) = ByColumns(F, S, T, T)
  <2> HIDE DEF F, S, T
  <2> QED BY <1>1, <1>2, SumSwap
<1>4. SideGain(e, side) = ByRows(F, S, T)
  <2>1. [a \in S |-> BalanceOf(a, e)] = [a \in S |-> SumFunctionOnSet(F[a], T)]
    <3>1. ASSUME NEW a \in S PROVE BalanceOf(a, e) = SumFunctionOnSet(F[a], T)
      BY DEF BalanceOf, SumFunction
    <3> QED BY <3>1
  <2> QED BY <2>1 DEF SideGain, ByRows
<1>5. C = k
  <2>1. ASSUME NEW i \in T PROVE C[i] = k[i]
    <3> DEFINE g == [a \in S |-> F[a][i]]
    <3>1. \A a \in S : g[a] = AddedTo(a, e[i])
      BY <1>2
    <3>2. e[i].amount \in Int
      BY <1>1
    <3>3. SumFunctionOnSet(g, S) = PostingGain(e[i], side)
      <4> HIDE DEF g
      <4> QED BY <3>1, <3>2, OnePosting
    <3> QED BY <3>3
  <2> QED BY <2>1
<1>6. ByColumns(F, S, T, T) = SumFunctionOnSet(C, T)
  BY DEF ByColumns
<1> QED BY <1>3, <1>4, <1>5, <1>6

\* An entry whose sides are equal adds the same to both sides.
LEMMA BothSides ==
    ASSUME NEW e \in Entries, SideTotal(e, "debit") = SideTotal(e, "credit")
    PROVE  SideGain(e, "debit") = SideGain(e, "credit") /\ SideGain(e, "debit") \in Int /\ SideGain(e, "credit") \in Int
<1> DEFINE T == DOMAIN e
           d == [i \in T |-> PostingGain(e[i], "debit")]
           c == [i \in T |-> PostingGain(e[i], "credit")]
           x == [i \in T |-> OnSide(e[i], "debit")]
           y == [i \in T |-> OnSide(e[i], "credit")]
           h == [i \in T |-> PostingGain(e[i], "debit") + OnSide(e[i], "credit")]
<1>1. IsFiniteSet(T)
  BY EntryShape
<1>2. \A i \in T : /\ d[i] \in Int /\ c[i] \in Int /\ x[i] \in Int /\ y[i] \in Int
                   /\ h[i] = d[i] + y[i] /\ h[i] = c[i] + x[i]
  <2> TAKE i \in T
  <2> DEFINE p == e[i]
  <2>1. p.account \in Accounts /\ p.side \in {"debit", "credit"} /\ p.amount \in Int
    BY EntryShape DEF Sides
  <2>2. /\ p.account \in OfSide("debit") => p.account \notin OfSide("credit")
        /\ p.account \notin OfSide("debit") => p.account \in OfSide("credit")
    BY <2>1 DEF OfSide, NormalSide
  <2> HIDE DEF p
  <2>3. /\ PostingGain(p, "debit") \in Int /\ PostingGain(p, "credit") \in Int
        /\ OnSide(p, "debit") \in Int /\ OnSide(p, "credit") \in Int
        /\ PostingGain(p, "debit") + OnSide(p, "credit") = PostingGain(p, "credit") + OnSide(p, "debit")
    BY <2>1, <2>2 DEF PostingGain, OnSide
  <2> QED BY <2>3 DEF p
<1>3. SumFunctionOnSet(h, T) = SumFunctionOnSet(d, T) + SumFunctionOnSet(y, T)
  <2> HIDE DEF h, d, y, c, x, T
  <2> QED BY <1>1, <1>2, SumPlus
<1>4. SumFunctionOnSet(h, T) = SumFunctionOnSet(c, T) + SumFunctionOnSet(x, T)
  <2> HIDE DEF h, d, y, c, x, T
  <2> QED BY <1>1, <1>2, SumPlus
<1>5. /\ SumFunctionOnSet(d, T) \in Int /\ SumFunctionOnSet(c, T) \in Int
      /\ SumFunctionOnSet(x, T) \in Int /\ SumFunctionOnSet(y, T) \in Int
  <2> HIDE DEF h, d, y, c, x, T
  <2> QED BY <1>1, <1>2, SumIsInt
<1>6. SumFunctionOnSet(x, T) = SumFunctionOnSet(y, T)
  BY DEF SideTotal, SumFunction
<1>7. SideGain(e, "debit") = SumFunctionOnSet(d, T) /\ SideGain(e, "credit") = SumFunctionOnSet(c, T)
  BY SideGainIsSum
<1>8. ASSUME NEW D \in Int, NEW C \in Int, NEW P \in Int, NEW Q \in Int, NEW H, H = D + Q, H = C + P, P = Q
      PROVE  D = C
  BY <1>8
<1> HIDE DEF h, d, y, c, x, T
<1>9. SumFunctionOnSet(d, T) = SumFunctionOnSet(c, T)
  BY <1>3, <1>4, <1>5, <1>6, <1>8
<1> QED BY <1>5, <1>7, <1>9

\* What is posted changes the total of a side by what it adds to it.
LEMMA TotalMoves ==
    ASSUME TreasuryTypeOK, NEW e \in Entries, PostEntry(e), NEW side
    PROVE  /\ TotalOf(books', side) = TotalOf(books, side) + SideGain(e, side)
           /\ TotalOf(books, side) \in Int
<1> DEFINE S == OfSide(side)
           f == [a \in S |-> books[a]]
           g == [a \in S |-> BalanceOf(a, e)]
           h == [a \in S |-> books'[a]]
<1>1. IsFiniteSet(S) /\ S \subseteq Accounts
  BY SidesFinite DEF OfSide
<1>2. \A a \in Accounts : books[a] \in Int /\ BalanceOf(a, e) \in Int /\ books'[a] = books[a] + BalanceOf(a, e)
  BY PostedTypes, BalanceIsInt, Shapes DEF Entries
<1>3. \A a \in S : f[a] \in Int /\ g[a] \in Int /\ h[a] = f[a] + g[a]
  BY <1>1, <1>2
<1>4. SumFunctionOnSet(h, S) = SumFunctionOnSet(f, S) + SumFunctionOnSet(g, S) /\ SumFunctionOnSet(f, S) \in Int
  <2> HIDE DEF f, g, h, S
  <2> QED BY <1>1, <1>3, SumPlus, SumIsInt
<1>5. /\ TotalOf(books, side) = SumFunctionOnSet(f, S) /\ TotalOf(books', side) = SumFunctionOnSet(h, S)
      /\ SideGain(e, side) = SumFunctionOnSet(g, S)
  BY DEF TotalOf, SumFunction, SideGain
<1> QED BY <1>4, <1>5

BooksEven == TotalOf(books, "debit") = TotalOf(books, "credit")

LEMMA EvenStep ==
    ASSUME TreasuryTypeOK, BooksEven, [TreasuryNext]_treasuryVars
    PROVE  BooksEven'
<1>1. CASE UNCHANGED books
  BY <1>1 DEF BooksEven, TotalOf
<1>2. ASSUME NEW e \in Entries, PostEntry(e) PROVE BooksEven'
  <2>1. SideGain(e, "debit") = SideGain(e, "credit") /\ SideGain(e, "debit") \in Int
    BY <1>2, BothSides DEF PostEntry, Written
  <2>2. /\ TotalOf(books', "debit") = TotalOf(books, "debit") + SideGain(e, "debit")
        /\ TotalOf(books', "credit") = TotalOf(books, "credit") + SideGain(e, "credit")
    BY <1>2, TotalMoves
  <2>3. TotalOf(books', "debit") = TotalOf(books', "credit")
    BY <2>1, <2>2 DEF BooksEven
  <2> QED BY <2>3 DEF BooksEven, TotalOf
<1> QED BY <1>1, <1>2, StepPosts DEF Posts, treasuryVars

-----------------------------------------------------------------------------
(***************************************************************************)
(* No entry that is due is refused: its amounts are not negative, its sides*)
(* are equal, and at least two of its postings are kept.                   *)
(***************************************************************************)
LEMMA TwoKept ==
    ASSUME NEW S, IsFiniteSet(S), NEW i \in S, NEW j \in S, i # j
    PROVE  Cardinality(S) >= 2
<1>1. Cardinality({i} \cup {j}) = 2 /\ IsFiniteSet({i} \cup {j})
  <2>1. IsFiniteSet({i}) /\ Cardinality({i}) = 1
    BY FS_Singleton
  <2> QED BY <2>1, FS_AddElement
<1>2. {i} \cup {j} \subseteq S
  OBVIOUS
<1>3. Cardinality({i} \cup {j}) <= Cardinality(S) /\ Cardinality(S) \in Nat
  BY <1>2, FS_Subset, FS_CardinalityType
<1> QED BY <1>1, <1>3

LEMMA SidesBy ==
    \A b, n : /\ OnSide(Debit(b, n), "debit") = n /\ OnSide(Debit(b, n), "credit") = 0
              /\ OnSide(Credit(b, n), "debit") = 0 /\ OnSide(Credit(b, n), "credit") = n
BY DEF OnSide, Debit, Credit, Posting

LEMMA TotalOfThree ==
    ASSUME NEW p, NEW q, NEW r, NEW side, p.amount \in Int, q.amount \in Int, r.amount \in Int
    PROVE  SideTotal(<<p, q, r>>, side) = OnSide(p, side) + OnSide(q, side) + OnSide(r, side)
<1> DEFINE s == <<p, q, r>>
           g == [i \in DOMAIN s |-> OnSide(s[i], side)]
<1>1. DOMAIN s = 1..3 /\ s[1] = p /\ s[2] = q /\ s[3] = r
  OBVIOUS
<1>2. DOMAIN g = 1..3 /\ g[1] = OnSide(p, side) /\ g[2] = OnSide(q, side) /\ g[3] = OnSide(r, side)
  BY <1>1
<1>3. g[1] \in Int /\ g[2] \in Int /\ g[3] \in Int
  BY <1>2 DEF OnSide
<1>4. SumFunctionOnSet(g, 1..3) = g[1] + g[2] + g[3]
  <2> HIDE DEF g
  <2> QED BY <1>3, SumOfThree
<1>5. SideTotal(s, side) = SumFunctionOnSet(g, DOMAIN g)
  BY DEF SideTotal, SumFunction
<1> QED BY <1>2, <1>4, <1>5

LEMMA TotalOfFive ==
    ASSUME NEW p, NEW q, NEW r, NEW u, NEW v, NEW side,
           p.amount \in Int, q.amount \in Int, r.amount \in Int, u.amount \in Int, v.amount \in Int
    PROVE  SideTotal(<<p, q, r, u, v>>, side) =
               OnSide(p, side) + OnSide(q, side) + OnSide(r, side) + OnSide(u, side) + OnSide(v, side)
<1> DEFINE s == <<p, q, r, u, v>>
           g == [i \in DOMAIN s |-> OnSide(s[i], side)]
<1>1. DOMAIN s = 1..5 /\ s[1] = p /\ s[2] = q /\ s[3] = r /\ s[4] = u /\ s[5] = v
  OBVIOUS
<1>2. /\ DOMAIN g = 1..5 /\ g[1] = OnSide(p, side) /\ g[2] = OnSide(q, side) /\ g[3] = OnSide(r, side)
      /\ g[4] = OnSide(u, side) /\ g[5] = OnSide(v, side)
  BY <1>1
<1>3. g[1] \in Int /\ g[2] \in Int /\ g[3] \in Int /\ g[4] \in Int /\ g[5] \in Int
  BY <1>2 DEF OnSide
<1>4. SumFunctionOnSet(g, 1..5) = g[1] + g[2] + g[3] + g[4] + g[5]
  <2> HIDE DEF g
  <2> QED BY <1>3, SumOfFive
<1>5. SideTotal(s, side) = SumFunctionOnSet(g, DOMAIN g)
  BY DEF SideTotal, SumFunction
<1> QED BY <1>2, <1>4, <1>5

\* Of five postings that balance, the first a debit that is not zero, some credit is not zero.
LEMMA FiveWritten ==
    ASSUME NEW p, NEW q, NEW r, NEW u, NEW v,
           p.amount \in Nat, q.amount \in Nat, r.amount \in Nat, u.amount \in Nat, v.amount \in Nat,
           OnSide(p, "debit") = p.amount, OnSide(p, "credit") = 0, p.amount # 0,
           OnSide(p, "debit") + OnSide(q, "debit") + OnSide(r, "debit") + OnSide(u, "debit") + OnSide(v, "debit") =
           OnSide(p, "credit") + OnSide(q, "credit") + OnSide(r, "credit") + OnSide(u, "credit") + OnSide(v, "credit")
    PROVE  Written(<<p, q, r, u, v>>)
<1> DEFINE s == <<p, q, r, u, v>>
           K == {i \in DOMAIN s : s[i].amount # 0}
<1>1. DOMAIN s = 1..5 /\ s[1] = p /\ s[2] = q /\ s[3] = r /\ s[4] = u /\ s[5] = v
  OBVIOUS
<1>2. \A i \in DOMAIN s : s[i].amount >= 0
  BY <1>1
<1>3. SideTotal(s, "debit") = SideTotal(s, "credit")
  BY TotalOfFive
<1>4. IsFiniteSet(K)
  <2>1. IsFiniteSet((1..4) \cup {5})
    BY ShortFinite, FS_AddElement
  <2>2. K \subseteq (1..4) \cup {5}
    BY <1>1
  <2> HIDE DEF K
  <2> QED BY <2>1, <2>2, FS_Subset
<1>5. q.amount # 0 \/ r.amount # 0 \/ u.amount # 0 \/ v.amount # 0
  BY DEF OnSide
<1>6. 1 \in K /\ \E j \in K : j # 1
  BY <1>1, <1>5
<1>7. Cardinality(K) >= 2
  <2> HIDE DEF K
  <2> QED BY <1>4, <1>6, TwoKept
<1> QED BY <1>2, <1>3, <1>7 DEF Written

LEMMA TransferWritten ==
    ASSUME NEW f, NEW g, NEW n \in Nat \ {0}, NEW m \in Nat, m <= n
    PROVE  Written(FloatTransfer(f, g, n, m))
<1> DEFINE p == Credit(f, n)
           q == Debit(g, n - m)
           r == Debit("expense", m)
           s == <<p, q, r>>
           K == {i \in DOMAIN s : s[i].amount # 0}
<1>0. n - m \in Nat /\ n \in Int /\ m \in Int /\ n - m \in Int
  OBVIOUS
<1>1. DOMAIN s = 1..3 /\ s[1] = p /\ s[2] = q /\ s[3] = r
  OBVIOUS
<1>2. /\ p.amount = n /\ q.amount = n - m /\ r.amount = m
      /\ OnSide(p, "debit") = 0 /\ OnSide(q, "debit") = n - m /\ OnSide(r, "debit") = m
      /\ OnSide(p, "credit") = n /\ OnSide(q, "credit") = 0 /\ OnSide(r, "credit") = 0
  BY AddedBy, SidesBy
<1> HIDE DEF p, q, r
<1>3. \A i \in DOMAIN s : s[i].amount >= 0
  BY <1>0, <1>1, <1>2
<1>4. SideTotal(s, "debit") = 0 + (n - m) + m /\ SideTotal(s, "credit") = n + 0 + 0
  BY <1>0, <1>2, TotalOfThree
<1>5. SideTotal(s, "debit") = SideTotal(s, "credit")
  BY <1>0, <1>4
<1>6. IsFiniteSet(K)
  BY <1>1, ShortFinite, FS_Subset
<1>7. 1 \in K /\ (2 \in K \/ 3 \in K)
  BY <1>0, <1>1, <1>2
<1>8. Cardinality(K) >= 2
  <2> HIDE DEF K
  <2> QED BY <1>6, <1>7, TwoKept
<1>9. FloatTransfer(f, g, n, m) = s
  BY DEF FloatTransfer, p, q, r
<1> QED BY <1>3, <1>5, <1>8, <1>9 DEF Written

LEMMA FeesSplit ==
    ASSUME NEW f \in FeesOf
    PROVE  /\ X(f) \in Nat /\ Y(f) \in Nat /\ X(f) + Y(f) = f.processing + f.platform
           /\ f.requested \in Nat /\ f.requested > 0 /\ f.processing \in Nat /\ f.platform \in Nat /\ f.provider \in Nat
           /\ Carried(f) = f.requested + Y(f) /\ Quoted(f) = f.requested + X(f) /\ Debited(f) \in Nat
BY DEF X, Y, Borne, FeesOf, Bearers, Carried, Quoted, Debited

LEMMA SettlementWritten ==
    ASSUME NEW f \in FeesOf, f.requested >= X(f), NEW source, NEW float
    PROVE  Written(Settlement(source, float, f))
<1> DEFINE n == f.requested - X(f) + f.provider
           p == Debit(source, Carried(f))
           q == Debit("expense", f.provider)
           r == Credit(float, n)
           u == Credit("processing", f.processing)
           v == Credit("platform", f.platform)
<1>1. /\ n \in Nat /\ Carried(f) \in Nat /\ Carried(f) # 0
      /\ Carried(f) + f.provider = n + f.processing + f.platform
  BY FeesSplit
<1>2. /\ p.amount = Carried(f) /\ q.amount = f.provider /\ r.amount = n /\ u.amount = f.processing /\ v.amount = f.platform
      /\ OnSide(p, "debit") = Carried(f) /\ OnSide(q, "debit") = f.provider /\ OnSide(r, "debit") = 0
      /\ OnSide(u, "debit") = 0 /\ OnSide(v, "debit") = 0
      /\ OnSide(p, "credit") = 0 /\ OnSide(q, "credit") = 0 /\ OnSide(r, "credit") = n
      /\ OnSide(u, "credit") = f.processing /\ OnSide(v, "credit") = f.platform
  BY AddedBy, SidesBy
<1>3. Settlement(source, float, f) = <<p, q, r, u, v>>
  BY DEF Settlement
<1> HIDE DEF n, p, q, r, u, v
<1> QED BY <1>1, <1>2, <1>3, FeesSplit, FiveWritten

LEMMA CollectionWritten ==
    ASSUME NEW f \in FeesOf, f.requested >= Y(f), Collectable(f), NEW float
    PROVE  Written(Collection(float, f))
<1> DEFINE n == Debited(f) - f.provider
           k == f.requested - Y(f)
           m == f.processing - (Quoted(f) - Debited(f))
           p == Debit(float, n)
           q == Debit("expense", f.provider)
           r == Credit("available", k)
           u == IF m >= 0 THEN Credit("processing", m) ELSE Debit("processing", -m)
           v == Credit("platform", f.platform)
<1>1. /\ n \in Nat /\ n # 0 /\ k \in Nat /\ m \in Int
      /\ n + f.provider = k + m + f.platform
  BY FeesSplit DEF Collectable
<1>2. /\ p.amount = n /\ q.amount = f.provider /\ r.amount = k /\ v.amount = f.platform
      /\ OnSide(p, "debit") = n /\ OnSide(q, "debit") = f.provider /\ OnSide(r, "debit") = 0
      /\ OnSide(v, "debit") = 0
      /\ OnSide(p, "credit") = 0 /\ OnSide(q, "credit") = 0 /\ OnSide(r, "credit") = k
      /\ OnSide(v, "credit") = f.platform
  BY AddedBy, SidesBy
<1>3. Collection(float, f) = <<p, q, r, u, v>>
  BY DEF Collection
<1>4. u.amount \in Nat /\ OnSide(u, "credit") - OnSide(u, "debit") = m /\ OnSide(u, "credit") \in Int /\ OnSide(u, "debit") \in Int
  <2> HIDE DEF m
  <2>1. CASE m >= 0
    <3>1. u = Credit("processing", m)
      BY <2>1
    <3> HIDE DEF u
    <3> QED BY <1>1, <2>1, <3>1, AddedBy, SidesBy
  <2>2. CASE ~(m >= 0)
    <3>1. u = Debit("processing", -m)
      BY <2>2
    <3>2. u.amount = -m /\ OnSide(u, "debit") = -m /\ OnSide(u, "credit") = 0
      <4> HIDE DEF u
      <4> QED BY <3>1, AddedBy, SidesBy
    <3> HIDE DEF u
    <3> QED BY <1>1, <2>2, <3>2
  <2> QED BY <2>1, <2>2
<1> HIDE DEF n, k, m, p, q, r, u, v
<1>5. f.provider \in Nat /\ f.platform \in Nat
  BY FeesSplit
<1>6. n + f.provider + 0 + OnSide(u, "debit") + 0 = 0 + 0 + k + OnSide(u, "credit") + f.platform
  BY <1>1, <1>4, <1>5
<1>7. OnSide(p, "debit") + OnSide(q, "debit") + OnSide(r, "debit") + OnSide(u, "debit") + OnSide(v, "debit") =
      OnSide(p, "credit") + OnSide(q, "credit") + OnSide(r, "credit") + OnSide(u, "credit") + OnSide(v, "credit")
  BY <1>2, <1>6
<1> QED BY <1>1, <1>2, <1>3, <1>4, <1>5, <1>7, FiveWritten

\* Every entry of a payment or a transfer that may come due is one the ledger writes.
LEMMA DueIsWritten ==
    /\ \A p \in DOMAIN Payments :
           IF Outgoing(p) THEN Written(Settlement(SourceOf(p), Payments[p].float, Fees(p)))
           ELSE Collectable(Fees(p)) => Written(Collection(Payments[p].float, Fees(p)))
    /\ \A t \in DOMAIN Transfers : Transfers[t].fee <= Transfers[t].amount => Written(TransferEntry(t))
<1>1. ASSUME NEW p \in DOMAIN Payments, Outgoing(p)
      PROVE  Written(Settlement(SourceOf(p), Payments[p].float, Fees(p)))
  <2>1. Fees(p) \in FeesOf /\ Fees(p).requested >= X(Fees(p))
    BY <1>1, TreasuryOK DEF Outgoing, Fees
  <2> QED BY <2>1, SettlementWritten
<1>2. ASSUME NEW p \in DOMAIN Payments, ~Outgoing(p), Collectable(Fees(p))
      PROVE  Written(Collection(Payments[p].float, Fees(p)))
  <2>1. Fees(p) \in FeesOf /\ Fees(p).requested >= Y(Fees(p))
    BY <1>2, TreasuryOK DEF Outgoing, Fees
  <2> QED BY <1>2, <2>1, CollectionWritten
<1>3. ASSUME NEW t \in DOMAIN Transfers, Transfers[t].fee <= Transfers[t].amount PROVE Written(TransferEntry(t))
  BY <1>3, TreasuryOK, TransferWritten DEF TransferEntry
<1> QED BY <1>1, <1>2, <1>3

-----------------------------------------------------------------------------
(***************************************************************************)
(* Where the books of a float and its wallet differ: sums over payments,   *)
(* transfers, cash-outs and adjustments, one of which a step changes.      *)
(***************************************************************************)
UnheardIn(f, m, p) ==
    IF Payments[p].float # f \/ ~m[p].moved \/ m[p].state = "succeeded" THEN 0 ELSE -Gain(p)
UnmatchedIn(f, m, t) ==
    IF m[t].moved = (m[t].status # "none") THEN 0 ELSE IF m[t].moved THEN -MovedBy(f, t) ELSE MovedBy(f, t)
CashedIn(f, m, c) ==
    IF Cashouts[c].float = f /\ m[c].status = "confirmed" THEN Cashouts[c].amount ELSE 0

UnheardSum(f, m) == SumFunctionOnSet([p \in DOMAIN Payments |-> UnheardIn(f, m, p)], DOMAIN Payments)
UnmatchedSum(f, m) == SumFunctionOnSet([t \in DOMAIN Transfers |-> UnmatchedIn(f, m, t)], DOMAIN Transfers)
CashedSum(f, m) == SumFunctionOnSet([c \in DOMAIN Cashouts |-> CashedIn(f, m, c)], DOMAIN Cashouts)

OnItsWay(f, m, r, c, J) == UnheardSum(f, m) + UnmatchedSum(f, r) - CashedSum(f, c) + AdjustedSum(f, J)

DriftAgrees == \A f \in Floats : books[f] - wallet[f] = OnItsWay(f, payment, transfer, cashout, adjusted)

LEMMA DriftMeans == DriftIsTiming <=> DriftAgrees
<1>1. \A f, p : p \in DOMAIN Payments => Unheard(f, p) = UnheardIn(f, payment, p)
  <2> TAKE f, p
  <2> HAVE p \in DOMAIN Payments
  <2>1. Outgoing(p) => -Gain(p) = ProviderTakes(p)
    BY FeeTypes DEF Gain
  <2>2. ~Outgoing(p) => -Gain(p) = Fees(p).provider - Debited(Fees(p))
    BY FeeTypes DEF Gain
  <2> QED BY <2>1, <2>2 DEF Unheard, UnheardIn
<1>2. \A f, t : Unmatched(f, t) = UnmatchedIn(f, transfer, t)
  BY DEF Unmatched, UnmatchedIn
<1>3. \A f, c : CashedOut(f, c) = CashedIn(f, cashout, c)
  BY DEF CashedOut, CashedIn
<1>4. ASSUME NEW f
      PROVE  /\ SumFunction([p \in DOMAIN Payments |-> Unheard(f, p)]) = UnheardSum(f, payment)
             /\ SumFunction([t \in DOMAIN Transfers |-> Unmatched(f, t)]) = UnmatchedSum(f, transfer)
             /\ SumFunction([c \in DOMAIN Cashouts |-> CashedOut(f, c)]) = CashedSum(f, cashout)
             /\ SumFunction([j \in adjusted |-> BalanceOf(f, Adjustments[j])]) = AdjustedSum(f, adjusted)
  <2>1. [p \in DOMAIN Payments |-> Unheard(f, p)] = [p \in DOMAIN Payments |-> UnheardIn(f, payment, p)]
    BY <1>1
  <2>2. [t \in DOMAIN Transfers |-> Unmatched(f, t)] = [t \in DOMAIN Transfers |-> UnmatchedIn(f, transfer, t)]
    BY <1>2
  <2>3. [c \in DOMAIN Cashouts |-> CashedOut(f, c)] = [c \in DOMAIN Cashouts |-> CashedIn(f, cashout, c)]
    BY <1>3
  <2> QED BY <2>1, <2>2, <2>3 DEF SumFunction, UnheardSum, UnmatchedSum, CashedSum, AdjustedSum
<1> QED BY <1>4 DEF DriftIsTiming, OnItsWay, DriftAgrees

LEMMA DriftMeansNext == DriftIsTiming' <=> DriftAgrees'
BY DriftMeans, PTL

LEMMA MovedByIsInt == ASSUME NEW f, NEW t \in DOMAIN Transfers PROVE MovedBy(f, t) \in Int
BY TreasuryOK DEF MovedBy

LEMMA PartsAreInt ==
    /\ \A f, m : \A p \in DOMAIN Payments : UnheardIn(f, m, p) \in Int
    /\ \A f, m : \A t \in DOMAIN Transfers : UnmatchedIn(f, m, t) \in Int
    /\ \A f, m : \A c \in DOMAIN Cashouts : CashedIn(f, m, c) \in Int
<1>1. ASSUME NEW f, NEW m, NEW p \in DOMAIN Payments PROVE UnheardIn(f, m, p) \in Int
  BY GainIsInt DEF UnheardIn
<1>2. ASSUME NEW f, NEW m, NEW t \in DOMAIN Transfers PROVE UnmatchedIn(f, m, t) \in Int
  BY MovedByIsInt DEF UnmatchedIn
<1>3. ASSUME NEW f, NEW m, NEW c \in DOMAIN Cashouts PROVE CashedIn(f, m, c) \in Int
  BY TreasuryOK DEF CashedIn
<1> QED BY <1>1, <1>2, <1>3

LEMMA WaysAreInt ==
    ASSUME NEW f, NEW m, NEW r, NEW c, NEW J, J \subseteq DOMAIN Adjustments
    PROVE  /\ UnheardSum(f, m) \in Int /\ UnmatchedSum(f, r) \in Int /\ CashedSum(f, c) \in Int
           /\ AdjustedSum(f, J) \in Int /\ OnItsWay(f, m, r, c, J) \in Int
<1>1. UnheardSum(f, m) \in Int
  <2> DEFINE g == [p \in DOMAIN Payments |-> UnheardIn(f, m, p)]
  <2>1. IsFiniteSet(DOMAIN Payments) /\ \A p \in DOMAIN Payments : g[p] \in Int
    BY TreasuryOK, PartsAreInt
  <2>2. SumFunctionOnSet(g, DOMAIN Payments) \in Int
    <3> HIDE DEF g
    <3> QED BY <2>1, SumIsInt
  <2> QED BY <2>2 DEF UnheardSum
<1>2. UnmatchedSum(f, r) \in Int
  <2> DEFINE g == [t \in DOMAIN Transfers |-> UnmatchedIn(f, r, t)]
  <2>1. IsFiniteSet(DOMAIN Transfers) /\ \A t \in DOMAIN Transfers : g[t] \in Int
    BY TreasuryOK, PartsAreInt
  <2>2. SumFunctionOnSet(g, DOMAIN Transfers) \in Int
    <3> HIDE DEF g
    <3> QED BY <2>1, SumIsInt
  <2> QED BY <2>2 DEF UnmatchedSum
<1>3. CashedSum(f, c) \in Int
  <2> DEFINE g == [d \in DOMAIN Cashouts |-> CashedIn(f, c, d)]
  <2>1. IsFiniteSet(DOMAIN Cashouts) /\ \A d \in DOMAIN Cashouts : g[d] \in Int
    BY TreasuryOK, PartsAreInt
  <2>2. SumFunctionOnSet(g, DOMAIN Cashouts) \in Int
    <3> HIDE DEF g
    <3> QED BY <2>1, SumIsInt
  <2> QED BY <2>2 DEF CashedSum
<1>4. AdjustedSum(f, J) \in Int
  BY SumsAreInt
<1> QED BY <1>1, <1>2, <1>3, <1>4 DEF OnItsWay

\* One payment, transfer or cash-out changes.
LEMMA UnheardStep ==
    ASSUME NEW f, NEW m, NEW n, NEW p \in DOMAIN Payments,
           \A q \in DOMAIN Payments : q # p => UnheardIn(f, n, q) = UnheardIn(f, m, q)
    PROVE  UnheardSum(f, n) = UnheardSum(f, m) - UnheardIn(f, m, p) + UnheardIn(f, n, p)
<1> DEFINE g == [q \in DOMAIN Payments |-> UnheardIn(f, m, q)]
           h == [q \in DOMAIN Payments |-> UnheardIn(f, n, q)]
<1>1. IsFiniteSet(DOMAIN Payments)
  BY TreasuryOK
<1>2. \A q \in DOMAIN Payments : g[q] \in Int /\ h[q] \in Int /\ (q # p => h[q] = g[q])
  BY PartsAreInt
<1>3. g[p] = UnheardIn(f, m, p) /\ h[p] = UnheardIn(f, n, p)
  OBVIOUS
<1>4. SumFunctionOnSet(h, DOMAIN Payments) = SumFunctionOnSet(g, DOMAIN Payments) - g[p] + h[p]
  <2> HIDE DEF g, h
  <2> QED BY <1>1, <1>2, SumChange
<1> QED BY <1>3, <1>4 DEF UnheardSum

LEMMA UnmatchedStep ==
    ASSUME NEW f, NEW m, NEW n, NEW t \in DOMAIN Transfers,
           \A u \in DOMAIN Transfers : u # t => UnmatchedIn(f, n, u) = UnmatchedIn(f, m, u)
    PROVE  UnmatchedSum(f, n) = UnmatchedSum(f, m) - UnmatchedIn(f, m, t) + UnmatchedIn(f, n, t)
<1> DEFINE g == [u \in DOMAIN Transfers |-> UnmatchedIn(f, m, u)]
           h == [u \in DOMAIN Transfers |-> UnmatchedIn(f, n, u)]
<1>1. IsFiniteSet(DOMAIN Transfers)
  BY TreasuryOK
<1>2. \A u \in DOMAIN Transfers : g[u] \in Int /\ h[u] \in Int /\ (u # t => h[u] = g[u])
  BY PartsAreInt
<1>3. g[t] = UnmatchedIn(f, m, t) /\ h[t] = UnmatchedIn(f, n, t)
  OBVIOUS
<1>4. SumFunctionOnSet(h, DOMAIN Transfers) = SumFunctionOnSet(g, DOMAIN Transfers) - g[t] + h[t]
  <2> HIDE DEF g, h
  <2> QED BY <1>1, <1>2, SumChange
<1> QED BY <1>3, <1>4 DEF UnmatchedSum

LEMMA CashedStep ==
    ASSUME NEW f, NEW m, NEW n, NEW c \in DOMAIN Cashouts,
           \A d \in DOMAIN Cashouts : d # c => CashedIn(f, n, d) = CashedIn(f, m, d)
    PROVE  CashedSum(f, n) = CashedSum(f, m) - CashedIn(f, m, c) + CashedIn(f, n, c)
<1> DEFINE g == [d \in DOMAIN Cashouts |-> CashedIn(f, m, d)]
           h == [d \in DOMAIN Cashouts |-> CashedIn(f, n, d)]
<1>1. IsFiniteSet(DOMAIN Cashouts)
  BY TreasuryOK
<1>2. \A d \in DOMAIN Cashouts : g[d] \in Int /\ h[d] \in Int /\ (d # c => h[d] = g[d])
  BY PartsAreInt
<1>3. g[c] = CashedIn(f, m, c) /\ h[c] = CashedIn(f, n, c)
  OBVIOUS
<1>4. SumFunctionOnSet(h, DOMAIN Cashouts) = SumFunctionOnSet(g, DOMAIN Cashouts) - g[c] + h[c]
  <2> HIDE DEF g, h
  <2> QED BY <1>1, <1>2, SumChange
<1> QED BY <1>3, <1>4 DEF CashedSum

BooksInv == TreasuryTypeOK /\ PeopleInv /\ BooksEven /\ DriftIsTiming

\* Books and wallet differ by as much more as what is on its way grows.
LEMMA DriftNext ==
    ASSUME BooksInv,
           \A f \in Floats :
               /\ books'[f] \in Int /\ wallet'[f] \in Int
               /\ books'[f] - wallet'[f] - (books[f] - wallet[f]) =
                      OnItsWay(f, payment', transfer', cashout', adjusted') - OnItsWay(f, payment, transfer, cashout, adjusted)
               /\ OnItsWay(f, payment', transfer', cashout', adjusted') \in Int
    PROVE  DriftIsTiming'
<1>1. \A f \in Floats : books'[f] - wallet'[f] = OnItsWay(f, payment', transfer', cashout', adjusted')
  <2> TAKE f \in Floats
  <2> DEFINE k == OnItsWay(f, payment, transfer, cashout, adjusted)
             l == OnItsWay(f, payment', transfer', cashout', adjusted')
  <2>1. books[f] - wallet[f] = k
    BY DriftMeans DEF BooksInv, DriftAgrees
  <2>2. books[f] \in Int /\ wallet[f] \in Int
    BY Shapes, NamesApart DEF BooksInv
  <2>3. l \in Int /\ k \in Int
    BY Shapes, WaysAreInt DEF BooksInv
  <2>4. books'[f] \in Int /\ wallet'[f] \in Int /\ books'[f] - wallet'[f] - (books[f] - wallet[f]) = l - k
    OBVIOUS
  <2> HIDE DEF k, l
  <2>5. books'[f] - wallet'[f] = l
    BY <2>1, <2>2, <2>3, <2>4
  <2> QED BY <2>5 DEF l
<1> QED BY <1>1, DriftMeansNext DEF DriftAgrees

\* A payment: books and wallet move when the platform hears of it and when the provider makes it.
LEMMA PaymentShifts ==
    ASSUME TreasuryTypeOK, NEW p \in DOMAIN Payments,
           \/ ConfirmDisbursement(p) \/ StartCollection(p) \/ ProviderPays(p)
           \/ PaymentSucceeds(p) \/ PaymentFails(p) \/ PaymentUndetermined(p),
           NEW f \in Floats
    PROVE  /\ books'[f] - wallet'[f] - (books[f] - wallet[f]) = UnheardIn(f, payment', p) - UnheardIn(f, payment, p)
           /\ books'[f] \in Int /\ wallet'[f] \in Int
           /\ \A q \in DOMAIN Payments : q # p => payment'[q] = payment[q]
<1>0. /\ books[f] \in Int /\ wallet[f] \in Int /\ Gain(p) \in Int
      /\ payment \in [DOMAIN Payments -> [state : PaymentStates, moved : BOOLEAN]]
      /\ Payments[p].float \in Floats
  BY Shapes, NamesApart, GainIsInt, FeeTypes
<1>1. books'[f] = books[f] + IF f = Payments[p].float /\ payment'[p].state = "succeeded" /\ payment[p].state # "succeeded"
                             THEN Gain(p) ELSE 0
  <2>1. f \in Told
    BY DEF Told
  <2> QED BY <2>1, PaymentAdds
<1>2. CASE ProviderPays(p)
  <2>1. /\ payment' = [payment EXCEPT ![p].moved = TRUE] /\ payment[p].state \in OpenPayment /\ ~payment[p].moved
        /\ wallet' = [wallet EXCEPT ![Payments[p].float] = @ + Gain(p)]
    BY <1>2 DEF ProviderPays, Gain
  <2>2. /\ \A q \in DOMAIN Payments : q # p => payment'[q] = payment[q]
        /\ payment'[p].moved /\ payment'[p].state = payment[p].state
    BY <1>0, <2>1
  <2>3. wallet'[f] = wallet[f] + IF f = Payments[p].float THEN Gain(p) ELSE 0
    BY <1>0, <2>1, Shapes
  <2>4. payment[p].state # "succeeded"
    BY <2>1 DEF OpenPayment
  <2>5. /\ UnheardIn(f, payment, p) = 0
        /\ UnheardIn(f, payment', p) = IF f = Payments[p].float THEN -Gain(p) ELSE 0
    BY <2>1, <2>2, <2>4 DEF UnheardIn
  <2> QED BY <1>0, <1>1, <2>2, <2>3, <2>4, <2>5
<1>3. CASE PaymentSucceeds(p)
  <2>1. payment' = [payment EXCEPT ![p].state = "succeeded"] /\ payment[p].state \in OpenPayment /\ payment[p].moved
        /\ UNCHANGED wallet
    BY <1>3 DEF PaymentSucceeds
  <2>2. /\ \A q \in DOMAIN Payments : q # p => payment'[q] = payment[q]
        /\ payment'[p].state = "succeeded" /\ payment[p].state # "succeeded"
    BY <1>0, <2>1 DEF OpenPayment
  <2>3. /\ UnheardIn(f, payment', p) = 0
        /\ UnheardIn(f, payment, p) = IF f = Payments[p].float THEN -Gain(p) ELSE 0
    BY <2>1, <2>2 DEF UnheardIn
  <2> QED BY <1>0, <1>1, <2>1, <2>2, <2>3
<1>4. CASE ConfirmDisbursement(p) \/ StartCollection(p) \/ PaymentFails(p) \/ PaymentUndetermined(p)
  <2>1. /\ UNCHANGED wallet /\ payment[p].state # "succeeded"
        /\ \E s \in {"submitted", "failed", "undetermined"} : payment' = [payment EXCEPT ![p].state = s]
    BY <1>4 DEF ConfirmDisbursement, StartCollection, PaymentFails, PaymentUndetermined, OpenPayment
  <2>2. /\ \A q \in DOMAIN Payments : q # p => payment'[q] = payment[q]
        /\ payment'[p].state # "succeeded" /\ payment'[p].moved = payment[p].moved
    BY <1>0, <2>1
  <2>3. UnheardIn(f, payment', p) = UnheardIn(f, payment, p)
    BY <2>1, <2>2 DEF UnheardIn
  <2>4. UnheardIn(f, payment, p) \in Int
    BY PartsAreInt
  <2> QED BY <1>0, <1>1, <2>1, <2>2, <2>3, <2>4
<1> QED BY <1>2, <1>3, <1>4

LEMMA PaymentKeepsDrift ==
    ASSUME BooksInv, NEW p \in DOMAIN Payments,
           \/ ConfirmDisbursement(p) \/ StartCollection(p) \/ ProviderPays(p)
           \/ PaymentSucceeds(p) \/ PaymentFails(p) \/ PaymentUndetermined(p)
    PROVE  DriftIsTiming'
<1>1. UNCHANGED <<transfer, cashout, adjusted>>
  BY DEF ConfirmDisbursement, StartCollection, ProviderPays, PaymentSucceeds, PaymentFails, PaymentUndetermined
<1>2. ASSUME NEW f \in Floats
      PROVE  /\ books'[f] \in Int /\ wallet'[f] \in Int
             /\ books'[f] - wallet'[f] - (books[f] - wallet[f]) =
                    OnItsWay(f, payment', transfer', cashout', adjusted') - OnItsWay(f, payment, transfer, cashout, adjusted)
             /\ OnItsWay(f, payment', transfer', cashout', adjusted') \in Int
  <2>1. /\ books'[f] - wallet'[f] - (books[f] - wallet[f]) = UnheardIn(f, payment', p) - UnheardIn(f, payment, p)
        /\ books'[f] \in Int /\ wallet'[f] \in Int
        /\ \A q \in DOMAIN Payments : q # p => payment'[q] = payment[q]
    BY PaymentShifts DEF BooksInv
  <2>2. \A q \in DOMAIN Payments : q # p => UnheardIn(f, payment', q) = UnheardIn(f, payment, q)
    BY <2>1 DEF UnheardIn
  <2>3. UnheardSum(f, payment') = UnheardSum(f, payment) - UnheardIn(f, payment, p) + UnheardIn(f, payment', p)
    BY <2>2, UnheardStep
  <2>4. /\ UnheardSum(f, payment) \in Int /\ UnheardSum(f, payment') \in Int /\ UnmatchedSum(f, transfer) \in Int
        /\ CashedSum(f, cashout) \in Int /\ AdjustedSum(f, adjusted) \in Int
        /\ UnheardIn(f, payment, p) \in Int /\ UnheardIn(f, payment', p) \in Int
    BY Shapes, WaysAreInt, PartsAreInt DEF BooksInv
  <2>5. OnItsWay(f, payment', transfer', cashout', adjusted') =
            UnheardSum(f, payment') + UnmatchedSum(f, transfer) - CashedSum(f, cashout) + AdjustedSum(f, adjusted)
    BY <1>1 DEF OnItsWay
  <2>6. OnItsWay(f, payment, transfer, cashout, adjusted) =
            UnheardSum(f, payment) + UnmatchedSum(f, transfer) - CashedSum(f, cashout) + AdjustedSum(f, adjusted)
    BY DEF OnItsWay
  <2> QED BY <2>1, <2>3, <2>4, <2>5, <2>6
<1> QED BY <1>2, DriftNext

\* A transfer: the books move when it is registered, the wallets when the provider moves the money.
LEMMA TransferKeepsDrift ==
    ASSUME BooksInv, NEW t \in DOMAIN Transfers, RegisterFloatTransfer(t) \/ ProviderTransfers(t)
    PROVE  DriftIsTiming'
<1>0. /\ TreasuryTypeOK
      /\ transfer \in [DOMAIN Transfers -> [status : {"none", "pending", "confirmed"}, moved : BOOLEAN]]
  BY Shapes DEF BooksInv
<1>1. UNCHANGED <<payment, cashout, adjusted>>
  BY DEF RegisterFloatTransfer, ProviderTransfers
<1>2. \A u \in DOMAIN Transfers : u # t => transfer'[u] = transfer[u]
  BY <1>0 DEF RegisterFloatTransfer, ProviderTransfers
<1>3. ASSUME NEW f \in Floats
      PROVE  /\ books'[f] - wallet'[f] - (books[f] - wallet[f]) = UnmatchedIn(f, transfer', t) - UnmatchedIn(f, transfer, t)
             /\ books'[f] \in Int /\ wallet'[f] \in Int
  <2>0. books[f] \in Int /\ wallet[f] \in Int /\ MovedBy(f, t) \in Int
    BY <1>0, Shapes, NamesApart, MovedByIsInt
  <2>1. CASE RegisterFloatTransfer(t)
    <3>1. /\ transfer[t].status = "none" /\ transfer' = [transfer EXCEPT ![t].status = "pending"]
          /\ Transfers[t].source # Transfers[t].destination /\ PostEntry(TransferEntry(t)) /\ UNCHANGED wallet
      BY <2>1 DEF RegisterFloatTransfer
    <3>2. transfer'[t].status = "pending" /\ transfer'[t].moved = transfer[t].moved /\ transfer[t].moved \in BOOLEAN
      BY <1>0, <3>1
    <3>3. books'[f] = books[f] + MovedBy(f, t)
      <4>1. f \in Told /\ TransferEntry(t) \in Entries
        BY EntryTypes DEF Told
      <4>2. /\ Transfers[t].source \in Floats /\ Transfers[t].destination \in Floats
            /\ Transfers[t].amount \in Int /\ Transfers[t].fee \in Int
        BY TreasuryOK
      <4>3. BalanceOf(f, TransferEntry(t)) = IF f = Transfers[t].source THEN -Transfers[t].amount
                                             ELSE IF f = Transfers[t].destination THEN Transfers[t].amount - Transfers[t].fee
                                             ELSE 0
        BY <3>1, <4>1, <4>2, TransferAdds DEF TransferEntry
      <4>4. BalanceOf(f, TransferEntry(t)) = MovedBy(f, t)
        BY <3>1, <4>2, <4>3 DEF MovedBy
      <4> QED BY <1>0, <3>1, <4>1, <4>4, EntryAdds
    <3>4. UnmatchedIn(f, transfer', t) - UnmatchedIn(f, transfer, t) = MovedBy(f, t)
      BY <2>0, <3>1, <3>2 DEF UnmatchedIn
    <3> QED BY <2>0, <3>1, <3>3, <3>4
  <2>2. CASE ProviderTransfers(t)
    <3>1. /\ ~transfer[t].moved /\ transfer' = [transfer EXCEPT ![t].moved = TRUE]
          /\ wallet'[f] = wallet[f] + MovedBy(f, t) /\ UNCHANGED books
      BY <2>2 DEF ProviderTransfers
    <3>2. transfer[t].moved = FALSE /\ transfer'[t].moved = TRUE /\ transfer'[t].status = transfer[t].status
      BY <1>0, <3>1
    <3>3. UnmatchedIn(f, transfer', t) - UnmatchedIn(f, transfer, t) = -MovedBy(f, t)
      <4>1. CASE transfer[t].status = "none"
        <5>1. UnmatchedIn(f, transfer', t) = -MovedBy(f, t) /\ UnmatchedIn(f, transfer, t) = 0
          BY <3>2, <4>1 DEF UnmatchedIn
        <5> QED BY <2>0, <5>1
      <4>2. CASE transfer[t].status # "none"
        <5>1. UnmatchedIn(f, transfer', t) = 0 /\ UnmatchedIn(f, transfer, t) = MovedBy(f, t)
          BY <3>2, <4>2 DEF UnmatchedIn
        <5> QED BY <2>0, <5>1
      <4> QED BY <4>1, <4>2
    <3> QED BY <2>0, <3>1, <3>3
  <2> QED BY <2>1, <2>2
<1>4. ASSUME NEW f \in Floats
      PROVE  /\ books'[f] \in Int /\ wallet'[f] \in Int
             /\ books'[f] - wallet'[f] - (books[f] - wallet[f]) =
                    OnItsWay(f, payment', transfer', cashout', adjusted') - OnItsWay(f, payment, transfer, cashout, adjusted)
             /\ OnItsWay(f, payment', transfer', cashout', adjusted') \in Int
  <2>2. \A u \in DOMAIN Transfers : u # t => UnmatchedIn(f, transfer', u) = UnmatchedIn(f, transfer, u)
    BY <1>2 DEF UnmatchedIn
  <2>3. UnmatchedSum(f, transfer') = UnmatchedSum(f, transfer) - UnmatchedIn(f, transfer, t) + UnmatchedIn(f, transfer', t)
    BY <2>2, UnmatchedStep
  <2>4. /\ UnheardSum(f, payment) \in Int /\ UnmatchedSum(f, transfer) \in Int /\ UnmatchedSum(f, transfer') \in Int
        /\ CashedSum(f, cashout) \in Int /\ AdjustedSum(f, adjusted) \in Int
        /\ UnmatchedIn(f, transfer, t) \in Int /\ UnmatchedIn(f, transfer', t) \in Int
    BY <1>0, Shapes, WaysAreInt, PartsAreInt
  <2>5. OnItsWay(f, payment', transfer', cashout', adjusted') =
            UnheardSum(f, payment) + UnmatchedSum(f, transfer') - CashedSum(f, cashout) + AdjustedSum(f, adjusted)
    BY <1>1 DEF OnItsWay
  <2>6. OnItsWay(f, payment, transfer, cashout, adjusted) =
            UnheardSum(f, payment) + UnmatchedSum(f, transfer) - CashedSum(f, cashout) + AdjustedSum(f, adjusted)
    BY DEF OnItsWay
  <2> QED BY <1>3, <2>3, <2>4, <2>5, <2>6
<1> QED BY <1>4, DriftNext

\* A cash-out that is confirmed leaves the float's books; the provider's wallet does not follow.
LEMMA CashoutShifts ==
    ASSUME BooksInv, NEW c \in DOMAIN Cashouts, cashout[c].status # "confirmed", cashout'[c].status = "confirmed",
           \A d \in DOMAIN Cashouts : d # c => cashout'[d].status = cashout[d].status,
           PostEntry(CashoutEntry(Cashouts[c].float, Cashouts[c].amount)),
           UNCHANGED <<wallet, payment, transfer, adjusted>>
    PROVE  DriftIsTiming'
<1>0. TreasuryTypeOK
  BY DEF BooksInv
<1>1. ASSUME NEW f \in Floats
      PROVE  /\ books'[f] \in Int /\ wallet'[f] \in Int
             /\ books'[f] - wallet'[f] - (books[f] - wallet[f]) =
                    OnItsWay(f, payment', transfer', cashout', adjusted') - OnItsWay(f, payment, transfer, cashout, adjusted)
             /\ OnItsWay(f, payment', transfer', cashout', adjusted') \in Int
  <2>1. /\ books[f] \in Int /\ Cashouts[c].amount \in Int
        /\ books'[f] = books[f] - (IF f = Cashouts[c].float THEN Cashouts[c].amount ELSE 0)
    BY <1>0, CashoutPosts
  <2>2. wallet[f] \in Int
    BY <1>0, Shapes
  <2>3. \A d \in DOMAIN Cashouts : d # c => CashedIn(f, cashout', d) = CashedIn(f, cashout, d)
    BY DEF CashedIn
  <2>4. CashedSum(f, cashout') = CashedSum(f, cashout) - CashedIn(f, cashout, c) + CashedIn(f, cashout', c)
    BY <2>3, CashedStep
  <2>5. CashedIn(f, cashout, c) = 0 /\ CashedIn(f, cashout', c) = IF f = Cashouts[c].float THEN Cashouts[c].amount ELSE 0
    BY DEF CashedIn
  <2>6. /\ UnheardSum(f, payment) \in Int /\ UnmatchedSum(f, transfer) \in Int
        /\ CashedSum(f, cashout) \in Int /\ CashedSum(f, cashout') \in Int /\ AdjustedSum(f, adjusted) \in Int
    BY <1>0, Shapes, WaysAreInt
  <2>7. OnItsWay(f, payment', transfer', cashout', adjusted') =
            UnheardSum(f, payment) + UnmatchedSum(f, transfer) - CashedSum(f, cashout') + AdjustedSum(f, adjusted)
    BY DEF OnItsWay
  <2>8. OnItsWay(f, payment, transfer, cashout, adjusted) =
            UnheardSum(f, payment) + UnmatchedSum(f, transfer) - CashedSum(f, cashout) + AdjustedSum(f, adjusted)
    BY DEF OnItsWay
  <2> QED BY <2>1, <2>2, <2>4, <2>5, <2>6, <2>7, <2>8
<1> QED BY <1>1, DriftNext

LEMMA AdjustmentShifts ==
    ASSUME BooksInv, NEW j \in DOMAIN Adjustments, j \notin adjusted, PostAdjustment(j),
           UNCHANGED <<wallet, payment, transfer, cashout>>
    PROVE  DriftIsTiming'
<1>0. TreasuryTypeOK /\ adjusted \subseteq DOMAIN Adjustments
  BY Shapes DEF BooksInv
<1>1. PostEntry(Adjustments[j]) /\ adjusted' = adjusted \cup {j} /\ Adjustments[j] \in Entries
  BY EntryTypes DEF PostAdjustment
<1>2. ASSUME NEW f \in Floats
      PROVE  /\ books'[f] \in Int /\ wallet'[f] \in Int
             /\ books'[f] - wallet'[f] - (books[f] - wallet[f]) =
                    OnItsWay(f, payment', transfer', cashout', adjusted') - OnItsWay(f, payment, transfer, cashout, adjusted)
             /\ OnItsWay(f, payment', transfer', cashout', adjusted') \in Int
  <2> DEFINE n == BalanceOf(f, Adjustments[j])
  <2>1. books[f] \in Int /\ n \in Int /\ books'[f] = books[f] + n
    <3>1. f \in Told
      BY DEF Told
    <3> QED BY <1>0, <1>1, <3>1, EntryAdds
  <2>2. wallet[f] \in Int
    BY <1>0, Shapes
  <2>3. AdjustedSum(f, adjusted') = n + AdjustedSum(f, adjusted)
    BY <1>0, <1>1, AdjustedStep
  <2>4. /\ UnheardSum(f, payment) \in Int /\ UnmatchedSum(f, transfer) \in Int
        /\ CashedSum(f, cashout) \in Int /\ AdjustedSum(f, adjusted) \in Int
    BY <1>0, Shapes, WaysAreInt
  <2>5. OnItsWay(f, payment', transfer', cashout', adjusted') =
            UnheardSum(f, payment) + UnmatchedSum(f, transfer) - CashedSum(f, cashout) + AdjustedSum(f, adjusted')
    BY DEF OnItsWay
  <2>6. OnItsWay(f, payment, transfer, cashout, adjusted) =
            UnheardSum(f, payment) + UnmatchedSum(f, transfer) - CashedSum(f, cashout) + AdjustedSum(f, adjusted)
    BY DEF OnItsWay
  <2> HIDE DEF n
  <2> QED BY <2>1, <2>2, <2>3, <2>4, <2>5, <2>6
<1> QED BY <1>2, DriftNext

LEMMA StillDrift ==
    ASSUME BooksInv, UNCHANGED <<payment, adjusted>>,
           \A t \in DOMAIN Transfers : transfer'[t].moved = transfer[t].moved
                                       /\ (transfer'[t].status # "none") = (transfer[t].status # "none"),
           \A c \in DOMAIN Cashouts : (cashout'[c].status = "confirmed") = (cashout[c].status = "confirmed"),
           \A f \in Floats : /\ books'[f] \in Int /\ wallet'[f] \in Int
                             /\ books'[f] - wallet'[f] = books[f] - wallet[f]
    PROVE  DriftIsTiming'
<1>0. TreasuryTypeOK /\ adjusted \subseteq DOMAIN Adjustments
  BY Shapes DEF BooksInv
<1>1. ASSUME NEW f \in Floats
      PROVE  /\ books'[f] \in Int /\ wallet'[f] \in Int
             /\ books'[f] - wallet'[f] - (books[f] - wallet[f]) =
                    OnItsWay(f, payment', transfer', cashout', adjusted') - OnItsWay(f, payment, transfer, cashout, adjusted)
             /\ OnItsWay(f, payment', transfer', cashout', adjusted') \in Int
  <2>1. [t \in DOMAIN Transfers |-> UnmatchedIn(f, transfer', t)] = [t \in DOMAIN Transfers |-> UnmatchedIn(f, transfer, t)]
    <3>1. \A t \in DOMAIN Transfers : UnmatchedIn(f, transfer', t) = UnmatchedIn(f, transfer, t)
      BY DEF UnmatchedIn
    <3> QED BY <3>1
  <2>2. [c \in DOMAIN Cashouts |-> CashedIn(f, cashout', c)] = [c \in DOMAIN Cashouts |-> CashedIn(f, cashout, c)]
    <3>1. \A c \in DOMAIN Cashouts : CashedIn(f, cashout', c) = CashedIn(f, cashout, c)
      BY DEF CashedIn
    <3> QED BY <3>1
  <2>3. OnItsWay(f, payment', transfer', cashout', adjusted') = OnItsWay(f, payment, transfer, cashout, adjusted)
    BY <2>1, <2>2 DEF OnItsWay, UnmatchedSum, CashedSum
  <2>4. OnItsWay(f, payment, transfer, cashout, adjusted) \in Int
    BY <1>0, WaysAreInt
  <2>5. books[f] \in Int /\ wallet[f] \in Int
    BY <1>0, Shapes, NamesApart
  <2> QED BY <2>3, <2>4, <2>5
<1> QED BY <1>1, DriftNext

LEMMA OthersKeepDrift ==
    ASSUME BooksInv, UNCHANGED <<books, wallet, payment, transfer, cashout, adjusted>>
    PROVE  DriftIsTiming'
<1>1. \A f \in Floats : books'[f] \in Int /\ wallet'[f] \in Int
  BY Shapes, NamesApart DEF BooksInv
<1> QED BY <1>1, StillDrift

\* A pending transfer that is confirmed had been registered.
LEMMA ConfirmingKeepsDrift ==
    ASSUME BooksInv, ConfirmPendingTransfers
    PROVE  DriftIsTiming'
<1>0. transfer \in [DOMAIN Transfers -> [status : {"none", "pending", "confirmed"}, moved : BOOLEAN]]
  BY Shapes DEF BooksInv
<1>1. UNCHANGED <<books, wallet, payment, cashout, adjusted>>
  BY DEF ConfirmPendingTransfers
<1>2. \A f \in Floats : books'[f] \in Int /\ wallet'[f] \in Int
  BY <1>1, Shapes, NamesApart DEF BooksInv
<1>3. ASSUME NEW t \in DOMAIN Transfers
      PROVE  transfer'[t].moved = transfer[t].moved /\ (transfer'[t].status # "none") = (transfer[t].status # "none")
  <2>1. \/ transfer'[t] = transfer[t]
        \/ transfer'[t] = [transfer[t] EXCEPT !.status = "confirmed"] /\ transfer[t].status = "pending"
    BY DEF ConfirmPendingTransfers
  <2>2. transfer[t] \in [status : {"none", "pending", "confirmed"}, moved : BOOLEAN]
    BY <1>0
  <2> QED BY <2>1, <2>2
<1> QED BY <1>1, <1>2, <1>3, StillDrift

LEMMA FundingKeepsDrift ==
    ASSUME BooksInv, NEW n \in DOMAIN Fundings, RecordFunding(n)
    PROVE  DriftIsTiming'
<1> DEFINE amount == Fundings[n].amount
           float == Fundings[n].float
           e == IF float # None THEN FloatFunding(float, amount) ELSE ProjectFunding(amount)
<1>0. TreasuryTypeOK
  BY DEF BooksInv
<1>1. amount \in Int /\ float \in Floats \cup {None} /\ None \notin Floats /\ UNCHANGED <<payment, transfer, cashout, adjusted>>
  BY TreasuryOK DEF RecordFunding
<1>2. e \in Entries /\ PostEntry(e)
  BY EntryTypes DEF RecordFunding
<1>3. ASSUME NEW f \in Floats
      PROVE  /\ books'[f] \in Int /\ wallet'[f] \in Int
             /\ books'[f] - wallet'[f] = books[f] - wallet[f]
  <2>1. f \in Told /\ wallet[f] \in Int
    BY <1>0, Shapes DEF Told
  <2>2. BalanceOf(f, e) = IF f = float THEN amount ELSE 0
    <3>1. CASE float # None
      <4>1. BalanceOf(f, FloatFunding(float, amount)) = IF f = float THEN amount ELSE 0
        BY <1>1, <2>1, <3>1, FundingAdds
      <4> QED BY <3>1, <4>1
    <3>2. CASE float = None
      <4>1. BalanceOf(f, ProjectFunding(amount)) = 0
        BY <1>1, <2>1, FundingAdds
      <4> QED BY <1>1, <3>2, <4>1
    <3> QED BY <3>1, <3>2
  <2>3. books[f] \in Int /\ books'[f] = books[f] + BalanceOf(f, e)
    <3> HIDE DEF e
    <3> QED BY <1>0, <1>2, <2>1, EntryAdds
  <2>4. wallet'[f] = wallet[f] + IF f = float THEN amount ELSE 0
    BY DEF RecordFunding
  <2> HIDE DEF e, amount, float
  <2> QED BY <1>1, <2>1, <2>2, <2>3, <2>4
<1> QED BY <1>1, <1>3, StillDrift

LEMMA CommitKeepsDrift ==
    ASSUME BooksInv, NEW a \in Admins, CommitCashout(a)
    PROVE  DriftIsTiming'
<1> DEFINE c == desk[a]
           row == [status |-> IF Cashouts[c].amount > CashoutThreshold THEN "pending_approval" ELSE "confirmed",
                   by |-> a, approver |-> None]
<1>0. TreasuryTypeOK /\ PeopleInv
  BY DEF BooksInv
<1>1. /\ c \in DOMAIN Cashouts /\ c # None /\ cashout[c].status = "none"
      /\ UNCHANGED <<wallet, payment, transfer, adjusted>>
      /\ cashout' = [cashout EXCEPT ![c] = row]
  BY <1>0, Shapes DEF CommitCashout, PeopleInv, DeskWaits
<1>2. \A d \in DOMAIN Cashouts : cashout'[d] = IF d = c THEN row ELSE cashout[d]
  BY <1>0, <1>1, Shapes
<1>3. CASE Cashouts[c].amount > CashoutThreshold
  <2>1. UNCHANGED books
    BY <1>3 DEF CommitCashout
  <2>2. \A f \in Floats : books'[f] \in Int /\ wallet'[f] \in Int
    BY <1>0, <1>1, <2>1, Shapes, NamesApart
  <2>3. \A d \in DOMAIN Cashouts : (cashout'[d].status = "confirmed") = (cashout[d].status = "confirmed")
    <3>1. row.status = "pending_approval"
      BY <1>3
    <3> HIDE DEF row
    <3> QED BY <1>1, <1>2, <3>1
  <2> HIDE DEF c, row
  <2> QED BY <1>1, <2>1, <2>2, <2>3, StillDrift
<1>4. CASE ~(Cashouts[c].amount > CashoutThreshold)
  <2>1. PostEntry(CashoutEntry(Cashouts[c].float, Cashouts[c].amount))
    BY <1>4 DEF CommitCashout
  <2>2. cashout'[c].status = "confirmed" /\ \A d \in DOMAIN Cashouts : d # c => cashout'[d].status = cashout[d].status
    BY <1>1, <1>2, <1>4
  <2>3. cashout[c].status # "confirmed" /\ c \in DOMAIN Cashouts /\ UNCHANGED <<wallet, payment, transfer, adjusted>>
    BY <1>1
  <2> HIDE DEF c, row
  <2> QED BY <2>1, <2>2, <2>3, CashoutShifts
<1> QED BY <1>3, <1>4

LEMMA DecisionKeepsDrift ==
    ASSUME BooksInv, NEW a \in Admins, NEW s \in Subjects,
           NEW decision \in {"approved", "declined"}, DecideApproval(s, a, decision)
    PROVE  DriftIsTiming'
<1>0. TreasuryTypeOK /\ PeopleInv
  BY DEF BooksInv
<1>1. UNCHANGED <<wallet, payment, transfer>> /\ approval[s].status = "pending"
  BY DEF DecideApproval, Decidable
<1>2. CASE decision = "declined"
  BY <1>1, <1>2, OthersKeepDrift DEF DecideApproval
<1>3. CASE decision # "declined" /\ s[1] = "cashout"
  <2> DEFINE c == s[2]
             row == [status |-> "confirmed", by |-> cashout[c].by, approver |-> a]
  <2>1. c \in DOMAIN Cashouts /\ s = <<"cashout", c>>
    BY <1>3, SubjectsApart
  <2>2. ExecuteCashout(c, a) /\ UNCHANGED adjusted
    BY <1>3 DEF DecideApproval
  <2>3. cashout[c].status = "pending_approval"
    <3>1. cashout[c].status \in {"none", "pending_approval", "confirmed"}
      BY <1>0, <2>1, Shapes DEF CashoutRow
    <3>2. StandsAs(c, cashout[c], approval[s])
      BY <1>0, <2>1 DEF PeopleInv, ApprovedAsDecided
    <3> QED BY <1>1, <3>1, <3>2 DEF StandsAs
  <2>4. PostEntry(CashoutEntry(Cashouts[c].float, Cashouts[c].amount)) /\ cashout' = [cashout EXCEPT ![c] = row]
    BY <2>2, <2>3 DEF ExecuteCashout
  <2>5. \A d \in DOMAIN Cashouts : cashout'[d] = IF d = c THEN row ELSE cashout[d]
    BY <1>0, <2>1, <2>4, Shapes
  <2>6. cashout'[c].status = "confirmed" /\ \A d \in DOMAIN Cashouts : d # c => cashout'[d].status = cashout[d].status
    BY <2>1, <2>5
  <2>7. cashout[c].status # "confirmed" /\ c \in DOMAIN Cashouts
    BY <2>1, <2>3
  <2> HIDE DEF c, row
  <2> QED BY <1>1, <2>2, <2>4, <2>6, <2>7, CashoutShifts
<1>4. CASE decision # "declined" /\ s[1] # "cashout"
  <2>1. s[2] \in DOMAIN Adjustments /\ s = <<"adjustment", s[2]>>
    BY <1>4, SubjectsApart
  <2>2. PostAdjustment(s[2]) /\ UNCHANGED cashout
    BY <1>4 DEF DecideApproval
  <2>3. s[2] \notin adjusted
    BY <1>0, <1>1, <2>1 DEF PeopleInv, AdjustedOnce
  <2> QED BY <1>1, <2>1, <2>2, <2>3, AdjustmentShifts
<1> QED BY <1>2, <1>3, <1>4

LEMMA RequestKeepsDrift ==
    ASSUME BooksInv, NEW a \in Admins, NEW j \in DOMAIN Adjustments, RequestAdjustment(j, a)
    PROVE  DriftIsTiming'
<1>1. j \notin adjusted /\ UNCHANGED <<wallet, payment, transfer, cashout>>
  BY DEF RequestAdjustment
<1>2. UNCHANGED <<books, adjusted>> \/ PostAdjustment(j)
  BY DEF RequestAdjustment
<1> QED BY <1>1, <1>2, OthersKeepDrift, AdjustmentShifts

LEMMA BooksInit == TreasuryInit => BooksEven /\ DriftIsTiming
<1> SUFFICES ASSUME TreasuryInit PROVE BooksEven /\ DriftIsTiming
  OBVIOUS
<1>1. BooksEven
  BY TreasuryOK DEF TreasuryInit, BooksEven
<1>2. ASSUME NEW f \in Floats PROVE books[f] - wallet[f] = OnItsWay(f, payment, transfer, cashout, adjusted)
  <2>1. UnheardSum(f, payment) = 0
    <3> DEFINE g == [p \in DOMAIN Payments |-> UnheardIn(f, payment, p)]
    <3>1. IsFiniteSet(DOMAIN Payments) /\ \A p \in DOMAIN Payments : g[p] = 0
      BY TreasuryOK DEF TreasuryInit, UnheardIn
    <3>2. SumFunctionOnSet(g, DOMAIN Payments) = 0
      <4> HIDE DEF g
      <4> QED BY <3>1, SumOfZeros
    <3> QED BY <3>2 DEF UnheardSum
  <2>2. UnmatchedSum(f, transfer) = 0
    <3> DEFINE g == [t \in DOMAIN Transfers |-> UnmatchedIn(f, transfer, t)]
    <3>1. IsFiniteSet(DOMAIN Transfers) /\ \A t \in DOMAIN Transfers : g[t] = 0
      BY TreasuryOK DEF TreasuryInit, UnmatchedIn
    <3>2. SumFunctionOnSet(g, DOMAIN Transfers) = 0
      <4> HIDE DEF g
      <4> QED BY <3>1, SumOfZeros
    <3> QED BY <3>2 DEF UnmatchedSum
  <2>3. CashedSum(f, cashout) = 0
    <3> DEFINE g == [c \in DOMAIN Cashouts |-> CashedIn(f, cashout, c)]
    <3>1. IsFiniteSet(DOMAIN Cashouts) /\ \A c \in DOMAIN Cashouts : g[c] = 0
      BY TreasuryOK DEF TreasuryInit, CashedIn
    <3>2. SumFunctionOnSet(g, DOMAIN Cashouts) = 0
      <4> HIDE DEF g
      <4> QED BY <3>1, SumOfZeros
    <3> QED BY <3>2 DEF CashedSum
  <2>4. AdjustedSum(f, adjusted) = 0
    <3> DEFINE g == [j \in adjusted |-> BalanceOf(f, Adjustments[j])]
    <3>1. DOMAIN g = {}
      BY DEF TreasuryInit
    <3>2. SumFunction(g) = 0
      <4> HIDE DEF g
      <4> QED BY <3>1, SumEmpty DEF SumFunction
    <3> QED BY <3>2 DEF AdjustedSum
  <2>5. books[f] = InitialBooks[f] /\ wallet[f] = InitialBooks[f] /\ InitialBooks[f] \in Int
    BY TreasuryOK, NamesApart DEF TreasuryInit
  <2> QED BY <2>1, <2>2, <2>3, <2>4, <2>5 DEF OnItsWay
<1>3. DriftIsTiming
  BY <1>2, DriftMeans DEF DriftAgrees
<1> QED BY <1>1, <1>3

LEMMA BooksInvStep ==
    ASSUME BooksInv, TreasuryTypeOK', [TreasuryNext]_treasuryVars
    PROVE  BooksInv'
<1>1. PeopleInv' /\ BooksEven'
  BY PeopleStep, EvenStep DEF BooksInv
<1>2. CASE UNCHANGED treasuryVars \/ TreasuryWorker
  <2>1. \/ UNCHANGED <<books, wallet, payment, transfer, cashout, adjusted>>
        \/ ConfirmPendingTransfers
    BY <1>2 DEF treasuryVars, TreasuryWorker, ReadWallets, EvaluateCover, CheckFloatDrift
  <2> QED BY <1>1, <2>1, OthersKeepDrift, ConfirmingKeepsDrift DEF BooksInv
<1>3. CASE PaymentSteps
  BY <1>1, <1>3, PaymentKeepsDrift DEF BooksInv, PaymentSteps
<1>4. CASE OperatorSteps
  <2>1. ASSUME NEW f \in Floats, NEW amount \in Overrides, SetThreshold(f, amount)
        PROVE  DriftIsTiming'
    BY <2>1, OthersKeepDrift DEF SetThreshold
  <2>2. ASSUME NEW a \in Admins, NEW c \in DOMAIN Cashouts, BeginCashout(a, c)
        PROVE  DriftIsTiming'
    BY <2>2, OthersKeepDrift DEF BeginCashout
  <2>3. DriftIsTiming'
    BY <1>4, <2>1, <2>2, TransferKeepsDrift, CommitKeepsDrift, DecisionKeepsDrift, FundingKeepsDrift, RequestKeepsDrift
    DEF OperatorSteps
  <2> QED BY <1>1, <2>3 DEF BooksInv
<1>5. CASE \E t \in DOMAIN Transfers : ProviderTransfers(t)
  BY <1>1, <1>5, TransferKeepsDrift DEF BooksInv
<1> QED BY <1>2, <1>3, <1>4, <1>5 DEF TreasuryNext

\* Every variable has its type, the books balance whatever was posted, and a float's books differ
\* from its wallet only by money on its way (treasury.service.ts, ledger.service.ts).
THEOREM BooksAlwaysAgree == TreasurySpec => []BooksAgree
<1>1. TreasuryInit => BooksInv
  BY InitialTypes, PeopleInit, BooksInit DEF BooksInv
<1>2. BooksInv /\ TreasuryTypeOK' /\ [TreasuryNext]_treasuryVars => BooksInv'
  BY BooksInvStep
<1>3. BooksInv => BooksAgree
  BY DueIsWritten DEF BooksInv, BooksEven, BooksBalance, BooksAgree
<1> QED BY <1>1, <1>2, <1>3, TreasuryTypeCorrect, PTL DEF TreasurySpec

-----------------------------------------------------------------------------
(***************************************************************************)
(* Discrepancies: what a run finds is recorded once, and decided once.     *)
(***************************************************************************)

TxnRow == [state : Undecided \cup Final \cup {None}, created : Nat \cup {None}, ended : Nat \cup {None},
           review : {"unreviewed", "matched", "disputed", "examined", "corrected"}]
Records == [Txns -> {"absent"} \cup Undecided \cup Final]
RunRow == [status : {"running", "completed", "failed"}, mode : {"automated", "manual"},
           file : Imports \cup {None}, started : Nat, end : Int \cup {None},
           job : {"starting", "none", "queued", "running", "over"}]
ImportRow == [records : Records \cup {None}, end : Int \cup {None}, run : Nat \cup {None}]
Found == [type : {"missing_transaction", "state_divergence", "fee_variance", "stale_undetermined", "float_drift"},
          about : Txns \cup Conditions, observed : {"absent", "held"} \cup Undecided \cup Final]
WorkRow == [run : Nat, stage : {"begun", "read", "recording"}, records : Records \cup {None},
            findings : SUBSET Found, compared : SUBSET Txns]
DiscrepancyRow == [status : {"open", "under_review", "resolved"}, posted : Nat, adjusted : BOOLEAN,
                   author : Reviewers \cup {None}, approver : Reviewers \cup {None}]
Verdicts == {"pending", "approved", "declined"}
RequestRow == [about : Found, follow : {"post_adjustment", "correct_transaction"}, by : Reviewers, status : Verdicts]

\* One run is running at most; a worker has a run that was started, and a manual one has its statement.
RunsInv ==
    /\ clock \in 0..MaxClock
    /\ report \in Records /\ held \subseteq Conditions
    /\ import \in [Imports -> ImportRow] /\ picked \in [Reviewers -> Imports \cup {None}]
    /\ run \in Seq(RunRow) /\ work \in [Executors -> WorkRow \cup {None}]
    /\ \A r \in Runs : run[r].mode = "manual" => run[r].file \in Imports
    /\ \A w \in Executors : work[w] # None => work[w].run \in Runs
    /\ \A r, s \in Running : r = s

\* A discrepancy that is not resolved has posted nothing.
UnresolvedIsUnposted == \A f \in Raised : discrepancy[f].status # "resolved" => discrepancy[f].posted = 0

\* What is queued would post something, about a discrepancy that was raised.
Queued ==
    /\ request \in Seq(RequestRow)
    /\ \A q \in DOMAIN request : /\ request[q].about \in Raised
                                 /\ request[q].follow = "correct_transaction" => AboutTxn(request[q].about)

DecisionsInv ==
    /\ ours \in [Txns -> TxnRow]
    /\ discrepancy \in [Raised -> DiscrepancyRow] /\ Raised \subseteq Found
    /\ Queued /\ UnresolvedIsUnposted /\ PostedOnce /\ DisputesAreOpen

ReconciliationInv == RunsInv /\ DecisionsInv

-----------------------------------------------------------------------------
(* Runs: what is read and started.  Decisions do not change.               *)

LEMMA DecisionsStand ==
    ASSUME DecisionsInv, UNCHANGED <<ours, discrepancy, request>> PROVE DecisionsInv'
  BY DEF DecisionsInv, Queued, Raised, AboutTxn, UnresolvedIsUnposted, PostedOnce, DisputesAreOpen

LEMMA RunsStand ==
    ASSUME RunsInv, UNCHANGED <<clock, report, held, import, picked, run, work>> PROVE RunsInv'
  BY DEF RunsInv, Runs, Running

LEMMA BegunTyped == ASSUME NEW r \in Nat PROVE Begun(r) \in WorkRow /\ Begun(r).run = r
  BY DEF WorkRow, Begun

\* What the runs' own variables keep to.
RunsTyped ==
    /\ run \in Seq(RunRow)
    /\ \A r \in Runs : run[r].mode = "manual" => run[r].file \in Imports
    /\ \A r, s \in Running : r = s

\* The new run is the only one running, and the others are as they were.
LEMMA StartAdds ==
    ASSUME RunsInv, NEW mode \in {"automated", "manual"}, NEW file \in Imports \cup {None}, NEW end \in Int \cup {None},
           NEW job \in {"starting", "none"}, clock \in Nat,
           mode = "manual" => file \in Imports, Start(mode, file, end, job)
    PROVE  RunsTyped' /\ Len(run') \in Runs' /\ Len(run') \in Nat /\ Runs \subseteq Runs'
<1> DEFINE x == [status |-> "running", mode |-> mode, file |-> file, started |-> clock, end |-> end, job |-> job]
<1>1. run' = Append(run, x) /\ Running = {}
  BY DEF Start
<1>2. x \in RunRow /\ x.status = "running" /\ x.mode = mode /\ x.file = file
  BY DEF RunRow
<1> HIDE DEF x
<1>3. run \in Seq(RunRow)
  BY DEF RunsInv
<1>4. /\ run' \in Seq(RunRow) /\ Len(run') = Len(run) + 1 /\ Runs' = Runs \cup {Len(run) + 1}
      /\ \A r \in Runs : run'[r] = run[r]
      /\ run'[Len(run) + 1] = x /\ Len(run) + 1 \notin Runs /\ Len(run) \in Nat
  BY <1>1, <1>2, <1>3 DEF Runs
<1>5. Running' = {Len(run) + 1}
  BY <1>1, <1>2, <1>4 DEF Running
<1> QED
  BY <1>2, <1>4, <1>5 DEF RunsInv, RunsTyped

\* A run is marked: it keeps its mode and its statement, and is not made to run again.
LEMMA RunMarked ==
    ASSUME RunsInv, NEW r \in Runs, NEW x \in RunRow, run' = [run EXCEPT ![r] = x],
           x.mode = run[r].mode, x.file = run[r].file, x.status = "running" => run[r].status = "running"
    PROVE  RunsTyped' /\ Runs' = Runs
<1>1. run \in Seq(RunRow) /\ r \in DOMAIN run
  BY DEF RunsInv, Runs
<1>2. run' \in Seq(RunRow) /\ Runs' = Runs
  BY <1>1, ExceptSeq DEF Runs
<1>3. \A s \in Runs : run'[s] = IF s = r THEN x ELSE run[s]
  BY <1>1 DEF Runs
<1>4. Running' \subseteq Running
  BY <1>2, <1>3 DEF Running
<1> QED
  BY <1>2, <1>3, <1>4 DEF RunsTyped, RunsInv

\* Its job is written, and its status too when it is closed.
LEMMA JobWritten ==
    ASSUME RunsInv, NEW r \in Runs, NEW j \in {"starting", "none", "queued", "running", "over"}, run' = [run EXCEPT ![r].job = j]
    PROVE  RunsTyped' /\ Runs' = Runs
<1> DEFINE x == [run[r] EXCEPT !.job = j]
<1>1. run[r] \in RunRow
  BY DEF RunsInv, Runs
<1>2. x \in RunRow /\ x.mode = run[r].mode /\ x.file = run[r].file /\ x.status = run[r].status
  BY <1>1 DEF RunRow
<1>3. run' = [run EXCEPT ![r] = x]
  OBVIOUS
<1> HIDE DEF x
<1> QED
  BY <1>2, <1>3, RunMarked

LEMMA RunClosed ==
    ASSUME RunsInv, NEW r \in Runs, NEW s \in {"failed", "completed"}, run' = Closed(r, s)
    PROVE  RunsTyped' /\ Runs' = Runs
<1> DEFINE j == IF run[r].job = "none" THEN run[r].job ELSE "over"
           x == [run[r] EXCEPT !.status = s, !.job = j]
<1>1. run[r] \in RunRow /\ run \in Seq(RunRow) /\ r \in DOMAIN run
  BY DEF RunsInv, Runs
<1>2. x \in RunRow /\ x.mode = run[r].mode /\ x.file = run[r].file /\ x.status = s
  BY <1>1 DEF RunRow
<1>3. run' = [run EXCEPT ![r] = x]
  BY <1>1 DEF Closed, RunRow
<1> HIDE DEF x
<1> QED
  BY <1>2, <1>3, RunMarked

\* A worker takes up a run, goes on or leaves.
LEMMA WorkWritten ==
    ASSUME RunsInv, NEW w \in Executors, NEW x \in WorkRow \cup {None}, work' = [work EXCEPT ![w] = x],
           x # None => x.run \in Runs', Runs \subseteq Runs'
    PROVE  work' \in [Executors -> WorkRow \cup {None}] /\ \A v \in Executors : work'[v] # None => work'[v].run \in Runs'
  BY DEF RunsInv

LEMMA RunIsNat == RunsInv => Runs \subseteq Nat
  BY DEF RunsInv, Runs

LEMMA PeriodsTyped == ReconciliationOK /\ RunsInv => PeriodEnds \subseteq Int /\ clock \in Nat
  BY DEF ReconciliationOK, RunsInv, PeriodEnds

LEMMA RunOfImport ==
    ASSUME NEW m \in [Imports -> ImportRow], NEW i \in Imports, NEW n \in Nat
    PROVE  [m EXCEPT ![i].run = n] \in [Imports -> ImportRow]
BY DEF ImportRow

LEMMA StartingKeeps == ASSUME ReconciliationOK, ReconciliationInv, Starting PROVE ReconciliationInv'
<1> USE DEF ReconciliationInv
<1>1. ASSUME NEW i \in Imports, NEW end \in PeriodEnds, Upload(i, end) PROVE ReconciliationInv'
  <2>3. import' \in [Imports -> ImportRow]
    <3>1. import' = [import EXCEPT ![i].records = report, ![i].end = end]
      BY <1>1 DEF Upload
    <3>2. report \in Records /\ end \in Int
      BY PeriodsTyped DEF RunsInv
    <3> DEFINE x == [import[i] EXCEPT !.records = report, !.end = end]
    <3>3. x \in ImportRow
      BY <3>2 DEF RunsInv, ImportRow
    <3>4. import' = [import EXCEPT ![i] = x]
      BY <3>1 DEF RunsInv
    <3> HIDE DEF x
    <3> QED
      BY <3>3, <3>4 DEF RunsInv
  <2>4. UNCHANGED <<clock, report, held, picked, run, work, ours, discrepancy, request>>
    BY <1>1 DEF Upload
  <2> QED
    BY <2>3, <2>4, DecisionsStand DEF RunsInv, Runs, Running
<1>2. ASSUME NEW end \in PeriodEnds, StartRun(end) PROVE ReconciliationInv'
  <2>1. /\ Start("automated", None, end, "starting")
        /\ UNCHANGED <<clock, report, held, import, picked, work, ours, discrepancy, request>>
    BY <1>2 DEF StartRun
  <2>2. RunsTyped' /\ Runs \subseteq Runs'
    BY <2>1, PeriodsTyped, StartAdds
  <2> QED
    BY <2>1, <2>2, DecisionsStand DEF RunsInv, RunsTyped
<1>3. ASSUME NEW a \in Reviewers, NEW i \in Imports, PickStatement(a, i) PROVE ReconciliationInv'
  <2>1. picked' \in [Reviewers -> Imports \cup {None}]
    BY <1>3 DEF PickStatement, RunsInv
  <2>2. UNCHANGED <<clock, report, held, import, run, work, ours, discrepancy, request>>
    BY <1>3 DEF PickStatement
  <2> QED
    BY <2>1, <2>2, DecisionsStand DEF RunsInv, Runs, Running
<1>4. ASSUME NEW a \in Reviewers, RunStatement(a) PROVE ReconciliationInv'
  <2>1. /\ picked' = [picked EXCEPT ![a] = None] /\ picked[a] \in Imports
        /\ UNCHANGED <<clock, report, held, work, ours, discrepancy, request>>
    BY <1>4 DEF RunStatement, RunsInv
  <2>2. picked' \in [Reviewers -> Imports \cup {None}]
    BY <2>1 DEF RunsInv
  <2>3. CASE Running # {}
    <3>1. UNCHANGED <<run, import>>
      BY <1>4, <2>3 DEF RunStatement
    <3> QED
      BY <2>1, <2>2, <3>1, DecisionsStand DEF RunsInv, Runs, Running
  <2>4. CASE Running = {}
    <3> DEFINE i == picked[a]
    <3>1. /\ Start("manual", i, import[i].end, "starting")
          /\ import' = [import EXCEPT ![i].run = Len(run')]
      BY <1>4, <2>4 DEF RunStatement
    <3>2. i \in Imports /\ import[i].end \in Int \cup {None}
      BY <2>1 DEF RunsInv, ImportRow
    <3> HIDE DEF i
    <3>3. RunsTyped' /\ Len(run') \in Nat /\ Runs \subseteq Runs'
      BY <3>1, <3>2, PeriodsTyped, StartAdds
    <3>4. import' \in [Imports -> ImportRow]
      BY <3>1, <3>2, <3>3, RunOfImport DEF RunsInv
    <3> QED
      BY <2>1, <2>2, <3>3, <3>4, DecisionsStand DEF RunsInv, RunsTyped
  <2> QED
    BY <2>3, <2>4
<1>5. ASSUME NEW w \in Executors, ScheduleWeekly(w) PROVE ReconciliationInv'
  <2>1. /\ Start("automated", None, clock, "none") /\ work' = [work EXCEPT ![w] = Begun(Len(run'))]
        /\ UNCHANGED <<clock, report, held, import, picked, ours, discrepancy, request>>
    BY <1>5 DEF ScheduleWeekly
  <2>2. RunsTyped' /\ Len(run') \in Runs' /\ Len(run') \in Nat /\ Runs \subseteq Runs'
    BY <2>1, PeriodsTyped, StartAdds
  <2>3. work' \in [Executors -> WorkRow \cup {None}] /\ \A v \in Executors : work'[v] # None => work'[v].run \in Runs'
    BY <2>1, <2>2, BegunTyped, WorkWritten
  <2> QED
    BY <2>1, <2>2, <2>3, DecisionsStand DEF RunsInv, RunsTyped
<1> QED
  BY <1>1, <1>2, <1>3, <1>4, <1>5 DEF Starting

\* A transaction concludes: the others stay as they are.
LEMMA ConcludedIs ==
    ASSUME ReconciliationOK, RunsInv, DecisionsInv, NEW t \in Txns, NEW s \in Final \cup Undecided,
           NEW review \in {"unreviewed", "matched", "disputed", "examined", "corrected"}, NEW o \in Concluded(t, s, review)
    PROVE  o \in [Txns -> TxnRow] /\ o[t].review = review /\ \A u \in Txns : u # t => o[u] = ours[u]
<1>1. PICK end \in IF s \in Final THEN {n \in 1..(clock + 1) : ours[t].created < n} ELSE {None} :
           o = [ours EXCEPT ![t].state = s, ![t].review = review, ![t].ended = end]
  BY DEF Concluded
<1>2. end \in Nat \cup {None}
  BY <1>1, PeriodsTyped
<1> DEFINE x == [ours[t] EXCEPT !.state = s, !.review = review, !.ended = end]
<1>3. o = [ours EXCEPT ![t] = x]
  BY <1>1 DEF DecisionsInv
<1>4. x \in TxnRow /\ x.review = review
  BY <1>2 DEF DecisionsInv, TxnRow
<1> HIDE DEF x
<1> QED
  BY <1>3, <1>4 DEF DecisionsInv

LEMMA MeanwhileKeeps == ASSUME ReconciliationOK, ReconciliationInv, Meanwhile PROVE ReconciliationInv'
<1> USE DEF ReconciliationInv
<1>1. CASE Tick
  <2>1. clock' \in 0..MaxClock
    BY <1>1 DEF Tick, ReconciliationOK, RunsInv
  <2> QED
    BY <1>1, <2>1, DecisionsStand DEF Tick, RunsInv, Runs, Running
<1>2. ASSUME NEW t \in Txns, NEW s \in Final \cup Undecided, TxnMoves(t, s) PROVE ReconciliationInv'
  <2>1. ours' \in Concluded(t, s, ours[t].review)
        /\ UNCHANGED <<clock, report, held, import, picked, run, work, discrepancy, request>>
    BY <1>2 DEF TxnMoves
  <2>2. ours[t].review \in {"unreviewed", "matched", "disputed", "examined", "corrected"}
    BY DEF DecisionsInv, TxnRow
  <2>3. ours' \in [Txns -> TxnRow] /\ \A u \in Txns : ours'[u].review = ours[u].review
    BY <2>1, <2>2, ConcludedIs
  <2>4. DecisionsInv'
    BY <2>1, <2>3 DEF DecisionsInv, Queued, Raised, AboutTxn, UnresolvedIsUnposted, PostedOnce, DisputesAreOpen
  <2> QED
    BY <2>1, <2>4, RunsStand
<1>3. ASSUME NEW t \in Txns, NEW s \in Final \cup Undecided, ReportMoves(t, s) PROVE ReconciliationInv'
  <2>1. report' \in Records
    BY <1>3 DEF ReportMoves, RunsInv, Records
  <2> QED
    BY <1>3, <2>1, DecisionsStand DEF ReportMoves, RunsInv, Runs, Running
<1>4. ASSUME NEW t \in Txns, Declare(t) PROVE ReconciliationInv'
  <2> DEFINE x == [ours[t] EXCEPT !.state = "processing", !.created = clock]
  <2>1. ours' = [ours EXCEPT ![t] = x] /\ UNCHANGED <<clock, report, held, import, picked, run, work, discrepancy, request>>
    BY <1>4 DEF Declare
  <2>2. x \in TxnRow /\ x.review = ours[t].review
    BY PeriodsTyped DEF DecisionsInv, TxnRow, Undecided
  <2> HIDE DEF x
  <2>3. ours' \in [Txns -> TxnRow] /\ \A u \in Txns : ours'[u].review = ours[u].review
    BY <2>1, <2>2 DEF DecisionsInv
  <2>4. DecisionsInv'
    BY <2>1, <2>3 DEF DecisionsInv, Queued, Raised, AboutTxn, UnresolvedIsUnposted, PostedOnce, DisputesAreOpen
  <2> QED
    BY <2>1, <2>4, RunsStand
<1> QED
  BY <1>1, <1>2, <1>3, <1>4 DEF Meanwhile

LEMMA ExecutingKeeps ==
    ASSUME ReconciliationOK, ReconciliationInv, NEW w \in Executors, Executing(w) PROVE ReconciliationInv'
<1> USE DEF ReconciliationInv
<1> DEFINE x == work[w]
           r == work[w].run
<1>0. /\ x # None /\ x \in WorkRow /\ r \in Runs /\ r \in Nat /\ run \in Seq(RunRow) /\ run[r] \in RunRow
  BY RunIsNat DEF Executing, RunsInv, Runs
<1>1. CASE ReadRecords(w)
  <2>1. UNCHANGED <<clock, report, held, import, picked, run, ours, discrepancy, request>>
    BY <1>1 DEF ReadRecords
  <2> DEFINE records == IF run[r].mode = "manual" THEN import[run[r].file].records ELSE report
             y == [x EXCEPT !.stage = "read", !.records = records]
  <2>2. records \in Records \cup {None}
    BY <1>0 DEF RunsInv, ImportRow
  <2>3. work' = [work EXCEPT ![w] = y]
    BY <1>1 DEF ReadRecords
  <2> HIDE DEF records
  <2>4. y \in WorkRow /\ y.run = r
    BY <1>0, <2>2 DEF WorkRow
  <2> HIDE DEF y
  <2>5. Runs' = Runs
    BY <2>1 DEF Runs
  <2>6. work' \in [Executors -> WorkRow \cup {None}] /\ \A v \in Executors : work'[v] # None => work'[v].run \in Runs'
    BY <1>0, <2>3, <2>4, <2>5, WorkWritten
  <2> QED
    BY <2>1, <2>6, DecisionsStand DEF RunsInv, Runs, Running
<1>2. ASSUME NEW s \in {"failed", "completed"}, run' = Closed(r, s), Leave(w),
             UNCHANGED <<clock, report, held, import, picked, ours, discrepancy, request>>
      PROVE  ReconciliationInv'
  <2>1. RunsTyped' /\ Runs' = Runs
    BY <1>0, <1>2, RunClosed
  <2>2. work' \in [Executors -> WorkRow \cup {None}] /\ \A v \in Executors : work'[v] # None => work'[v].run \in Runs'
    BY <1>2, <2>1, WorkWritten DEF Leave
  <2> QED
    BY <1>2, <2>1, <2>2, DecisionsStand DEF RunsInv, RunsTyped
<1>3. CASE FailRun(w)
  BY <1>2, <1>3 DEF FailRun
<1>4. CASE CompleteRun(w)
  BY <1>2, <1>4 DEF CompleteRun
<1>5. CASE Compare(w)
  <2> DEFINE y == [x EXCEPT !.stage = "recording", !.compared = Scope(w), !.findings = FoundIn(w)]
  <2>1. /\ work' = [work EXCEPT ![w] = y]
        /\ ours' = [t \in Txns |-> IF t \in Agreed(w) /\ ours[t].review = "unreviewed"
                                   THEN [ours[t] EXCEPT !.review = "matched"] ELSE ours[t]]
        /\ UNCHANGED <<clock, report, held, import, picked, run, discrepancy, request>>
    BY <1>5 DEF Compare
  <2>2. Scope(w) \in SUBSET Txns
    BY DEF Scope
  <2>3. FoundIn(w) \in SUBSET Found
    <3>1. \A t \in Txns : FoundBy(w, t) \subseteq Found
      BY DEF FoundBy, Findings, Finding, Found, Final
    <3>2. \A t \in Txns : Stale(t) \subseteq Found
      BY DEF Stale, Finding, Found, Undecided
    <3>3. \A c \in held : Finding("float_drift", c, "held") \in Found
      BY DEF Finding, Found, RunsInv
    <3>4. UNION {FoundBy(w, t) : t \in Scope(w)} \subseteq Found
      BY <3>1, <2>2
    <3>5. UNION {Stale(t) : t \in Txns} \subseteq Found
      BY <3>2
    <3>6. {Finding("float_drift", c, "held") : c \in held} \subseteq Found
      BY <3>3
    <3> QED
      BY <3>4, <3>5, <3>6 DEF FoundIn
  <2>4. y \in WorkRow /\ y.run = r
    BY <1>0, <2>2, <2>3 DEF WorkRow
  <2> HIDE DEF y
  <2>5. /\ ours' \in [Txns -> TxnRow]
        /\ \A t \in Txns : ours'[t].review = "disputed" => ours[t].review = "disputed"
    BY <2>1 DEF DecisionsInv, TxnRow
  <2>6. DecisionsInv'
    BY <2>1, <2>5 DEF DecisionsInv, Queued, Raised, AboutTxn, UnresolvedIsUnposted, PostedOnce, DisputesAreOpen
  <2>7. Runs' = Runs
    BY <2>1 DEF Runs
  <2>8. work' \in [Executors -> WorkRow \cup {None}] /\ \A v \in Executors : work'[v] # None => work'[v].run \in Runs'
    BY <1>0, <2>1, <2>4, <2>7, WorkWritten
  <2>9. RunsInv'
    BY <2>1, <2>8 DEF RunsInv, Runs, Running
  <2> QED
    BY <2>6, <2>9
<1>6. ASSUME NEW f \in x.findings, RecordFinding(w, f) PROVE ReconciliationInv'
  <2> DEFINE y == [x EXCEPT !.findings = x.findings \ {f}]
  <2>0. f \in Found /\ UNCHANGED <<clock, report, held, import, picked, run, request>> /\ work' = [work EXCEPT ![w] = y]
    BY <1>0, <1>6 DEF WorkRow, RecordFinding
  <2>1. y \in WorkRow /\ y.run = r
    BY <1>0 DEF WorkRow
  <2> HIDE DEF y
  <2>5. Runs' = Runs
    BY <2>0 DEF Runs
  <2>6. work' \in [Executors -> WorkRow \cup {None}] /\ \A v \in Executors : work'[v] # None => work'[v].run \in Runs'
    BY <1>0, <2>0, <2>1, <2>5, WorkWritten
  <2>2. RunsInv'
    BY <2>0, <2>6 DEF RunsInv, Runs, Running
  <2>3. CASE f \in Raised
    BY <1>6, <2>2, <2>3, <2>0, DecisionsStand DEF RecordFinding
  <2>4. CASE f \notin Raised
    <3>1. /\ discrepancy' = [g \in Raised \cup {f} |-> IF g = f THEN Fresh ELSE discrepancy[g]]
          /\ ours' = [t \in Txns |-> IF t = f.about THEN [ours[t] EXCEPT !.review = "disputed"] ELSE ours[t]]
      BY <1>6, <2>4 DEF RecordFinding
    <3>2. Fresh \in DiscrepancyRow /\ Fresh.status = "open" /\ Fresh.posted = 0
      BY DEF Fresh, DiscrepancyRow
    <3>3. /\ discrepancy' \in [Raised' -> DiscrepancyRow] /\ Raised' = Raised \cup {f}
          /\ discrepancy'[f] = Fresh /\ \A g \in Raised : discrepancy'[g] = discrepancy[g]
      BY <2>4, <3>1, <3>2 DEF DecisionsInv, Raised
    <3>4. /\ ours' \in [Txns -> TxnRow]
          /\ \A t \in Txns : t # f.about => ours'[t] = ours[t]
      BY <3>1 DEF DecisionsInv, TxnRow
    <3>5. Queued'
      BY <2>0, <3>3 DEF DecisionsInv, Queued, AboutTxn
    <3>6. UnresolvedIsUnposted' /\ PostedOnce'
      BY <3>2, <3>3 DEF DecisionsInv, UnresolvedIsUnposted, PostedOnce
    <3>7. DisputesAreOpen'
      BY <3>2, <3>3, <3>4 DEF DecisionsInv, DisputesAreOpen
    <3> QED
      BY <2>0, <2>2, <3>3, <3>4, <3>5, <3>6, <3>7 DEF DecisionsInv
  <2> QED
    BY <2>3, <2>4
<1> QED
  BY <1>1, <1>3, <1>4, <1>5, <1>6 DEF Executing

LEMMA QueueingKeeps == ASSUME ReconciliationOK, ReconciliationInv, Queueing PROVE ReconciliationInv'
<1> USE DEF ReconciliationInv
<1>1. ASSUME NEW r \in Runs, EnqueueRun(r) \/ RecoverJob(r) \/ StarterDies(r) PROVE ReconciliationInv'
  <2>1. /\ UNCHANGED <<clock, report, held, import, picked, work, ours, discrepancy, request>>
        /\ \E j \in {"none", "queued"} : run' = [run EXCEPT ![r].job = j]
    BY <1>1 DEF EnqueueRun, RecoverJob, StarterDies
  <2>2. RunsTyped' /\ Runs' = Runs
    BY <2>1, JobWritten
  <2> QED
    BY <2>1, <2>2, DecisionsStand DEF RunsInv, RunsTyped
<1>2. ASSUME NEW r \in Runs, NEW w \in Executors, ClaimRun(w, r) PROVE ReconciliationInv'
  <2>1. /\ UNCHANGED <<clock, report, held, import, picked, ours, discrepancy, request>>
        /\ \E j \in {"running", "over"} : run' = [run EXCEPT ![r].job = j]
        /\ work' = work \/ work' = [work EXCEPT ![w] = Begun(r)]
    BY <1>2 DEF ClaimRun
  <2>2. RunsTyped' /\ Runs' = Runs
    BY <2>1, JobWritten
  <2>3. work' \in [Executors -> WorkRow \cup {None}] /\ \A v \in Executors : work'[v] # None => work'[v].run \in Runs'
    <3>1. CASE work' = work
      BY <2>2, <3>1 DEF RunsInv
    <3>2. CASE work' = [work EXCEPT ![w] = Begun(r)]
      BY <2>2, <3>2, BegunTyped, RunIsNat, WorkWritten
    <3> QED
      BY <2>1, <3>1, <3>2
  <2> QED
    BY <2>1, <2>2, <2>3, DecisionsStand DEF RunsInv, RunsTyped
<1> QED
  BY <1>1, <1>2 DEF Queueing

LEMMA MishapsKeep ==
    ASSUME ReconciliationInv, NEW w \in Executors, WorkerDies(w) \/ AbandonRun(w) PROVE ReconciliationInv'
<1> USE DEF ReconciliationInv
<1>1. /\ UNCHANGED <<clock, report, held, import, picked, ours, discrepancy, request>>
      /\ work' = [work EXCEPT ![w] = None] /\ work[w] # None
      /\ run' = run \/ run' = [run EXCEPT ![work[w].run].job = "none"]
  BY DEF WorkerDies, AbandonRun
<1>2. RunsTyped' /\ Runs' = Runs
  <2>1. CASE run' = run
    BY <2>1 DEF RunsInv, RunsTyped, Runs, Running
  <2>2. CASE run' = [run EXCEPT ![work[w].run].job = "none"]
    <3>1. work[w].run \in Runs
      BY <1>1 DEF RunsInv
    <3> QED
      BY <2>2, <3>1, JobWritten
  <2> QED
    BY <1>1, <2>1, <2>2
<1>3. work' \in [Executors -> WorkRow \cup {None}] /\ \A v \in Executors : work'[v] # None => work'[v].run \in Runs'
  BY <1>1, <1>2, WorkWritten
<1> QED
  BY <1>1, <1>2, <1>3, DecisionsStand DEF RunsInv, RunsTyped

-----------------------------------------------------------------------------
(* Decisions.                                                              *)

\* A discrepancy is resolved: it posts at most once, and unless it is adjusted its dispute ends.
LEMMA ResolvedKeeps ==
    ASSUME DecisionsInv, NEW f \in Raised, discrepancy[f].status # "resolved",
           NEW follow \in {"none", "post_adjustment", "correct_transaction"},
           NEW author \in Reviewers, NEW approver \in Reviewers \cup {None},
           discrepancy' = Resolved(f, follow, author, approver),
           follow # "none" /\ f.about \in Large => approver \notin {None, author},
           ours' \in [Txns -> TxnRow],
           \A t \in Txns : t # f.about => ours'[t] = ours[t],
           \A t \in Txns : follow = "none" /\ t = f.about => ours'[t].review # "disputed",
           request' \in Seq(RequestRow),
           \A q \in DOMAIN request' : /\ request'[q].about = f \/ request'[q].about \in Raised
                                      /\ request'[q].follow = "correct_transaction" => AboutTxn(request'[q].about)
    PROVE  DecisionsInv'
<1> DEFINE posts == IF follow = "none" \/ (follow = "correct_transaction" /\ ours' = ours) THEN 0 ELSE 1
           x == [status |-> "resolved", adjusted |-> follow # "none", author |-> author, approver |-> approver,
                 posted |-> discrepancy[f].posted + posts]
<1>1. discrepancy' = [discrepancy EXCEPT ![f] = x]
  BY DEF Resolved
<1>2. posts \in {0, 1} /\ (follow = "none" => posts = 0) /\ discrepancy[f].posted = 0
  BY DEF DecisionsInv, UnresolvedIsUnposted
<1> HIDE DEF posts
<1>3. /\ x \in DiscrepancyRow /\ x.status = "resolved" /\ x.adjusted = (follow # "none") /\ x.author = author
      /\ x.approver = approver /\ x.posted = posts
  BY <1>2 DEF DiscrepancyRow
<1> HIDE DEF x
<1>4. /\ discrepancy' \in [Raised' -> DiscrepancyRow] /\ Raised' = Raised
      /\ discrepancy'[f] = x /\ \A g \in Raised : g # f => discrepancy'[g] = discrepancy[g]
  BY <1>1, <1>3 DEF DecisionsInv, Raised
<1>5. Queued'
  BY <1>4 DEF Queued, AboutTxn
<1>6. UnresolvedIsUnposted'
  BY <1>3, <1>4 DEF DecisionsInv, UnresolvedIsUnposted
<1>7. PostedOnce'
  BY <1>2, <1>3, <1>4 DEF DecisionsInv, PostedOnce
<1>8. DisputesAreOpen'
  <2> SUFFICES ASSUME NEW t \in Txns, ours'[t].review = "disputed"
               PROVE  \E g \in Raised : g.about = t /\ (discrepancy'[g].status # "resolved" \/ discrepancy'[g].adjusted)
    BY <1>4 DEF DisputesAreOpen
  <2>1. CASE t = f.about
    BY <1>3, <1>4, <2>1
  <2>2. CASE t # f.about
    BY <1>4, <2>2 DEF DecisionsInv, DisputesAreOpen
  <2> QED
    BY <2>1, <2>2
<1> QED
  BY <1>4, <1>5, <1>6, <1>7, <1>8 DEF DecisionsInv

LEMMA CorrectedIs ==
    ASSUME ReconciliationOK, ReconciliationInv, NEW f \in Found, f.about \in Txns, NEW o \in Corrected(f)
    PROVE  o \in [Txns -> TxnRow] /\ \A t \in Txns : t # f.about => o[t] = ours[t]
<1> DEFINE target == IF f.observed = "succeeded" THEN "succeeded" ELSE "failed"
<1>1. o \in IF ours[f.about].state = target THEN {ours} ELSE Concluded(f.about, target, "corrected")
  BY DEF Corrected
<1>2. target \in Final \cup Undecided
  BY DEF Final
<1> HIDE DEF target
<1> QED
  BY <1>1, <1>2, ConcludedIs DEF ReconciliationInv, DecisionsInv

LEMMA ExaminedIs ==
    ASSUME DecisionsInv, NEW f
    PROVE  /\ Examined(f) \in [Txns -> TxnRow] /\ \A t \in Txns : t # f.about => Examined(f)[t] = ours[t]
           /\ \A t \in Txns : t = f.about => Examined(f)[t].review # "disputed"
  BY DEF DecisionsInv, Examined, TxnRow

LEMMA AssignKeeps == ASSUME DecisionsInv, NEW f \in Raised, Assign(f) PROVE DecisionsInv'
<1> DEFINE s == IF discrepancy[f].status = "open" THEN "under_review" ELSE "open"
           x == [discrepancy[f] EXCEPT !.status = s]
<1>1. discrepancy' = [discrepancy EXCEPT ![f] = x] /\ UNCHANGED <<ours, request>>
  BY DEF Assign
<1>2. /\ x \in DiscrepancyRow /\ x.status # "resolved" /\ x.posted = discrepancy[f].posted
      /\ x.adjusted = discrepancy[f].adjusted /\ x.approver = discrepancy[f].approver /\ x.author = discrepancy[f].author
  BY DEF DecisionsInv, DiscrepancyRow
<1>3. discrepancy[f].status # "resolved"
  BY DEF Assign
<1> HIDE DEF x
<1>4. /\ discrepancy' \in [Raised' -> DiscrepancyRow] /\ Raised' = Raised
      /\ discrepancy'[f] = x /\ \A g \in Raised : g # f => discrepancy'[g] = discrepancy[g]
  BY <1>1, <1>2 DEF DecisionsInv, Raised
<1>5. Queued' /\ UnresolvedIsUnposted'
  BY <1>1, <1>2, <1>3, <1>4 DEF DecisionsInv, Queued, AboutTxn, UnresolvedIsUnposted
<1>6. PostedOnce' /\ DisputesAreOpen'
  BY <1>1, <1>2, <1>4 DEF DecisionsInv, PostedOnce, DisputesAreOpen
<1> QED
  BY <1>1, <1>4, <1>5, <1>6 DEF DecisionsInv

LEMMA DecideKeeps ==
    ASSUME ReconciliationOK, ReconciliationInv, NEW f \in Raised, NEW a \in Reviewers, NEW follow \in Follows(f), Decide(f, a, follow)
    PROVE  DecisionsInv'
<1>0. /\ DecisionsInv /\ discrepancy[f].status # "resolved" /\ f \in Found
      /\ follow \in {"none", "post_adjustment", "correct_transaction"}
      /\ follow = "correct_transaction" => f.about \in Txns
  BY DEF Decide, ReconciliationInv, DecisionsInv, Follows, AboutTxn
<1>1. CASE follow # "none" /\ f.about \in Large
  <2> DEFINE q == [about |-> f, follow |-> follow, by |-> a, status |-> "pending"]
  <2>1. request' = Append(request, q) /\ UNCHANGED <<discrepancy, ours>>
    BY <1>1 DEF Decide
  <2>2. q \in RequestRow /\ q.about = f /\ q.follow = follow
    BY <1>0, <1>1 DEF RequestRow, Verdicts
  <2> HIDE DEF q
  <2>3. request \in Seq(RequestRow)
    BY <1>0 DEF DecisionsInv, Queued
  <2>4. /\ request' \in Seq(RequestRow)
        /\ \A n \in DOMAIN request' : request'[n] = q \/ (n \in DOMAIN request /\ request'[n] = request[n])
    BY <2>1, <2>2, <2>3
  <2>5. Queued'
    BY <1>0, <2>1, <2>2, <2>4 DEF DecisionsInv, Queued, Raised, AboutTxn
  <2> QED
    BY <1>0, <2>1, <2>5 DEF DecisionsInv, Raised, UnresolvedIsUnposted, PostedOnce, DisputesAreOpen
<1>2. CASE ~(follow # "none" /\ f.about \in Large)
  <2>1. /\ ours' \in IF follow = "correct_transaction" THEN Corrected(f) ELSE {Examined(f)}
        /\ discrepancy' = Resolved(f, follow, a, None) /\ request' = request
    BY <1>2 DEF Decide
  <2>2. /\ ours' \in [Txns -> TxnRow] /\ \A t \in Txns : t # f.about => ours'[t] = ours[t]
        /\ \A t \in Txns : follow = "none" /\ t = f.about => ours'[t].review # "disputed"
    BY <1>0, <2>1, CorrectedIs, ExaminedIs
  <2>3. /\ request' \in Seq(RequestRow)
        /\ \A q \in DOMAIN request' : /\ request'[q].about \in Raised
                                      /\ request'[q].follow = "correct_transaction" => AboutTxn(request'[q].about)
    BY <1>0, <2>1 DEF DecisionsInv, Queued
  <2> QED
    BY <1>0, <1>2, <2>1, <2>2, <2>3, ResolvedKeeps
<1> QED
  BY <1>1, <1>2

LEMMA DecideRequestKeeps ==
    ASSUME ReconciliationOK, ReconciliationInv, NEW q \in DOMAIN request, NEW a \in Reviewers,
           NEW verdict \in {"approved", "declined"}, DecideRequest(q, a, verdict)
    PROVE  DecisionsInv'
<1> DEFINE f == request[q].about
<1>0. /\ DecisionsInv /\ request \in Seq(RequestRow) /\ request[q] \in RequestRow
      /\ f \in Raised /\ f \in Found /\ request[q].by # a /\ request[q].by \in Reviewers
      /\ request[q].follow \in {"post_adjustment", "correct_transaction"}
      /\ request[q].follow = "correct_transaction" => f.about \in Txns
  <2>1. DecisionsInv /\ request \in Seq(RequestRow) /\ f \in Raised /\ f \in Found /\ request[q].by # a
    BY DEF DecideRequest, ReconciliationInv, DecisionsInv, Queued
  <2>2. request[q] \in RequestRow
    BY <2>1
  <2> QED
    BY <2>1, <2>2 DEF DecisionsInv, Queued, RequestRow, AboutTxn
<1>1. request' = [request EXCEPT ![q] = [request[q] EXCEPT !.status = verdict]]
  BY DEF DecideRequest
<1>2. /\ request' \in Seq(RequestRow) /\ DOMAIN request' = DOMAIN request
      /\ \A n \in DOMAIN request : request'[n].about = request[n].about /\ request'[n].follow = request[n].follow
  <2>1. [request[q] EXCEPT !.status = verdict] \in RequestRow
    BY <1>0 DEF RequestRow, Verdicts
  <2>2. /\ [request[q] EXCEPT !.status = verdict].about = request[q].about
        /\ [request[q] EXCEPT !.status = verdict].follow = request[q].follow
    BY <1>0 DEF RequestRow
  <2> DEFINE y == [request[q] EXCEPT !.status = verdict]
  <2>3. y \in RequestRow /\ y.about = request[q].about /\ y.follow = request[q].follow /\ request' = [request EXCEPT ![q] = y]
    BY <1>1, <2>1, <2>2
  <2> HIDE DEF y
  <2>4. request' \in Seq(RequestRow) /\ DOMAIN request' = DOMAIN request
    BY <1>0, <2>3, ExceptSeq
  <2>5. \A n \in DOMAIN request : request'[n] = IF n = q THEN y ELSE request[n]
    BY <1>0, <2>3
  <2> QED
    BY <2>3, <2>4, <2>5
<1>3. \A n \in DOMAIN request' : /\ request'[n].about \in Raised
                                 /\ request'[n].follow = "correct_transaction" => AboutTxn(request'[n].about)
  BY <1>0, <1>2 DEF DecisionsInv, Queued
<1>4. CASE UNCHANGED <<ours, discrepancy>>
  <2>1. Queued'
    BY <1>2, <1>3, <1>4 DEF Queued, Raised, AboutTxn
  <2> QED
    BY <1>0, <1>4, <2>1 DEF DecisionsInv, Raised, UnresolvedIsUnposted, PostedOnce, DisputesAreOpen
<1>5. CASE ~UNCHANGED <<ours, discrepancy>>
  <2>1. /\ discrepancy[f].status # "resolved"
        /\ ours' \in IF request[q].follow = "correct_transaction" THEN Corrected(f) ELSE {ours}
        /\ discrepancy' = Resolved(f, request[q].follow, request[q].by, a)
    BY <1>5 DEF DecideRequest, ExecuteApproved
  <2>2. ours' \in [Txns -> TxnRow] /\ \A t \in Txns : t # f.about => ours'[t] = ours[t]
    BY <1>0, <2>1, CorrectedIs DEF DecisionsInv
  <2>3. a \notin {None, request[q].by}
    BY <1>0 DEF ReconciliationOK
  <2> HIDE DEF f
  <2> QED
    BY <1>0, <1>2, <1>3, <2>1, <2>2, <2>3, ResolvedKeeps
<1> QED
  BY <1>4, <1>5

LEMMA DecidingKeeps == ASSUME ReconciliationOK, ReconciliationInv, Deciding PROVE ReconciliationInv'
<1>1. /\ UNCHANGED <<clock, report, held, import, picked, run, work>>
      /\ DecisionsInv'
  BY AssignKeeps, DecideKeeps, DecideRequestKeeps DEF Deciding, Assign, Decide, DecideRequest, ReconciliationInv
<1> QED
  BY <1>1, RunsStand DEF ReconciliationInv

LEMMA ReconciliationStarts == ReconciliationOK /\ ReconciliationInit => ReconciliationInv
<1> SUFFICES ASSUME ReconciliationOK, ReconciliationStart PROVE ReconciliationInv
  BY DEF ReconciliationInit
<1> USE DEF ReconciliationStart
<1>1. <<>> \in Seq(RunRow) /\ <<>> \in Seq(RequestRow) /\ Runs = {} /\ DOMAIN request = {} /\ Raised = {}
  BY DEF Runs, Raised
<1>2. discrepancy \in [Raised -> DiscrepancyRow]
  BY <1>1, EmptySeq DEF Raised
<1>3. RunsInv
  <2>1. report \in Records /\ [records |-> None, end |-> None, run |-> None] \in ImportRow
    BY DEF Records, ImportRow
  <2>2. Running = {}
    BY <1>1 DEF Running
  <2> QED
    BY <1>1, <2>1, <2>2 DEF RunsInv, ReconciliationOK
<1>4. ours \in [Txns -> TxnRow]
  BY DEF TxnRow, Undecided
<1>5. DecisionsInv
  BY <1>1, <1>2, <1>4 DEF DecisionsInv, Queued, UnresolvedIsUnposted, PostedOnce, DisputesAreOpen
<1> QED
  BY <1>3, <1>5 DEF ReconciliationInv

LEMMA ReconciliationGoesOn == ReconciliationOK /\ ReconciliationInv /\ [ReconciliationNext]_reconciliationVars => ReconciliationInv'
<1> SUFFICES ASSUME ReconciliationOK, ReconciliationInv, [ReconciliationNext]_reconciliationVars PROVE ReconciliationInv'
  OBVIOUS
<1>1. CASE UNCHANGED reconciliationVars
  BY <1>1, DecisionsStand, RunsStand DEF reconciliationVars, ReconciliationInv
<1> QED
  BY <1>1, MeanwhileKeeps, StartingKeeps, QueueingKeeps, MishapsKeep, ExecutingKeeps, DecidingKeeps DEF ReconciliationNext

\* What is decided of discrepancies (reconciliation.service.ts, approval.service.ts) moves money once, with
\* a second person's consent where it is large, whatever was queued and decided about it meanwhile; and
\* nothing is left in dispute that a decision which posted nothing has settled.
THEOREM DiscrepanciesAlwaysHold == ReconciliationSpec => []DiscrepanciesHold
<1>1. ReconciliationInv => DiscrepanciesHold
  <2> SUFFICES ASSUME ReconciliationInv PROVE ReconciliationTypeOK
    BY DEF ReconciliationInv, DecisionsInv, DiscrepanciesHold
  <2>1. \A r \in Runs : run[r].status \in {"running", "completed", "failed"}
    <3>1. \A r \in Runs : run[r] \in RunRow
      BY DEF ReconciliationInv, RunsInv, Runs
    <3> QED
      BY <3>1 DEF RunRow
  <2>2. Cardinality(Running) <= 1
    <3>1. CASE Running = {}
      BY <3>1, FS_EmptySet
    <3>2. ASSUME NEW r \in Running PROVE Cardinality(Running) <= 1
      <4>1. Running = {r}
        BY DEF ReconciliationInv, RunsInv
      <4>2. Cardinality(Running) = 1
        BY <4>1, FS_Singleton
      <4> QED
        BY <4>2
    <3> QED
      BY <3>1, <3>2
  <2>3. \A f \in Raised : f.about \in Txns \cup Conditions
    BY DEF ReconciliationInv, DecisionsInv, Found
  <2> QED
    BY <2>1, <2>2, <2>3 DEF ReconciliationInv, RunsInv, DecisionsInv, TxnRow, ReconciliationTypeOK
<1> QED
  BY <1>1, ReconciliationOK, ReconciliationStarts, ReconciliationGoesOn, PTL DEF ReconciliationSpec

-----------------------------------------------------------------------------
(***************************************************************************)
(* One-time codes.  A call that operates holds the lock of its code's row, *)
(* and the row is pending as long as it is held; performing confirms it,   *)
(* and a confirmed row is never acceptable again.                          *)
(***************************************************************************)
Codes == [issued : {Asked[k] : k \in Calls}, attempts : Nat,
          outcome : {"pending", "confirmed", "abandoned", "exhausted"}, late : BOOLEAN]

CallStates == [stage : {"idle", "waiting", "operating", "wrong", "performed", "refused"},
               code : Nat \cup {None}, right : BOOLEAN, exhausted : BOOLEAN]

RowsTyped ==
    /\ code \in Seq(Codes)
    /\ locked \in Seq(Calls \cup {None}) /\ Len(locked) = Len(code)
    /\ wrong \in Seq(Nat) /\ Len(wrong) = Len(code)

CallsTyped ==
    /\ call \in [Calls -> CallStates]
    /\ \A k \in Calls : ~At(k, "idle") /\ ~At(k, "refused") => CodeOf(k) \in CodeIds

\* A call that operates holds its row, which waits for it.
OperatingHolds ==
    \A k \in Calls : At(k, "operating") =>
        /\ locked[CodeOf(k)] = k
        /\ code[CodeOf(k)].outcome = "pending"
        /\ code[CodeOf(k)].issued = Asked[k]

PerformedConfirmed ==
    \A k \in Calls : At(k, "performed") =>
        /\ code[CodeOf(k)].outcome = "confirmed"
        /\ code[CodeOf(k)].issued = Asked[k]

OnePerforms ==
    \A k, l \in Calls : At(k, "performed") /\ At(l, "performed") /\ CodeOf(k) = CodeOf(l) => k = l

NoneLost == \A c \in CodeIds : code[c].outcome = "pending" => code[c].attempts = wrong[c]

CodeInv == RowsTyped /\ CallsTyped /\ OperatingHolds /\ PerformedConfirmed /\ OnePerforms /\ NoneLost

-----------------------------------------------------------------------------
(***************************************************************************)
(* Rows.                                                                   *)
(***************************************************************************)
LEMMA FunctionIsSeq ==
    ASSUME NEW S, NEW n \in Nat, NEW f \in [1..n -> S]
    PROVE  f \in Seq(S) /\ Len(f) = n
OBVIOUS

LEMMA Indices ==
    ASSUME RowsTyped
    PROVE  /\ Len(code) \in Nat /\ CodeIds = 1..Len(code)
           /\ \A c \in CodeIds : code[c] \in Codes /\ locked[c] \in Calls \cup {None} /\ wrong[c] \in Nat
           /\ DOMAIN locked = CodeIds /\ DOMAIN wrong = CodeIds
BY LenProperties, ElementOfSeq DEF RowsTyped, CodeIds

\* A row with its attempts and its outcome rewritten.
Counted(x, n, outcome) == [x EXCEPT !.attempts = n, !.outcome = outcome]

LEMMA CountedIsCode ==
    ASSUME NEW x \in Codes, NEW n \in Nat,
           NEW outcome \in {"pending", "confirmed", "abandoned", "exhausted"}
    PROVE  /\ Counted(x, n, outcome) \in Codes /\ Counted(x, n, outcome).issued = x.issued
           /\ Counted(x, n, outcome).attempts = n /\ Counted(x, n, outcome).outcome = outcome
<1> DEFINE Issued == {Asked[k] : k \in Calls}
<1>1. Codes = [issued : Issued, attempts : Nat, late : BOOLEAN,
               outcome : {"pending", "confirmed", "abandoned", "exhausted"}]
  BY DEF Codes
<1> HIDE DEF Issued
<1> QED BY <1>1 DEF Counted

\* One code's row changes.
LEMMA CodeWritten ==
    ASSUME RowsTyped, NEW c \in CodeIds, NEW r \in Codes, code' = [code EXCEPT ![c] = r]
    PROVE  /\ code' \in Seq(Codes) /\ Len(code') = Len(code) /\ CodeIds' = CodeIds
           /\ \A d \in CodeIds : code'[d] = IF d = c THEN r ELSE code[d]
<1>1. Len(code) \in Nat /\ CodeIds = 1..Len(code)
  BY Indices
<1>2. /\ code' \in Seq(Codes) /\ Len(code') = Len(code)
      /\ \A d \in 1..Len(code) : code'[d] = IF d = c THEN r ELSE code[d]
  BY <1>1, ExceptSeq DEF RowsTyped
<1>3. DOMAIN code' = 1..Len(code')
  BY <1>2, LenProperties
<1> QED BY <1>1, <1>2, <1>3 DEF CodeIds

LEMMA LockWritten ==
    ASSUME RowsTyped, NEW c \in CodeIds, NEW k \in Calls \cup {None}, locked' = [locked EXCEPT ![c] = k]
    PROVE  /\ locked' \in Seq(Calls \cup {None}) /\ Len(locked') = Len(locked)
           /\ \A d \in CodeIds : locked'[d] = IF d = c THEN k ELSE locked[d]
BY Indices, ExceptSeq DEF RowsTyped

\* What keeps the rest: one call changes, the rows do not.
LEMMA CallWritten ==
    ASSUME CallsTyped, NEW k \in Calls, NEW s \in CallStates, call' = [call EXCEPT ![k] = s],
           \A c \in CodeIds : c \in CodeIds',
           s.stage \notin {"idle", "refused"} => s.code \in CodeIds
    PROVE  /\ CallsTyped'
           /\ \A l \in Calls : call'[l] = IF l = k THEN s ELSE call[l]
BY DEF CallsTyped, At, CodeOf

LEMMA CallTyped ==
    ASSUME CallsTyped, NEW k \in Calls, call[k].stage \notin {"idle", "refused"}
    PROVE  call[k] \in CallStates /\ CodeOf(k) \in CodeIds
BY DEF CallsTyped, At

-----------------------------------------------------------------------------
(***************************************************************************)
(* The actions.                                                            *)
(***************************************************************************)
LEMMA RequestStep ==
    ASSUME CodeInv, NEW k \in Calls, RequestCode(k)
    PROVE  CodeInv'
<1> DEFINE earlier == {c \in CodeIds : /\ code[c].issued.administrator = Asked[k].administrator
                                       /\ code[c].outcome = "pending"}
           mark(c) == IF c \in earlier THEN [code[c] EXCEPT !.outcome = "abandoned"] ELSE code[c]
           marked == [c \in CodeIds |-> mark(c)]
           new == [issued |-> Asked[k], attempts |-> 0, outcome |-> "pending", late |-> FALSE]
           n == Len(code)
<1>1. /\ n \in Nat /\ CodeIds = 1..n /\ Len(locked) = n /\ Len(wrong) = n
      /\ \A c \in CodeIds : code[c] \in Codes
  BY Indices DEF CodeInv, RowsTyped
<1>2. /\ \A c \in earlier : locked[c] = None
      /\ code' = Append(marked, new) /\ locked' = Append(locked, None) /\ wrong' = Append(wrong, 0)
      /\ UNCHANGED call
  BY DEF RequestCode
<1>3. \A c \in CodeIds : /\ mark(c) \in Codes /\ mark(c).issued = code[c].issued
                         /\ mark(c).attempts = code[c].attempts
                         /\ mark(c).outcome = IF c \in earlier THEN "abandoned" ELSE code[c].outcome
  BY <1>1 DEF Codes
<1>4. marked \in Seq(Codes) /\ Len(marked) = n /\ \A c \in CodeIds : marked[c] = mark(c)
  <2>1. marked \in [1..n -> Codes]
    BY <1>1, <1>3
  <2> HIDE DEF mark
  <2>2. \A c \in CodeIds : marked[c] = mark(c)
    OBVIOUS
  <2> HIDE DEF marked, n
  <2> QED BY <1>1, <2>1, <2>2, FunctionIsSeq
<1>5. new \in Codes /\ new.outcome = "pending" /\ new.attempts = 0
  BY DEF Codes
<1> HIDE DEF mark, marked, new
<1>6. /\ code' \in Seq(Codes) /\ Len(code') = n + 1
      /\ \A c \in CodeIds : code'[c] = mark(c)
      /\ code'[n + 1] = new
  BY <1>1, <1>2, <1>4, <1>5, AppendProperties
<1>7. /\ locked' \in Seq(Calls \cup {None}) /\ Len(locked') = n + 1
      /\ \A c \in CodeIds : locked'[c] = locked[c]
  BY <1>1, <1>2, AppendProperties DEF CodeInv, RowsTyped
<1>8. /\ wrong' \in Seq(Nat) /\ Len(wrong') = n + 1
      /\ \A c \in CodeIds : wrong'[c] = wrong[c]
      /\ wrong'[n + 1] = 0
  BY <1>1, <1>2, AppendProperties DEF CodeInv, RowsTyped
<1>9. CodeIds' = CodeIds \cup {n + 1}
  <2>1. DOMAIN code' = 1..(n + 1)
    BY <1>6, LenProperties
  <2> QED BY <1>1, <2>1 DEF CodeIds
<1>10. RowsTyped'
  BY <1>6, <1>7, <1>8 DEF RowsTyped
<1>11. CallsTyped'
  BY <1>2, <1>9 DEF CodeInv, CallsTyped, At, CodeOf
<1>12. OperatingHolds'
  <2> SUFFICES ASSUME NEW l \in Calls, At(l, "operating")
               PROVE  /\ locked'[CodeOf(l)] = l
                      /\ code'[CodeOf(l)].outcome = "pending"
                      /\ code'[CodeOf(l)].issued = Asked[l]
    BY <1>2 DEF OperatingHolds, At, CodeOf
  <2>1. /\ CodeOf(l) \in CodeIds /\ locked[CodeOf(l)] = l /\ code[CodeOf(l)].outcome = "pending"
        /\ code[CodeOf(l)].issued = Asked[l]
    BY DEF CodeInv, CallsTyped, OperatingHolds, At
  <2>2. CodeOf(l) \notin earlier
    BY <1>2, <2>1, ConfirmedOK
  <2> HIDE DEF earlier
  <2> QED BY <1>3, <1>6, <1>7, <2>1, <2>2
<1>13. PerformedConfirmed'
  <2> SUFFICES ASSUME NEW l \in Calls, At(l, "performed")
               PROVE  code'[CodeOf(l)].outcome = "confirmed" /\ code'[CodeOf(l)].issued = Asked[l]
    BY <1>2 DEF PerformedConfirmed, At, CodeOf
  <2>1. /\ CodeOf(l) \in CodeIds /\ code[CodeOf(l)].outcome = "confirmed"
        /\ code[CodeOf(l)].issued = Asked[l]
    BY DEF CodeInv, CallsTyped, PerformedConfirmed, At
  <2>2. CodeOf(l) \notin earlier
    BY <2>1
  <2> HIDE DEF earlier
  <2> QED BY <1>3, <1>6, <2>1, <2>2
<1>14. OnePerforms'
  BY <1>2 DEF CodeInv, OnePerforms, At, CodeOf
<1>15. NoneLost'
  <2> SUFFICES ASSUME NEW c \in CodeIds \cup {n + 1}, code'[c].outcome = "pending"
               PROVE  code'[c].attempts = wrong'[c]
    BY <1>9 DEF NoneLost
  <2>1. CASE c \in CodeIds
    <3>1. c \notin earlier
      BY <1>3, <1>6, <2>1
    <3> HIDE DEF earlier
    <3>2. code[c].outcome = "pending" /\ code'[c].attempts = code[c].attempts
      BY <1>3, <1>6, <2>1, <3>1
    <3> QED BY <1>8, <2>1, <3>2 DEF CodeInv, NoneLost
  <2>2. CASE c = n + 1
    BY <1>5, <1>6, <1>8, <2>2
  <2> QED BY <2>1, <2>2
<1> QED BY <1>10, <1>11, <1>12, <1>13, <1>14, <1>15 DEF CodeInv

\* A call goes on without operating, the rows as they were.
LEMMA CallMoves ==
    ASSUME CodeInv, NEW k \in Calls, NEW s \in CallStates, call' = [call EXCEPT ![k] = s],
           UNCHANGED <<code, locked, wrong>>,
           s.stage \in {"waiting", "wrong", "refused"}, s.stage # "refused" => s.code \in CodeIds
    PROVE  CodeInv'
<1>1. CallsTyped' /\ \A l \in Calls : call'[l] = IF l = k THEN s ELSE call[l]
  BY CallWritten DEF CodeInv, CodeIds
<1>2. RowsTyped' /\ NoneLost'
  BY DEF CodeInv, RowsTyped, NoneLost, CodeIds
<1>3. OperatingHolds' /\ PerformedConfirmed' /\ OnePerforms'
  BY <1>1 DEF CodeInv, OperatingHolds, PerformedConfirmed, OnePerforms, At, CodeOf
<1> QED BY <1>1, <1>2, <1>3 DEF CodeInv

LEMMA ExpireStep ==
    ASSUME CodeInv, NEW c, CodeExpires(c)
    PROVE  CodeInv'
<1> DEFINE r == [code[c] EXCEPT !.late = TRUE]
<1>1. c \in CodeIds /\ code' = [code EXCEPT ![c] = r] /\ UNCHANGED <<call, locked, wrong>>
  BY DEF CodeExpires
<1>2. code[c] \in Codes
  BY <1>1, Indices DEF CodeInv
<1>3. /\ r \in Codes /\ r.issued = code[c].issued /\ r.outcome = code[c].outcome
      /\ r.attempts = code[c].attempts
  BY <1>2 DEF Codes
<1> HIDE DEF r
<1>4. /\ code' \in Seq(Codes) /\ Len(code') = Len(code) /\ CodeIds' = CodeIds
      /\ \A d \in CodeIds : code'[d] = IF d = c THEN r ELSE code[d]
  BY <1>1, <1>3, CodeWritten DEF CodeInv
<1>5. RowsTyped' /\ CallsTyped'
  BY <1>1, <1>4 DEF CodeInv, RowsTyped, CallsTyped, At, CodeOf
<1>6. OperatingHolds' /\ PerformedConfirmed' /\ OnePerforms'
  BY <1>1, <1>3, <1>4 DEF CodeInv, CallsTyped, OperatingHolds, PerformedConfirmed, OnePerforms, At, CodeOf
<1>7. NoneLost'
  BY <1>1, <1>3, <1>4 DEF CodeInv, NoneLost
<1> QED BY <1>5, <1>6, <1>7 DEF CodeInv

LEMMA PresentStep ==
    ASSUME CodeInv, NEW k \in Calls, NEW c \in CodeIds, NEW right \in BOOLEAN, Present(k, c, right)
    PROVE  CodeInv'
<1> DEFINE s == [stage |-> "waiting", code |-> c, right |-> right, exhausted |-> FALSE]
<1>1. call' = [call EXCEPT ![k] = s] /\ UNCHANGED <<code, locked, wrong>>
  BY DEF Present
<1>2. c \in Nat
  BY Indices DEF CodeInv
<1>3. s \in CallStates /\ s.stage = "waiting" /\ s.code = c
  BY <1>2 DEF CallStates
<1> HIDE DEF s
<1> QED BY <1>1, <1>3, CallMoves

LEMMA RefuseStep ==
    ASSUME CodeInv, NEW k \in Calls, Refuse(k) \/ RefuseCode(k)
    PROVE  CodeInv'
<1>1. call[k].stage = "waiting" /\ UNCHANGED <<code, locked, wrong>>
  BY DEF Refuse, RefuseCode, At
<1>2. call[k] \in CallStates /\ call[k].code \in CodeIds
  BY <1>1, CallTyped DEF CodeInv, CodeOf
<1>3. CASE Refuse(k)
  <2> DEFINE s == [call[k] EXCEPT !.stage = "refused"]
  <2>1. call' = [call EXCEPT ![k] = s] /\ s \in CallStates /\ s.stage = "refused"
    BY <1>2, <1>3 DEF Refuse, CallStates
  <2> HIDE DEF s
  <2> QED BY <1>1, <2>1, CallMoves
<1>4. CASE RefuseCode(k)
  <2> DEFINE exhausted == code[CodeOf(k)].attempts + 1 >= Attempts
             s == [call[k] EXCEPT !.stage = "wrong", !.exhausted = exhausted]
  <2>1. call' = [call EXCEPT ![k] = s]
    <3>1. call' = [call EXCEPT ![k].stage = "wrong", ![k].exhausted = exhausted]
      BY <1>4 DEF RefuseCode
    <3> HIDE DEF exhausted
    <3> QED BY <1>2, <3>1 DEF CallStates, CodeInv, CallsTyped
  <2> HIDE DEF s
  <2>3. exhausted \in BOOLEAN
    OBVIOUS
  <2> HIDE DEF exhausted
  <2>2. s \in CallStates /\ s.stage = "wrong" /\ s.code = call[k].code
    BY <1>2, <2>3 DEF CallStates, s
  <2> QED BY <1>1, <1>2, <2>1, <2>2, CallMoves
<1> QED BY <1>3, <1>4

LEMMA AcceptStep ==
    ASSUME CodeInv, NEW k \in Calls, AcceptCode(k)
    PROVE  CodeInv'
<1> DEFINE c == CodeOf(k)
           s == [call[k] EXCEPT !.stage = "operating"]
<1>1. /\ call[k].stage = "waiting" /\ locked[c] = None /\ UNCHANGED <<code, wrong>>
      /\ locked' = [locked EXCEPT ![c] = k]
      /\ code[c].outcome = "pending" /\ code[c].issued = Asked[k]
  BY DEF AcceptCode, At, Acceptable
<1>2. call[k] \in CallStates /\ c \in CodeIds /\ c = call[k].code
  BY <1>1, CallTyped DEF CodeInv, CodeOf
<1>3. call' = [call EXCEPT ![k] = s] /\ s \in CallStates /\ s.stage = "operating" /\ s.code = c
  BY <1>2 DEF AcceptCode, CallStates
<1> HIDE DEF s
<1>4. CallsTyped' /\ \A l \in Calls : call'[l] = IF l = k THEN s ELSE call[l]
  BY <1>1, <1>2, <1>3, CallWritten DEF CodeInv, CodeIds
<1>5. /\ locked' \in Seq(Calls \cup {None}) /\ Len(locked') = Len(locked)
      /\ \A d \in CodeIds : locked'[d] = IF d = c THEN k ELSE locked[d]
  BY <1>1, <1>2, LockWritten DEF CodeInv
<1>6. RowsTyped' /\ NoneLost'
  BY <1>1, <1>5 DEF CodeInv, RowsTyped, NoneLost, CodeIds
<1>7. OperatingHolds'
  <2> SUFFICES ASSUME NEW l \in Calls, call'[l].stage = "operating"
               PROVE  /\ locked'[call'[l].code] = l
                      /\ code[call'[l].code].outcome = "pending"
                      /\ code[call'[l].code].issued = Asked[l]
    BY <1>1 DEF OperatingHolds, At, CodeOf
  <2>1. CASE l = k
    BY <1>1, <1>2, <1>3, <1>4, <1>5, <2>1
  <2>2. CASE l # k
    <3>1. /\ call'[l] = call[l] /\ call[l].code \in CodeIds /\ locked[call[l].code] = l
          /\ code[call[l].code].outcome = "pending" /\ code[call[l].code].issued = Asked[l]
      <4>1. call'[l] = call[l] /\ call[l].stage = "operating"
        BY <1>4, <2>2
      <4>2. call[l].code \in CodeIds
        BY <4>1 DEF CodeInv, CallsTyped, At, CodeOf
      <4>3. /\ locked[call[l].code] = l
            /\ code[call[l].code].outcome = "pending" /\ code[call[l].code].issued = Asked[l]
        BY <4>1 DEF CodeInv, OperatingHolds, At, CodeOf
      <4> QED BY <4>1, <4>2, <4>3
    <3>2. call[l].code # c
      BY <1>1, <3>1, ConfirmedOK
    <3> QED BY <1>5, <3>1, <3>2
  <2> QED BY <2>1, <2>2
<1>8. PerformedConfirmed' /\ OnePerforms'
  BY <1>1, <1>3, <1>4 DEF CodeInv, PerformedConfirmed, OnePerforms, At, CodeOf
<1> QED BY <1>4, <1>6, <1>7, <1>8 DEF CodeInv

LEMMA PerformStep ==
    ASSUME CodeInv, NEW k \in Calls, Perform(k)
    PROVE  CodeInv'
<1> DEFINE c == CodeOf(k)
           s == [call[k] EXCEPT !.stage = "performed"]
           r == [code[c] EXCEPT !.outcome = "confirmed", !.attempts = @ + 1]
<1>1. call[k].stage = "operating" /\ UNCHANGED wrong /\ locked' = [locked EXCEPT ![c] = None]
  BY DEF Perform, At
<1>2. /\ call[k] \in CallStates /\ c \in CodeIds /\ c = call[k].code /\ code[c] \in Codes
      /\ locked[c] = k /\ code[c].outcome = "pending" /\ code[c].issued = Asked[k]
  BY <1>1, CallTyped, Indices DEF CodeInv, CodeOf, OperatingHolds, At
<1>3. /\ call' = [call EXCEPT ![k] = s] /\ s \in CallStates /\ s.stage = "performed" /\ s.code = c
      /\ code' = [code EXCEPT ![c] = r] /\ r \in Codes
      /\ r.outcome = "confirmed" /\ r.issued = Asked[k]
  <2>1. s \in CallStates /\ s.stage = "performed" /\ s.code = c /\ call' = [call EXCEPT ![k] = s]
    BY <1>2 DEF Perform, CallStates
  <2>2. r \in Codes /\ r.outcome = "confirmed" /\ r.issued = Asked[k]
    <3> DEFINE n == code[c].attempts + 1
    <3>1. n \in Nat
      BY <1>2 DEF Codes
    <3>2. r = Counted(code[c], n, "confirmed")
      BY <1>2 DEF Counted, Codes
    <3> HIDE DEF n, r
    <3> QED BY <1>2, <3>1, <3>2, CountedIsCode
  <2>3. code' = [code EXCEPT ![c] = r]
    BY <1>2 DEF Perform, Codes
  <2> QED BY <2>1, <2>2, <2>3
<1> HIDE DEF s, r
<1>4. /\ code' \in Seq(Codes) /\ Len(code') = Len(code) /\ CodeIds' = CodeIds
      /\ \A d \in CodeIds : code'[d] = IF d = c THEN r ELSE code[d]
  BY <1>2, <1>3, CodeWritten DEF CodeInv
<1>5. /\ locked' \in Seq(Calls \cup {None}) /\ Len(locked') = Len(locked)
      /\ \A d \in CodeIds : locked'[d] = IF d = c THEN None ELSE locked[d]
  BY <1>1, <1>2, LockWritten DEF CodeInv
<1>6. CallsTyped' /\ \A l \in Calls : call'[l] = IF l = k THEN s ELSE call[l]
  BY <1>1, <1>2, <1>3, <1>4, CallWritten DEF CodeInv
<1>7. RowsTyped'
  BY <1>1, <1>4, <1>5 DEF CodeInv, RowsTyped
<1>8. NoneLost'
  BY <1>1, <1>3, <1>4 DEF CodeInv, NoneLost
<1>9. OperatingHolds'
  <2> SUFFICES ASSUME NEW l \in Calls, call'[l].stage = "operating"
               PROVE  /\ locked'[call'[l].code] = l
                      /\ code'[call'[l].code].outcome = "pending"
                      /\ code'[call'[l].code].issued = Asked[l]
    BY DEF OperatingHolds, At, CodeOf
  <2>1. /\ l # k /\ call'[l] = call[l] /\ call[l].code \in CodeIds /\ locked[call[l].code] = l
        /\ code[call[l].code].outcome = "pending" /\ code[call[l].code].issued = Asked[l]
    <3>1. l # k /\ call'[l] = call[l] /\ call[l].stage = "operating"
      BY <1>3, <1>6
    <3>2. call[l].code \in CodeIds
      BY <3>1 DEF CodeInv, CallsTyped, At, CodeOf
    <3>3. /\ locked[call[l].code] = l
          /\ code[call[l].code].outcome = "pending" /\ code[call[l].code].issued = Asked[l]
      BY <3>1 DEF CodeInv, OperatingHolds, At, CodeOf
    <3> QED BY <3>1, <3>2, <3>3
  <2>2. call[l].code # c
    BY <1>2, <2>1
  <2> QED BY <1>4, <1>5, <2>1, <2>2
<1>10. ASSUME NEW l \in Calls, l # k, call[l].stage = "performed"
       PROVE  /\ call[l].code \in CodeIds /\ call[l].code # c
              /\ code[call[l].code].outcome = "confirmed" /\ code[call[l].code].issued = Asked[l]
  BY <1>2, <1>10 DEF CodeInv, CallsTyped, PerformedConfirmed, At, CodeOf
<1>11. PerformedConfirmed'
  <2> SUFFICES ASSUME NEW l \in Calls, call'[l].stage = "performed"
               PROVE  code'[call'[l].code].outcome = "confirmed" /\ code'[call'[l].code].issued = Asked[l]
    BY DEF PerformedConfirmed, At, CodeOf
  <2>1. CASE l = k
    BY <1>2, <1>3, <1>4, <1>6, <2>1
  <2>2. CASE l # k
    BY <1>4, <1>6, <1>10, <2>2
  <2> QED BY <2>1, <2>2
<1>12. OnePerforms'
  <2> SUFFICES ASSUME NEW l \in Calls, NEW j \in Calls, call'[l].stage = "performed",
                      call'[j].stage = "performed", call'[l].code = call'[j].code
               PROVE  l = j
    BY DEF OnePerforms, At, CodeOf
  <2>1. CASE l # k /\ j # k
    BY <1>6, <2>1 DEF CodeInv, OnePerforms, At, CodeOf
  <2>2. CASE l = k \/ j = k
    BY <1>3, <1>6, <1>10, <2>2
  <2> QED BY <2>1, <2>2
<1> QED BY <1>6, <1>7, <1>8, <1>9, <1>11, <1>12 DEF CodeInv

\* A call is over without performing; what it had locked is free.
LEMMA CallEnds ==
    ASSUME CodeInv, NEW k \in Calls, NEW s \in CallStates, s.stage = "refused",
           call' = [call EXCEPT ![k] = s], UNCHANGED <<code, wrong>>,
           locked' \in Seq(Calls \cup {None}), Len(locked') = Len(locked),
           \A c \in CodeIds : locked[c] # k => locked'[c] = locked[c]
    PROVE  CodeInv'
<1>1. CallsTyped' /\ \A l \in Calls : call'[l] = IF l = k THEN s ELSE call[l]
  BY CallWritten DEF CodeInv, CodeIds
<1>2. RowsTyped' /\ NoneLost'
  BY DEF CodeInv, RowsTyped, NoneLost, CodeIds
<1>3. PerformedConfirmed' /\ OnePerforms'
  BY <1>1 DEF CodeInv, PerformedConfirmed, OnePerforms, At, CodeOf
<1>4. OperatingHolds'
  BY <1>1 DEF CodeInv, CallsTyped, OperatingHolds, At, CodeOf
<1> QED BY <1>1, <1>2, <1>3, <1>4 DEF CodeInv

LEMMA EndStep ==
    ASSUME CodeInv, NEW k \in Calls, Abort(k) \/ DieInCall(k)
    PROVE  CodeInv'
<1> DEFINE s == [call[k] EXCEPT !.stage = "refused"]
<1>1. /\ call[k].stage \in {"waiting", "operating", "wrong"} /\ call' = [call EXCEPT ![k] = s]
      /\ UNCHANGED <<code, wrong>>
  BY DEF Abort, DieInCall, At
<1>2. call[k] \in CallStates /\ CodeOf(k) \in CodeIds
  BY <1>1, CallTyped DEF CodeInv
<1>3. s \in CallStates /\ s.stage = "refused"
  BY <1>2 DEF CallStates
<1> HIDE DEF s
<1>4. CASE Abort(k)
  <2>1. locked' = [locked EXCEPT ![CodeOf(k)] = None] /\ locked[CodeOf(k)] = k
    BY <1>4 DEF Abort, CodeInv, OperatingHolds
  <2>2. /\ locked' \in Seq(Calls \cup {None}) /\ Len(locked') = Len(locked)
        /\ \A d \in CodeIds : locked'[d] = IF d = CodeOf(k) THEN None ELSE locked[d]
    BY <1>2, <2>1, LockWritten DEF CodeInv
  <2> QED BY <1>1, <1>3, <2>1, <2>2, CallEnds
<1>5. CASE DieInCall(k)
  <2> DEFINE n == Len(code)
             f == [c \in CodeIds |-> IF locked[c] = k THEN None ELSE locked[c]]
  <2>1. locked' = f /\ n \in Nat /\ CodeIds = 1..n /\ Len(locked) = n
    BY <1>5, Indices DEF DieInCall, CodeInv, RowsTyped
  <2>2. f \in [1..n -> Calls \cup {None}] /\ \A c \in CodeIds : locked[c] # k => f[c] = locked[c]
    BY <2>1, Indices DEF CodeInv
  <2> HIDE DEF f, n
  <2>3. f \in Seq(Calls \cup {None}) /\ Len(f) = n
    BY <2>1, <2>2, FunctionIsSeq
  <2> QED BY <1>1, <1>3, <2>1, <2>2, <2>3, CallEnds
<1> QED BY <1>4, <1>5

LEMMA RecordFailedStep ==
    ASSUME CodeInv, NEW k \in Calls, RecordFailedAttempt(k)
    PROVE  CodeInv'
<1> DEFINE c == CodeOf(k)
           s == [call[k] EXCEPT !.stage = "refused"]
           r == IF code[c].outcome # "pending" THEN code[c]
                ELSE [code[c] EXCEPT !.attempts = @ + 1,
                                     !.outcome = IF call[k].exhausted THEN "exhausted" ELSE @]
<1>1. /\ call[k].stage = "wrong" /\ locked[c] = None /\ UNCHANGED locked
      /\ call' = [call EXCEPT ![k] = s] /\ wrong' = [wrong EXCEPT ![c] = @ + 1]
  BY DEF RecordFailedAttempt, At
<1>2. call[k] \in CallStates /\ c \in CodeIds /\ code[c] \in Codes /\ wrong[c] \in Nat
  BY <1>1, CallTyped, Indices DEF CodeInv
<1>3. s \in CallStates /\ s.stage = "refused"
  BY <1>2 DEF CallStates
<1>4. /\ r \in Codes /\ r.issued = code[c].issued
      /\ code[c].outcome # "pending" => r = code[c]
      /\ r.outcome = "pending" => code[c].outcome = "pending" /\ r.attempts = code[c].attempts + 1
  <2>1. CASE code[c].outcome # "pending"
    BY <1>2, <2>1
  <2>2. CASE code[c].outcome = "pending"
    <3> DEFINE n == code[c].attempts + 1
               verdict == IF call[k].exhausted THEN "exhausted" ELSE code[c].outcome
    <3>1. n \in Nat
      BY <1>2 DEF Codes
    <3>2. verdict \in {"pending", "confirmed", "abandoned", "exhausted"}
      BY <2>2
    <3>3. r = Counted(code[c], n, verdict)
      BY <2>2 DEF Counted
    <3> HIDE DEF n, verdict, r
    <3>4. r \in Codes /\ r.issued = code[c].issued /\ r.attempts = n
      <4> DEFINE x == code[c]
      <4>1. x \in Codes
        BY <1>2
      <4> HIDE DEF x
      <4>2. /\ Counted(x, n, verdict) \in Codes /\ Counted(x, n, verdict).issued = x.issued
            /\ Counted(x, n, verdict).attempts = n
        BY <3>1, <3>2, <4>1, CountedIsCode
      <4>3. r = Counted(x, n, verdict)
        BY <3>3 DEF x
      <4>4. r \in Codes /\ r.issued = x.issued /\ r.attempts = n
        BY <4>2, <4>3
      <4> QED BY <4>4 DEF x
    <3> QED BY <2>2, <3>4 DEF n
  <2> QED BY <2>1, <2>2
<1>5. code' = [code EXCEPT ![c] = r]
  <2>1. CASE code[c].outcome # "pending"
    <3>1. code' = code /\ r = code[c]
      BY <2>1 DEF RecordFailedAttempt
    <3>2. code = [code EXCEPT ![c] = code[c]]
      BY <1>2, LenProperties DEF CodeInv, RowsTyped
    <3> HIDE DEF r
    <3> QED BY <3>1, <3>2
  <2>2. CASE code[c].outcome = "pending"
    BY <1>2, <2>2 DEF RecordFailedAttempt
  <2> QED BY <2>1, <2>2
<1> HIDE DEF s, r
<1>6. /\ code' \in Seq(Codes) /\ Len(code') = Len(code) /\ CodeIds' = CodeIds
      /\ \A d \in CodeIds : code'[d] = IF d = c THEN r ELSE code[d]
  BY <1>2, <1>4, <1>5, CodeWritten DEF CodeInv
<1>7. /\ wrong' \in Seq(Nat) /\ Len(wrong') = Len(wrong)
      /\ \A d \in CodeIds : wrong'[d] = IF d = c THEN wrong[c] + 1 ELSE wrong[d]
  <2>1. CodeIds = 1..Len(wrong) /\ wrong \in Seq(Nat) /\ wrong[c] + 1 \in Nat
    BY <1>2, Indices DEF CodeInv, RowsTyped
  <2> QED BY <1>1, <1>2, <2>1, ExceptSeq
<1>8. CallsTyped' /\ \A l \in Calls : call'[l] = IF l = k THEN s ELSE call[l]
  BY <1>1, <1>3, <1>6, CallWritten DEF CodeInv
<1>9. RowsTyped'
  BY <1>1, <1>6, <1>7 DEF CodeInv, RowsTyped
<1>10. NoneLost'
  BY <1>4, <1>6, <1>7 DEF CodeInv, NoneLost
<1>11. ASSUME NEW l \in Calls, At(l, "operating") \/ At(l, "performed")
       PROVE  CodeOf(l) \in CodeIds /\ code'[CodeOf(l)] = code[CodeOf(l)]
  <2>1. CodeOf(l) \in CodeIds
    BY <1>11 DEF CodeInv, CallsTyped, At
  <2>2. CodeOf(l) # c \/ r = code[c]
    BY <1>1, <1>4, <1>11, ConfirmedOK DEF CodeInv, OperatingHolds, PerformedConfirmed
  <2> QED BY <1>6, <2>1, <2>2
<1>12. OperatingHolds' /\ PerformedConfirmed' /\ OnePerforms'
  BY <1>1, <1>3, <1>8, <1>11
     DEF CodeInv, OperatingHolds, PerformedConfirmed, OnePerforms, At, CodeOf
<1> QED BY <1>8, <1>9, <1>10, <1>12 DEF CodeInv

LEMMA NextCodeInv == CodeInv /\ [ConfirmedNext]_codeVars => CodeInv'
<1> SUFFICES ASSUME CodeInv, [ConfirmedNext]_codeVars PROVE CodeInv'
  OBVIOUS
<1>1. ASSUME NEW k \in Calls, Answer(k) PROVE CodeInv'
  BY <1>1, RefuseStep, AcceptStep, PerformStep, RecordFailedStep DEF Answer
<1>2. ASSUME NEW k \in Calls, RequestCode(k) \/ Abort(k) \/ DieInCall(k) PROVE CodeInv'
  BY <1>2, RequestStep, EndStep
<1>3. ASSUME NEW k \in Calls, NEW c \in CodeIds, NEW right \in BOOLEAN, Present(k, c, right)
      PROVE  CodeInv'
  BY <1>3, PresentStep
<1>4. ASSUME NEW c \in CodeIds, CodeExpires(c) PROVE CodeInv'
  BY <1>4, ExpireStep
<1>5. CASE UNCHANGED codeVars
  BY <1>5 DEF codeVars, CodeInv, RowsTyped, CallsTyped, OperatingHolds, PerformedConfirmed,
              OnePerforms, NoneLost, At, CodeOf, CodeIds
<1> QED BY <1>1, <1>2, <1>3, <1>4, <1>5 DEF ConfirmedNext

LEMMA InitCodeInv == ConfirmedInit => CodeInv
<1> SUFFICES ASSUME ConfirmedInit PROVE CodeInv
  OBVIOUS
<1>1. RowsTyped
  BY EmptySeq DEF ConfirmedInit, RowsTyped
<1>2. CallsTyped /\ OperatingHolds /\ PerformedConfirmed /\ OnePerforms
  BY DEF ConfirmedInit, CallsTyped, CallStates, OperatingHolds, PerformedConfirmed, OnePerforms, At
<1>3. NoneLost
  BY <1>1, Indices DEF ConfirmedInit, NoneLost
<1> QED BY <1>1, <1>2, <1>3 DEF CodeInv

-----------------------------------------------------------------------------
(***************************************************************************)
(* The theorem.                                                            *)
(***************************************************************************)
\* However many calls present a code and however many codes are issued, a code is used by one
\* operation at most, the one it was issued for with those values, and no wrong attempt recorded on a
\* pending code is lost (consume and recordFailedAttempt of confirmation.service.ts); and a row and a
\* call keep their types.
THEOREM CodeUsedOnce == ConfirmedSpec => []CodesServe
<1>1. ASSUME CodeInv PROVE CodesHold
  <2> SUFFICES ASSUME NEW c \in CodeIds
               PROVE  /\ Cardinality(Performed(c)) <= 1
                      /\ \A k \in Performed(c) : code[c].issued = Asked[k] /\ code[c].outcome = "confirmed"
                      /\ code[c].outcome = "pending" => code[c].attempts = wrong[c]
    BY DEF CodesHold
  <2>1. \A k, l \in Performed(c) : k = l
    BY <1>1 DEF CodeInv, OnePerforms, Performed
  <2>2. Performed(c) = {} \/ \E k \in Calls : Performed(c) = {k}
    BY <2>1 DEF Performed
  <2>3. Cardinality({}) = 0 /\ \A k \in Calls : Cardinality({k}) = 1
    BY FS_EmptySet, FS_Singleton
  <2>4. Cardinality(Performed(c)) <= 1
    BY <2>2, <2>3
  <2> QED BY <1>1, <2>4 DEF CodeInv, PerformedConfirmed, NoneLost, Performed
<1>2. ASSUME CodeInv PROVE ConfirmedTypeOK
  <2>1. ASSUME NEW c \in CodeIds
        PROVE  /\ code[c].outcome \in {"pending", "confirmed", "abandoned", "exhausted"}
               /\ locked[c] \in Calls \cup {None}
    BY <1>2, Indices DEF CodeInv, RowsTyped, Codes
  <2>2. ASSUME NEW k \in Calls
        PROVE  call[k].stage \in {"idle", "waiting", "operating", "wrong", "performed", "refused"}
    BY <1>2 DEF CodeInv, CallsTyped, CallStates
  <2> QED BY <2>1, <2>2 DEF ConfirmedTypeOK
<1>3. CodeInv => CodesServe
  BY <1>1, <1>2 DEF CodesServe
<1> QED BY <1>3, InitCodeInv, NextCodeInv, PTL DEF ConfirmedSpec

=============================================================================
