------------------------------ MODULE ShownProofs ------------------------------
(***************************************************************************)
(* What the console shows, for every number of rows, routes, hours and     *)
(* alerts, whatever is stored, closed or asked for meanwhile: the lists an *)
(* administrator pages through, the walk of a client through cursors, the  *)
(* home's verdict and chart, down to where its labels are drawn, and the   *)
(* confirmed forms, for every number of forms, values, codes and calls.    *)
(***************************************************************************)
EXTENDS CursorPages, ConsoleLists, HomeBoard, ConfirmedForms, SumTheorems, SequenceTheorems

-----------------------------------------------------------------------------
(***************************************************************************)
(* The console's lists.  The call a list awaits asks for what the URL      *)
(* does, and what it is answered with is kept by what was asked.           *)
(***************************************************************************)
CallStages == {"unmade", "sent", "counted", "answered", "refused", "failed", "over"}
Awaited == CallStages \ {"unmade", "over"}
ListCall == [stage : CallStages, of : Wants \cup {None}, total : Nat, rows : SUBSET ListRows]

CallAsked(x) ==
    /\ x.stage # "unmade" => x.of \in Wants
    /\ x.stage = "answered" => x.rows \subseteq Matching[x.of.search]

ListsTyped ==
    /\ there \subseteq ListRows /\ wanted \in Wants
    /\ call \in [Calls -> ListCall] /\ \A c \in Calls : CallAsked(call[c])
    /\ shown \in ListPages \cup {None}

AwaitsWanted ==
    current # None => /\ current \in Calls /\ call[current].stage \in Awaited
                      /\ call[current].of = wanted /\ ~errored

ListsInv == ListsTyped /\ AwaitsWanted /\ ListAnswersUrl

\* Whatever is not empty rounds up to one page at least.
LEMMA CeilPositive ==
    ASSUME NEW n \in Nat \ {0}, NEW d \in Nat \ {0}
    PROVE  Ceil(n, d) \in Nat \ {0}
<1>1. n + d - 1 \in Int /\ n + d - 1 >= d
  OBVIOUS
<1>2. (n + d - 1) \div d \in Int /\ d * ((n + d - 1) \div d) <= n + d - 1 /\ n + d - 1 < d * ((n + d - 1) \div d) + d
  BY <1>1
<1> DEFINE q == (n + d - 1) \div d
<1>3. q \in Int /\ d * q > 0
  BY <1>1, <1>2
<1> HIDE DEF q
<1>4. ASSUME q <= 0 PROVE FALSE
  <2>1. d * (-q) \in Nat /\ d * q = -(d * (-q))
    BY <1>3, <1>4
  <2> QED BY <1>3, <2>1
<1> QED BY <1>3, <1>4 DEF Ceil, q

LEMMA LastPagePositive ==
    ASSUME NEW total \in Nat, NEW size \in Sizes
    PROVE  LastPage(total, size) \in Nat \ {0}
<1>1. AtLeast(1, total) \in Nat \ {0} /\ size \in Nat \ {0}
  BY ListsOK, NoListPage DEF AtLeast
<1> QED BY <1>1, CeilPositive DEF LastPage

\* A page past the end is brought back to the last one.
LEMMA Clamped ==
    ASSUME NEW want \in Wants, NEW total \in Nat
    PROVE  LET page == ClampPage(want.page, total, want.size)
           IN  /\ [want EXCEPT !.page = page] \in Wants
               /\ page = want.page => want.page <= LastPage(total, want.size)
<1> DEFINE page == ClampPage(want.page, total, want.size)
           last == LastPage(total, want.size)
<1>1. want.page \in 1..MaxPage /\ want.size \in Sizes /\ MaxPage \in Nat /\ None \notin Int
  BY ListsOK, NoListPage DEF Wants
<1>2. last \in Nat \ {0}
  BY <1>1, LastPagePositive
<1>3. page = IF last # None /\ want.page > last THEN last ELSE want.page
  BY Zenon DEF ClampPage, AtMost
<1> HIDE DEF page, last
<1>4. page \in 1..MaxPage /\ (page = want.page => want.page <= last)
  BY <1>1, <1>2, <1>3
<1> QED BY <1>4 DEF Wants, page, last

\* A call begun for what is wanted from here on.
LEMMA FetchStep ==
    ASSUME ListsInv, NEW want \in Wants, NEW before \in [Calls -> ListCall],
           \A c \in Calls : CallAsked(before[c]), Fetch(want, before), wanted' = want,
           there' \subseteq ListRows, shown' \in ListPages \cup {None}
    PROVE  ListsInv'
<1>1. PICK c \in Unused : call' = [before EXCEPT ![c] = [Unmade EXCEPT !.stage = "sent", !.of = want]]
                          /\ current' = c /\ errored' = FALSE
  BY DEF Fetch
<1> DEFINE x == [Unmade EXCEPT !.stage = "sent", !.of = want]
<1>2. x \in ListCall /\ x.stage = "sent" /\ x.of = want
  BY DEF ListCall, Unmade, CallStages
<1>3. c \in Calls /\ None \notin Calls
  BY <1>1, NoListPage DEF Unused, Calls
<1>4. call' = [before EXCEPT ![c] = x]
  BY <1>1
<1> HIDE DEF x
<1>5. call'[c] = x /\ call' \in [Calls -> ListCall] /\ \A d \in Calls : CallAsked(call'[d])
  BY <1>2, <1>3, <1>4 DEF CallAsked
<1>6. ListsTyped'
  BY <1>5 DEF ListsTyped, CallAsked
<1>7. AwaitsWanted'
  BY <1>1, <1>2, <1>3, <1>5 DEF AwaitsWanted, Awaited, CallStages
<1>8. ListAnswersUrl'
  BY <1>1, <1>3 DEF ListAnswersUrl
<1> QED BY <1>6, <1>7, <1>8 DEF ListsInv

\* One call changes, and nothing that is shown or asked for.
LEMMA UrlCallStep ==
    ASSUME ListsInv, NEW c \in Calls, NEW x \in ListCall, CallAsked(x), call' = [call EXCEPT ![c] = x],
           UNCHANGED <<there, wanted, signed, shown, errored, current>>,
           current = c => x.stage \in Awaited /\ x.of = call[c].of
    PROVE  ListsInv'
<1>1. call' \in [Calls -> ListCall] /\ call'[c] = x /\ \A d \in Calls : d # c => call'[d] = call[d]
  BY DEF ListsInv, ListsTyped
<1>2. \A d \in Calls : CallAsked(call'[d])
  BY <1>1 DEF ListsInv, ListsTyped
<1>3. ListsTyped'
  BY <1>1, <1>2 DEF ListsInv, ListsTyped, CallAsked
<1>4. AwaitsWanted'
  BY <1>1 DEF ListsInv, AwaitsWanted
<1>5. ListAnswersUrl'
  BY DEF ListsInv, ListAnswersUrl
<1> QED BY <1>3, <1>4, <1>5 DEF ListsInv

LEMMA DoneCall ==
    ASSUME ListsInv, NEW c \in Calls, call[c].stage # "unmade"
    PROVE  /\ [call[c] EXCEPT !.stage = "over"] \in ListCall
           /\ Done(c) = [call EXCEPT ![c] = [call[c] EXCEPT !.stage = "over"]]
           /\ Done(c) \in [Calls -> ListCall] /\ \A d \in Calls : CallAsked(Done(c)[d])
           /\ \A d \in Calls : d # c => Done(c)[d] = call[d]
<1>1. call[c] \in ListCall /\ CallAsked(call[c]) /\ call \in [Calls -> ListCall]
  BY DEF ListsInv, ListsTyped
<1> DEFINE x == [call[c] EXCEPT !.stage = "over"]
<1>2. x \in ListCall /\ x.stage = "over" /\ x.of = call[c].of
  BY <1>1 DEF ListCall, CallStages
<1>3. Done(c) = [call EXCEPT ![c] = x]
  BY DEF Done
<1> HIDE DEF x
<1>4. Done(c) \in [Calls -> ListCall] /\ Done(c)[c] = x /\ \A d \in Calls : d # c => Done(c)[d] = call[d]
  BY <1>1, <1>2, <1>3
<1>5. CallAsked(x)
  BY <1>1, <1>2 DEF CallAsked
<1>6. \A d \in Calls : CallAsked(Done(c)[d])
  BY <1>4, <1>5 DEF ListsInv, ListsTyped
<1> QED BY <1>2, <1>3, <1>4, <1>6 DEF x

LEMMA AskAgainSteps ==
    ASSUME ListsInv,
           \/ \E search \in Searches, size \in Sizes : PatchTableState(search, size)
           \/ \E n \in 1..MaxPage : TurnTo(n)
           \/ Retry \/ SignInAgain \/ \E r \in ListRows : RunRowAction(r)
    PROVE  ListsInv'
<1>0. /\ wanted \in Wants /\ call \in [Calls -> ListCall] /\ (\A c \in Calls : CallAsked(call[c])) /\ there \subseteq ListRows
      /\ shown \in ListPages \cup {None}
  BY DEF ListsInv, ListsTyped
<1>1. ASSUME NEW want \in Wants, Ask(want) PROVE ListsInv'
  BY <1>0, <1>1, FetchStep DEF Ask
<1>2. ASSUME NEW search \in Searches, NEW size \in Sizes, PatchTableState(search, size) PROVE ListsInv'
  <2>1. [search |-> search, size |-> size, page |-> 1] \in Wants
    BY ListsOK DEF Wants
  <2> QED BY <1>1, <1>2, <2>1 DEF PatchTableState
<1>3. ASSUME NEW n \in 1..MaxPage, TurnTo(n) PROVE ListsInv'
  <2>1. [wanted EXCEPT !.page = n] \in Wants
    BY <1>0 DEF Wants
  <2> QED BY <1>1, <1>3, <2>1 DEF TurnTo
<1>4. CASE Retry \/ SignInAgain
  <2>1. Fetch(wanted, call) /\ UNCHANGED <<wanted, there, shown>>
    BY <1>4 DEF Retry, SignInAgain
  <2> QED BY <1>0, <2>1, FetchStep
<1>5. ASSUME NEW r \in ListRows, RunRowAction(r) PROVE ListsInv'
  BY <1>0, <1>5, FetchStep DEF RunRowAction
<1> QED BY <1>2, <1>3, <1>4, <1>5

\* An answer past the end asks again for the last page; any other is shown at the URL that asked for it.
LEMMA ShowStep ==
    ASSUME ListsInv, NEW c \in Calls, Show(c)
    PROVE  ListsInv'
<1>0. /\ wanted \in Wants /\ call[c] \in ListCall /\ CallAsked(call[c]) /\ there \subseteq ListRows
      /\ shown \in ListPages \cup {None}
  BY DEF ListsInv, ListsTyped
<1>1. call[c].stage = "answered" /\ call[c].of \in Wants /\ call[c].total \in Nat /\ call[c].rows \subseteq ListRows
      /\ UNCHANGED <<there, inForce, signed, edits>> /\ call[c].rows \subseteq Matching[call[c].of.search]
  BY <1>0 DEF Show, CallAsked, ListCall
<1> DEFINE of == call[c].of
           page == ClampPage(of.page, call[c].total, of.size)
           x == [call[c] EXCEPT !.stage = "over"]
<1>2. /\ x \in ListCall /\ CallAsked(x) /\ Done(c) = [call EXCEPT ![c] = x]
      /\ Done(c) \in [Calls -> ListCall] /\ \A d \in Calls : CallAsked(Done(c)[d])
  <2>1. CallAsked(x)
    BY <1>0, <1>1 DEF CallAsked, ListCall
  <2> QED BY <1>1, <2>1, DoneCall
<1>3. CASE ~IsCurrent(c)
  <2>1. call' = [call EXCEPT ![c] = x] /\ UNCHANGED <<there, wanted, signed, shown, errored, current>> /\ current # c
    BY <1>1, <1>2, <1>3 DEF Show, IsCurrent
  <2> HIDE DEF x
  <2> QED BY <1>2, <2>1, UrlCallStep
<1>4. CASE IsCurrent(c) /\ page # of.page
  <2>1. wanted' = [of EXCEPT !.page = page] /\ Fetch(wanted', Done(c)) /\ shown' = shown
    BY <1>4 DEF Show
  <2>2. wanted' \in Wants
    BY <1>1, <2>1, Clamped
  <2> HIDE DEF x, page, of
  <2> QED BY <1>0, <1>1, <1>2, <2>1, <2>2, FetchStep
<1>5. CASE IsCurrent(c) /\ page = of.page
  <2>1. /\ shown' = [of |-> of, total |-> call[c].total, rows |-> call[c].rows]
        /\ call' = Done(c) /\ current' = None /\ wanted' = wanted /\ errored' = errored
    BY <1>5 DEF Show
  <2>2. of = wanted /\ of.page <= LastPage(call[c].total, of.size)
    <3>1. current = c /\ None \notin Calls
      BY <1>5, NoListPage DEF IsCurrent, Calls
    <3>2. of = wanted
      BY <3>1 DEF ListsInv, AwaitsWanted
    <3> QED BY <1>1, <1>5, <3>2, Clamped
  <2>3. shown'.of = of /\ shown'.total = call[c].total /\ shown'.rows = call[c].rows 
        /\ shown' \in ListPages /\ shown' # None
    BY <1>1, <2>1, NoListPage DEF ListPages
  <2> HIDE DEF x, page, of
  <2>4. ListsTyped'
    <3>1. \A d \in Calls : CallAsked(call'[d])
      BY <1>2, <2>1
    <3> QED BY <1>0, <1>1, <1>2, <2>1, <2>2, <2>3, <3>1 DEF ListsTyped, CallAsked
  <2>5. AwaitsWanted'
    BY <2>1 DEF AwaitsWanted
  <2>6. ListAnswersUrl'
    BY <1>1, <2>1, <2>2, <2>3 DEF ListAnswersUrl, of
  <2> QED BY <2>4, <2>5, <2>6 DEF ListsInv
<1> QED BY <1>3, <1>4, <1>5

LEMMA AnswerSteps ==
    ASSUME ListsInv, NEW c \in Calls, CountRows(c) \/ Search(c) \/ CallFails(c)
    PROVE  ListsInv'
<1>0. call[c] \in ListCall /\ CallAsked(call[c]) /\ call[c].stage \in {"sent", "counted"} /\ there \subseteq ListRows
      /\ UNCHANGED <<there, wanted, signed, shown, errored, current>> /\ call[c].of \in Wants
  BY DEF ListsInv, ListsTyped, CountRows, Search, CallFails, CallAsked
<1>1. ASSUME NEW x \in ListCall, x.stage \in Awaited, x.of = call[c].of, CallAsked(x), call' = [call EXCEPT ![c] = x]
      PROVE  ListsInv'
  BY <1>0, <1>1, UrlCallStep
<1>2. CASE CountRows(c)
  <2> DEFINE x == [call[c] EXCEPT !.stage = IF inForce THEN "counted" ELSE "refused",
                                  !.total = IF inForce THEN Cardinality(Kept(call[c].of)) ELSE 0]
  <2>1. Cardinality(Kept(call[c].of)) \in Nat
    <3>1. IsFiniteSet(Kept(call[c].of))
      BY <1>0, ListsOK, FS_Subset DEF Kept
    <3> QED BY <3>1, FS_CardinalityType
  <2>2. x \in ListCall /\ x.stage \in {"counted", "refused"} /\ x.of = call[c].of
    BY <1>0, <2>1 DEF ListCall, CallStages
  <2>3. call' = [call EXCEPT ![c] = x]
    BY <1>2 DEF CountRows
  <2> HIDE DEF x
  <2> QED BY <1>0, <1>1, <2>2, <2>3 DEF Awaited, CallStages, CallAsked
<1>3. CASE Search(c)
  <2> DEFINE x == [call[c] EXCEPT !.stage = "answered", !.rows = Paginate(call[c].of)]
  <2>1. Paginate(call[c].of) \subseteq ListRows /\ Paginate(call[c].of) \subseteq Matching[call[c].of.search]
    BY <1>0 DEF Paginate, Kept
  <2>2. x \in ListCall /\ x.stage = "answered" /\ x.of = call[c].of /\ x.rows = Paginate(call[c].of)
    BY <1>0, <2>1 DEF ListCall, CallStages
  <2>3. call' = [call EXCEPT ![c] = x]
    BY <1>3 DEF Search
  <2> HIDE DEF x
  <2> QED BY <1>0, <1>1, <2>1, <2>2, <2>3 DEF Awaited, CallStages, CallAsked
<1>4. CASE CallFails(c)
  <2> DEFINE x == [call[c] EXCEPT !.stage = "failed"]
  <2>2. x \in ListCall /\ x.stage = "failed" /\ x.of = call[c].of
    BY <1>0 DEF ListCall, CallStages
  <2>3. call' = [call EXCEPT ![c] = x]
    BY <1>4 DEF CallFails, MoveTo
  <2> HIDE DEF x
  <2> QED BY <1>0, <1>1, <2>2, <2>3 DEF Awaited, CallStages, CallAsked
<1> QED BY <1>2, <1>3, <1>4

LEMMA CallEndSteps ==
    ASSUME ListsInv, NEW c \in Calls, SessionEnded(c) \/ ShowError(c)
    PROVE  ListsInv'
<1>1. call[c].stage \in {"refused", "failed"} /\ call' = Done(c) /\ UNCHANGED <<there, wanted>> /\ shown' \in {None, shown}
  BY DEF SessionEnded, ShowError
<1>2. /\ call' \in [Calls -> ListCall] /\ \A d \in Calls : CallAsked(call'[d])
      /\ \A d \in Calls : d # c => call'[d] = call[d]
  BY <1>1, DoneCall
<1>3. ListsTyped'
  BY <1>1, <1>2 DEF ListsInv, ListsTyped, CallAsked
<1>4. CASE SessionEnded(c)
  BY <1>3, <1>4 DEF SessionEnded, ListsInv, AwaitsWanted, ListAnswersUrl
<1>5. CASE ShowError(c)
  <2>1. AwaitsWanted' /\ ListAnswersUrl'
    BY <1>1, <1>2, <1>5 DEF ShowError, IsCurrent, ListsInv, AwaitsWanted, ListAnswersUrl
  <2> QED BY <1>3, <2>1 DEF ListsInv
<1> QED BY <1>4, <1>5

LEMMA ListsStep == ListsInv /\ [ListsNext]_listVars => ListsInv'
<1> SUFFICES ASSUME ListsInv, [ListsNext]_listVars PROVE ListsInv'
  OBVIOUS
<1>1. CASE UNCHANGED listVars
  BY <1>1 DEF listVars, ListsInv, ListsTyped, AwaitsWanted, ListAnswersUrl, CallAsked
<1>2. ASSUME NEW rows \in SUBSET ListRows, RowsChange(rows) PROVE ListsInv'
  BY <1>2 DEF RowsChange, ListsInv, ListsTyped, AwaitsWanted, ListAnswersUrl, CallAsked
<1>3. CASE SessionLapses
  BY <1>3 DEF SessionLapses, ListsInv, ListsTyped, AwaitsWanted, ListAnswersUrl, CallAsked
<1> QED BY <1>1, <1>2, <1>3, AskAgainSteps, ShowStep, AnswerSteps, CallEndSteps DEF ListsNext

LEMMA ListsStart == ListsInit => ListsInv
<1> SUFFICES ASSUME ListsInit PROVE ListsInv
  OBVIOUS
<1>1. 1 \in Calls /\ None \notin Calls /\ 1 \in 1..MaxPage
  BY ListsOK, NoListPage DEF Calls
<1> DEFINE x == [Unmade EXCEPT !.stage = "sent", !.of = wanted]
<1>2. wanted \in Wants
  BY <1>1 DEF ListsInit, Wants
<1>3. x \in ListCall /\ x.stage = "sent" /\ x.of = wanted /\ Unmade \in ListCall /\ Unmade.stage = "unmade"
  BY <1>2 DEF ListCall, Unmade, CallStages
<1>4. call = [c \in Calls |-> IF c = 1 THEN x ELSE Unmade] /\ current = 1 /\ errored = FALSE /\ shown = None
      /\ there \subseteq ListRows
  BY DEF ListsInit
<1> HIDE DEF x
<1>5. ListsTyped
  BY <1>2, <1>3, <1>4 DEF ListsTyped, CallAsked
<1>6. AwaitsWanted /\ ListAnswersUrl
  BY <1>1, <1>3, <1>4 DEF AwaitsWanted, ListAnswersUrl, Awaited, CallStages
<1> QED BY <1>5, <1>6 DEF ListsInv

\* A list kept by what it asked for is the list its URL asks for.
LEMMA ListsHold == ListsInv => ListsTypeOK /\ ListAnswersUrl
BY DEF ListsInv, ListsTyped, AwaitsWanted, Awaited, ListsTypeOK

-----------------------------------------------------------------------------
(***************************************************************************)
(* Sets in order.  An operator's argument is a relation here, a set of     *)
(* pairs, total and transitive on the set that is put in order.            *)
(***************************************************************************)
Ranks(R, S) ==
    /\ \A a, b \in S : a = b \/ <<a, b>> \in R \/ <<b, a>> \in R
    /\ \A a, b, c \in S : <<a, b>> \in R /\ <<b, c>> \in R => <<a, c>> \in R

Leads(R, S, m) == \A b \in S : b = m \/ <<m, b>> \in R
Ordered(R, S, s) == \A i, j \in DOMAIN s : i < j => <<s[i], s[j]>> \in R

\* A finite set that is not empty has a first member.
LEMMA FirstExists ==
    ASSUME NEW R, NEW S, IsFiniteSet(S), S # {}, Ranks(R, S)
    PROVE  \E m \in S : Leads(R, S, m)
<1> DEFINE X == {T \in SUBSET S : T # {} /\ ~ \E m \in T : Leads(R, T, m)}
<1> SUFFICES ASSUME X # {} PROVE FALSE
  OBVIOUS
<1>1. PICK T \in X : \A U \in X : U \subseteq T => U = T
  <2> X \in SUBSET SUBSET S
    OBVIOUS
  <2> HIDE DEF X
  <2> QED BY SmallestSubset
<1>2. PICK t \in T : TRUE
  BY <1>1
<1> DEFINE U == T \ {t}
<1>3. CASE U = {}
  BY <1>1, <1>2, <1>3 DEF Leads
<1>4. CASE U # {}
  <2>1. U \notin X /\ U \in SUBSET S
    BY <1>1, <1>2
  <2>2. PICK m \in U : Leads(R, U, m)
    BY <1>4, <2>1
  <2>3. \A b \in T : b = t \/ b \in U
    OBVIOUS
  <2>4. t \in S /\ m \in S /\ m \in T /\ T \subseteq S
    BY <1>1, <1>2, <2>2
  <2>5. CASE <<m, t>> \in R
    <3>1. Leads(R, T, m)
      BY <2>2, <2>3, <2>5 DEF Leads
    <3> QED BY <1>1, <2>4, <3>1
  <2>6. CASE <<t, m>> \in R
    <3>1. ASSUME NEW b \in T, b # t PROVE <<t, b>> \in R
      <4>1. b \in U /\ b \in S
        BY <2>3, <2>4, <3>1
      <4>2. b = m \/ <<m, b>> \in R
        BY <2>2, <4>1 DEF Leads
      <4> QED BY <2>4, <2>6, <4>1, <4>2 DEF Ranks
    <3>2. Leads(R, T, t)
      BY <3>1 DEF Leads
    <3> QED BY <1>1, <1>2, <3>2
  <2> QED BY <2>2, <2>4, <2>5, <2>6 DEF Ranks
<1> QED BY <1>3, <1>4

\* Each finite set can be put in order: its first member, then the others in order.
LEMMA OrderExists ==
    ASSUME NEW R, NEW S, IsFiniteSet(S), Ranks(R, S)
    PROVE  \E s \in Injection(1..Cardinality(S), S) : Ordered(R, S, s)
<1> DEFINE X == {T \in SUBSET S : ~ \E s \in Injection(1..Cardinality(T), T) : Ordered(R, T, s)}
<1> SUFFICES ASSUME X # {} PROVE FALSE
  OBVIOUS
<1>1. PICK T \in X : \A U \in X : U \subseteq T => U = T
  <2> X \in SUBSET SUBSET S
    OBVIOUS
  <2> HIDE DEF X
  <2> QED BY SmallestSubset
<1>2. T \subseteq S /\ ~ \E s \in Injection(1..Cardinality(T), T) : Ordered(R, T, s)
  BY <1>1
<1>3. IsFiniteSet(T)
  BY <1>2, FS_Subset
<1>4. CASE T = {}
  <2> DEFINE s == [i \in {} |-> 0]
  <2>1. Cardinality(T) = 0 /\ 1..0 = {}
    BY <1>4, FS_EmptySet
  <2>2. s \in Injection(1..Cardinality(T), T) /\ Ordered(R, T, s)
    BY <1>4, <2>1 DEF Injection, IsInjective, Ordered
  <2> QED BY <1>2, <2>2
<1>5. CASE T # {}
  <2>1. PICK m \in T : Leads(R, T, m)
    <3>1. Ranks(R, T)
      BY <1>2 DEF Ranks
    <3> QED BY <1>3, <1>5, <3>1, FirstExists
  <2> DEFINE U == T \ {m}
             n == Cardinality(T)
  <2>2. n \in Nat /\ IsFiniteSet(U) /\ Cardinality(U) = n - 1 /\ Cardinality(U) \in Nat
    BY <1>3, <2>1, FS_RemoveElement, FS_CardinalityType
  <2>3. U \notin X /\ U \in SUBSET S
    BY <1>1, <1>2, <2>1
  <2>4. PICK u \in Injection(1..Cardinality(U), U) : Ordered(R, U, u)
    BY <2>3
  <2> DEFINE s == [i \in 1..n |-> IF i = 1 THEN m ELSE u[i - 1]]
  <2>5. u \in [1..(n - 1) -> U] /\ \A i, j \in 1..(n - 1) : u[i] = u[j] => i = j
    BY <2>2, <2>4 DEF Injection, IsInjective
  <2>6. \A i \in 1..n : i # 1 => i - 1 \in 1..(n - 1)
    BY <2>2
  <2>7. \A i \in 1..n : i # 1 => s[i] = u[i - 1] /\ s[i] \in U
    BY <2>5, <2>6
  <2>8. s \in [1..n -> T]
    BY <2>1, <2>7
  <2>9. \A i \in 1..n : i = 1 => s[i] = m
    OBVIOUS
  <2> HIDE DEF n, s
  <2>10. ASSUME NEW i \in 1..n, NEW j \in 1..n, s[i] = s[j] PROVE i = j
    <3>1. CASE i = 1 \/ j = 1
      BY <2>7, <2>9, <2>10, <3>1
    <3>2. CASE i # 1 /\ j # 1
      <4>1. i - 1 = j - 1
        BY <2>5, <2>6, <2>7, <2>10, <3>2
      <4> QED BY <4>1, <2>2
    <3> QED BY <3>1, <3>2
  <2>11. s \in Injection(1..n, T)
    BY <2>8, <2>10 DEF Injection, IsInjective
  <2>12. ASSUME NEW i \in 1..n, NEW j \in 1..n, i < j PROVE <<s[i], s[j]>> \in R
    <3>1. j # 1 /\ s[j] \in U
      BY <2>2, <2>7, <2>12
    <3>2. CASE i = 1
      BY <2>1, <2>9, <3>1, <3>2 DEF Leads
    <3>3. CASE i # 1
      <4>1. i - 1 \in 1..(n - 1) /\ j - 1 \in 1..(n - 1) /\ i - 1 < j - 1
        BY <2>2, <2>6, <2>12, <3>1, <3>3
      <4>2. <<u[i - 1], u[j - 1]>> \in R
        BY <2>4, <2>5, <4>1 DEF Ordered
      <4> QED BY <2>7, <3>1, <3>3, <4>2
    <3> QED BY <3>2, <3>3
  <2>13. Ordered(R, T, s)
    BY <2>8, <2>12 DEF Ordered
  <2> QED BY <1>2, <2>11, <2>13 DEF n
<1> QED BY <1>4, <1>5

\* An injection from as many numbers as the set has members reaches all of them.
LEMMA OrderIsOnto ==
    ASSUME NEW S, IsFiniteSet(S), NEW s \in Injection(1..Cardinality(S), S)
    PROVE  /\ Cardinality(S) \in Nat /\ s \in [1..Cardinality(S) -> S]
           /\ \A i, j \in 1..Cardinality(S) : s[i] = s[j] => i = j
           /\ \A e \in S : \E i \in 1..Cardinality(S) : s[i] = e
<1>1. Cardinality(S) \in Nat
  BY FS_CardinalityType
<1>2. Cardinality(1..Cardinality(S)) = Cardinality(S)
  BY <1>1, FS_Interval
<1>3. s \in Surjection(1..Cardinality(S), S)
  BY <1>2, FS_Injection
<1> QED BY <1>1, <1>3 DEF Injection, IsInjective, Surjection

-----------------------------------------------------------------------------
(***************************************************************************)
(* A walk through pages.  What was there when it began and it has not      *)
(* listed is beyond its cursor still, or was passed over at a page's end;  *)
(* and what it listed is not.                                              *)
(***************************************************************************)
Committed == seen \cup gone

PagesTyped ==
    /\ created \in [Rows -> Nat \cup {None}] /\ instant \in Nat
    /\ seen \subseteq Rows /\ gone \subseteq Rows /\ \A r \in Committed : created[r] \in Nat
    /\ walk \in [stage : {"new", "begun", "over"}, cursor : Cursors \cup {None}, listed : Seq(Rows),
                 known : SUBSET Rows, ends : SUBSET Rows]

Past(cursor, t, r) == cursor = None \/ t < cursor.at \/ (t = cursor.at /\ r < cursor.id)

PassedOver(r) == \E e \in walk.ends : Millisecond(created[r]) = Millisecond(created[e])

WalkStands ==
    /\ \A i \in DOMAIN walk.listed : walk.listed[i] \in Committed
    /\ walk.ends \subseteq Committed
    /\ walk.stage = "new" => walk.cursor = None /\ walk.listed = <<>>
    /\ walk.stage # "new" =>
           /\ walk.known \subseteq Committed
           /\ walk.stage = "over" \/ walk.cursor # None
           /\ \A r \in walk.known \ gone : \/ \E i \in DOMAIN walk.listed : walk.listed[i] = r
                                           \/ PassedOver(r)
                                           \/ walk.stage # "over" /\ Beyond(r)

ListedOnce == \A i, j \in DOMAIN walk.listed : walk.listed[i] = walk.listed[j] => i = j

ListedIsBehind == walk.cursor # None => \A i \in DOMAIN walk.listed : ~Beyond(walk.listed[i])

PagesInv == PagesTyped /\ WalkStands /\ ListedOnce /\ ListedIsBehind

\* Nothing that a walk is about changes when its committed rows keep their instants.
LEMMA WalkUndisturbed ==
    ASSUME PagesInv, UNCHANGED walk, created' \in [Rows -> Nat \cup {None}], instant' \in Nat,
           seen' \subseteq Rows, gone \subseteq gone', gone' \subseteq Rows, Committed \subseteq Committed',
           \A r \in Committed : created'[r] = created[r], \A r \in Committed' : created'[r] \in Nat
    PROVE  PagesInv'
<1>1. PagesTyped'
  BY DEF PagesInv, PagesTyped
<1>2. \A r \in Committed : Beyond(r)' <=> Beyond(r)
  BY DEF Beyond
<1>3. \A r \in Committed : PassedOver(r) => PassedOver(r)'
  BY DEF PagesInv, WalkStands, PassedOver, Millisecond
<1>4. WalkStands'
  <2>1. ASSUME walk.stage # "new", NEW r \in walk.known \ gone'
        PROVE  \/ \E i \in DOMAIN walk.listed : walk.listed[i] = r
               \/ PassedOver(r)'
               \/ walk.stage # "over" /\ Beyond(r)'
    <3>1. r \in walk.known \ gone /\ r \in Committed
      BY <2>1 DEF PagesInv, WalkStands
    <3>2. (\E i \in DOMAIN walk.listed : walk.listed[i] = r) \/ PassedOver(r) \/ (walk.stage # "over" /\ Beyond(r))
      BY <2>1, <3>1 DEF PagesInv, WalkStands
    <3> QED BY <1>2, <1>3, <3>1, <3>2
  <2> QED BY <2>1 DEF PagesInv, WalkStands
<1>5. ListedOnce' /\ ListedIsBehind'
  BY <1>2 DEF PagesInv, WalkStands, ListedOnce, ListedIsBehind
<1> QED BY <1>1, <1>4, <1>5 DEF PagesInv

LEMMA StoreSteps ==
    ASSUME PagesInv, InstantPasses \/ \E r \in Rows : BeginRow(r) \/ CommitRow(r) \/ LeavesFilter(r)
    PROVE  PagesInv'
<1>0. PagesTyped /\ None \notin Int
  BY PagesOK DEF PagesInv
<1>1. CASE InstantPasses
  BY <1>0, <1>1, WalkUndisturbed DEF InstantPasses, PagesTyped, Committed
<1>2. ASSUME NEW r \in Rows, BeginRow(r) PROVE PagesInv'
  <2>1. r \notin Committed
    BY <1>0, <1>2 DEF BeginRow, PagesTyped
  <2> QED BY <1>0, <1>2, <2>1, WalkUndisturbed DEF BeginRow, PagesTyped, Committed
<1>3. ASSUME NEW r \in Rows, CommitRow(r) PROVE PagesInv'
  BY <1>0, <1>3, WalkUndisturbed DEF CommitRow, PagesTyped, Committed
<1>4. ASSUME NEW r \in Rows, LeavesFilter(r) PROVE PagesInv'
  BY <1>0, <1>4, WalkUndisturbed DEF LeavesFilter, PagesTyped, Committed
<1> QED BY <1>1, <1>2, <1>3, <1>4

\* What a request finds, newest first.
LEMMA FoundInOrder ==
    ASSUME PagesTyped, NEW B, B \subseteq seen
    PROVE  LET rows == InOrder(B, Newer)
               n == Cardinality(B)
           IN  /\ n \in Nat /\ rows \in [1..n -> B]
               /\ \A i, j \in 1..n : rows[i] = rows[j] => i = j
               /\ \A r \in B : \E i \in 1..n : rows[i] = r
               /\ \A i, j \in 1..n : i < j => Newer(rows[i], rows[j])
<1> DEFINE rows == InOrder(B, Newer)
           n == Cardinality(B)
           R == {p \in B \X B : Newer(p[1], p[2])}
<1>1. IsFiniteSet(B) /\ \A r \in B : r \in Nat /\ created[r] \in Nat
  BY PagesOK, FS_Subset DEF PagesTyped, Committed
<1>2. Ranks(R, B)
  <2>1. \A a, b \in B : <<a, b>> \in R <=> Newer(a, b)
    OBVIOUS
  <2>2. ASSUME NEW a \in B, NEW b \in B PROVE a = b \/ Newer(a, b) \/ Newer(b, a)
    BY <1>1 DEF Newer
  <2>3. ASSUME NEW a \in B, NEW b \in B, NEW c \in B, Newer(a, b), Newer(b, c) PROVE Newer(a, c)
    BY <1>1, <2>3 DEF Newer
  <2> HIDE DEF R
  <2> QED BY <2>1, <2>2, <2>3 DEF Ranks
<1>3. PICK s \in Injection(1..n, B) : Ordered(R, B, s)
  BY <1>1, <1>2, OrderExists
<1>4. \A i, j \in DOMAIN s : i < j => Newer(s[i], s[j])
  BY <1>3 DEF Ordered
<1>5. rows \in Injection(1..n, B) /\ \A i, j \in DOMAIN rows : i < j => Newer(rows[i], rows[j])
  BY <1>3, <1>4 DEF InOrder
<1> HIDE DEF rows
<1>6. /\ n \in Nat /\ rows \in [1..n -> B] /\ (\A i, j \in 1..n : rows[i] = rows[j] => i = j)
      /\ \A r \in B : \E i \in 1..n : rows[i] = r
  BY <1>1, <1>5, OrderIsOnto
<1> QED BY <1>5, <1>6 DEF rows

\* One page: it is cut after PageSize rows, the cursor is the last of them, and what is left is beyond it.
LEMMA ListStep ==
    ASSUME PagesInv, ListTransactions
    PROVE  PagesInv'
<1> DEFINE B == {r \in seen : Beyond(r)}
           rows == InOrder(B, Newer)
           n == Cardinality(B)
           k == IF Page > n THEN n ELSE Page
           page == SubSeq(rows, 1, k)
           known == IF walk.stage = "new" THEN seen ELSE walk.known
           m == Len(walk.listed)
<1>0. PagesTyped /\ None \notin Int /\ None \notin Cursors /\ Page \in Nat \ {0}
      /\ Rows \subseteq Nat
  BY PagesOK DEF PagesInv
<1>1. /\ n \in Nat /\ rows \in [1..n -> B] /\ (\A i, j \in 1..n : rows[i] = rows[j] => i = j)
      /\ (\A r \in B : \E i \in 1..n : rows[i] = r)
      /\ \A i, j \in 1..n : i < j => Newer(rows[i], rows[j])
  BY <1>0, FoundInOrder
<1>2. Len(rows) = n /\ rows \in Seq(B)
  BY <1>1
<1>3. k \in Nat /\ k <= n /\ AtMost(Len(rows), Page) = k /\ (n > Page => k = Page) /\ (n <= Page => k = n)
  BY <1>0, <1>1, <1>2 DEF AtMost
<1>4. /\ walk.stage # "over" /\ UNCHANGED <<created, seen, gone, instant>>
      /\ walk' = [stage |-> IF n > Page THEN "begun" ELSE "over",
                 cursor |-> IF n > Page THEN EncodeCursor(Last(page)) ELSE None, listed |-> walk.listed \o page,
                  known |-> known, ends |-> IF n > Page THEN walk.ends \cup {Last(page)} ELSE walk.ends]
  BY <1>2, <1>3 DEF ListTransactions
<1>5. \A r \in B : r \in seen /\ r \in Rows /\ r \in Nat /\ created[r] \in Nat /\ Beyond(r)
  BY <1>0 DEF PagesTyped, Committed
<1> HIDE DEF rows, B, n
<1>6. page \in Seq(B) /\ Len(page) = k /\ \A i \in 1..k : page[i] = rows[i] /\ page[i] \in B
  <2>1. \A i \in 1..k : rows[i] \in B
    BY <1>1, <1>3
  <2> QED BY <1>3, <2>1, SubSeqProperties
<1>7. n > Page => Last(page) = rows[Page] /\ rows[Page] \in B
  BY <1>0, <1>3, <1>6 DEF Last
<1> DEFINE e == rows[Page]
<1> HIDE DEF page, k
<1>8. /\ walk.listed \in Seq(Rows) /\ page \in Seq(Rows) /\ m \in Nat /\ known \subseteq Rows
      /\ DOMAIN walk.listed = 1..m /\ walk.ends \subseteq Rows
  <2>1. walk.listed \in Seq(Rows) /\ walk.ends \subseteq Rows /\ seen \subseteq Rows
        /\ walk.known \subseteq Rows
    BY <1>0 DEF PagesTyped
  <2>2. page \in Seq(Rows)
    <3>1. B \subseteq Rows
      BY <1>5
    <3> QED BY <1>6, <3>1, SeqMonotonic
  <2>3. m \in Nat /\ DOMAIN walk.listed = 1..m
    BY <2>1
  <2>4. known \subseteq Rows
    <3>1. CASE walk.stage = "new"
      BY <2>1, <3>1
    <3>2. CASE walk.stage # "new"
      <4>1. walk.known \in SUBSET Rows
        BY <2>1, <3>2
      <4>2. known = walk.known
        BY <3>2
      <4> QED BY <4>1, <4>2
    <3> QED BY <3>1, <3>2
  <2> HIDE DEF m, known
  <2> QED BY <2>1, <2>2, <2>3, <2>4
<1>9. /\ walk.listed \o page \in Seq(Rows) /\ DOMAIN (walk.listed \o page) = 1..(m + k)
      /\ \A i \in 1..m : (walk.listed \o page)[i] = walk.listed[i]
      /\ \A i \in 1..k : (walk.listed \o page)[m + i] = rows[i]
  <2> HIDE DEF m
  <2>1. /\ walk.listed \o page \in Seq(Rows) /\ Len(walk.listed \o page) = m + k
        /\ \A i \in 1..(m + k) : (walk.listed \o page)[i] = IF i <= m THEN walk.listed[i] ELSE page[i - m]
    <3>1. \A i \in 1..(Len(walk.listed) + Len(page)) :
              (walk.listed \o page)[i] = IF i <= Len(walk.listed) THEN walk.listed[i] ELSE page[i - Len(walk.listed)]
      BY <1>8, ConcatProperties
    <3>2. walk.listed \o page \in Seq(Rows) /\ Len(walk.listed \o page) = Len(walk.listed) + Len(page)
      BY <1>8, ConcatProperties
    <3> QED BY <1>6, <3>1, <3>2 DEF m
  <2>2. \A i \in 1..k : m + i \in 1..(m + k) /\ ~(m + i <= m) /\ (m + i) - m = i
    BY <1>3, <1>8
  <2>3. \A i \in 1..m : i \in 1..(m + k) /\ i <= m
    BY <1>3, <1>8
  <2>4. DOMAIN (walk.listed \o page) = 1..(m + k)
    BY <1>3, <1>8, <2>1
  <2>5. ASSUME NEW i \in 1..k PROVE (walk.listed \o page)[m + i] = rows[i]
    <3>1. (walk.listed \o page)[m + i] = page[i]
      BY <2>1, <2>2
    <3> QED BY <1>6, <3>1
  <2>6. \A i \in 1..m : (walk.listed \o page)[i] = walk.listed[i]
    BY <2>1, <2>3
  <2> QED BY <2>1, <2>4, <2>5, <2>6
<1> DEFINE listed == walk.listed \o page
<1>24. DOMAIN listed = 1..(m + k)
  BY <1>9
<1>10. \A i \in 1..(m + k) : \/ i \in 1..m /\ listed[i] = walk.listed[i]
                             \/ i \notin 1..m /\ i - m \in 1..k /\ listed[i] = rows[i - m]
  <2> HIDE DEF m
  <2>1. \A i \in 1..(m + k) : i \in 1..m \/ (i \notin 1..m /\ i - m \in 1..k /\ i = m + (i - m))
    BY <1>3, <1>8
  <2> QED BY <1>9, <2>1
<1>11. /\ n > Page => walk'.cursor = EncodeCursor(e) /\ walk'.ends = walk.ends \cup {e} /\ walk'.stage # "over" /\ e \in B
       /\ ~(n > Page) => walk'.cursor = None /\ walk'.ends = walk.ends /\ walk'.stage = "over"
       /\ walk'.listed = listed /\ walk'.known = known
  BY <1>4, <1>7
<1>12. EncodeCursor(e).at = 2 * Millisecond(created[e]) /\ EncodeCursor(e).id = e
  BY DEF EncodeCursor
<1>13. n > Page => EncodeCursor(e) \in Cursors
  BY <1>5, <1>11 DEF EncodeCursor, Cursors, Millisecond
<1> HIDE DEF listed, m, known, e
<1>14. PagesTyped'
  <2>1. walk' \in [stage : {"new", "begun", "over"}, cursor : Cursors \cup {None}, listed : Seq(Rows),
                   known : SUBSET Rows, ends : SUBSET Rows]
    BY <1>4, <1>5, <1>7, <1>8, <1>9, <1>11, <1>13 DEF listed
  <2> QED BY <1>0, <1>4, <2>1 DEF PagesTyped, Committed
<1>15. Committed' = Committed /\ \A r : Newer(r, r)' = Newer(r, r)
  BY <1>4 DEF Committed, Newer
<1>16. known \subseteq Committed
  <2>1. walk.stage # "new" => walk.known \subseteq Committed
    BY DEF PagesInv, WalkStands
  <2> QED BY <1>0, <1>8, <2>1 DEF known, Committed
\* The row that a page ends with.
<1> DEFINE at == 2 * Millisecond(created[e])
           Behind(r) == created[r] < at \/ (created[r] = at /\ r < e)
<1>17. ASSUME n > Page
       PROVE  /\ e \in B /\ walk'.cursor # None /\ \A r : Past(walk'.cursor, created'[r], r) <=> Behind(r)
              /\ created[e] \in Nat /\ e \in Nat /\ at \in Nat
              /\ at <= created[e] /\ created[e] <= at + 1
  <2>1. e \in B /\ walk'.cursor = EncodeCursor(e) /\ walk'.cursor # None
    BY <1>0, <1>11, <1>13, <1>17
  <2>2. created[e] \in Nat /\ e \in Nat
    BY <1>5, <2>1
  <2>3. created' = created
    BY <1>4
  <2>4. ASSUME NEW t \in Nat
        PROVE  2 * Millisecond(t) \in Nat /\ 2 * Millisecond(t) <= t /\ t <= 2 * Millisecond(t) + 1
    BY DEF Millisecond
  <2>5. at \in Nat /\ at <= created[e] /\ created[e] <= at + 1
    BY <2>2, <2>4
  <2>6. walk'.cursor.at = at /\ walk'.cursor.id = e
    BY <1>12, <2>1
  <2> HIDE DEF at
  <2>7. \A r : Past(walk'.cursor, created'[r], r) <=> Behind(r)
    BY <2>1, <2>3, <2>6 DEF Past
  <2> QED BY <2>1, <2>2, <2>5, <2>7
<1> HIDE DEF at, Behind
<1>18. \A i \in DOMAIN listed : listed[i] \in Committed
  <2>1. \A i \in 1..m : walk.listed[i] \in Committed
    BY <1>8 DEF PagesInv, WalkStands
  <2>2. \A i \in 1..k : rows[i] \in Committed
    BY <1>5, <1>6 DEF Committed
  <2> QED BY <1>10, <1>24, <2>1, <2>2
<1>19. \A i \in 1..m : walk.cursor # None /\ walk.listed[i] \in Committed /\ ~Beyond(walk.listed[i])
  <2>1. ASSUME NEW i \in 1..m PROVE walk.cursor # None
    <3>1. walk.listed # <<>>
      BY <1>8, <2>1 DEF m
    <3> QED BY <1>4, <3>1 DEF PagesInv, WalkStands
  <2> QED BY <1>8, <2>1 DEF PagesInv, WalkStands, ListedIsBehind
<1>20. ListedOnce'
  <2>1. ASSUME NEW i \in 1..(m + k), NEW j \in 1..(m + k), listed[i] = listed[j] PROVE i = j
    <3>1. CASE i \in 1..m /\ j \in 1..m
      BY <1>8, <1>9, <2>1, <3>1 DEF PagesInv, ListedOnce, listed
    <3>2. CASE i \notin 1..m /\ j \notin 1..m
      <4>1. i - m \in 1..k /\ j - m \in 1..k /\ rows[i - m] = rows[j - m]
        BY <1>10, <2>1, <3>2
      <4>2. i - m \in 1..n /\ j - m \in 1..n
        BY <1>1, <1>3, <4>1
      <4>3. i - m = j - m
        BY <1>1, <4>1, <4>2
      <4> QED BY <1>3, <1>8, <4>3
    <3>3. ASSUME NEW a \in 1..m, NEW b \in 1..k, walk.listed[a] = rows[b] PROVE FALSE
      BY <1>5, <1>6, <1>19, <3>3
    <3> QED BY <1>10, <2>1, <3>1, <3>2, <3>3
  <2> QED BY <1>9, <1>11, <2>1 DEF ListedOnce, listed
<1>21. ListedIsBehind'
  <2> SUFFICES ASSUME n > Page PROVE \A i \in 1..(m + k) : ~Behind(listed[i])
    <3>1. CASE n > Page
      BY <1>11, <1>17, <1>24, <3>1 DEF ListedIsBehind, Beyond, Past
    <3>2. CASE ~(n > Page)
      BY <1>11, <3>2 DEF ListedIsBehind
    <3> QED BY <3>1, <3>2
  <2>1. ASSUME NEW i \in 1..m PROVE ~Behind(walk.listed[i])
    <3> DEFINE l == walk.listed[i]
    <3>1. walk.cursor \in Cursors /\ ~Beyond(l) /\ l \in Nat /\ created[l] \in Nat
      BY <1>0, <1>19 DEF PagesTyped, Committed
    <3>2. walk.cursor.at \in Nat /\ walk.cursor.id \in Nat /\ walk.cursor # None
      BY <1>0, <3>1 DEF Cursors
    <3>3. Beyond(e)
      BY <1>5, <1>17
    <3> HIDE DEF l
    <3>4. /\ ~(created[l] < walk.cursor.at \/ (created[l] = walk.cursor.at /\ l < walk.cursor.id))
          /\ created[e] < walk.cursor.at \/ (created[e] = walk.cursor.at /\ e < walk.cursor.id)
      BY <3>1, <3>2, <3>3 DEF Beyond
    <3>5. ~Behind(l)
      BY <1>17, <3>1, <3>2, <3>4 DEF Behind
    <3> QED BY <3>5 DEF l
  <2>2. ASSUME NEW i \in 1..k PROVE ~Behind(rows[i])
    <3>1. i \in 1..n /\ Page \in 1..n /\ i <= Page /\ rows[i] \in Nat /\ created[rows[i]] \in Nat
      BY <1>0, <1>1, <1>3, <1>5, <1>6
    <3>2. rows[i] = e \/ Newer(rows[i], e)
      BY <1>1, <3>1 DEF e
    <3> QED BY <1>17, <3>1, <3>2 DEF Newer, Behind
  <2> QED BY <1>10, <2>1, <2>2
<1>22. ASSUME NEW r \in known \ gone
       PROVE  \/ \E i \in DOMAIN listed : listed[i] = r
              \/ PassedOver(r)'
              \/ walk'.stage # "over" /\ Beyond(r)'
  <2>1. r \in seen
    BY <1>16, <1>22 DEF Committed
  <2>2. CASE ~Beyond(r)
    <3>1. walk.stage # "new"
      BY <2>2 DEF Beyond, PagesInv, WalkStands
    <3>2. r \in walk.known \ gone
      BY <1>22, <3>1 DEF known
    <3>3. (\E i \in DOMAIN walk.listed : walk.listed[i] = r) \/ PassedOver(r)
      BY <2>2, <3>1, <3>2 DEF PagesInv, WalkStands
    <3>4. ASSUME NEW i \in DOMAIN walk.listed, walk.listed[i] = r PROVE \E j \in DOMAIN listed : listed[j] = r
      BY <1>3, <1>8, <1>9, <3>4 DEF listed
    <3>5. PassedOver(r) => PassedOver(r)'
      BY <1>4, <1>11 DEF PassedOver, Millisecond
    <3> QED BY <3>3, <3>4, <3>5
  <2>3. CASE Beyond(r)
    <3>1. PICK i \in 1..n : rows[i] = r
      BY <1>1, <2>1, <2>3 DEF B
    <3>2. CASE i <= k
      <4>1. i \in 1..k /\ m + i \in 1..(m + k)
        BY <1>1, <1>3, <1>8, <3>2
      <4> QED BY <1>9, <3>1, <4>1 DEF listed
    <3>3. CASE i > k
      <4>1. n > Page /\ Page \in 1..n /\ Page < i
        BY <1>0, <1>1, <1>3, <3>3
      <4>2. Newer(e, r)
        BY <1>1, <3>1, <4>1 DEF e
      <4>3. r \in B /\ r \in Nat /\ created[r] \in Nat
        BY <1>1, <1>5, <3>1
      <4>4. created[r] < 2 * Millisecond(created[e]) \/ Millisecond(created[r]) = Millisecond(created[e])
        BY <1>17, <4>1, <4>2, <4>3 DEF Newer, Millisecond
      <4>5. Millisecond(created[r]) = Millisecond(created[e]) => PassedOver(r)'
        BY <1>4, <1>11, <4>1 DEF PassedOver, Millisecond
      <4>6. created[r] < at => Beyond(r)'
        BY <1>17, <4>1 DEF Beyond, Past, Behind
      <4> QED BY <1>11, <4>1, <4>4, <4>5, <4>6 DEF at
    <3> QED BY <1>1, <1>3, <3>2, <3>3
  <2> QED BY <2>2, <2>3
<1>23. WalkStands'
  <2>1. walk'.ends \subseteq Committed
    BY <1>5, <1>11 DEF PagesInv, WalkStands, Committed
  <2>2. walk'.stage = "over" \/ walk'.cursor # None
    BY <1>11, <1>17
  <2> QED BY <1>4, <1>11, <1>15, <1>16, <1>18, <1>22, <2>1, <2>2 DEF WalkStands
<1> QED BY <1>14, <1>20, <1>21, <1>23 DEF PagesInv

LEMMA CursorStep == PagesInv /\ [CursorNext]_pageVars => PagesInv'
<1> SUFFICES ASSUME PagesInv, [CursorNext]_pageVars PROVE PagesInv'
  OBVIOUS
<1>1. CASE UNCHANGED pageVars
  BY <1>1, WalkUndisturbed DEF pageVars, PagesInv, PagesTyped, Committed
<1> QED BY <1>1, StoreSteps, ListStep DEF CursorNext

LEMMA CursorStart == CursorInit => PagesInv
<1> SUFFICES ASSUME CursorInit PROVE PagesInv
  OBVIOUS
<1>1. walk = [stage |-> "new", cursor |-> None, listed |-> <<>>, known |-> {}, ends |-> {}]
  BY DEF CursorInit
<1>2. PagesTyped
  <2>1. <<>> \in Seq(Rows) /\ {} \in SUBSET Rows /\ None \in Cursors \cup {None}
    OBVIOUS
  <2> QED BY <1>1, <2>1 DEF CursorInit, PagesTyped, Committed
<1>3. walk.cursor = None /\ walk.listed = <<>> /\ walk.stage = "new" /\ walk.ends = {} /\ walk.stage # "over"
  BY <1>1
<1> QED BY <1>2, <1>3 DEF PagesInv, WalkStands, ListedOnce, ListedIsBehind

\* A walk that is over has listed what was there when it began, but for what a page's end passed over.
LEMMA PagesHold == PagesInv => CursorTypeOK /\ WalkIsComplete
<1> SUFFICES ASSUME PagesInv PROVE CursorTypeOK /\ WalkIsComplete
  OBVIOUS
<1>1. walk.listed \in Seq(Rows) /\ ToSet(walk.listed) = {walk.listed[i] : i \in DOMAIN walk.listed}
  BY DEF PagesInv, PagesTyped, ToSet
<1>2. CursorTypeOK
  BY <1>1 DEF PagesInv, PagesTyped, CursorTypeOK
<1>3. IsInjective(walk.listed)
  BY DEF PagesInv, ListedOnce, IsInjective
<1>4. ASSUME walk.stage = "over", NEW r \in walk.known \ (gone \cup ToSet(walk.listed)) PROVE PassedOver(r)
  BY <1>1, <1>4 DEF PagesInv, WalkStands
<1> QED BY <1>2, <1>3, <1>4 DEF WalkIsComplete, PassedOver

-----------------------------------------------------------------------------
(***************************************************************************)
(* The home board: the least and greatest of finite sets.                  *)
(***************************************************************************)
LEMMA ExtremesExist ==
    ASSUME NEW S, S \subseteq Int, IsFiniteSet(S), S # {}
    PROVE  /\ Min(S) \in S /\ Max(S) \in S
           /\ \A x \in S : Min(S) <= x /\ x <= Max(S)
<1>1. PICK m \in S : \A x \in S : m <= x
  <2> DEFINE R == {p \in S \X S : p[1] <= p[2]}
  <2>1. \A a, b \in S : <<a, b>> \in R <=> a <= b
    OBVIOUS
  <2>2. Ranks(R, S)
    <3> HIDE DEF R
    <3>1. \A a, b, c \in S : (a <= b /\ b <= c => a <= c) /\ (a <= b \/ b <= a)
      OBVIOUS
    <3> QED BY <2>1, <3>1 DEF Ranks
  <2>3. PICK m \in S : Leads(R, S, m)
    BY <2>2, FirstExists
  <2> HIDE DEF R
  <2>4. ASSUME NEW x \in S PROVE m <= x
    <3>1. m <= m
      OBVIOUS
    <3>2. x = m \/ <<m, x>> \in R
      BY <2>3 DEF Leads
    <3> QED BY <2>1, <2>3, <3>1, <3>2
  <2> QED BY <2>4
<1>2. PICK n \in S : \A x \in S : n >= x
  <2> DEFINE R == {p \in S \X S : p[1] >= p[2]}
  <2>1. \A a, b \in S : <<a, b>> \in R <=> a >= b
    OBVIOUS
  <2>2. Ranks(R, S)
    <3> HIDE DEF R
    <3>1. \A a, b, c \in S : (a >= b /\ b >= c => a >= c) /\ (a >= b \/ b >= a)
      OBVIOUS
    <3> QED BY <2>1, <3>1 DEF Ranks
  <2>3. PICK n \in S : Leads(R, S, n)
    BY <2>2, FirstExists
  <2> HIDE DEF R
  <2>4. ASSUME NEW x \in S PROVE n >= x
    <3>1. n >= n
      OBVIOUS
    <3>2. x = n \/ <<n, x>> \in R
      BY <2>3 DEF Leads
    <3> QED BY <2>1, <2>3, <3>1, <3>2
  <2> QED BY <2>4
<1>3. Min(S) \in S /\ \A x \in S : Min(S) <= x
  BY <1>1 DEF Min
<1>4. Max(S) \in S /\ \A x \in S : Max(S) >= x
  BY <1>2 DEF Max
<1> QED BY <1>3, <1>4

\* The least natural number of a kind.
LEMMA LeastOf ==
    ASSUME NEW n \in Nat, NEW X, X \subseteq 0..n, X # {}
    PROVE  \E m \in X : \A k \in X : m <= k
<1>1. IsFiniteSet(X) /\ X \subseteq Int
  <2>1. 0 \in Int /\ n \in Int
    OBVIOUS
  <2>2. IsFiniteSet(0..n)
    BY <2>1, FS_Interval
  <2>3. X \in SUBSET (0..n)
    OBVIOUS
  <2>4. \A x \in 0..n : x \in Int
    OBVIOUS
  <2>5. IsFiniteSet(X)
    BY <2>2, <2>3, FS_Subset
  <2> QED BY <2>3, <2>4, <2>5
<1> QED BY <1>1, ExtremesExist

-----------------------------------------------------------------------------
(***************************************************************************)
(* Labels.  The heights given out from the highest down are a function of  *)
(* the place in that order, each at least a gap after the one before.      *)
(***************************************************************************)
Pushed(f, y, n) ==
    /\ f \in [1..n -> Int]
    /\ \A k \in 1..n : f[k] = IF k = 1 THEN y[1] ELSE AtLeast(f[k - 1] + Gap, y[k])

\* The recursion the heights are given out by has a solution.
LEMMA PushedExists ==
    ASSUME NEW n \in Nat, NEW y \in [1..n -> Int]
    PROVE  \E f : Pushed(f, y, n)
<1> DEFINE X == {m \in 0..n : ~ \E f : Pushed(f, y, m)}
<1> SUFFICES ASSUME X # {} PROVE FALSE
  <2>1. n \in 0..n
    OBVIOUS
  <2> QED BY <2>1, Zenon
<1>1. PICK m \in X : \A k \in X : m <= k
  <2> X \subseteq 0..n
    OBVIOUS
  <2> HIDE DEF X
  <2> QED BY LeastOf
<1>2. m \in 0..n /\ ~ \E f : Pushed(f, y, m)
  BY <1>1
<1>3. m # 0
  <2>1. Pushed([k \in {} |-> 0], y, 0)
    BY DEF Pushed
  <2> QED BY <1>2, <2>1
<1>4. m - 1 \in 0..n /\ m - 1 \notin X
  <2> HIDE DEF X
  <2> QED BY <1>1, <1>2, <1>3
<1>5. PICK g : Pushed(g, y, m - 1)
  BY <1>4
<1> DEFINE last == IF m = 1 THEN y[1] ELSE AtLeast(g[m - 1] + Gap, y[m])
           f == [k \in 1..m |-> IF k = m THEN last ELSE g[k]]
<1>6. \A k \in 1..m : k # m => k \in 1..(m - 1) /\ g[k] \in Int /\ y[k] \in Int
  BY <1>2, <1>5 DEF Pushed
<1>7. last \in Int
  BY <1>2, <1>3, <1>5 DEF Pushed, AtLeast, Gap
<1>8. \A k \in 1..m : f[k] = IF k = m THEN last ELSE g[k]
  OBVIOUS
<1> HIDE DEF f
<1>9. f \in [1..m -> Int]
  BY <1>6, <1>7 DEF f
<1>10. ASSUME NEW k \in 1..m PROVE f[k] = IF k = 1 THEN y[1] ELSE AtLeast(f[k - 1] + Gap, y[k])
  <2>1. CASE k = m
    <3>1. k # 1 => f[k - 1] = g[m - 1]
      BY <1>2, <1>8, <2>1
    <3> QED BY <1>8, <2>1, <3>1
  <2>2. CASE k # m
    <3>1. k \in 1..(m - 1) /\ f[k] = g[k]
      BY <1>6, <1>8, <2>2
    <3>2. k # 1 => k - 1 \in 1..m /\ k - 1 # m /\ f[k - 1] = g[k - 1]
      BY <1>2, <1>8, <3>1
    <3> QED BY <1>5, <3>1, <3>2 DEF Pushed
  <2> QED BY <2>1, <2>2
<1> QED BY <1>2, <1>9, <1>10 DEF Pushed

\* Heights given out in order keep their order and their distance, and none is moved without need.
LEMMA PushedApart ==
    ASSUME NEW n \in Nat, NEW y \in [1..n -> Int], NEW f, Pushed(f, y, n), None \notin Int
    PROVE  /\ \A k \in 1..n : f[k] >= y[k] /\ (f[k] = y[k] \/ (k # 1 /\ f[k] = f[k - 1] + Gap))
           /\ \A a, b \in 1..n : a < b => f[b] >= f[a] + Gap
<1>1. ASSUME NEW k \in 1..n, k # 1 PROVE k - 1 \in 1..n /\ f[k] \in Int /\ f[k - 1] \in Int /\ y[k] \in Int
  BY <1>1 DEF Pushed
<1>2. ASSUME NEW k \in 1..n, k # 1
      PROVE  f[k] >= y[k] /\ f[k] >= f[k - 1] + Gap /\ (f[k] = y[k] \/ f[k] = f[k - 1] + Gap)
  <2>1. f[k] = AtLeast(f[k - 1] + Gap, y[k])
    BY <1>2 DEF Pushed
  <2>2. f[k - 1] + Gap # None
    <3>1. f[k - 1] \in Int
      BY <1>1, <1>2
    <3>2. f[k - 1] + Gap \in Int
      BY <3>1 DEF Gap
    <3> QED BY <3>2
  <2> QED BY <1>1, <1>2, <2>1, <2>2 DEF AtLeast, Gap
<1>3. \A k \in 1..n : k = 1 => f[k] = y[k] /\ y[k] \in Int
  BY DEF Pushed
<1>4. ASSUME NEW a \in 1..n PROVE \A b \in 1..n : a < b => f[b] >= f[a] + Gap
  <2> DEFINE X == {b \in 1..n : a < b /\ ~(f[b] >= f[a] + Gap)}
  <2> SUFFICES ASSUME X # {} PROVE FALSE
    OBVIOUS
  <2>1. PICK b \in X : \A k \in X : b <= k
    <3> X \subseteq 0..n
      OBVIOUS
    <3> HIDE DEF X
    <3> QED BY LeastOf
  <2>2. b \in 1..n /\ a < b /\ ~(f[b] >= f[a] + Gap) /\ b # 1 /\ f[a] \in Int
    BY <2>1 DEF Pushed
  <2>3. b - 1 \notin X
    <3> HIDE DEF X
    <3> QED BY <2>1, <2>2
  <2>4. CASE b - 1 = a
    BY <1>2, <2>2, <2>4
  <2>5. CASE b - 1 # a
    <3>1. b - 1 \in 1..n /\ a < b - 1
      BY <2>2, <2>5
    <3>2. f[b - 1] >= f[a] + Gap
      BY <2>3, <3>1
    <3>3. f[b] >= f[b - 1] + Gap
      BY <1>2, <2>2
    <3>4. f[b] \in Int /\ f[b - 1] \in Int
      BY <1>1, <2>2
    <3> QED BY <2>2, <3>2, <3>3, <3>4 DEF Gap
  <2> QED BY <2>4, <2>5
<1>5. \A k \in 1..n : f[k] >= y[k] /\ (f[k] = y[k] \/ (k # 1 /\ f[k] = f[k - 1] + Gap))
  BY <1>2, <1>3
<1> QED BY <1>4, <1>5

\* The order labels are pushed in.
LabelOrder(ys) == InOrder(DOMAIN ys, LAMBDA i, j : ys[i] < ys[j] \/ (ys[i] = ys[j] /\ i < j))

\* The order heights are given out in: by where each label would like to be, and then by its place.
LEMMA LabelsOrdered ==
    ASSUME NEW n \in Nat, NEW ys \in [1..n -> Int]
    PROVE  LET order == LabelOrder(ys)
           IN  /\ order \in [1..n -> 1..n] /\ \A i, j \in 1..n : order[i] = order[j] => i = j
               /\ \A i \in 1..n : \E k \in 1..n : order[k] = i
               /\ \A a, b \in 1..n : a < b => ys[order[a]] <= ys[order[b]]
<1> DEFINE order == LabelOrder(ys)
           S == DOMAIN ys
           R == {p \in S \X S : ys[p[1]] < ys[p[2]] \/ (ys[p[1]] = ys[p[2]] /\ p[1] < p[2])}
<1>1. S = 1..n /\ IsFiniteSet(S) /\ Cardinality(S) = n
  <2>1. S = 1..n /\ 1 \in Int /\ n \in Int
    OBVIOUS
  <2>2. IsFiniteSet(1..n) /\ Cardinality(1..n) = n
    BY <2>1, FS_Interval
  <2> QED BY <2>1, <2>2
<1>2. \A a, b \in S : <<a, b>> \in R <=> ys[a] < ys[b] \/ (ys[a] = ys[b] /\ a < b)
  OBVIOUS
<1>3. Ranks(R, S)
  <2> HIDE DEF R
  <2>1. \A a \in S : ys[a] \in Int /\ a \in Int
    OBVIOUS
  <2> HIDE DEF S
  <2> QED BY <1>2, <2>1 DEF Ranks
<1>4. PICK s \in Injection(1..Cardinality(S), S) : Ordered(R, S, s)
  BY <1>1, <1>3, OrderExists
<1>5. \A i \in DOMAIN s : s[i] \in S
  BY <1>4 DEF Injection
<1> HIDE DEF R
<1>6. \A i, j \in DOMAIN s : i < j => ys[s[i]] < ys[s[j]] \/ (ys[s[i]] = ys[s[j]] /\ s[i] < s[j])
  BY <1>2, <1>4, <1>5 DEF Ordered
<1>7. /\ order \in Injection(1..Cardinality(S), S)
      /\ \A i, j \in DOMAIN order : i < j => ys[order[i]] < ys[order[j]] \/ (ys[order[i]] = ys[order[j]] /\ order[i] < order[j])
  <2> DEFINE I == Injection(1..Cardinality(S), S)
             Good(t) == \A i, j \in DOMAIN t : i < j => ys[t[i]] < ys[t[j]] \/ (ys[t[i]] = ys[t[j]] /\ t[i] < t[j])
  <2>1. order = CHOOSE t \in I : Good(t)
    BY DEF LabelOrder, InOrder
  <2>2. s \in I /\ Good(s)
    BY <1>4, <1>6
  <2> HIDE DEF I, Good, order
  <2>3. order \in I /\ Good(order)
    BY <2>1, <2>2
  <2> QED BY <2>3 DEF I, Good
<1> HIDE DEF order, S
<1>8. /\ order \in [1..n -> S] /\ (\A i, j \in 1..n : order[i] = order[j] => i = j)
      /\ \A i \in S : \E k \in 1..n : order[k] = i
  <2>1. /\ order \in [1..Cardinality(S) -> S]
        /\ \A i, j \in 1..Cardinality(S) : order[i] = order[j] => i = j
        /\ \A e \in S : \E i \in 1..Cardinality(S) : order[i] = e
    <3>1. IsFiniteSet(S) /\ order \in Injection(1..Cardinality(S), S)
      BY <1>1, <1>7
    <3> QED BY <3>1, OrderIsOnto
  <2> QED BY <1>1, <2>1
<1>9. ASSUME NEW a \in 1..n, NEW b \in 1..n, a < b PROVE ys[order[a]] <= ys[order[b]]
  <2>1. ys[order[a]] \in Int /\ ys[order[b]] \in Int
    BY <1>1, <1>8
  <2> QED BY <1>7, <1>8, <1>9, <2>1
<1> QED BY <1>1, <1>8, <1>9 DEF order

\* What is taken for the labels' places is some function that satisfies their definition.
Placed(ys) ==
    CHOOSE out : out = [k \in DOMAIN ys |-> IF k = 1 THEN ys[LabelOrder(ys)[1]]
                                            ELSE AtLeast(out[k - 1] + Gap, ys[LabelOrder(ys)[k]])]

LEMMA SpreadIsPlaced ==
    ASSUME NEW ys
    PROVE  SpreadLabels(ys) = [i \in DOMAIN ys |-> Placed(ys)[CHOOSE k \in DOMAIN ys : LabelOrder(ys)[k] = i]]
BY Zenon DEF SpreadLabels, Placed, LabelOrder

LEMMA PlacedPushed ==
    ASSUME NEW n \in Nat, NEW ys \in [1..n -> Int], NEW y, y = [k \in 1..n |-> ys[LabelOrder(ys)[k]]]
    PROVE  y \in [1..n -> Int] /\ Pushed(Placed(ys), y, n)
<1> DEFINE order == LabelOrder(ys)
           g == Placed(ys)
           Next(f) == [k \in DOMAIN ys |-> IF k = 1 THEN ys[order[1]] ELSE AtLeast(f[k - 1] + Gap, ys[order[k]])]
<1>1. order \in [1..n -> 1..n]
  BY LabelsOrdered
<1>2. y \in [1..n -> Int] /\ (\A k \in 1..n : y[k] = ys[order[k]]) /\ DOMAIN ys = 1..n
  BY <1>1
<1>3. g = CHOOSE f : f = Next(f)
  BY Zenon DEF Placed
<1>4. PICK f : Pushed(f, y, n)
  BY <1>2, PushedExists
<1> HIDE DEF order, g
<1>5. f = Next(f)
  <2>1. f \in [1..n -> Int]
    BY <1>4 DEF Pushed
  <2>2. ASSUME NEW k \in 1..n PROVE f[k] = IF k = 1 THEN ys[order[1]] ELSE AtLeast(f[k - 1] + Gap, ys[order[k]])
    <3>1. f[k] = IF k = 1 THEN y[1] ELSE AtLeast(f[k - 1] + Gap, y[k])
      BY <1>4 DEF Pushed
    <3>2. y[k] = ys[order[k]]
      BY <1>2
    <3> QED BY <3>1, <3>2
  <2> QED BY <1>2, <2>1, <2>2
<1>6. g = Next(g)
  <2> HIDE DEF Next
  <2> QED BY <1>3, <1>5
<1>7. \A k \in 1..n : g[k] = IF k = 1 THEN y[1] ELSE AtLeast(g[k - 1] + Gap, y[k])
  <2>1. ASSUME NEW k \in 1..n PROVE g[k] = IF k = 1 THEN y[1] ELSE AtLeast(g[k - 1] + Gap, y[k])
    <3>1. g[k] = IF k = 1 THEN ys[order[1]] ELSE AtLeast(g[k - 1] + Gap, ys[order[k]])
      BY <1>2, <1>6, Zenon
    <3>2. y[k] = ys[order[k]] /\ (k = 1 => y[1] = ys[order[1]])
      BY <1>2
    <3> QED BY <3>1, <3>2
  <2> QED BY <2>1
<1>8. \A k \in 1..n : g[k] \in Int
  <2> DEFINE X == {k \in 1..n : g[k] \notin Int}
  <2> SUFFICES ASSUME X # {} PROVE FALSE
    OBVIOUS
  <2>1. PICK b \in X : \A k \in X : b <= k
    <3> X \subseteq 0..n
      OBVIOUS
    <3> HIDE DEF X
    <3> QED BY LeastOf
  <2>2. b \in 1..n /\ g[b] \notin Int /\ y[b] \in Int
    BY <1>2, <2>1
  <2>3. b # 1
    BY <1>7, <2>2
  <2>4. b - 1 \in 1..n /\ b - 1 \notin X
    <3> HIDE DEF X
    <3> QED BY <2>1, <2>2, <2>3
  <2>5. g[b - 1] \in Int
    BY <2>4
  <2>6. g[b - 1] + Gap \in Int
    BY <2>5 DEF Gap
  <2>7. g[b] \in {g[b - 1] + Gap, y[b]}
    BY <1>7, <2>2, <2>3 DEF AtLeast
  <2> QED BY <2>2, <2>6, <2>7
<1>9. g \in [1..n -> Int]
  <2>1. DOMAIN g = 1..n /\ g = [k \in 1..n |-> g[k]]
    BY <1>2, <1>6, Zenon
  <2> QED BY <1>8, <2>1
<1> QED BY <1>2, <1>7, <1>9 DEF Pushed, g

\* Wherever the labels would like to be, they end up apart, in order, and moved only when crowded.
LEMMA LabelsSpread ==
    ASSUME NEW n \in Nat, NEW ys \in [1..n -> Int], None \notin Int
    PROVE  LET out == SpreadLabels(ys)
           IN  /\ \A i, j \in DOMAIN ys : ys[i] < ys[j] => out[i] < out[j]
               /\ \A i, j \in DOMAIN ys : i # j => out[i] - out[j] >= Gap \/ out[j] - out[i] >= Gap
               /\ \A i \in DOMAIN ys : out[i] = ys[i] \/ (out[i] > ys[i] /\ \E j \in DOMAIN ys : out[i] = out[j] + Gap)
<1> DEFINE order == LabelOrder(ys)
           g == Placed(ys)
           y == [k \in 1..n |-> ys[order[k]]]
           at(i) == CHOOSE k \in DOMAIN ys : order[k] = i
           out == SpreadLabels(ys)
<1>1. DOMAIN ys = 1..n
  OBVIOUS
<1>2. /\ order \in [1..n -> 1..n] /\ (\A i, j \in 1..n : order[i] = order[j] => i = j)
      /\ (\A i \in 1..n : \E k \in 1..n : order[k] = i)
      /\ \A a, b \in 1..n : a < b => ys[order[a]] <= ys[order[b]]
  BY LabelsOrdered
<1>3. y \in [1..n -> Int] /\ Pushed(g, y, n)
  BY PlacedPushed
<1>4. /\ \A k \in 1..n : g[k] >= y[k] /\ (g[k] = y[k] \/ (k # 1 /\ g[k] = g[k - 1] + Gap))
      /\ \A a, b \in 1..n : a < b => g[b] >= g[a] + Gap
  BY <1>3, PushedApart
<1>5. \A k \in 1..n : g[k] \in Int /\ y[k] = ys[order[k]]
  BY <1>3 DEF Pushed
<1>6. \A i \in 1..n : out[i] = g[at(i)]
  BY <1>1, SpreadIsPlaced
<1> HIDE DEF order, g, y, out
<1>7. \A i \in 1..n : at(i) \in 1..n /\ order[at(i)] = i
  BY <1>1, <1>2
<1> HIDE DEF at
<1>8. ASSUME NEW i \in 1..n, NEW j \in 1..n
      PROVE  /\ out[i] \in Int /\ out[j] \in Int /\ ys[i] \in Int /\ ys[j] \in Int
             /\ at(i) < at(j) => ys[i] <= ys[j] /\ out[j] >= out[i] + Gap
             /\ i # j => at(i) < at(j) \/ at(j) < at(i)
  <2>1. at(i) \in 1..n /\ at(j) \in 1..n /\ order[at(i)] = i /\ order[at(j)] = j
    BY <1>7
  <2>2. out[i] = g[at(i)] /\ out[j] = g[at(j)] /\ out[i] \in Int /\ out[j] \in Int
    BY <1>5, <1>6, <2>1
  <2>3. at(i) < at(j) => ys[i] <= ys[j]
    BY <1>2, <2>1
  <2>4. at(i) < at(j) => out[j] >= out[i] + Gap
    BY <1>4, <2>1, <2>2
  <2>5. i # j => at(i) < at(j) \/ at(j) < at(i)
    BY <2>1
  <2> QED BY <2>2, <2>3, <2>4, <2>5
<1>9. Gap = 14
  BY DEF Gap
<1>10. ASSUME NEW i \in 1..n, NEW j \in 1..n, ys[i] < ys[j] PROVE out[i] < out[j]
  <2>1. i # j /\ ys[i] \in Int /\ ys[j] \in Int
    BY <1>8, <1>10
  <2>2. ~(at(j) < at(i))
    BY <1>8, <1>10, <2>1
  <2>3. out[j] >= out[i] + Gap /\ out[i] \in Int /\ out[j] \in Int
    BY <1>8, <2>1, <2>2
  <2> QED BY <1>9, <2>3
<1>11. ASSUME NEW i \in 1..n, NEW j \in 1..n, i # j PROVE out[i] - out[j] >= Gap \/ out[j] - out[i] >= Gap
  <2>1. out[i] \in Int /\ out[j] \in Int /\ (out[j] >= out[i] + Gap \/ out[i] >= out[j] + Gap)
    BY <1>8, <1>11
  <2> QED BY <1>9, <2>1
<1>12. ASSUME NEW i \in 1..n PROVE out[i] = ys[i] \/ (out[i] > ys[i] /\ \E j \in 1..n : out[i] = out[j] + Gap)
  <2> DEFINE k == at(i)
  <2>1. k \in 1..n /\ order[k] = i /\ out[i] = g[k] /\ y[k] = ys[i] /\ ys[i] \in Int /\ g[k] \in Int
    BY <1>5, <1>6, <1>7
  <2> HIDE DEF k
  <2>2. g[k] >= y[k] /\ (g[k] = y[k] \/ (k # 1 /\ g[k] = g[k - 1] + Gap))
    BY <1>4, <2>1
  <2>3. CASE k # 1 /\ g[k] = g[k - 1] + Gap
    <3>1. k - 1 \in 1..n
      BY <2>1, <2>3
    <3> DEFINE j == order[k - 1]
    <3>2. j \in 1..n /\ at(j) = k - 1
      BY <1>2, <1>7, <3>1
    <3>3. out[i] = out[j] + Gap
      BY <1>6, <2>1, <2>3, <3>2
    <3> HIDE DEF j
    <3> QED BY <2>1, <2>2, <3>2, <3>3
  <2> QED BY <2>1, <2>2, <2>3
<1> QED BY <1>1, <1>10, <1>11, <1>12 DEF out

-----------------------------------------------------------------------------
(***************************************************************************)
(* The answer, statement by statement.  What it read stays true of what    *)
(* can change no more, and it tells of each alert live all along.          *)
(***************************************************************************)
Boarded == [Charted -> [1..LastHour -> Counts]]

BoardTyped ==
    /\ ended \in Boarded /\ hour \in Shown..LastHour /\ live \subseteq Alerts /\ suspended \subseteq Accounts
    /\ moves \in 0..MaxMoves

LoadTyped ==
    /\ DOMAIN load = {"stage", "held", "verdict", "rates", "hours", "from", "read", "late", "alerted", "series", "at"}
    /\ load.stage \in {"idle", "rates", "hours", "alerted", "build", "drawn"}

Tells(verdict, a) ==
    AlertOf[a].severity # "informational" => \E i \in DOMAIN verdict :
        /\ verdict[i].kind = AlertOf[a].kind /\ verdict[i].subject \in {None, AlertOf[a].subject}
        /\ verdict[i].since <= AlertOf[a].raised
        /\ AlertOf[a].severity = "critical" => verdict[i].severity = "critical"

OnRoute(a) == AlertOf[a].kind = "health:success_rate:route"

HeldTold ==
    /\ load.held \subseteq live
    /\ "alerts" \in may => \A a \in load.held :
           /\ Tells(load.verdict, a)
           /\ load.stage \in {"build", "drawn"} /\ OnRoute(a) => AlertOf[a].subject \in load.alerted

\* Nothing has ended in an hour of a route, nor been moved there or away, since the hours were read.
Settled(r, h) == <<r, h>> \notin load.late

HoursStand ==
    load.stage \in {"alerted", "build", "drawn"} =>
        /\ load.read \in Shown..hour /\ load.from = load.read - Shown + 1 /\ load.hours \in Boarded
        /\ \A r \in Charted, h \in 1..LastHour : h <= load.read /\ Settled(r, h) => load.hours[r][h] = ended[r][h]

SeriesStands ==
    load.stage = "drawn" =>
        /\ load.at \in load.read..hour /\ DOMAIN load.series \subseteq Charted
        /\ \A r \in DOMAIN load.series :
               /\ r \in load.alerted => load.series[r].departing
               /\ load.series[r].hours \in [1..Shown -> Counts]
               /\ \A i \in 1..Shown : load.at - Shown + i <= load.read /\ Settled(r, load.at - Shown + i) =>
                      load.series[r].hours[i] = ended[r][load.at - Shown + i]

BoardInv == BoardTyped /\ LoadTyped /\ HeldTold /\ HoursStand /\ SeriesStands

LEMMA HoursTyped ==
    /\ Shown \in Nat \ {0} /\ LastHour \in Nat /\ LastHour >= Shown /\ None \notin Int
    /\ \A h \in Shown..LastHour : h \in Nat /\ h \in 1..LastHour
BY BoardOK

\* The surroundings move: alerts, accounts, the hour, and what ended in hours that are settled no more.
LEMMA SurroundingsStep ==
    ASSUME BoardInv, BoardTyped', LoadTyped', may' = may,
           load'.held \subseteq load.held, load'.held \subseteq live', load'.stage = load.stage,
           load'.verdict = load.verdict, load'.hours = load.hours, load'.from = load.from, load'.read = load.read,
           load'.alerted = load.alerted, load'.series = load.series, load'.at = load.at, hour' >= hour,
           \A r \in Charted, h \in 1..LastHour :
               <<r, h>> \notin load'.late => <<r, h>> \notin load.late /\ ended'[r][h] = ended[r][h]
    PROVE  BoardInv'
<1>1. hour \in Nat /\ hour' \in Nat /\ Shown \in Nat \ {0} /\ LastHour \in Nat /\ hour <= LastHour
  BY HoursTyped DEF BoardInv, BoardTyped
<1>2. HeldTold'
  BY DEF BoardInv, HeldTold, Tells, OnRoute
<1>3. HoursStand'
  <2> SUFFICES ASSUME load.stage \in {"alerted", "build", "drawn"} PROVE HoursStand'
    BY DEF HoursStand
  <2>1. /\ load.read \in Shown..hour /\ load.from = load.read - Shown + 1 /\ load.hours \in Boarded
        /\ \A r \in Charted, h \in 1..LastHour : h <= load.read /\ Settled(r, h) => load.hours[r][h] = ended[r][h]
    BY DEF BoardInv, HoursStand
  <2>2. load.read \in Shown..hour'
    BY <1>1, <2>1
  <2>3. ASSUME NEW r \in Charted, NEW h \in 1..LastHour, h <= load.read, <<r, h>> \notin load'.late
        PROVE  load.hours[r][h] = ended'[r][h]
    BY <2>1, <2>3 DEF Settled
  <2> QED BY <2>1, <2>2, <2>3 DEF HoursStand, Settled
<1>4. SeriesStands'
  <2> SUFFICES ASSUME load.stage = "drawn" PROVE SeriesStands'
    BY DEF SeriesStands
  <2>1. load.at \in load.read..hour /\ DOMAIN load.series \subseteq Charted /\ load.read \in Shown..hour
    BY DEF BoardInv, SeriesStands, HoursStand
  <2>2. load.at \in load.read..hour'
    BY <1>1, <2>1
  <2>3. ASSUME NEW r \in DOMAIN load.series, NEW i \in 1..Shown, load.at - Shown + i <= load.read,
               <<r, load.at - Shown + i>> \notin load'.late
        PROVE  load.series[r].hours[i] = ended'[r][load.at - Shown + i]
    <3>1. load.at - Shown + i \in 1..LastHour
      BY <1>1, <2>1
    <3>2. Settled(r, load.at - Shown + i) /\ ended'[r][load.at - Shown + i] = ended[r][load.at - Shown + i]
      BY <2>1, <2>3, <3>1 DEF Settled
    <3>3. load.series[r].hours[i] = ended[r][load.at - Shown + i]
      BY <2>3, <3>2 DEF BoardInv, SeriesStands
    <3> QED BY <3>2, <3>3
  <2>4. \A r \in DOMAIN load.series : /\ r \in load.alerted => load.series[r].departing
                                      /\ load.series[r].hours \in [1..Shown -> Counts]
    BY DEF BoardInv, SeriesStands
  <2> QED BY <2>1, <2>2, <2>3, <2>4 DEF SeriesStands, Settled
<1> QED BY <1>2, <1>3, <1>4 DEF BoardInv

\* One more transaction in an hour, and one fewer where there was one of the kind, are still counts.
LEMMA EndingTyped ==
    ASSUME NEW hours \in [1..LastHour -> Counts], NEW h \in 1..LastHour, NEW ok \in BOOLEAN
    PROVE  /\ Ending(hours, h, ok) \in [1..LastHour -> Counts]
           /\ \A k \in 1..LastHour : k # h => Ending(hours, h, ok)[k] = hours[k]
<1>1. hours[h].terminal \in Nat /\ hours[h].succeeded \in Nat /\ One(ok) \in {0, 1}
  BY DEF Counts, One
<1>2. Counting(hours[h], ok) \in Counts
  BY <1>1 DEF Counting, Counts
<1> QED BY <1>2 DEF Ending

LEMMA ReopeningTyped ==
    ASSUME NEW hours \in [1..LastHour -> Counts], NEW h \in 1..LastHour, NEW ok, Counted(hours[h], ok)
    PROVE  /\ Reopening(hours, h, ok) \in [1..LastHour -> Counts]
           /\ \A k \in 1..LastHour : k # h => Reopening(hours, h, ok)[k] = hours[k]
<1>1. hours[h].terminal \in Nat /\ hours[h].succeeded \in Nat
  BY DEF Counts
<1>2. hours[h].terminal - 1 \in Nat /\ hours[h].succeeded - One(ok) \in Nat
  BY <1>1 DEF Counted, One
<1>3. Discounting(hours[h], ok) \in Counts
  BY <1>2 DEF Discounting, Counts
<1> QED BY <1>3 DEF Reopening

\* What a transaction that ends, or ends anew, leaves behind, given what its route ends with.
LEMMA EndingStep ==
    ASSUME BoardInv, NEW r \in Charted, NEW e \in [1..LastHour -> Counts], NEW hs \in SUBSET (1..LastHour),
           Moves, UNCHANGED <<hour, live, suspended, may>>, ended' = [ended EXCEPT ![r] = e],
           load' = [load EXCEPT !.late = @ \cup {<<r, h>> : h \in hs}],
           \A h \in 1..LastHour : h \notin hs => e[h] = ended[r][h]
    PROVE  BoardInv'
<1>0. BoardTyped /\ LoadTyped /\ load.held \subseteq live /\ hour \in Nat
  BY HoursTyped DEF BoardInv, HeldTold, BoardTyped
<1>1. moves' \in 0..MaxMoves
  BY <1>0, BoardOK DEF Moves, BoardTyped
<1>2. ended' \in Boarded /\ ended'[r] = e /\ \A s \in Charted : s # r => ended'[s] = ended[s]
  BY <1>0 DEF BoardTyped, Boarded
<1> DEFINE more == load.late \cup {<<r, h>> : h \in hs}
<1>3. /\ DOMAIN load' = DOMAIN load /\ load'.late = more /\ load'.held = load.held
      /\ load'.stage = load.stage /\ load'.verdict = load.verdict /\ load'.hours = load.hours
      /\ load'.from = load.from /\ load'.read = load.read /\ load'.alerted = load.alerted
      /\ load'.series = load.series /\ load'.at = load.at
  BY <1>0 DEF LoadTyped
<1>4. ASSUME NEW s \in Charted, NEW h \in 1..LastHour, <<s, h>> \notin more
      PROVE  <<s, h>> \notin load.late /\ ended'[s][h] = ended[s][h]
  <2>1. s = r => h \notin hs
    BY <1>4
  <2> QED BY <1>2, <1>4, <2>1
<1> HIDE DEF more
<1>5. BoardTyped' /\ LoadTyped'
  BY <1>0, <1>1, <1>2, <1>3 DEF BoardTyped, LoadTyped
<1> QED BY <1>0, <1>3, <1>4, <1>5, SurroundingsStep

LEMMA MoveSteps ==
    ASSUME BoardInv,
           \/ \E r \in Charted, h \in 1..LastHour, ok \in BOOLEAN :
                  TransactionEnds(r, h, ok) \/ \E from \in 1..LastHour : CorrectionApplies(r, from, h, ok)
           \/ HourTurns \/ (\E a \in Alerts : AlertMoves(a)) \/ (\E p \in Accounts : AccountMoves(p))
    PROVE  BoardInv'
<1>0. BoardTyped /\ LoadTyped /\ load.held \subseteq live /\ hour \in Nat /\ hour \in 1..LastHour
  BY HoursTyped DEF BoardInv, HeldTold, BoardTyped
<1>1. Moves => moves' \in 0..MaxMoves
  BY <1>0, BoardOK DEF Moves, BoardTyped
<1>2. ASSUME NEW r \in Charted, NEW h \in 1..LastHour, NEW ok \in BOOLEAN, TransactionEnds(r, h, ok)
      PROVE  BoardInv'
  <2> DEFINE e == Ending(ended[r], h, ok)
  <2>1. ended[r] \in [1..LastHour -> Counts]
    BY <1>0 DEF BoardTyped, Boarded
  <2>2. e \in [1..LastHour -> Counts] /\ \A k \in 1..LastHour : k \notin {h} => e[k] = ended[r][k]
    BY <2>1, EndingTyped
  <2>3. /\ Moves /\ UNCHANGED <<hour, live, suspended, may>> /\ ended' = [ended EXCEPT ![r] = e]
        /\ load' = [load EXCEPT !.late = @ \cup {<<r, h>>}]
    BY <1>2 DEF TransactionEnds
  <2>4. {<<r, k>> : k \in {h}} = {<<r, h>>}
    OBVIOUS
  <2> HIDE DEF e
  <2> QED BY <2>2, <2>3, <2>4, EndingStep
<1>6. ASSUME NEW r \in Charted, NEW from \in 1..LastHour, NEW to \in 1..LastHour, NEW ok \in BOOLEAN,
             CorrectionApplies(r, from, to, ok)
      PROVE  BoardInv'
  <2> DEFINE f == Reopening(ended[r], from, ~ok)
             e == Ending(f, to, ok)
  <2>1. ended[r] \in [1..LastHour -> Counts] /\ Counted(ended[r][from], ~ok)
    BY <1>0, <1>6 DEF BoardTyped, Boarded, CorrectionApplies
  <2>2. f \in [1..LastHour -> Counts] /\ \A k \in 1..LastHour : k # from => f[k] = ended[r][k]
    BY <2>1, ReopeningTyped
  <2>3. /\ Moves /\ UNCHANGED <<hour, live, suspended, may>> /\ ended' = [ended EXCEPT ![r] = e]
        /\ load' = [load EXCEPT !.late = @ \cup {<<r, from>>, <<r, to>>}]
    BY <1>6 DEF CorrectionApplies
  <2>4. {<<r, k>> : k \in {from, to}} = {<<r, from>>, <<r, to>>}
    OBVIOUS
  <2> HIDE DEF f
  <2>5. e \in [1..LastHour -> Counts] /\ \A k \in 1..LastHour : k \notin {from, to} => e[k] = ended[r][k]
    <3>1. e \in [1..LastHour -> Counts] /\ \A k \in 1..LastHour : k # to => e[k] = f[k]
      BY <2>2, EndingTyped
    <3> HIDE DEF e
    <3> QED BY <2>2, <3>1
  <2> HIDE DEF e
  <2> QED BY <2>3, <2>4, <2>5, EndingStep
<1>3. CASE HourTurns
  <2>1. UNCHANGED <<ended, live, suspended, may, load>> /\ hour' \in Shown..LastHour /\ hour' >= hour
    BY <1>0, <1>3, BoardOK DEF HourTurns, BoardTyped
  <2>2. BoardTyped' /\ LoadTyped'
    BY <1>0, <1>1, <1>3, <2>1 DEF BoardTyped, LoadTyped, HourTurns
  <2> QED BY <1>0, <2>1, <2>2, SurroundingsStep
<1>4. ASSUME NEW a \in Alerts, AlertMoves(a) PROVE BoardInv'
  <2> DEFINE kept == load.held \ {a}
  <2>1. UNCHANGED <<ended, hour, suspended, may>> /\ moves' \in 0..MaxMoves /\ load' = [load EXCEPT !.held = kept]
    BY <1>1, <1>4 DEF AlertMoves
  <2>2. live' \subseteq Alerts /\ kept \subseteq live' /\ kept \subseteq load.held
    BY <1>0, <1>4 DEF AlertMoves, BoardTyped
  <2> HIDE DEF kept
  <2>3. /\ DOMAIN load' = DOMAIN load /\ load'.held = kept
        /\ load'.stage = load.stage /\ load'.verdict = load.verdict /\ load'.hours = load.hours
        /\ load'.from = load.from /\ load'.read = load.read /\ load'.alerted = load.alerted /\ load'.late = load.late
        /\ load'.series = load.series /\ load'.at = load.at
    BY <1>0, <2>1 DEF LoadTyped
  <2>4. LoadTyped'
    BY <1>0, <2>3 DEF LoadTyped
  <2>5. BoardTyped'
    BY <1>0, <2>1, <2>2 DEF BoardTyped
  <2> QED BY <1>0, <2>1, <2>2, <2>3, <2>4, <2>5, SurroundingsStep
<1>5. ASSUME NEW p \in Accounts, AccountMoves(p) PROVE BoardInv'
  <2>1. UNCHANGED <<ended, hour, live, may, load>> /\ moves' \in 0..MaxMoves /\ suspended' \subseteq Accounts
    BY <1>0, <1>1, <1>5 DEF AccountMoves, BoardTyped
  <2>2. BoardTyped' /\ LoadTyped'
    BY <1>0, <2>1 DEF BoardTyped, LoadTyped
  <2> QED BY <1>0, <2>1, <2>2, SurroundingsStep
<1> QED BY <1>2, <1>3, <1>4, <1>5, <1>6

-----------------------------------------------------------------------------
(***************************************************************************)
(* The verdict: a problem for each alert that is not merely informational. *)
(***************************************************************************)

\* The oldest of a group there is one of.
LEMMA OldestIs ==
    ASSUME NEW group, group \subseteq Alerts, group # {}
    PROVE  Oldest(group) \in group /\ \A b \in group : AlertOf[Oldest(group)].raised <= AlertOf[b].raised
<1> DEFINE R == {p \in group \X group : Older(p[1], p[2])}
<1>1. \A a, b \in group : <<a, b>> \in R <=> Older(a, b)
  OBVIOUS
<1>2. \A a \in group : AlertOf[a].raised \in Nat
  BY BoardOK
<1>3. Ranks(R, group)
  <2> HIDE DEF R
  <2> QED BY <1>1, <1>2 DEF Ranks, Older
<1>4. IsFiniteSet(group)
  BY BoardOK, FS_Subset
<1> HIDE DEF R
<1>5. PICK m \in group : Leads(R, group, m)
  BY <1>3, <1>4, FirstExists
<1>6. \A b \in group : Older(m, b)
  <2>1. ASSUME NEW b \in group PROVE Older(m, b)
    <3>1. b = m \/ <<m, b>> \in R
      BY <1>5 DEF Leads
    <3>2. b = m => Older(m, b)
      BY <1>2 DEF Older
    <3> QED BY <1>1, <3>1, <3>2
  <2> QED BY <2>1
<1>7. Oldest(group) \in group /\ \A b \in group : Older(Oldest(group), b)
  BY <1>5, <1>6 DEF Oldest
<1> QED BY <1>7 DEF Older

\* Alerts of one key make one problem.
LEMMA SameProblem ==
    ASSUME NEW a, NEW b, ProblemKey(b) = ProblemKey(a)
    PROVE  /\ AlertKind(b) = AlertKind(a)
           /\ ~Collapsed(b) => AlertOf[b].subject = AlertOf[a].subject
BY DEF ProblemKey

\* A problem of the alerts, and the one that an alert is told by.
LEMMA ProblemsGrouped ==
    ASSUME NEW alerts, alerts \subseteq Alerts
    PROVE  /\ IsFiniteSet(GroupProblems(alerts))
           /\ \A p \in GroupProblems(alerts) : p.severity \in {"critical", "warning"} /\ p.since \in Nat
           /\ \A a \in alerts : AlertOf[a].severity # "informational" => \E p \in GroupProblems(alerts) :
                  /\ p.kind = AlertOf[a].kind /\ p.subject \in {None, AlertOf[a].subject}
                  /\ p.since <= AlertOf[a].raised
                  /\ AlertOf[a].severity = "critical" => p.severity = "critical"
<1> DEFINE heard == {a \in alerts : AlertOf[a].severity # "informational"}
           group(a) == {b \in heard : ProblemKey(b) = ProblemKey(a)}
           f == [a \in heard |-> ProblemOf(group(a))]
<1>1. GroupProblems(alerts) = {ProblemOf(group(a)) : a \in heard}
  BY DEF GroupProblems
<1>2. IsFiniteSet(heard) /\ heard \subseteq Alerts
  BY BoardOK, FS_Subset
<1>3. IsFiniteSet(GroupProblems(alerts))
  <2>1. f \in Surjection(heard, GroupProblems(alerts))
    BY <1>1 DEF Surjection
  <2> HIDE DEF f, heard
  <2> QED BY <1>2, <2>1, FS_Surjection
<1>4. ASSUME NEW a \in heard
      PROVE  LET p == ProblemOf(group(a))
             IN  /\ p.severity \in {"critical", "warning"} /\ p.since \in Nat
                 /\ p.kind = AlertOf[a].kind /\ p.subject \in {None, AlertOf[a].subject}
                 /\ p.since <= AlertOf[a].raised
                 /\ AlertOf[a].severity = "critical" => p.severity = "critical"
  <2> DEFINE g == group(a)
             o == Oldest(g)
             p == ProblemOf(g)
  <2>1. a \in g /\ g \subseteq Alerts /\ \A b \in g : ProblemKey(b) = ProblemKey(a)
    BY <1>2
  <2> HIDE DEF g, heard
  <2>2. o \in g /\ \A b \in g : AlertOf[o].raised <= AlertOf[b].raised
    BY <2>1, OldestIs
  <2>3. /\ p.severity = IF \E b \in g : AlertOf[b].severity = "critical" THEN "critical" ELSE "warning"
        /\ p.kind = AlertKind(o) /\ p.subject = IF Collapsed(o) THEN None ELSE AlertOf[o].subject
        /\ p.since = AlertOf[o].raised
    BY DEF ProblemOf
  <2> HIDE DEF o, p
  <2>4. AlertKind(o) = AlertKind(a) /\ (~Collapsed(o) => AlertOf[o].subject = AlertOf[a].subject)
    BY <2>1, <2>2, SameProblem
  <2>5. AlertOf[o].raised \in Nat
    BY <2>1, <2>2, BoardOK
  <2>6. p.severity \in {"critical", "warning"} /\ (AlertOf[a].severity = "critical" => p.severity = "critical")
    BY <2>1, <2>3
  <2>7. p.kind = AlertOf[a].kind /\ p.subject \in {None, AlertOf[a].subject}
    BY <2>3, <2>4 DEF AlertKind
  <2> QED BY <2>1, <2>2, <2>3, <2>5, <2>6, <2>7 DEF p, g
<1> HIDE DEF group
<1> QED BY <1>1, <1>3, <1>4

\* The verdict made at once from what is live tells of each alert that is.
LEMMA VerdictTells ==
    ASSUME BoardInv, "alerts" \in may
    PROVE  \A a \in live : Tells(Problems, a)
<1> DEFINE G == GroupProblems(live)
           A == IF "providers" \in may THEN {Suspension(p) : p \in suspended} ELSE {}
           S == G \cup A
           R == {p \in S \X S : NotLater(p[1], p[2])}
<1>1. live \subseteq Alerts /\ suspended \subseteq Accounts
  BY DEF BoardInv, BoardTyped
<1>2. /\ IsFiniteSet(G) /\ \A p \in G : p.severity \in {"critical", "warning"} /\ p.since \in Nat
      /\ \A a \in live : AlertOf[a].severity # "informational" => \E p \in G :
             /\ p.kind = AlertOf[a].kind /\ p.subject \in {None, AlertOf[a].subject}
             /\ p.since <= AlertOf[a].raised
             /\ AlertOf[a].severity = "critical" => p.severity = "critical"
  BY <1>1, ProblemsGrouped
<1>3. IsFiniteSet(A) /\ \A p \in A : p.severity \in {"critical", "warning"} /\ p.since \in Nat
  <2> DEFINE f == [p \in suspended |-> Suspension(p)]
             B == {Suspension(p) : p \in suspended}
  <2>1. f \in Surjection(suspended, B)
    BY DEF Surjection
  <2>2. IsFiniteSet(suspended)
    BY <1>1, BoardOK, FS_Subset
  <2>3. \A p \in suspended : Suspension(p).severity = "critical" /\ Suspension(p).since \in Nat
    BY <1>1, BoardOK DEF Suspension
  <2>4. IsFiniteSet(B)
    <3> HIDE DEF f, B
    <3> QED BY <2>1, <2>2, FS_Surjection
  <2>5. IsFiniteSet({})
    BY FS_EmptySet
  <2> QED BY <2>3, <2>4, <2>5
<1>4. Problems = InOrder(S, NotLater)
  BY DEF Problems
<1> HIDE DEF G, A
<1>5. IsFiniteSet(S) /\ \A p \in S : p.severity \in {"critical", "warning"} /\ p.since \in Nat
  <2>1. IsFiniteSet(S)
    BY <1>2, <1>3, FS_Union
  <2> QED BY <1>2, <1>3, <2>1
<1>6. \A x, y \in S : <<x, y>> \in R <=> NotLater(x, y)
  OBVIOUS
<1> HIDE DEF S, R
<1>7. Ranks(R, S)
  <2>1. ASSUME NEW x \in S, NEW y \in S PROVE NotLater(x, y) \/ NotLater(y, x)
    BY <1>5 DEF NotLater, Sooner
  <2>2. ASSUME NEW x \in S, NEW y \in S, NEW z \in S, NotLater(x, y), NotLater(y, z) PROVE NotLater(x, z)
    BY <1>5, <2>2 DEF NotLater, Sooner
  <2> QED BY <1>6, <2>1, <2>2 DEF Ranks
<1>8. PICK s \in Injection(1..Cardinality(S), S) : Ordered(R, S, s)
  BY <1>5, <1>7, OrderExists
<1>9. \A i, j \in DOMAIN s : i < j => NotLater(s[i], s[j])
  <2>1. \A i \in DOMAIN s : s[i] \in S
    BY <1>8 DEF Injection
  <2> QED BY <1>6, <1>8, <2>1 DEF Ordered
<1>10. Problems \in Injection(1..Cardinality(S), S)
  BY <1>4, <1>8, <1>9 DEF InOrder
<1>11. \A e \in S : \E i \in DOMAIN Problems : Problems[i] = e
  <2>1. Problems \in [1..Cardinality(S) -> S] /\ \A e \in S : \E i \in 1..Cardinality(S) : Problems[i] = e
    BY <1>5, <1>10, OrderIsOnto
  <2> QED BY <2>1
<1>12. ASSUME NEW a \in live, AlertOf[a].severity # "informational"
       PROVE  \E i \in DOMAIN Problems :
                  /\ Problems[i].kind = AlertOf[a].kind /\ Problems[i].subject \in {None, AlertOf[a].subject}
                  /\ Problems[i].since <= AlertOf[a].raised
                  /\ AlertOf[a].severity = "critical" => Problems[i].severity = "critical"
  <2>1. PICK p \in G : /\ p.kind = AlertOf[a].kind /\ p.subject \in {None, AlertOf[a].subject}
                       /\ p.since <= AlertOf[a].raised
                       /\ AlertOf[a].severity = "critical" => p.severity = "critical"
    BY <1>2, <1>12
  <2>2. PICK i \in DOMAIN Problems : Problems[i] = p
    BY <1>11, <2>1 DEF S
  <2> QED BY <2>1, <2>2
<1> QED BY <1>12 DEF Tells

\* A statement of the answer leaves the surroundings as they are.
Surroundings == <<ended, hour, live, suspended, may, moves>>

\* A statement of the answer changes the answer only.
LEMMA StatementStep ==
    ASSUME BoardInv, UNCHANGED Surroundings, LoadTyped', HeldTold', HoursStand', SeriesStands'
    PROVE  BoardInv'
BY DEF BoardInv, BoardTyped, Surroundings

LEMMA VerdictStep ==
    ASSUME BoardInv, LoadVerdict
    PROVE  BoardInv'
<1>1. /\ UNCHANGED Surroundings
      /\ load' = [NoLoad EXCEPT !.stage = "rates", !.held = live, !.verdict = IF may = {} THEN None ELSE Problems]
  BY DEF LoadVerdict, Surroundings
<1>2. /\ DOMAIN load' = {"stage", "held", "verdict", "rates", "hours", "from", "read", "late", "alerted", "series", "at"}
      /\ load'.stage = "rates" /\ load'.held = live /\ load'.verdict = IF may = {} THEN None ELSE Problems
  BY <1>1 DEF NoLoad
<1>3. HeldTold'
  <2>1. ASSUME "alerts" \in may, NEW a \in live PROVE Tells(load'.verdict, a)
    <3>1. load'.verdict = Problems
      BY <1>2, <2>1
    <3> QED BY <2>1, <3>1, VerdictTells
  <2>2. live' = live /\ may' = may
    BY <1>1 DEF Surroundings
  <2> QED BY <1>2, <2>1, <2>2 DEF HeldTold, Tells
<1> QED BY <1>1, <1>2, <1>3, StatementStep DEF LoadTyped, HoursStand, SeriesStands

LEMMA ReadSteps ==
    ASSUME BoardInv, (\E rates \in [Charted -> Figures] : ReadRates(rates)) \/ ReadHours \/ ReadAlerted
    PROVE  BoardInv'
<1>0. LoadTyped /\ HeldTold /\ HoursStand /\ BoardTyped
  BY DEF BoardInv
<1>1. ASSUME NEW rates, ReadRates(rates) PROVE BoardInv'
  <2>1. UNCHANGED Surroundings /\ load' = [load EXCEPT !.stage = "hours", !.rates = rates] /\ load.stage = "rates"
    BY <1>1 DEF ReadRates, Surroundings
  <2>2. DOMAIN load' = DOMAIN load /\ load'.stage = "hours" /\ load'.held = load.held /\ load'.verdict = load.verdict
    BY <1>0, <2>1 DEF LoadTyped
  <2>3. HeldTold'
    BY <1>0, <2>1, <2>2 DEF HeldTold, Tells, Surroundings
  <2> QED BY <1>0, <2>1, <2>2, <2>3, StatementStep DEF LoadTyped, HoursStand, SeriesStands
<1>2. CASE ReadHours
  <2>1. /\ UNCHANGED Surroundings /\ load.stage = "hours"
        /\ load' = [load EXCEPT !.stage = "alerted", !.hours = ended, !.late = {},
                                   !.from = hour - Shown + 1, !.read = hour]
    BY <1>2 DEF ReadHours, Surroundings
  <2>2. /\ DOMAIN load' = DOMAIN load /\ load'.stage = "alerted" /\ load'.held = load.held
        /\ load'.verdict = load.verdict /\ load'.hours = ended /\ load'.from = hour - Shown + 1 /\ load'.read = hour
    BY <1>0, <2>1 DEF LoadTyped
  <2>3. HeldTold'
    BY <1>0, <2>1, <2>2 DEF HeldTold, Tells, Surroundings
  <2>4. HoursStand'
    <3>1. hour \in Shown..hour
      BY <1>0, HoursTyped DEF BoardTyped
    <3> QED BY <1>0, <2>1, <2>2, <3>1 DEF HoursStand, BoardTyped, Surroundings
  <2> QED BY <1>0, <2>1, <2>2, <2>3, <2>4, StatementStep DEF LoadTyped, SeriesStands
<1>3. CASE ReadAlerted
  <2> DEFINE alerted == IF "alerts" \in may
                        THEN {AlertOf[a].subject : a \in {b \in live : AlertOf[b].kind = "health:success_rate:route"}}
                        ELSE {}
  <2>1. /\ UNCHANGED Surroundings /\ load.stage = "alerted"
        /\ load' = [load EXCEPT !.stage = "build", !.alerted = alerted]
    BY <1>3 DEF ReadAlerted, Surroundings
  <2>5. ASSUME "alerts" \in may, NEW a \in load.held, OnRoute(a) PROVE AlertOf[a].subject \in alerted
    BY <1>0, <2>5 DEF HeldTold, OnRoute
  <2> HIDE DEF alerted
  <2>2. /\ DOMAIN load' = DOMAIN load /\ load'.stage = "build" /\ load'.held = load.held
        /\ load'.verdict = load.verdict /\ load'.hours = load.hours /\ load'.from = load.from
        /\ load'.read = load.read /\ load'.alerted = alerted /\ load'.late = load.late
    BY <1>0, <2>1 DEF LoadTyped
  <2>3. HeldTold'
    BY <1>0, <2>1, <2>2, <2>5 DEF HeldTold, Tells, OnRoute, Surroundings
  <2>4. HoursStand'
    BY <1>0, <2>1, <2>2 DEF HoursStand, Settled, Surroundings
  <2> QED BY <1>0, <2>1, <2>2, <2>3, <2>4, StatementStep DEF LoadTyped, SeriesStands
<1> QED BY <1>1, <1>2, <1>3

LEMMA SeriesStep ==
    ASSUME BoardInv, RouteSeries
    PROVE  BoardInv'
<1>0. LoadTyped /\ HeldTold /\ HoursStand /\ BoardTyped /\ load.stage = "build" /\ UNCHANGED Surroundings
  BY DEF BoardInv, RouteSeries, Surroundings
<1> DEFINE hours(r) == [i \in 1..Shown |-> Bucket(r, hour - Shown + i)]
           s(r) == [departing |-> IsDeparting(load.rates[r], r \in load.alerted), hours |-> hours(r)]
           series == [r \in Listed(load.rates) |-> s(r)]
<1>1. load' = [load EXCEPT !.stage = "drawn", !.at = hour, !.series = series]
  BY DEF RouteSeries
<1>2. DOMAIN series \subseteq Charted /\ \A r \in DOMAIN series : /\ series[r].departing <=> IsDeparting(load.rates[r], r \in load.alerted)
                                                                  /\ series[r].hours = hours(r)
  BY DEF Listed
<1> HIDE DEF series, hours
<1>3. /\ DOMAIN load' = DOMAIN load /\ load'.stage = "drawn" /\ load'.at = hour /\ load'.series = series
      /\ load'.held = load.held /\ load'.verdict = load.verdict /\ load'.hours = load.hours
      /\ load'.from = load.from /\ load'.read = load.read /\ load'.alerted = load.alerted
      /\ load'.late = load.late
  BY <1>0, <1>1 DEF LoadTyped
<1>4. HeldTold'
  BY <1>0, <1>3 DEF HeldTold, Tells, OnRoute, Surroundings
<1>5. HoursStand'
  BY <1>0, <1>3 DEF HoursStand, Settled, Surroundings
<1>6. /\ hour \in Nat /\ hour \in Shown..LastHour /\ Shown \in Nat \ {0} /\ LastHour \in Nat /\ load.read \in Shown..hour
      /\ load.from = load.read - Shown + 1 /\ load.hours \in Boarded
      /\ \A r \in Charted, h \in 1..LastHour : h <= load.read /\ Settled(r, h) => load.hours[r][h] = ended[r][h]
  BY <1>0, HoursTyped DEF HoursStand, BoardTyped
<1>7. ASSUME NEW r \in Charted, NEW i \in 1..Shown
      PROVE  /\ Bucket(r, hour - Shown + i) \in Counts
             /\ hour - Shown + i <= load.read /\ Settled(r, hour - Shown + i) =>
                    Bucket(r, hour - Shown + i) = ended[r][hour - Shown + i]
  <2> DEFINE h == hour - Shown + i
  <2>1. h \in 1..LastHour /\ h >= load.from /\ load.read \in Nat
    BY <1>6
  <2>2. load.hours[r][h] \in Counts
    BY <1>6, <2>1 DEF Boarded
  <2>3. [terminal |-> 0, succeeded |-> 0] \in Counts
    BY DEF Counts
  <2> HIDE DEF h
  <2>4. Bucket(r, h) \in Counts
    BY <2>2, <2>3 DEF Bucket
  <2>5. h <= load.read /\ Settled(r, h) => Bucket(r, h) = ended[r][h]
    BY <1>6, <2>1 DEF Bucket
  <2> QED BY <2>4, <2>5 DEF h
<1>8. SeriesStands'
  <2>1. hour \in load.read..hour
    BY <1>6
  <2>2. ASSUME NEW r \in DOMAIN series
        PROVE  /\ r \in load.alerted => series[r].departing
               /\ series[r].hours \in [1..Shown -> Counts]
               /\ \A i \in 1..Shown : hour - Shown + i <= load.read /\ Settled(r, hour - Shown + i) =>
                      series[r].hours[i] = ended[r][hour - Shown + i]
    <3>1. r \in Charted /\ series[r].hours = hours(r)
      BY <1>2
    <3>2. r \in load.alerted => series[r].departing
      BY <1>2 DEF IsDeparting
    <3>3. hours(r) \in [1..Shown -> Counts]
      BY <1>7, <3>1 DEF hours
    <3>4. \A i \in 1..Shown : hour - Shown + i <= load.read /\ Settled(r, hour - Shown + i) =>
              hours(r)[i] = ended[r][hour - Shown + i]
      BY <1>7, <3>1 DEF hours
    <3> QED BY <3>1, <3>2, <3>3, <3>4
  <2>3. ended' = ended /\ hour' = hour
    BY <1>0 DEF Surroundings
  <2> QED BY <1>2, <1>3, <2>1, <2>2, <2>3 DEF SeriesStands, Settled
<1> QED BY <1>0, <1>3, <1>4, <1>5, <1>8, StatementStep DEF LoadTyped

LEMMA BoardStep == BoardInv /\ [BoardNext]_boardVars => BoardInv'
<1> SUFFICES ASSUME BoardInv, [BoardNext]_boardVars PROVE BoardInv'
  OBVIOUS
<1>1. CASE UNCHANGED boardVars
  BY <1>1 DEF boardVars, BoardInv, BoardTyped, LoadTyped, HeldTold, Tells, OnRoute, HoursStand, Settled,
                   SeriesStands
<1> QED BY <1>1, MoveSteps, VerdictStep, ReadSteps, SeriesStep DEF BoardNext

LEMMA BoardStart == BoardInit => BoardInv
<1> SUFFICES ASSUME BoardInit PROVE BoardInv
  OBVIOUS
<1>1. BoardTyped
  <2>1. ended \in Boarded
    BY BoardOK DEF BoardInit, Boarded
  <2>2. Shown \in Shown..LastHour /\ 0 \in 0..MaxMoves
    BY BoardOK
  <2> QED BY <2>1, <2>2 DEF BoardInit, BoardTyped
<1>2. load.stage = "idle" /\ load.held = {} /\ LoadTyped
  BY DEF BoardInit, NoLoad, LoadTyped
<1> QED BY <1>1, <1>2 DEF BoardInv, HeldTold, HoursStand, SeriesStands

-----------------------------------------------------------------------------
(***************************************************************************)
(* The chart that is drawn of the answer.                                  *)
(***************************************************************************)
Rates == [1..Shown -> Int \cup {None}]

LEMMA PointsTyped ==
    ASSUME BoardInv, load.stage = "drawn", NEW r \in DOMAIN load.series
    PROVE  Points(load.series[r]) \in Rates
<1> DEFINE s == load.series[r]
<1>1. s.hours \in [1..Shown -> Counts]
  BY DEF BoardInv, SeriesStands
<1>2. ASSUME NEW n \in Nat, NEW m \in Nat PROVE Rate(n, m) \in Int \cup {None}
  <2>1. CASE m = 0
    BY <2>1 DEF Rate
  <2>2. CASE m # 0
    <3>1. 100 * n \in Int /\ m \in Nat \ {0}
      BY <2>2
    <3>2. (100 * n) \div m \in Int
      BY <3>1
    <3> QED BY <2>2, <3>2 DEF Rate
  <2> QED BY <2>1, <2>2
<1> HIDE DEF s
<1>3. ASSUME NEW i \in 1..Shown
      PROVE  (IF s.hours[i].terminal < MinPoint THEN None ELSE Rate(s.hours[i].succeeded, s.hours[i].terminal)) \in Int \cup {None}
  <2>1. s.hours[i].terminal \in Nat /\ s.hours[i].succeeded \in Nat
    BY <1>1 DEF Counts
  <2> QED BY <1>2, <2>1
<1>4. Points(s) \in Rates
  BY <1>3 DEF Points, Rates
<1> QED BY <1>4 DEF s

\* The last hour with a rate, where there is one, is an hour of the chart and has a rate.
LEMMA LastIndexIs ==
    ASSUME NEW ps \in Rates
    PROVE  LastIndex(ps) \in 0..Shown /\ (LastIndex(ps) # 0 => LastIndex(ps) \in 1..Shown /\ ps[LastIndex(ps)] \in Int)
<1> DEFINE S == {0} \cup {i \in DOMAIN ps : ps[i] # None}
<1>1. S \subseteq 0..Shown /\ S # {} /\ DOMAIN ps = 1..Shown
  BY BoardOK DEF Rates
<1>2. IsFiniteSet(S) /\ S \subseteq Int
  <2>1. IsFiniteSet(0..Shown) /\ \A i \in 0..Shown : i \in Int
    BY BoardOK, FS_Interval
  <2> QED BY <1>1, <2>1, FS_Subset
<1>3. LastIndex(ps) = Max(S)
  BY DEF LastIndex
<1>4. Max(S) \in S
  <2> HIDE DEF S
  <2> QED BY <1>1, <1>2, ExtremesExist
<1>5. \A i \in S : i # 0 => i \in 1..Shown /\ ps[i] \in Int
  BY <1>1 DEF Rates
<1> HIDE DEF S
<1> QED BY <1>1, <1>3, <1>4, <1>5

Calm(d) == {r \in Pool(d) : ~load.series[r].departing}
RatesOf(d, i) == {Points(load.series[r])[i] : r \in Calm(d)} \ {None}

LEMMA CalmRates ==
    ASSUME BoardInv, load.stage = "drawn", NEW d, NEW i \in 1..Shown
    PROVE  RatesOf(d, i) \subseteq Int /\ IsFiniteSet(RatesOf(d, i))
<1> DEFINE C == Calm(d)
           T == {Points(load.series[r])[i] : r \in C}
           f == [r \in C |-> Points(load.series[r])[i]]
<1>1. C \subseteq DOMAIN load.series /\ C \subseteq Charted
  BY DEF Calm, Pool, BoardInv, SeriesStands
<1>2. IsFiniteSet(C)
  <2> HIDE DEF C
  <2> QED BY <1>1, BoardOK, FS_Subset
<1>3. f \in Surjection(C, T)
  BY DEF Surjection
<1>4. IsFiniteSet(T)
  <2> HIDE DEF C, T, f
  <2> QED BY <1>2, <1>3, FS_Surjection
<1>5. RatesOf(d, i) = T \ {None}
  BY DEF RatesOf
<1>6. \A r \in C : Points(load.series[r])[i] \in Int \cup {None}
  <2>1. ASSUME NEW r \in C PROVE Points(load.series[r])[i] \in Int \cup {None}
    <3>1. Points(load.series[r]) \in Rates
      BY <1>1, PointsTyped
    <3> QED BY <3>1 DEF Rates
  <2> QED BY <2>1
<1>7. T \ {None} \subseteq Int
  BY <1>6
<1>8. IsFiniteSet(T \ {None})
  <2>1. T \ {None} \in SUBSET T
    OBVIOUS
  <2> HIDE DEF T
  <2> QED BY <1>4, <2>1, FS_Subset
<1> QED BY <1>5, <1>7, <1>8

\* What the band is over all countries: nothing where all depart, or the edges of each hour's rates.
LEMMA BandIs ==
    ASSUME BoardInv, load.stage = "drawn", NEW d
    PROVE  LET band == Band(d, "all")
           IN  /\ Calm(d) = {} => band = None
               /\ Calm(d) # {} =>
                      /\ band # None /\ DOMAIN band = 1..Shown
                      /\ \A i \in 1..Shown : /\ RatesOf(d, i) = {} => band[i] = None
                                             /\ RatesOf(d, i) # {} =>
                                                    /\ band[i] # None
                                                    /\ band[i].lo = Min(RatesOf(d, i))
                                                    /\ band[i].hi = Max(RatesOf(d, i))
<1> DEFINE edges(i) == IF RatesOf(d, i) = {} THEN None ELSE [lo |-> Min(RatesOf(d, i)), hi |-> Max(RatesOf(d, i))]
           band == Band(d, "all")
<1>1. band = IF Calm(d) = {} THEN None ELSE [i \in 1..Shown |-> edges(i)]
  BY DEF Band, Calm, RatesOf
<1>2. ASSUME NEW i \in 1..Shown, RatesOf(d, i) # {}
      PROVE  edges(i) \in Ranges /\ edges(i).lo = Min(RatesOf(d, i)) /\ edges(i).hi = Max(RatesOf(d, i))
  <2>1. Min(RatesOf(d, i)) \in Int /\ Max(RatesOf(d, i)) \in Int
    BY <1>2, CalmRates, ExtremesExist
  <2> QED BY <1>2, <2>1 DEF Ranges
<1>3. \A i \in 1..Shown : RatesOf(d, i) = {} => edges(i) = None
  OBVIOUS
<1> HIDE DEF edges, band
<1>4. [i \in 1..Shown |-> edges(i)] \in [1..Shown -> Ranges \cup {None}]
  BY <1>2, <1>3
<1>5. None \notin Ranges /\ None \notin [1..Shown -> Ranges \cup {None}]
  BY BoardOK
<1>6. ASSUME Calm(d) # {}
      PROVE  band # None /\ DOMAIN band = 1..Shown /\ \A i \in 1..Shown : band[i] = edges(i)
  <2>1. band = [i \in 1..Shown |-> edges(i)]
    BY <1>1, <1>6
  <2> QED BY <1>4, <1>5, <2>1
<1> QED BY <1>1, <1>2, <1>3, <1>5, <1>6 DEF band

\* Each route read is drawn as a line or lies in the band, with a point for each hour that was busy enough.
LEMMA ChartWhole ==
    ASSUME BoardInv
    PROVE  ChartIsWhole
<1> SUFFICES ASSUME load.stage = "drawn", NEW d \in {"collection", "disbursement"}
             PROVE  LET band == Band(d, "all") IN
                    /\ \A r \in Pool(d) \ Lines(d, "all"), i \in 1..Shown : LET v == Points(load.series[r])[i] IN
                           v # None => band # None /\ band[i] # None /\ band[i].lo <= v /\ v <= band[i].hi
                    /\ band # None => \A i \in 1..Shown : band[i] # None => \A edge \in {band[i].lo, band[i].hi} :
                           \E r \in Pool(d) \ Lines(d, "all") : Points(load.series[r])[i] = edge
                    /\ \A r \in Pool(d), i \in 1..Shown : LET h == load.at - Shown + i IN
                           h <= load.read /\ <<r, h>> \notin load.late => load.series[r].hours[i] = ended[r][h]
  BY DEF ChartIsWhole
<1>1. Pool(d) \ Lines(d, "all") = Calm(d)
  BY DEF Lines, Calm
<1> DEFINE band == Band(d, "all")
<1>2. /\ Calm(d) = {} => band = None
      /\ Calm(d) # {} =>
             /\ band # None
             /\ \A i \in 1..Shown : /\ RatesOf(d, i) = {} => band[i] = None
                                    /\ RatesOf(d, i) # {} => /\ band[i] # None
                                                             /\ band[i].lo = Min(RatesOf(d, i))
                                                             /\ band[i].hi = Max(RatesOf(d, i))
  BY BandIs
<1> HIDE DEF band
<1>3. ASSUME NEW r \in Calm(d), NEW i \in 1..Shown, Points(load.series[r])[i] # None
      PROVE  LET v == Points(load.series[r])[i]
             IN  band # None /\ band[i] # None /\ band[i].lo <= v /\ v <= band[i].hi
  <2>1. Points(load.series[r])[i] \in RatesOf(d, i)
    BY <1>3 DEF RatesOf
  <2>2. \A x \in RatesOf(d, i) : Min(RatesOf(d, i)) <= x /\ x <= Max(RatesOf(d, i))
    BY <2>1, CalmRates, ExtremesExist
  <2> QED BY <1>2, <1>3, <2>1, <2>2
<1>4. ASSUME band # None, NEW i \in 1..Shown, band[i] # None, NEW edge \in {band[i].lo, band[i].hi}
      PROVE  \E r \in Calm(d) : Points(load.series[r])[i] = edge
  <2>1. RatesOf(d, i) # {} /\ edge \in {Min(RatesOf(d, i)), Max(RatesOf(d, i))}
    BY <1>2, <1>4
  <2>2. edge \in RatesOf(d, i)
    BY <2>1, CalmRates, ExtremesExist
  <2> QED BY <2>2 DEF RatesOf
<1>5. \A r \in Pool(d), i \in 1..Shown : load.at - Shown + i <= load.read /\ Settled(r, load.at - Shown + i) =>
          load.series[r].hours[i] = ended[r][load.at - Shown + i]
  BY DEF BoardInv, SeriesStands, Pool
<1> QED BY <1>1, <1>3, <1>4, <1>5 DEF band, Settled

\* Rates are whole percents and their heights are whole numbers.
LEMMA HeightTyped ==
    ASSUME NEW v \in Int, None \notin Int
    PROVE  Height(v) \in Int
<1>1. AtLeast(50, v) \in Int
  BY DEF AtLeast
<1>2. ((100 - AtLeast(50, v)) * 206) \div 50 \in Int
  BY <1>1
<1> QED BY <1>2 DEF Height

\* Where labels would stand are whole heights, one for each.
LEMMA WantedTyped ==
    ASSUME BoardInv, load.stage = "drawn", NEW d, NEW c
    PROVE  \E n \in Nat : Wanted(d, c) \in [1..n -> Int]
<1> DEFINE ps(r) == Points(load.series[r])
           ending == {r \in Lines(d, c) : LastIndex(ps(r)) > 0}
           band == Band(d, c)
           hi == IF band = None THEN <<>> ELSE [i \in 1..Shown |-> IF band[i] = None THEN None ELSE band[i].hi]
           lines == InOrder(ending, <)
           n == Cardinality(ending)
           first == [k \in DOMAIN lines |-> Height(ps(lines[k])[LastIndex(ps(lines[k]))]) + 4]
           rest == IF hi = <<>> \/ LastIndex(hi) = 0 THEN <<>> ELSE << Height(hi[LastIndex(hi)]) + 16 >>
<1>1. Wanted(d, c) = first \o rest
  BY DEF Wanted
<1>2. None \notin Int
  BY BoardOK
<1>3. ending \subseteq DOMAIN load.series /\ ending \subseteq Charted
  BY DEF Lines, Pool, BoardInv, SeriesStands
<1>4. \A r \in DOMAIN load.series : ps(r) \in Rates
  BY PointsTyped
<1>5. \A r \in ending : Height(ps(r)[LastIndex(ps(r))]) + 4 \in Int
  <2>1. ASSUME NEW r \in ending PROVE Height(ps(r)[LastIndex(ps(r))]) + 4 \in Int
    <3>1. ps(r) \in Rates /\ LastIndex(ps(r)) > 0
      BY <1>3, <1>4
    <3> HIDE DEF ps
    <3>2. ps(r)[LastIndex(ps(r))] \in Int
      BY <3>1, LastIndexIs
    <3>3. Height(ps(r)[LastIndex(ps(r))]) \in Int
      BY <1>2, <3>2, HeightTyped
    <3> QED BY <3>3
  <2> QED BY <2>1
<1>6. IsFiniteSet(ending) /\ ending \subseteq Int
  <2> HIDE DEF ending
  <2>1. IsFiniteSet(ending)
    BY <1>3, BoardOK, FS_Subset
  <2>2. Charted \subseteq Int
    <3>1. Charted = 1..Cardinality(Charted)
      BY BoardOK
    <3>2. 1..Cardinality(Charted) \subseteq Int
      OBVIOUS
    <3> QED BY <3>1, <3>2
  <2> QED BY <1>3, <2>1, <2>2
<1> HIDE DEF ps, ending
<1>7. n \in Nat /\ lines \in [1..n -> ending]
  <2> DEFINE R == {p \in ending \X ending : p[1] < p[2]}
  <2>1. \A a, b \in ending : <<a, b>> \in R <=> a < b
    OBVIOUS
  <2> HIDE DEF R
  <2>2. Ranks(R, ending)
    BY <1>6, <2>1 DEF Ranks
  <2>3. PICK s \in Injection(1..n, ending) : Ordered(R, ending, s)
    BY <1>6, <2>2, OrderExists
  <2>4. \A i, j \in DOMAIN s : i < j => s[i] < s[j]
    <3>1. \A i \in DOMAIN s : s[i] \in ending
      BY <2>3 DEF Injection
    <3> QED BY <2>1, <2>3, <3>1 DEF Ordered
  <2>5. lines \in Injection(1..n, ending)
    BY <2>3, <2>4 DEF InOrder
  <2> HIDE DEF lines
  <2> QED BY <1>6, <2>5, OrderIsOnto
<1> HIDE DEF lines, n
<1>8. first \in [1..n -> Int]
  <2>1. DOMAIN lines = 1..n /\ \A k \in 1..n : lines[k] \in ending
    BY <1>7
  <2> QED BY <1>5, <2>1
<1>9. first \in Seq(Int) /\ rest \in Seq(Int)
  <2>1. first \in Seq(Int)
    <3> HIDE DEF first
    <3> QED BY <1>7, <1>8, SeqDef
  <2>2. CASE hi = <<>> \/ LastIndex(hi) = 0
    BY <2>1, <2>2
  <2>3. CASE ~(hi = <<>> \/ LastIndex(hi) = 0)
    <3>1. band # None
      BY <2>3
    <3>2. hi = [i \in 1..Shown |-> IF band[i] = None THEN None ELSE band[i].hi]
      BY <3>1
    <3>3. c = "all" /\ Calm(d) # {}
      BY <3>1 DEF Band, Calm
    <3>4. \A i \in 1..Shown : /\ RatesOf(d, i) = {} => band[i] = None
                              /\ RatesOf(d, i) # {} => band[i].hi = Max(RatesOf(d, i))
      BY <3>3, BandIs
    <3> HIDE DEF band
    <3>5. ASSUME NEW i \in 1..Shown PROVE (IF band[i] = None THEN None ELSE band[i].hi) \in Int \cup {None}
      <4>1. CASE RatesOf(d, i) = {}
        BY <3>4, <4>1
      <4>2. CASE RatesOf(d, i) # {}
        <5>1. Max(RatesOf(d, i)) \in Int
          BY <4>2, CalmRates, ExtremesExist
        <5> QED BY <3>4, <4>2, <5>1
      <4> QED BY <4>1, <4>2
    <3>6. hi \in Rates
      BY <3>2, <3>5 DEF Rates
    <3> HIDE DEF hi
    <3>7. hi[LastIndex(hi)] \in Int
      BY <2>3, <3>6, LastIndexIs
    <3>8. Height(hi[LastIndex(hi)]) + 16 \in Int
      <4>1. Height(hi[LastIndex(hi)]) \in Int
        BY <1>2, <3>7, HeightTyped
      <4> QED BY <4>1
    <3>9. rest = << Height(hi[LastIndex(hi)]) + 16 >>
      BY <2>3
    <3> QED BY <2>1, <3>8, <3>9
  <2> QED BY <2>2, <2>3
<1> HIDE DEF first, rest
<1>10. first \o rest \in Seq(Int)
  BY <1>9, ConcatProperties
<1>11. Len(first \o rest) \in Nat /\ first \o rest \in [1..Len(first \o rest) -> Int]
  <2> DEFINE w == first \o rest
  <2>1. w \in Seq(Int)
    BY <1>10
  <2> HIDE DEF w
  <2>2. Len(w) \in Nat /\ DOMAIN w = 1..Len(w) /\ w \in [1..Len(w) -> Int]
    BY <2>1, LenProperties
  <2> QED BY <2>2 DEF w
<1> QED BY <1>1, <1>11

\* What the board reads at each statement is enough for what it draws.
LEMMA BoardHolds == BoardInv => BoardTypeOK /\ BoardTellsAlerts /\ ChartIsWhole /\ LabelsApart
<1> SUFFICES ASSUME BoardInv PROVE BoardTypeOK /\ BoardTellsAlerts /\ ChartIsWhole /\ LabelsApart
  OBVIOUS
<1>1. BoardTypeOK
  BY HoursTyped DEF BoardInv, BoardTyped, LoadTyped, Boarded, BoardTypeOK
<1>2. BoardTellsAlerts
  BY DEF BoardInv, HeldTold, Tells, OnRoute, SeriesStands, BoardTellsAlerts
<1>3. LabelsApart
  <2>1. ASSUME load.stage = "drawn", NEW d, NEW c
        PROVE  LET ys == Wanted(d, c) out == SpreadLabels(ys) IN
               /\ \A i, j \in DOMAIN ys : ys[i] < ys[j] => out[i] < out[j]
               /\ \A i, j \in DOMAIN ys : i # j => out[i] - out[j] >= Gap \/ out[j] - out[i] >= Gap
               /\ \A i \in DOMAIN ys : out[i] = ys[i] \/ (out[i] > ys[i] /\ \E j \in DOMAIN ys : out[i] = out[j] + Gap)
    <3>1. PICK n \in Nat : Wanted(d, c) \in [1..n -> Int]
      BY <2>1, WantedTyped
    <3>2. None \notin Int
      BY BoardOK
    <3> DEFINE ys == Wanted(d, c)
    <3> HIDE DEF ys
    <3>3. ys \in [1..n -> Int]
      BY <3>1 DEF ys
    <3>4. LET out == SpreadLabels(ys) IN
          /\ \A i, j \in DOMAIN ys : ys[i] < ys[j] => out[i] < out[j]
          /\ \A i, j \in DOMAIN ys : i # j => out[i] - out[j] >= Gap \/ out[j] - out[i] >= Gap
          /\ \A i \in DOMAIN ys : out[i] = ys[i] \/ (out[i] > ys[i] /\ \E j \in DOMAIN ys : out[i] = out[j] + Gap)
      BY <3>2, <3>3, LabelsSpread
    <3> QED BY <3>4 DEF ys
  <2> QED BY <2>1 DEF LabelsApart
<1> QED BY <1>1, <1>2, <1>3, ChartWhole

-----------------------------------------------------------------------------
(***************************************************************************)
(* Confirmed forms.  A form that offers to enter its code holds one of its *)
(* own that no call is still to confirm; a call it awaits with that code   *)
(* is the only one; and a code performs only while it is pending, which a  *)
(* code is once.                                                           *)
(***************************************************************************)
ToldRecord == [code : Nat \cup {None}, values : Values, how : {None, "done", "pending_approval"}]
FormRecord ==
    [values : Values, stage : {"idle", "busy", "code"}, code : Nat \cup {None}, awaits : Nat \cup {None},
     error : {None, "invalid", "exhausted", "refused", "failed", "lost"}, told : {None} \cup ToldRecord]
CallRecord ==
    [does : {"ask", "post"}, form : Forms, values : Values, code : Nat \cup {None}, typed : Nat \cup {None},
     answer : {None} \cup Answers]
CodeRecord ==
    [form : Forms, values : Values, attempts : Nat, outcome : {"pending", "abandoned", "exhausted", "confirmed"},
     late : BOOLEAN]
WrittenRecord == [code : Nat, call : Nat, form : Forms, values : Values, how : {"done", "pending_approval"}]

FormsTyped ==
    /\ form \in [Forms -> FormRecord] /\ calls \in Seq(CallRecord \cup {Over}) /\ codes \in Seq(CodeRecord)
    /\ written \subseteq WrittenRecord

Made(n) == n \in DOMAIN calls /\ calls[n].does # "over"

AwaitsMade ==
    \A f \in Forms :
        /\ (form[f].stage = "busy") = (form[f].awaits # None)
        /\ form[f].awaits # None => Made(form[f].awaits) /\ calls[form[f].awaits].form = f

AnswersAwaited == \A n \in DOMAIN calls : Answered(n) => form[calls[n].form].awaits = n

CodeIsOf(c, f) == c \in DOMAIN codes /\ codes[c].form = f

PostsCoded == \A n \in DOMAIN calls : calls[n].does = "post" => CodeIsOf(calls[n].code, calls[n].form)

PendingIsLast == \A c \in DOMAIN codes : codes[c].outcome = "pending" => c = Len(codes)

WrittenAsIssued ==
    \A w \in written : /\ w.code \in DOMAIN codes /\ codes[w.code].outcome = "confirmed"
                       /\ w.form = codes[w.code].form /\ w.values = codes[w.code].values

WrittenOnce == \A w, x \in written : w.code = x.code => w = x

\* What a form or an answer says is done.
DoneAs(c, f, values, how) ==
    \E w \in written : w.code = c /\ w.form = f /\ w.values = Parsed[values] /\ w.how = how

ToldTrue == \A f \in Forms : LET told == form[f].told IN told # None => DoneAs(told.code, f, told.values, told.how)

AnswersTrue ==
    \A n \in DOMAIN calls :
        calls[n].does = "post" /\ calls[n].answer # None /\ calls[n].answer.error = None
            => DoneAs(calls[n].code, calls[n].form, calls[n].values, calls[n].answer.how)

\* Nothing was performed by the code, and no call but m may still do so.
Untried(c, m) ==
    /\ \A w \in written : w.code # c
    /\ \A k \in DOMAIN calls : calls[k].does = "post" /\ calls[k].answer = None /\ calls[k].code = c => k = m

Offered(f, c, m) == CodeIsOf(c, f) /\ Untried(c, m)

CodesOffered ==
    \A f \in Forms :
        LET n == form[f].awaits
        IN  /\ form[f].stage = "code" => Offered(f, form[f].code, None)
            /\ n # None /\ calls[n].does = "post" /\ calls[n].answer = None => Offered(f, calls[n].code, n)
            /\ n # None /\ calls[n].does = "post" /\ calls[n].answer # None /\ calls[n].answer.error = "invalid"
                   => Offered(f, calls[n].code, None)
            /\ n # None /\ calls[n].does = "ask" /\ calls[n].answer # None /\ calls[n].answer.error = None
                   => Offered(f, calls[n].answer.code, None)

\* The code posted is the one the form still holds.
CodeHeld == \A f \in Forms : LET n == form[f].awaits IN n # None /\ calls[n].does = "post" => calls[n].code = form[f].code

FormsInv ==
    /\ FormsTyped /\ AwaitsMade /\ CodeHeld /\ AnswersAwaited /\ PostsCoded /\ PendingIsLast /\ WrittenAsIssued /\ WrittenOnce
    /\ ToldTrue /\ AnswersTrue /\ CodesOffered

LEMMA MadeCall ==
    ASSUME FormsInv, NEW n, Made(n)
    PROVE  /\ n \in DOMAIN calls /\ n \in Nat /\ calls[n] \in CallRecord /\ calls[n].form \in Forms
           /\ calls[n].answer # None => Answered(n) /\ calls[n].answer \in Answers
<1>1. n \in DOMAIN calls /\ calls[n].does # "over" /\ calls \in Seq(CallRecord \cup {Over})
  BY DEF FormsInv, FormsTyped, Made
<1>2. calls[n] \in CallRecord \cup {Over} /\ n \in Nat
  BY <1>1
<1>3. calls[n] \in CallRecord
  BY <1>1, <1>2 DEF Over
<1> QED BY <1>1, <1>2, <1>3 DEF CallRecord, Answered

LEMMA FormFields ==
    ASSUME FormsInv, NEW f \in Forms
    PROVE  /\ form[f] \in FormRecord /\ form \in [Forms -> FormRecord]
           /\ form[f].awaits # None => Made(form[f].awaits) /\ calls[form[f].awaits].form = f
BY DEF FormsInv, FormsTyped, AwaitsMade

LEMMA OverIsOver == Over.does = "over"
BY DEF Over

\* A form changes, and gives up the call it awaited or goes on awaiting it.
LEMMA FormStep ==
    ASSUME FormsInv, NEW f \in Forms, NEW r \in FormRecord, form' = [form EXCEPT ![f] = r], UNCHANGED <<codes, written>>,
           \/ calls' = calls /\ r.awaits = form[f].awaits
           \/ Forget(f) /\ r.awaits = None,
           (r.stage = "busy") = (r.awaits # None), r.awaits # None => r.code = form[f].code,
           r.stage = "code" => Offered(f, r.code, None),
           r.told # None => DoneAs(r.told.code, f, r.told.values, r.told.how)
    PROVE  FormsInv'
<1>1. /\ \A g \in Forms : g # f => form'[g] = form[g]
      /\ form'[f] = r /\ form' \in [Forms -> FormRecord]
  BY FormFields
<1>2. /\ calls' \in Seq(CallRecord \cup {Over}) /\ DOMAIN calls' = DOMAIN calls
      /\ \A k \in DOMAIN calls : \/ calls'[k] = calls[k]
                                 \/ calls'[k] = Over /\ k = form[f].awaits /\ Answered(k) /\ r.awaits = None
      /\ r.awaits = None /\ form[f].awaits # None /\ Answered(form[f].awaits) => calls'[form[f].awaits] = Over
  <2>1. CASE calls' = calls /\ r.awaits = form[f].awaits
    BY <2>1 DEF FormsInv, FormsTyped
  <2>2. CASE Forget(f) /\ r.awaits = None
    <3> DEFINE n == form[f].awaits
    <3>1. calls' = IF n # None /\ Answered(n) THEN [calls EXCEPT ![n] = Over] ELSE calls
      BY <2>2 DEF Forget
    <3>2. CASE n # None /\ Answered(n)
      <4>1. n \in DOMAIN calls /\ calls \in Seq(CallRecord \cup {Over})
        BY <3>2, FormFields DEF Made, FormsInv, FormsTyped
      <4>2. calls' = [calls EXCEPT ![n] = Over]
        BY <3>1, <3>2
      <4>3. calls' \in Seq(CallRecord \cup {Over}) /\ DOMAIN calls' = DOMAIN calls
        BY <4>1, <4>2
      <4>4. \A k \in DOMAIN calls : calls'[k] = IF k = n THEN Over ELSE calls[k]
        BY <4>1, <4>2
      <4> QED BY <2>2, <3>2, <4>1, <4>3, <4>4
    <3>3. CASE ~(n # None /\ Answered(n))
      BY <3>1, <3>3, <2>2 DEF FormsInv, FormsTyped
    <3> QED BY <3>2, <3>3
  <2> QED BY <2>1, <2>2
<1>3. FormsTyped'
  BY <1>1, <1>2 DEF FormsInv, FormsTyped
<1>4. r.awaits # None => r.awaits = form[f].awaits /\ calls' = calls
  OBVIOUS
<1>5. ASSUME NEW g \in Forms, form'[g].awaits # None
      PROVE  form'[g].awaits = form[g].awaits /\ calls'[form[g].awaits] = calls[form[g].awaits] /\ form[g].awaits \in DOMAIN calls
  <2>1. CASE g = f
    BY <1>1, <1>4, <1>5, <2>1, FormFields DEF Made
  <2>2. CASE g # f
    <3>1. form'[g] = form[g] /\ Made(form[g].awaits) /\ calls[form[g].awaits].form = g
      BY <1>1, <1>5, <2>2, FormFields
    <3>2. form[g].awaits # form[f].awaits
      <4>1. form[g].awaits # None /\ (form[f].awaits # None => calls[form[f].awaits].form = f)
        BY <1>5, <3>1, FormFields
      <4> QED BY <4>1, <3>1, <2>2
    <3> QED BY <1>2, <3>1, <3>2 DEF Made
  <2> QED BY <2>1, <2>2
<1>6. AwaitsMade'
  <2>1. ASSUME NEW g \in Forms PROVE (form'[g].stage = "busy") = (form'[g].awaits # None)
    BY <1>1 DEF FormsInv, AwaitsMade
  <2>2. ASSUME NEW g \in Forms, form'[g].awaits # None
        PROVE  Made(form[g].awaits)' /\ calls'[form'[g].awaits].form = g
    <3>1. form'[g].awaits = form[g].awaits /\ calls'[form[g].awaits] = calls[form[g].awaits]
      BY <1>5, <2>2
    <3>2. Made(form[g].awaits) /\ calls[form[g].awaits].form = g
      BY <2>2, <3>1, FormFields
    <3> QED BY <1>2, <3>1, <3>2 DEF Made
  <2> QED BY <2>1, <2>2 DEF AwaitsMade
<1>7. ASSUME NEW k \in DOMAIN calls, calls'[k].does # "over" PROVE calls'[k] = calls[k]
  BY <1>2, <1>7, OverIsOver
<1>8. AnswersAwaited'
  <2> SUFFICES ASSUME NEW n \in DOMAIN calls', Answered(n)' PROVE form'[calls'[n].form].awaits = n
    BY DEF AnswersAwaited
  <2>1. calls'[n] = calls[n] /\ Answered(n) /\ Made(n)
    BY <1>2, <1>7 DEF Answered, Made
  <2>2. form[calls[n].form].awaits = n
    BY <2>1, <1>2 DEF FormsInv, AnswersAwaited
  <2>3. calls[n].form \in Forms
    BY <2>1, MadeCall
  <2>4. CASE calls[n].form = f
    <3>1. r.awaits = n
      BY <1>2, <2>1, <2>2, <2>4, MadeCall, OverIsOver DEF Answered, FormsInv
    <3> QED BY <1>1, <2>1, <2>4, <3>1
  <2>5. CASE calls[n].form # f
    BY <1>1, <2>1, <2>2, <2>3, <2>5
  <2> QED BY <2>4, <2>5
<1>9. PostsCoded'
  BY <1>2, <1>7 DEF FormsInv, PostsCoded, CodeIsOf
<1>10. PendingIsLast' /\ WrittenAsIssued' /\ WrittenOnce'
  BY DEF FormsInv, PendingIsLast, WrittenAsIssued, WrittenOnce
<1>11. ToldTrue'
  BY <1>1 DEF FormsInv, ToldTrue, DoneAs
<1>12. AnswersTrue'
  BY <1>2, <1>7 DEF FormsInv, AnswersTrue, DoneAs
<1>13. ASSUME NEW g, NEW c, NEW m, Offered(g, c, m) PROVE Offered(g, c, m)'
  BY <1>2, <1>7, <1>13 DEF Offered, CodeIsOf, Untried
<1>14. CodesOffered'
  <2> SUFFICES ASSUME NEW g \in Forms
               PROVE  LET n == form[g].awaits
                      IN  (/\ form[g].stage = "code" => Offered(g, form[g].code, None)
                           /\ n # None /\ calls[n].does = "post" /\ calls[n].answer = None => Offered(g, calls[n].code, n)
                           /\ n # None /\ calls[n].does = "post" /\ calls[n].answer # None /\ calls[n].answer.error = "invalid"
                                  => Offered(g, calls[n].code, None)
                           /\ n # None /\ calls[n].does = "ask" /\ calls[n].answer # None /\ calls[n].answer.error = None
                                  => Offered(g, calls[n].answer.code, None))'
    BY DEF CodesOffered
  <2>1. form'[g].stage = "code" => Offered(g, form[g].code, None)'
    <3>1. CASE g = f
      BY <1>1, <1>13, <3>1
    <3>2. CASE g # f
      <4>1. form'[g] = form[g] /\ (form[g].stage = "code" => Offered(g, form[g].code, None))
        BY <1>1, <3>2 DEF FormsInv, CodesOffered
      <4> QED BY <4>1, <1>13
    <3> QED BY <3>1, <3>2
  <2>2. CASE form'[g].awaits # None
    <3> DEFINE n == form[g].awaits
    <3>1. form'[g].awaits = n /\ calls'[n] = calls[n] /\ n # None
      BY <1>5, <2>2
    <3>2. /\ calls[n].does = "post" /\ calls[n].answer = None => Offered(g, calls[n].code, n)
          /\ calls[n].does = "post" /\ calls[n].answer # None /\ calls[n].answer.error = "invalid"
                 => Offered(g, calls[n].code, None)
          /\ calls[n].does = "ask" /\ calls[n].answer # None /\ calls[n].answer.error = None
                 => Offered(g, calls[n].answer.code, None)
      BY <3>1 DEF FormsInv, CodesOffered
    <3> HIDE DEF n
    <3> QED BY <2>1, <3>1, <3>2, <1>13
  <2> QED BY <2>1, <2>2
<1>15. CodeHeld'
  <2> SUFFICES ASSUME NEW g \in Forms, form'[g].awaits # None, calls'[form'[g].awaits].does = "post"
               PROVE  calls'[form'[g].awaits].code = form'[g].code
    BY DEF CodeHeld
  <2>1. form'[g].awaits = form[g].awaits /\ calls'[form[g].awaits] = calls[form[g].awaits]
    BY <1>5
  <2>2. calls[form[g].awaits].code = form[g].code
    BY <2>1 DEF FormsInv, CodeHeld
  <2> QED BY <1>1, <2>1, <2>2
<1> QED BY <1>3, <1>6, <1>8, <1>9, <1>10, <1>11, <1>12, <1>14, <1>15 DEF FormsInv

LEMMA EditSteps ==
    ASSUME FormsInv, NEW f \in Forms, CancelForm(f) \/ LeaveForm(f) \/ \E v \in Values : Edit(f, v)
    PROVE  FormsInv'
<1> DEFINE o == form[f]
<1>0. /\ o \in FormRecord /\ form \in [Forms -> FormRecord]
      /\ (o.stage = "busy") = (o.awaits # None)
      /\ o.stage = "code" => Offered(f, o.code, None)
      /\ o.told # None => DoneAs(o.told.code, f, o.told.values, o.told.how)
  BY DEF FormsInv, FormsTyped, AwaitsMade, CodesOffered, ToldTrue
<1>1. ASSUME NEW v \in Values, Edit(f, v) PROVE FormsInv'
  <2> DEFINE r == [o EXCEPT !.values = v]
  <2>1. form' = [form EXCEPT ![f] = r] /\ UNCHANGED <<calls, codes, written>>
    BY <1>0, <1>1 DEF Edit
  <2>2. r \in FormRecord /\ r.awaits = o.awaits /\ r.stage = o.stage /\ r.code = o.code /\ r.told = o.told
    BY <1>0 DEF FormRecord
  <2> HIDE DEF r
  <2> QED BY <1>0, <2>1, <2>2, FormStep
<1>2. CASE CancelForm(f)
  <2> DEFINE r == [o EXCEPT !.stage = "idle"]
  <2>1. form' = [form EXCEPT ![f] = r] /\ UNCHANGED <<calls, codes, written>> /\ o.stage = "code"
    BY <1>0, <1>2 DEF CancelForm
  <2>2. r \in FormRecord /\ r.awaits = o.awaits /\ r.stage = "idle" /\ r.code = o.code /\ r.told = o.told
    BY <1>0 DEF FormRecord
  <2> HIDE DEF r
  <2> QED BY <1>0, <2>1, <2>2, FormStep
<1>3. CASE LeaveForm(f)
  <2>1. form' = [form EXCEPT ![f] = Blank] /\ Forget(f) /\ UNCHANGED <<codes, written>>
    BY <1>3 DEF LeaveForm
  <2>2. Blank \in FormRecord /\ Blank.awaits = None /\ Blank.stage = "idle" /\ Blank.told = None
    BY FormsOK DEF FormRecord, Blank
  <2> QED BY <2>1, <2>2, FormStep
<1> QED BY <1>1, <1>2, <1>3

LEMMA FailureShown ==
    ASSUME FormsInv, NEW f \in Forms, NEW error \in {"invalid", "exhausted", "refused", "failed", "lost"},
           form[f].awaits # None, form' = ShowFailure(f, error), Forget(f), UNCHANGED <<codes, written>>,
           error = "invalid" /\ calls[form[f].awaits].does = "post" => Offered(f, form[f].code, None)
    PROVE  FormsInv'
<1> DEFINE o == form[f]
           stage == IF calls[o.awaits].does = "ask" THEN "idle" ELSE StageAfter(error)
           r == [o EXCEPT !.awaits = None, !.error = error, !.stage = stage]
<1>0. /\ o \in FormRecord /\ form \in [Forms -> FormRecord] /\ Made(o.awaits)
      /\ o.told # None => DoneAs(o.told.code, f, o.told.values, o.told.how)
  BY FormFields DEF FormsInv, ToldTrue
<1>1. stage \in {"idle", "code"} /\ (stage = "code" => error = "invalid" /\ calls[o.awaits].does = "post")
  BY <1>0, MadeCall DEF StageAfter, CallRecord
<1>2. form' = [form EXCEPT ![f] = r]
  BY <1>0 DEF ShowFailure
<1> HIDE DEF stage
<1>3. r \in FormRecord /\ r.awaits = None /\ r.stage = stage /\ r.code = o.code /\ r.told = o.told
  BY <1>0, <1>1 DEF FormRecord
<1> HIDE DEF r
<1> QED BY <1>0, <1>1, <1>2, <1>3, FormStep

LEMMA LoseStep ==
    ASSUME FormsInv, NEW f \in Forms, LoseCall(f)
    PROVE  FormsInv'
BY FailureShown DEF LoseCall

LEMMA TakeStep ==
    ASSUME FormsInv, NEW f \in Forms, TakeAnswer(f)
    PROVE  FormsInv'
<1> DEFINE o == form[f]
           n == o.awaits
           a == calls[n].answer
<1>1. /\ n # None /\ Answered(n) /\ Forget(f) /\ UNCHANGED <<codes, written>>
      /\ form' = IF a.error # None THEN ShowFailure(f, a.error)
                 ELSE IF calls[n].does = "ask"
                 THEN [form EXCEPT ![f].awaits = None, ![f].stage = "code", ![f].code = a.code]
                 ELSE [form EXCEPT ![f].awaits = None, ![f].stage = "idle",
                                   ![f].told = [code |-> calls[n].code, values |-> calls[n].values, how |-> a.how]]
  BY DEF TakeAnswer
<1>2. /\ o \in FormRecord /\ form \in [Forms -> FormRecord] /\ Made(n) /\ calls[n].form = f
      /\ o.told # None => DoneAs(o.told.code, f, o.told.values, o.told.how)
  BY <1>1, FormFields DEF FormsInv, ToldTrue
<1>3. calls[n] \in CallRecord /\ a # None /\ a \in Answers
  BY <1>1, <1>2, MadeCall DEF Answered
<1>4. CASE a.error # None
  <2>1. a.error \in {"invalid", "exhausted", "refused", "failed", "lost"}
    BY <1>3, <1>4 DEF Answers, Errors
  <2>2. a.error = "invalid" /\ calls[n].does = "post" => Offered(f, calls[n].code, None)
    BY <1>1, <1>3 DEF FormsInv, CodesOffered
  <2>3. calls[n].does = "post" => calls[n].code = o.code
    BY <1>1 DEF FormsInv, CodeHeld
  <2> QED BY <1>1, <1>4, <2>1, <2>2, <2>3, FailureShown
<1>5. CASE a.error = None /\ calls[n].does = "ask"
  <2> DEFINE r == [o EXCEPT !.awaits = None, !.stage = "code", !.code = a.code]
  <2>1. Offered(f, a.code, None)
    BY <1>1, <1>3, <1>5 DEF FormsInv, CodesOffered
  <2>2. r \in FormRecord /\ r.stage = "code" /\ r.awaits = None /\ r.code = a.code /\ r.told = o.told
    BY <1>2, <1>3 DEF FormRecord, Answers
  <2>3. form' = [form EXCEPT ![f] = r]
    <3>1. form' = [form EXCEPT ![f].awaits = None, ![f].stage = "code", ![f].code = a.code]
      BY <1>1, <1>5
    <3> HIDE DEF a
    <3> QED BY <3>1, <1>2
  <2>4. r.stage = "code" => Offered(f, r.code, None)
    BY <2>1, <2>2
  <2>5. r.told # None => DoneAs(r.told.code, f, r.told.values, r.told.how)
    BY <1>2, <2>2
  <2> HIDE DEF r, o, a
  <2> QED BY <1>1, <2>2, <2>3, <2>4, <2>5, FormStep
<1>6. CASE a.error = None /\ calls[n].does # "ask"
  <2> DEFINE t == [code |-> calls[n].code, values |-> calls[n].values, how |-> a.how]
             r == [o EXCEPT !.awaits = None, !.stage = "idle", !.told = t]
  <2>1. calls[n].does = "post" /\ n \in DOMAIN calls
    BY <1>2, <1>3, <1>6 DEF CallRecord, Made
  <2>2. DoneAs(calls[n].code, f, calls[n].values, a.how)
    BY <1>2, <1>3, <1>6, <2>1 DEF FormsInv, AnswersTrue
  <2>3. t \in ToldRecord /\ t.code = calls[n].code /\ t.values = calls[n].values /\ t.how = a.how
    BY <1>3 DEF ToldRecord, CallRecord, Answers
  <2>4. form' = [form EXCEPT ![f] = r]
    <3>1. form' = [form EXCEPT ![f].awaits = None, ![f].stage = "idle", ![f].told = t]
      BY <1>1, <1>6
    <3> HIDE DEF t
    <3> QED BY <3>1, <1>2
  <2> HIDE DEF t
  <2>5. r \in FormRecord /\ r.stage = "idle" /\ r.awaits = None /\ r.told = t
    BY <1>2, <2>3 DEF FormRecord
  <2> HIDE DEF r
  <2> QED BY <1>1, <1>2, <2>2, <2>3, <2>4, <2>5, FormStep
<1> QED BY <1>4, <1>5, <1>6

LEMMA SendStep ==
    ASSUME FormsInv, NEW f \in Forms, NEW sent \in CallRecord, Send(f, sent), form[f].stage # "busy",
           sent.form = f, sent.answer = None,
           sent.does = "post" => sent.code = form[f].code /\ Offered(f, form[f].code, None)
    PROVE  FormsInv'
<1> DEFINE o == form[f]
           n == Len(calls) + 1
           told == IF sent.does = "ask" THEN None ELSE o.told
           r == [o EXCEPT !.stage = "busy", !.awaits = n, !.error = None, !.told = told]
<1>0. /\ o \in FormRecord /\ form \in [Forms -> FormRecord] /\ o.awaits = None
      /\ calls \in Seq(CallRecord \cup {Over}) /\ codes \in Seq(CodeRecord)
  BY DEF FormsInv, FormsTyped, AwaitsMade
<1>1. calls' = Append(calls, sent) /\ UNCHANGED <<codes, written>>
  BY DEF Send
<1>2. /\ n \in Nat /\ n # None /\ n \notin DOMAIN calls /\ DOMAIN calls' = DOMAIN calls \cup {n}
      /\ calls' \in Seq(CallRecord \cup {Over}) /\ Len(calls') = n
      /\ calls'[n] = sent /\ \A k \in DOMAIN calls : calls'[k] = calls[k] /\ k \in Nat /\ k # None
  BY <1>0, <1>1, FormsOK
<1>3. form' = [form EXCEPT ![f] = r]
  <2>1. form' = [form EXCEPT ![f].stage = "busy", ![f].awaits = Len(calls'), ![f].error = None,
                             ![f].told = IF sent.does = "ask" THEN None ELSE @]
    BY DEF Send
  <2>2. form' = [form EXCEPT ![f].stage = "busy", ![f].awaits = n, ![f].error = None, ![f].told = told]
    BY <2>1, <1>0, <1>2
  <2> HIDE DEF n, told
  <2> QED BY <2>2, <1>0
<1>4. told = None \/ told = o.told
  OBVIOUS
<1> HIDE DEF n, told
<1>5. r \in FormRecord /\ r.stage = "busy" /\ r.awaits = n /\ r.code = o.code /\ r.told = told
  BY <1>0, <1>2, <1>4 DEF FormRecord
<1> HIDE DEF r
<1>6. form'[f] = r /\ (\A g \in Forms : g # f => form'[g] = form[g]) /\ form' \in [Forms -> FormRecord]
  BY <1>0, <1>3, <1>5
<1>7. ASSUME NEW g \in Forms, g # f, form[g].awaits # None
      PROVE  /\ form[g].awaits \in DOMAIN calls /\ calls'[form[g].awaits] = calls[form[g].awaits]
             /\ Made(form[g].awaits) /\ calls[form[g].awaits].form = g
  BY <1>2, <1>7, FormFields DEF Made
<1>8. sent.does \in {"ask", "post"}
  BY DEF CallRecord
<1>9. FormsTyped'
  BY <1>1, <1>2, <1>6 DEF FormsInv, FormsTyped
<1>10. AwaitsMade' /\ CodeHeld'
  <2>1. ASSUME NEW g \in Forms
        PROVE  /\ (form'[g].stage = "busy") = (form'[g].awaits # None)
               /\ form'[g].awaits # None =>
                      /\ form'[g].awaits \in DOMAIN calls' /\ calls'[form'[g].awaits].does # "over"
                      /\ calls'[form'[g].awaits].form = g
                      /\ calls'[form'[g].awaits].does = "post" => calls'[form'[g].awaits].code = form'[g].code
    <3>1. CASE g = f
      BY <1>2, <1>5, <1>6, <1>8, <3>1
    <3>2. CASE g # f
      <4>1. form'[g] = form[g] /\ (form[g].stage = "busy") = (form[g].awaits # None)
            /\ (form[g].awaits # None /\ calls[form[g].awaits].does = "post" => calls[form[g].awaits].code = form[g].code)
        BY <1>6, <3>2 DEF FormsInv, AwaitsMade, CodeHeld
      <4> QED BY <1>2, <1>7, <3>2, <4>1 DEF Made
    <3> QED BY <3>1, <3>2
  <2> QED BY <2>1 DEF AwaitsMade, CodeHeld, Made
<1>11. AnswersAwaited'
  <2> SUFFICES ASSUME NEW k \in DOMAIN calls', Answered(k)' PROVE form'[calls'[k].form].awaits = k
    BY DEF AnswersAwaited
  <2>1. k \in DOMAIN calls /\ calls'[k] = calls[k] /\ Answered(k)
    BY <1>2 DEF Answered
  <2>2. form[calls[k].form].awaits = k /\ k # None /\ calls[k].form \in Forms
    BY <1>2, <2>1, MadeCall DEF FormsInv, AnswersAwaited, Answered, Made
  <2>3. calls[k].form # f
    BY <1>0, <2>2
  <2> QED BY <1>6, <2>1, <2>2, <2>3
<1>12. PostsCoded'
  BY <1>1, <1>2 DEF FormsInv, PostsCoded, CodeIsOf, Offered
<1>13. PendingIsLast' /\ WrittenAsIssued' /\ WrittenOnce'
  BY <1>1 DEF FormsInv, PendingIsLast, WrittenAsIssued, WrittenOnce
<1>14. ToldTrue'
  BY <1>1, <1>4, <1>5, <1>6 DEF FormsInv, ToldTrue, DoneAs
<1>15. AnswersTrue'
  BY <1>1, <1>2 DEF FormsInv, AnswersTrue, DoneAs
<1>16. ASSUME NEW g, g # f, NEW c, NEW m, Offered(g, c, m) PROVE Offered(g, c, m)'
  <2>1. sent.does = "post" => sent.code # c
    BY <1>16 DEF Offered, CodeIsOf
  <2> QED BY <1>1, <1>2, <1>16, <2>1 DEF Offered, CodeIsOf, Untried
<1>17. sent.does = "post" =>
           /\ CodeIsOf(sent.code, f)' /\ \A w \in written' : w.code # sent.code
           /\ \A k \in DOMAIN calls' :
                  calls'[k].does = "post" /\ calls'[k].answer = None /\ calls'[k].code = sent.code => k = n
  BY <1>1, <1>2 DEF Offered, CodeIsOf, Untried
<1>18. CodesOffered'
  <2> SUFFICES ASSUME NEW g \in Forms
               PROVE  LET k == form[g].awaits
                      IN  (/\ form[g].stage = "code" => Offered(g, form[g].code, None)
                           /\ k # None /\ calls[k].does = "post" /\ calls[k].answer = None => Offered(g, calls[k].code, k)
                           /\ k # None /\ calls[k].does = "post" /\ calls[k].answer # None /\ calls[k].answer.error = "invalid"
                                  => Offered(g, calls[k].code, None)
                           /\ k # None /\ calls[k].does = "ask" /\ calls[k].answer # None /\ calls[k].answer.error = None
                                  => Offered(g, calls[k].answer.code, None))'
    BY DEF CodesOffered
  <2>1. CASE g = f
    <3>1. form'[g].stage = "busy" /\ form'[g].awaits = n /\ calls'[n] = sent
      BY <1>2, <1>5, <1>6, <2>1
    <3>2. sent.does = "post" => Offered(g, sent.code, form[g].awaits)'
      BY <1>17, <2>1, <3>1 DEF Offered, Untried
    <3> QED BY <3>1, <3>2
  <2>2. CASE g # f
    <3> DEFINE k == form[g].awaits
    <3>1. form'[g] = form[g] /\ (k # None => calls'[k] = calls[k])
      BY <1>6, <1>7, <2>2
    <3>2. /\ form[g].stage = "code" => Offered(g, form[g].code, None)
          /\ k # None /\ calls[k].does = "post" /\ calls[k].answer = None => Offered(g, calls[k].code, k)
          /\ k # None /\ calls[k].does = "post" /\ calls[k].answer # None /\ calls[k].answer.error = "invalid"
                 => Offered(g, calls[k].code, None)
          /\ k # None /\ calls[k].does = "ask" /\ calls[k].answer # None /\ calls[k].answer.error = None
                 => Offered(g, calls[k].answer.code, None)
      BY DEF FormsInv, CodesOffered
    <3> QED BY <3>1, <3>2, <1>16, <2>2
  <2> QED BY <2>1, <2>2
<1> QED BY <1>9, <1>10, <1>11, <1>12, <1>13, <1>14, <1>15, <1>18 DEF FormsInv

LEMMA AskSendSteps ==
    ASSUME FormsInv, NEW f \in Forms, BeginForm(f) \/ \E typed \in DOMAIN codes \cup {None} : CommitForm(f, typed)
    PROVE  FormsInv'
<1>0. form[f] \in FormRecord /\ codes \in Seq(CodeRecord)
  BY DEF FormsInv, FormsTyped
<1>1. CASE BeginForm(f)
  <2> DEFINE sent == [does |-> "ask", form |-> f, values |-> form[f].values, code |-> None, typed |-> None, answer |-> None]
  <2>1. sent \in CallRecord
    BY <1>0 DEF CallRecord, FormRecord
  <2> QED BY <1>1, <2>1, SendStep DEF BeginForm
<1>2. ASSUME NEW typed \in DOMAIN codes \cup {None}, CommitForm(f, typed) PROVE FormsInv'
  <2> DEFINE sent == [does |-> "post", form |-> f, values |-> form[f].values, code |-> form[f].code, typed |-> typed, answer |-> None]
  <2>1. sent \in CallRecord
    BY <1>0 DEF CallRecord, FormRecord
  <2>2. Offered(f, form[f].code, None)
    BY <1>2 DEF FormsInv, CodesOffered, CommitForm
  <2> QED BY <1>2, <2>1, <2>2, SendStep DEF CommitForm
<1> QED BY <1>1, <1>2

LEMMA CallReplaced ==
    ASSUME calls \in Seq(CallRecord \cup {Over}), NEW n \in DOMAIN calls, NEW x \in CallRecord \cup {Over},
           calls' = [calls EXCEPT ![n] = x]
    PROVE  calls' \in Seq(CallRecord \cup {Over}) /\ DOMAIN calls' = DOMAIN calls
BY ExceptSeq

\* A call is answered, to the form that awaits it or to none.
LEMMA AnswerStep ==
    ASSUME FormsInv, NEW n, Made(n), calls[n].answer = None, NEW a \in Answers,
           calls' = IF form[calls[n].form].awaits = n THEN [calls EXCEPT ![n].answer = a] ELSE [calls EXCEPT ![n] = Over],
           UNCHANGED form,
           codes' \in Seq(CodeRecord), \A c \in DOMAIN codes : c \in DOMAIN codes' /\ codes'[c].form = codes[c].form,
           written \subseteq written', written' \subseteq WrittenRecord,
           \A w \in written' \ written : calls[n].does = "post" /\ w.code = calls[n].code,
           PendingIsLast', WrittenAsIssued', WrittenOnce',
           calls[n].does = "post" /\ a.error = None =>
               \E w \in written' : /\ w.code = calls[n].code /\ w.form = calls[n].form
                                   /\ w.values = Parsed[calls[n].values] /\ w.how = a.how,
           calls[n].does = "post" /\ a.error = "invalid" => written' = written,
           calls[n].does = "ask" /\ a.error = None =>
               /\ a.code \in DOMAIN codes' /\ codes'[a.code].form = calls[n].form
               /\ \A w \in written' : w.code # a.code
               /\ \A k \in DOMAIN calls : calls[k].does = "post" => calls[k].code # a.code
    PROVE  FormsInv'
<1> DEFINE o == calls[n]
           r == [o EXCEPT !.answer = a]
           awaited == form[o.form].awaits = n
<1>0. /\ o \in CallRecord /\ n \in DOMAIN calls /\ n \in Nat /\ n # None /\ o.form \in Forms /\ a # None
      /\ calls \in Seq(CallRecord \cup {Over}) /\ form \in [Forms -> FormRecord]
  BY MadeCall, FormsOK DEF FormsInv, FormsTyped
<1>1. /\ r \in CallRecord /\ r.does = o.does /\ r.form = o.form /\ r.values = o.values /\ r.code = o.code /\ r.answer = a
      /\ r.does \in {"ask", "post"}
  BY <1>0 DEF CallRecord
<1>2. calls' = [calls EXCEPT ![n] = IF awaited THEN r ELSE Over]
  BY <1>0
<1> HIDE DEF r, awaited
<1>3. /\ calls' \in Seq(CallRecord \cup {Over}) /\ DOMAIN calls' = DOMAIN calls
      /\ (\A k \in DOMAIN calls : k # n => calls'[k] = calls[k])
      /\ awaited => calls'[n] = r
      /\ ~awaited => calls'[n].does = "over"
  <2> DEFINE x == IF awaited THEN r ELSE Over
  <2>1. x \in CallRecord \cup {Over} /\ (awaited => x = r) /\ (~awaited => x.does = "over")
    BY <1>1, OverIsOver
  <2>2. calls' = [calls EXCEPT ![n] = x]
    BY <1>2
  <2> HIDE DEF x
  <2>3. calls' \in Seq(CallRecord \cup {Over}) /\ DOMAIN calls' = DOMAIN calls
    <3>1. calls \in Seq(CallRecord \cup {Over}) /\ n \in DOMAIN calls /\ x \in CallRecord \cup {Over}
      BY <1>0, <2>1
    <3> HIDE DEF o
    <3> QED BY <3>1, <2>2, CallReplaced
  <2>4. calls'[n] = x /\ \A k \in DOMAIN calls : k # n => calls'[k] = calls[k]
    BY <1>0, <2>2
  <2> QED BY <2>1, <2>3, <2>4
<1>4. FormsTyped'
  BY <1>0, <1>3 DEF FormsInv, FormsTyped
<1>5. ASSUME NEW g \in Forms, form[g].awaits # None
      PROVE  /\ form[g].awaits \in DOMAIN calls
             /\ form[g].awaits = n => calls'[n] = r /\ o.form = g
             /\ form[g].awaits # n => calls'[form[g].awaits] = calls[form[g].awaits]
  BY <1>3, <1>5, FormFields DEF Made, awaited
<1>6. AwaitsMade' /\ CodeHeld'
  <2>1. ASSUME NEW g \in Forms
        PROVE  /\ (form[g].stage = "busy") = (form[g].awaits # None)
               /\ form[g].awaits # None =>
                      /\ form[g].awaits \in DOMAIN calls' /\ calls'[form[g].awaits].does # "over"
                      /\ calls'[form[g].awaits].form = g
                      /\ calls'[form[g].awaits].does = "post" => calls'[form[g].awaits].code = form[g].code
    <3>1. /\ (form[g].stage = "busy") = (form[g].awaits # None)
          /\ form[g].awaits # None =>
                 /\ calls[form[g].awaits].does # "over" /\ calls[form[g].awaits].form = g
                 /\ calls[form[g].awaits].does = "post" => calls[form[g].awaits].code = form[g].code
      BY DEF FormsInv, AwaitsMade, CodeHeld, Made
    <3> QED BY <1>1, <1>3, <1>5, <3>1
  <2> QED BY <2>1 DEF AwaitsMade, CodeHeld, Made
<1>7. AnswersAwaited'
  <2> SUFFICES ASSUME NEW k \in DOMAIN calls', Answered(k)' PROVE form[calls'[k].form].awaits = k
    BY DEF AnswersAwaited
  <2>1. CASE k = n
    BY <2>1, <1>1, <1>3 DEF Answered, awaited
  <2>2. CASE k # n
    BY <2>2, <1>3 DEF Answered, FormsInv, AnswersAwaited
  <2> QED BY <2>1, <2>2
<1>8. PostsCoded'
  <2> SUFFICES ASSUME NEW k \in DOMAIN calls', calls'[k].does = "post"
               PROVE  calls'[k].code \in DOMAIN codes' /\ codes'[calls'[k].code].form = calls'[k].form
    BY DEF PostsCoded, CodeIsOf
  <2>1. calls[k].does = "post" /\ calls'[k].code = calls[k].code /\ calls'[k].form = calls[k].form
    BY <1>1, <1>3
  <2> QED BY <1>3, <2>1 DEF FormsInv, PostsCoded, CodeIsOf
<1>9. ToldTrue'
  BY DEF FormsInv, ToldTrue, DoneAs
<1>10. AnswersTrue'
  <2> SUFFICES ASSUME NEW k \in DOMAIN calls', calls'[k].does = "post", calls'[k].answer # None, calls'[k].answer.error = None
               PROVE  \E w \in written' : /\ w.code = calls'[k].code /\ w.form = calls'[k].form
                                          /\ w.values = Parsed[calls'[k].values] /\ w.how = calls'[k].answer.how
    BY DEF AnswersTrue, DoneAs
  <2>1. CASE k = n
    BY <2>1, <1>1, <1>3
  <2>2. CASE k # n
    BY <2>2, <1>3 DEF FormsInv, AnswersTrue, DoneAs
  <2> QED BY <2>1, <2>2
\* A call that is not answered yet was not before, and none but n may have performed.
<1>11. ASSUME NEW g, NEW c, NEW m, Offered(g, c, m), o.does = "post" /\ o.code = c => written' = written
       PROVE  Offered(g, c, m)' /\ (m = n => Offered(g, c, None)')
  <2>1. c \in DOMAIN codes' /\ codes'[c].form = g
    BY <1>11 DEF Offered, CodeIsOf
  <2>2. \A w \in written' : w.code # c
    BY <1>11 DEF Offered, Untried
  <2>3. ASSUME NEW k \in DOMAIN calls', calls'[k].does = "post", calls'[k].answer = None, calls'[k].code = c PROVE k = m /\ k # n
    <3>1. k # n
      BY <1>0, <1>1, <1>3, <2>3
    <3> QED BY <3>1, <1>3, <1>11, <2>3 DEF Offered, Untried
  <2>4. Offered(g, c, m)'
    BY <2>1, <2>2, <2>3 DEF Offered, CodeIsOf, Untried
  <2>5. m = n => Offered(g, c, None)'
    BY <2>1, <2>2, <2>3 DEF Offered, CodeIsOf, Untried
  <2> QED BY <2>4, <2>5
<1>12. ASSUME NEW g, NEW c, NEW m, Offered(g, c, m), m # n
       PROVE  Offered(g, c, m)'
  <2>1. o.does = "post" => o.code # c
    BY <1>0, <1>12 DEF Offered, Untried
  <2> QED BY <1>11, <1>12, <2>1
<1>13. CodesOffered'
  <2> SUFFICES ASSUME NEW g \in Forms
               PROVE  LET k == form[g].awaits
                      IN  (/\ form[g].stage = "code" => Offered(g, form[g].code, None)
                           /\ k # None /\ calls[k].does = "post" /\ calls[k].answer = None => Offered(g, calls[k].code, k)
                           /\ k # None /\ calls[k].does = "post" /\ calls[k].answer # None /\ calls[k].answer.error = "invalid"
                                  => Offered(g, calls[k].code, None)
                           /\ k # None /\ calls[k].does = "ask" /\ calls[k].answer # None /\ calls[k].answer.error = None
                                  => Offered(g, calls[k].answer.code, None))'
    BY DEF CodesOffered
  <2> DEFINE k == form[g].awaits
  <2>0. /\ form[g].stage = "code" => Offered(g, form[g].code, None)
        /\ k # None /\ calls[k].does = "post" /\ calls[k].answer = None => Offered(g, calls[k].code, k)
        /\ k # None /\ calls[k].does = "post" /\ calls[k].answer # None /\ calls[k].answer.error = "invalid"
               => Offered(g, calls[k].code, None)
        /\ k # None /\ calls[k].does = "ask" /\ calls[k].answer # None /\ calls[k].answer.error = None
               => Offered(g, calls[k].answer.code, None)
    BY DEF FormsInv, CodesOffered
  <2>1. form[g].stage = "code" => Offered(g, form[g].code, None)'
    BY <1>0, <1>12, <2>0
  <2>2. CASE k # None /\ k # n
    <3>1. calls'[k] = calls[k] /\ form'[g].awaits = k
      BY <1>5, <2>2
    <3> HIDE DEF k
    <3> QED BY <1>0, <1>12, <2>0, <2>1, <2>2, <3>1
  <2>3. CASE k = n
    <3>1. calls'[n] = r /\ form'[g].awaits = n /\ o.form = g
      BY <1>0, <1>5, <2>3
    <3>2. o.does = "ask" /\ a.error = None => Offered(g, calls[form[g].awaits].answer.code, None)'
      <4> SUFFICES ASSUME o.does = "ask", a.error = None PROVE Offered(g, calls[form[g].awaits].answer.code, None)'
        OBVIOUS
      <4>1. \A l \in DOMAIN calls' : calls'[l].does = "post" => calls'[l].code # a.code
        BY <1>1, <1>3, <3>1
      <4>2. calls'[form'[g].awaits].answer.code = a.code
        BY <1>1, <3>1
      <4>3. a.code \in DOMAIN codes' /\ codes'[a.code].form = g /\ \A w \in written' : w.code # a.code
        BY <3>1
      <4> QED BY <4>1, <4>2, <4>3 DEF Offered, CodeIsOf, Untried
    <3>3. o.does = "post" /\ a.error = "invalid" => Offered(g, calls[form[g].awaits].code, None)'
      <4> SUFFICES ASSUME o.does = "post", a.error = "invalid" PROVE Offered(g, calls[form[g].awaits].code, None)'
        OBVIOUS
      <4>1. Offered(g, o.code, n) /\ written' = written
        BY <1>0, <2>0, <2>3
      <4>2. calls'[form'[g].awaits].code = o.code
        BY <1>1, <3>1
      <4> QED BY <1>11, <4>1, <4>2
    <3> HIDE DEF k
    <3>4. calls'[form'[g].awaits].answer # None /\ calls'[form'[g].awaits].answer.error = a.error /\ calls'[form'[g].awaits].does = o.does
      BY <1>0, <1>1, <3>1
    <3> QED BY <2>1, <3>2, <3>3, <3>4
  <2> QED BY <2>1, <2>2, <2>3
<1> QED BY <1>4, <1>6, <1>7, <1>8, <1>9, <1>10, <1>13 DEF FormsInv

\* The codes change, and what is performed.
LEMMA CodesTyped ==
    ASSUME FormsInv
    PROVE  /\ codes \in Seq(CodeRecord) /\ written \subseteq WrittenRecord
           /\ \A c \in DOMAIN codes : c \in Nat /\ codes[c] \in CodeRecord
BY DEF FormsInv, FormsTyped

LEMMA PostedCode ==
    ASSUME FormsInv, NEW n, Unanswered(n, "post")
    PROVE  /\ Made(n) /\ calls[n].does = "post" /\ calls[n].answer = None
           /\ CodeIsOf(calls[n].code, calls[n].form)
BY DEF Unanswered, Made, FormsInv, PostsCoded

LEMMA RefuseSteps ==
    ASSUME FormsInv, NEW n, RefuseForm(n) \/ RefuseOperation(n)
    PROVE  FormsInv'
<1>1. PICK error \in {"invalid", "refused"} :
          AnswerTo(n, error, None, None) /\ Unanswered(n, "post") /\ UNCHANGED <<form, codes, written>>
  BY DEF RefuseForm, RefuseOperation
<1> DEFINE a == [error |-> error, code |-> None, how |-> None]
<1>2. a \in Answers /\ a.error = error /\ a.error # None
  BY FormsOK DEF Answers, Errors
<1>3. calls' = IF form[calls[n].form].awaits = n THEN [calls EXCEPT ![n].answer = a] ELSE [calls EXCEPT ![n] = Over]
  BY <1>1 DEF AnswerTo
<1>4. PendingIsLast' /\ WrittenAsIssued' /\ WrittenOnce'
  BY <1>1 DEF FormsInv, PendingIsLast, WrittenAsIssued, WrittenOnce
<1> HIDE DEF a
<1> QED BY <1>1, <1>2, <1>3, <1>4, PostedCode, CodesTyped, AnswerStep

\* What performing by a code does to what is told of it.
LEMMA CodesAfter ==
    ASSUME FormsInv, NEW c \in DOMAIN codes, NEW x \in CodeRecord, codes' = [codes EXCEPT ![c] = x],
           x.form = codes[c].form, x.values = codes[c].values,
           x.outcome = "pending" => codes[c].outcome = "pending",
           \A w \in written : w.code = c => x.outcome = "confirmed"
    PROVE  /\ codes' \in Seq(CodeRecord) /\ DOMAIN codes' = DOMAIN codes /\ PendingIsLast'
           /\ \A d \in DOMAIN codes : codes'[d].form = codes[d].form /\ codes'[d].values = codes[d].values
           /\ written' = written => WrittenAsIssued' /\ WrittenOnce'
<1>0. codes \in Seq(CodeRecord)
  BY CodesTyped
<1>1. /\ codes' \in Seq(CodeRecord) /\ DOMAIN codes' = DOMAIN codes /\ Len(codes') = Len(codes)
      /\ codes'[c] = x /\ \A d \in DOMAIN codes : d # c => codes'[d] = codes[d]
  BY <1>0, ExceptSeq
<1>2. \A d \in DOMAIN codes : codes'[d].form = codes[d].form /\ codes'[d].values = codes[d].values
  BY <1>1
<1>3. PendingIsLast'
  BY <1>1 DEF FormsInv, PendingIsLast
<1>4. written' = written => WrittenAsIssued' /\ WrittenOnce'
  BY <1>1, <1>2 DEF FormsInv, WrittenAsIssued, WrittenOnce
<1> QED BY <1>1, <1>2, <1>3, <1>4

LEMMA MatchedCode ==
    ASSUME FormsInv, NEW n, Unanswered(n, "post"), Matches(n)
    PROVE  /\ calls[n].code \in DOMAIN codes /\ codes[calls[n].code].outcome = "pending"
           /\ codes[calls[n].code].form = calls[n].form
           /\ codes[calls[n].code].values = Parsed[calls[n].values]
           /\ \A w \in written : w.code # calls[n].code
<1>1. CodeIsOf(calls[n].code, calls[n].form)
  BY PostedCode
<1>2. codes[calls[n].code].outcome = "pending" /\ codes[calls[n].code].values = Parsed[calls[n].values]
  BY DEF Matches, Fingerprints
<1> QED BY <1>1, <1>2 DEF CodeIsOf, FormsInv, WrittenAsIssued

LEMMA RefuseTypedStep ==
    ASSUME FormsInv, NEW n, RefuseTyped(n)
    PROVE  FormsInv'
<1> DEFINE c == calls[n].code
           exhausted == codes[c].attempts + 1 >= Attempts
           error == IF exhausted THEN "exhausted" ELSE "invalid"
           outcome == IF exhausted THEN "exhausted" ELSE codes[c].outcome
           x == [codes[c] EXCEPT !.attempts = codes[c].attempts + 1, !.outcome = outcome]
           a == [error |-> error, code |-> None, how |-> None]
<1>1. /\ Unanswered(n, "post") /\ Matches(n) /\ UNCHANGED <<form, written>>
      /\ codes' = [codes EXCEPT ![c].attempts = @ + 1, ![c].outcome = IF exhausted THEN "exhausted" ELSE @]
      /\ calls' = IF form[calls[n].form].awaits = n THEN [calls EXCEPT ![n].answer = a] ELSE [calls EXCEPT ![n] = Over]
  BY DEF RefuseTyped, AnswerTo
<1>2. /\ Made(n) /\ calls[n].does = "post" /\ calls[n].answer = None
      /\ c \in DOMAIN codes /\ codes[c].outcome = "pending" /\ codes[c] \in CodeRecord
      /\ \A w \in written : w.code # c
  BY <1>1, PostedCode, MatchedCode, CodesTyped
<1>3. error \in Errors /\ outcome \in {"pending", "exhausted"}
  BY <1>2 DEF Errors
<1>4. codes' = [codes EXCEPT ![c] = x]
  <2>1. codes' = [codes EXCEPT ![c].attempts = codes[c].attempts + 1, ![c].outcome = outcome]
    BY <1>1, <1>2
  <2> HIDE DEF c, outcome
  <2> QED BY <2>1, <1>2
<1> HIDE DEF exhausted, outcome, error
<1>5. x \in CodeRecord /\ x.form = codes[c].form /\ x.values = codes[c].values /\ x.outcome \in {"pending", "exhausted"}
  <2> DEFINE attempts == codes[c].attempts + 1
  <2>1. attempts \in Nat /\ codes[c] \in CodeRecord /\ x = [codes[c] EXCEPT !.attempts = attempts, !.outcome = outcome]
    BY <1>2 DEF CodeRecord
  <2> HIDE DEF x, attempts
  <2> QED BY <2>1, <1>3 DEF CodeRecord
<1>6. a \in Answers /\ a.error \in Errors /\ a.error # None
  BY <1>3, FormsOK DEF Answers
<1> HIDE DEF x
<1> HIDE DEF a, c
<1>7. UNCHANGED <<form, written>> /\ (\A w \in written : w.code = c => x.outcome = "confirmed")
  BY <1>1, <1>2
<1>8. /\ codes' \in Seq(CodeRecord) /\ DOMAIN codes' = DOMAIN codes /\ PendingIsLast'
      /\ \A d \in DOMAIN codes : codes'[d].form = codes[d].form
      /\ WrittenAsIssued' /\ WrittenOnce'
  BY <1>2, <1>4, <1>5, <1>7, CodesAfter
<1>9. calls' = IF form[calls[n].form].awaits = n THEN [calls EXCEPT ![n].answer = a] ELSE [calls EXCEPT ![n] = Over]
  BY <1>1
<1> QED BY <1>2, <1>6, <1>7, <1>8, <1>9, CodesTyped, AnswerStep

LEMMA PerformStep ==
    ASSUME FormsInv, NEW n, NEW concluded \in BOOLEAN, PerformForm(n, concluded)
    PROVE  FormsInv'
<1> DEFINE c == calls[n].code
           did == Parsed[calls[n].values]
           error == IF concluded THEN None ELSE "failed"
           x == [codes[c] EXCEPT !.outcome = "confirmed", !.attempts = codes[c].attempts + 1]
           w == [code |-> c, call |-> n, form |-> calls[n].form, values |-> did, how |-> How(did)]
           a == [error |-> error, code |-> None, how |-> How(did)]
<1>1. /\ Unanswered(n, "post") /\ Matches(n) /\ form' = form /\ written' = written \cup {w}
      /\ codes' = [codes EXCEPT ![c].outcome = "confirmed", ![c].attempts = @ + 1]
      /\ calls' = IF form[calls[n].form].awaits = n THEN [calls EXCEPT ![n].answer = a] ELSE [calls EXCEPT ![n] = Over]
  BY DEF PerformForm, AnswerTo
<1>2. /\ Made(n) /\ calls[n].does = "post" /\ calls[n].answer = None /\ n \in Nat
      /\ c \in DOMAIN codes /\ c \in Nat /\ codes[c].outcome = "pending" /\ codes[c] \in CodeRecord
      /\ codes[c].form = calls[n].form /\ codes[c].values = did
      /\ calls[n].form \in Forms /\ calls[n].values \in Values
      /\ \A v \in written : v.code # c
  BY <1>1, PostedCode, MatchedCode, MadeCall, CodesTyped DEF CallRecord
<1>3. did \in Values /\ How(did) \in {"done", "pending_approval"}
  BY <1>2, FormsOK DEF How
<1>4. codes' = [codes EXCEPT ![c] = x]
  <2>1. codes' = [codes EXCEPT ![c].outcome = "confirmed", ![c].attempts = codes[c].attempts + 1]
    BY <1>1, <1>2
  <2> HIDE DEF c
  <2> QED BY <2>1, <1>2
<1>5. x \in CodeRecord /\ x.form = codes[c].form /\ x.values = codes[c].values /\ x.outcome = "confirmed"
  <2> DEFINE attempts == codes[c].attempts + 1
  <2>1. attempts \in Nat /\ codes[c] \in CodeRecord /\ x = [codes[c] EXCEPT !.outcome = "confirmed", !.attempts = attempts]
    BY <1>2 DEF CodeRecord
  <2> HIDE DEF x, attempts
  <2> QED BY <2>1 DEF CodeRecord
<1>6. /\ w \in WrittenRecord /\ w.code = c /\ w.form = calls[n].form /\ w.values = did /\ w.how = How(did)
      /\ a \in Answers /\ a.error \in {None, "failed"} /\ a.error # "invalid" /\ a.how = How(did)
  BY <1>2, <1>3, FormsOK DEF WrittenRecord, Answers, Errors
<1> HIDE DEF x, a, w
<1>7. /\ codes' \in Seq(CodeRecord) /\ DOMAIN codes' = DOMAIN codes /\ PendingIsLast' /\ codes'[c] = x
      /\ \A d \in DOMAIN codes : codes'[d].form = codes[d].form /\ (d # c => codes'[d] = codes[d])
  BY <1>2, <1>4, <1>5, CodesAfter, CodesTyped
<1>8. WrittenAsIssued' /\ WrittenOnce'
  BY <1>1, <1>2, <1>5, <1>6, <1>7 DEF FormsInv, WrittenAsIssued, WrittenOnce
<1>9. /\ written \subseteq written' /\ written' \subseteq WrittenRecord /\ w \in written'
      /\ \A v \in written' \ written : v.code = c
  BY <1>1, <1>6, CodesTyped
<1> HIDE DEF c, did
<1>10. /\ \E v \in written' : /\ v.code = calls[n].code /\ v.form = calls[n].form
                              /\ v.values = Parsed[calls[n].values] /\ v.how = a.how
       /\ \A d \in DOMAIN codes : d \in DOMAIN codes' /\ codes'[d].form = codes[d].form
       /\ \A v \in written' \ written : v.code = calls[n].code
  BY <1>6, <1>7, <1>9 DEF c, did
<1>11. calls' = IF form[calls[n].form].awaits = n THEN [calls EXCEPT ![n].answer = a] ELSE [calls EXCEPT ![n] = Over]
  BY <1>1
<1>12. UNCHANGED form /\ Made(n) /\ calls[n].does = "post" /\ calls[n].answer = None
  BY <1>1, <1>2
<1>13. calls[n].does # "ask" /\ a.error # "invalid" /\ a \in Answers
  BY <1>6, <1>12
<1> QED BY <1>7, <1>8, <1>9, <1>10, <1>11, <1>12, <1>13, AnswerStep

LEMMA IssueFormStep ==
    ASSUME FormsInv, NEW n, NEW mailed \in BOOLEAN, IssueCode(n, mailed)
    PROVE  FormsInv'
<1> DEFINE x == [form |-> calls[n].form, values |-> calls[n].values, attempts |-> 0, outcome |-> "pending", late |-> FALSE]
           c == Len(codes) + 1
           error == IF mailed THEN None ELSE "failed"
           a == [error |-> error, code |-> c, how |-> None]
<1>0. codes \in Seq(CodeRecord) /\ \A d \in DOMAIN codes : codes[d] \in CodeRecord
  BY CodesTyped
<1>1. /\ n \in DOMAIN calls /\ Made(n) /\ calls[n].does = "ask" /\ calls[n].answer = None
      /\ UNCHANGED <<form, written>> /\ codes' = Append(AbandonEarlier, x)
  BY DEF IssueCode, Unanswered, Made
<1>2. /\ AbandonEarlier \in Seq(CodeRecord) /\ Len(AbandonEarlier) = Len(codes) /\ DOMAIN AbandonEarlier = DOMAIN codes
      /\ \A d \in DOMAIN codes : /\ AbandonEarlier[d].form = codes[d].form /\ AbandonEarlier[d].values = codes[d].values
                                 /\ AbandonEarlier[d].outcome # "pending"
                                 /\ codes[d].outcome = "confirmed" => AbandonEarlier[d].outcome = "confirmed"
  <2>1. ASSUME NEW d \in DOMAIN codes
        PROVE  /\ AbandonEarlier[d] \in CodeRecord
               /\ AbandonEarlier[d].form = codes[d].form /\ AbandonEarlier[d].values = codes[d].values
               /\ AbandonEarlier[d].outcome # "pending"
               /\ codes[d].outcome = "confirmed" => AbandonEarlier[d].outcome = "confirmed"
    <3> DEFINE y == [codes[d] EXCEPT !.outcome = "abandoned"]
    <3>1. y \in CodeRecord /\ y.form = codes[d].form /\ y.values = codes[d].values /\ y.outcome = "abandoned"
      BY <1>0 DEF CodeRecord
    <3>2. AbandonEarlier[d] = IF codes[d].outcome = "pending" THEN y ELSE codes[d]
      BY DEF AbandonEarlier
    <3> HIDE DEF y
    <3> QED BY <1>0, <3>1, <3>2
  <2>2. AbandonEarlier \in [1 .. Len(codes) -> CodeRecord] /\ DOMAIN AbandonEarlier = DOMAIN codes
    BY <1>0, <2>1 DEF AbandonEarlier
  <2>3. AbandonEarlier \in Seq(CodeRecord) /\ Len(AbandonEarlier) = Len(codes)
    BY <1>0, <2>2, SeqDef
  <2> QED BY <2>1, <2>2, <2>3
<1>3. x \in CodeRecord /\ x.form = calls[n].form /\ calls[n] \in CallRecord
  BY <1>1, MadeCall DEF CallRecord, CodeRecord
<1> HIDE DEF x
<1>4. /\ codes' \in Seq(CodeRecord) /\ Len(codes') = c /\ c \in Nat /\ DOMAIN codes' = DOMAIN codes \cup {c}
      /\ c \notin DOMAIN codes /\ codes'[c] = x /\ \A d \in DOMAIN codes : codes'[d] = AbandonEarlier[d]
  BY <1>0, <1>1, <1>2, <1>3
<1>5. a \in Answers /\ a.error \in {None, "failed"} /\ a.code = c
  BY <1>4 DEF Answers, Errors
<1>6. calls' = IF form[calls[n].form].awaits = n THEN [calls EXCEPT ![n].answer = a] ELSE [calls EXCEPT ![n] = Over]
  BY <1>4 DEF IssueCode, AnswerTo
<1> HIDE DEF a, c
<1>11. /\ written' = written /\ Len(codes') = c /\ DOMAIN codes' = DOMAIN codes \cup {c} /\ c \notin DOMAIN codes
       /\ \A d \in DOMAIN codes : /\ codes'[d].form = codes[d].form /\ codes'[d].values = codes[d].values
                                  /\ codes'[d].outcome # "pending"
                                  /\ codes[d].outcome = "confirmed" => codes'[d].outcome = "confirmed"
  <2>1. ASSUME NEW d \in DOMAIN codes
        PROVE  /\ codes'[d].form = codes[d].form /\ codes'[d].values = codes[d].values
               /\ codes'[d].outcome # "pending"
               /\ codes[d].outcome = "confirmed" => codes'[d].outcome = "confirmed"
    <3>1. codes'[d] = AbandonEarlier[d]
      BY <1>4
    <3> QED BY <1>2, <3>1, Zenon
  <2> QED BY <1>1, <1>4, <2>1
<1>7. PendingIsLast' /\ WrittenAsIssued' /\ WrittenOnce'
  BY <1>11 DEF FormsInv, PendingIsLast, WrittenAsIssued, WrittenOnce
<1>8. \A w \in written : w.code # c
  BY <1>4 DEF FormsInv, WrittenAsIssued
<1>9. \A k \in DOMAIN calls : calls[k].does = "post" => calls[k].code # c
  BY <1>4 DEF FormsInv, PostsCoded, CodeIsOf
<1>10. \A d \in DOMAIN codes : d \in DOMAIN codes' /\ codes'[d].form = codes[d].form
  BY <1>11
<1>12. /\ Made(n) /\ calls[n].does # "post" /\ calls[n].answer = None /\ UNCHANGED <<form, written>>
       /\ codes' \in Seq(CodeRecord) /\ a \in Answers
       /\ a.code \in DOMAIN codes' /\ codes'[a.code].form = calls[n].form
  BY <1>1, <1>3, <1>4, <1>5
<1>13. /\ \A w \in written' : w.code # a.code
       /\ \A k \in DOMAIN calls : calls[k].does = "post" => calls[k].code # a.code
  BY <1>5, <1>8, <1>9, <1>12
<1> QED BY <1>6, <1>7, <1>10, <1>12, <1>13, CodesTyped, AnswerStep

LEMMA ExpireStep ==
    ASSUME FormsInv, NEW c, FormCodeExpires(c)
    PROVE  FormsInv'
<1> DEFINE x == [codes[c] EXCEPT !.late = TRUE]
<1>1. c \in DOMAIN codes /\ codes[c].outcome = "pending" /\ codes' = [codes EXCEPT ![c] = x] /\ UNCHANGED <<form, calls, written>>
  BY CodesTyped DEF FormCodeExpires
<1>2. x \in CodeRecord /\ x.form = codes[c].form /\ x.values = codes[c].values /\ x.outcome = codes[c].outcome
  BY <1>1, CodesTyped DEF CodeRecord
<1>3. \A w \in written : w.code # c
  BY <1>1 DEF FormsInv, WrittenAsIssued
<1> HIDE DEF x
<1>4. /\ codes' \in Seq(CodeRecord) /\ DOMAIN codes' = DOMAIN codes /\ PendingIsLast' /\ WrittenAsIssued' /\ WrittenOnce'
      /\ \A d \in DOMAIN codes : codes'[d].form = codes[d].form
  BY <1>1, <1>2, <1>3, CodesAfter
<1>5. ASSUME NEW g, NEW d, NEW m, Offered(g, d, m) PROVE Offered(g, d, m)'
  BY <1>1, <1>4, <1>5 DEF Offered, CodeIsOf, Untried
<1>6. CodesOffered'
  <2>1. ASSUME NEW g \in Forms
        PROVE  LET n == form[g].awaits
               IN  (/\ form[g].stage = "code" => Offered(g, form[g].code, None)
                    /\ n # None /\ calls[n].does = "post" /\ calls[n].answer = None => Offered(g, calls[n].code, n)
                    /\ n # None /\ calls[n].does = "post" /\ calls[n].answer # None /\ calls[n].answer.error = "invalid"
                           => Offered(g, calls[n].code, None)
                    /\ n # None /\ calls[n].does = "ask" /\ calls[n].answer # None /\ calls[n].answer.error = None
                           => Offered(g, calls[n].answer.code, None))'
    <3> DEFINE n == form[g].awaits
    <3>1. /\ form[g].stage = "code" => Offered(g, form[g].code, None)
          /\ n # None /\ calls[n].does = "post" /\ calls[n].answer = None => Offered(g, calls[n].code, n)
          /\ n # None /\ calls[n].does = "post" /\ calls[n].answer # None /\ calls[n].answer.error = "invalid"
                 => Offered(g, calls[n].code, None)
          /\ n # None /\ calls[n].does = "ask" /\ calls[n].answer # None /\ calls[n].answer.error = None
                 => Offered(g, calls[n].answer.code, None)
      BY DEF FormsInv, CodesOffered
    <3> QED BY <1>1, <1>5, <3>1
  <2> QED BY <2>1 DEF CodesOffered
<1>7. FormsTyped' /\ AwaitsMade' /\ CodeHeld' /\ AnswersAwaited' /\ ToldTrue' /\ AnswersTrue'
  BY <1>1, <1>4 DEF FormsInv, FormsTyped, AwaitsMade, Made, CodeHeld, AnswersAwaited, Answered, ToldTrue, DoneAs, AnswersTrue
<1>8. PostsCoded'
  BY <1>1, <1>4 DEF FormsInv, PostsCoded, CodeIsOf
<1> QED BY <1>4, <1>6, <1>7, <1>8 DEF FormsInv

LEMMA FormsStep == FormsInv /\ [FormsNext]_formVars => FormsInv'
<1> SUFFICES ASSUME FormsInv, [FormsNext]_formVars PROVE FormsInv'
  OBVIOUS
<1>1. CASE UNCHANGED formVars
  BY <1>1 DEF formVars, FormsInv, FormsTyped, AwaitsMade, Made, CodeHeld, AnswersAwaited, Answered, PostsCoded, CodeIsOf,
              PendingIsLast, WrittenAsIssued, WrittenOnce, ToldTrue, DoneAs, AnswersTrue, CodesOffered, Offered, Untried
<1>2. CASE FormsNext
  BY <1>2, EditSteps, LoseStep, TakeStep, AskSendSteps, IssueFormStep, PerformStep, RefuseSteps, RefuseTypedStep, ExpireStep
     DEF FormsNext
<1> QED BY <1>1, <1>2

LEMMA FormsStart == FormsInit => FormsInv
<1> SUFFICES ASSUME FormsInit PROVE FormsInv
  OBVIOUS
<1>1. /\ Blank \in FormRecord /\ Blank.stage = "idle" /\ Blank.awaits = None /\ Blank.told = None
  BY FormsOK DEF Blank, FormRecord
<1>2. \A f \in Forms : form[f] = Blank
  BY DEF FormsInit
<1>3. form \in [Forms -> FormRecord] /\ calls = <<>> /\ codes = <<>> /\ written = {}
  BY <1>1 DEF FormsInit
<1> QED BY <1>1, <1>2, <1>3 DEF FormsInv, FormsTyped, AwaitsMade, CodeHeld, AnswersAwaited, PostsCoded, PendingIsLast,
                                WrittenAsIssued, WrittenOnce, ToldTrue, AnswersTrue, CodesOffered

LEMMA FormsHold == FormsInv => FormsTypeOK /\ CodesBindForms /\ FormsTellTruth
<1> SUFFICES ASSUME FormsInv PROVE FormsTypeOK /\ CodesBindForms /\ FormsTellTruth
  OBVIOUS
<1>1. FormsTypeOK
  BY DEF FormsInv, FormsTyped, FormRecord, AwaitsMade, FormsTypeOK
<1>2. CodesBindForms
  <2>1. ASSUME NEW c \in DOMAIN codes PROVE Cardinality(WrittenBy(c)) <= 1
    <3>1. CASE WrittenBy(c) = {}
      BY <3>1, FS_EmptySet
    <3>2. CASE WrittenBy(c) # {}
      <4>1. PICK w : w \in WrittenBy(c)
        BY <3>2
      <4>2. WrittenBy(c) = {w}
        BY <4>1 DEF WrittenBy, FormsInv, WrittenOnce
      <4> QED BY <4>2, FS_Singleton
    <3> QED BY <3>1, <3>2
  <2> QED BY <2>1 DEF CodesBindForms, WrittenBy, FormsInv, WrittenAsIssued, PendingIsLast
<1>3. FormsTellTruth
  <2>1. ASSUME NEW f \in Forms, form[f].told # None
        PROVE  \E w \in WrittenBy(form[f].told.code) :
                   w.form = f /\ w.values = Parsed[form[f].told.values] /\ w.how = form[f].told.how
    BY <2>1 DEF FormsInv, ToldTrue, DoneAs, WrittenBy
  <2>2. ASSUME NEW f \in Forms, form[f].stage = "code" PROVE WrittenBy(form[f].code) = {}
    <3>1. Untried(form[f].code, None)
      BY <2>2 DEF FormsInv, CodesOffered, Offered
    <3> QED BY <3>1 DEF Untried, WrittenBy
  <2> QED BY <2>1, <2>2 DEF FormsTellTruth
<1> QED BY <1>1, <1>2, <1>3

==============================================================================
