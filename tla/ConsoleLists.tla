----------------------------- MODULE ConsoleLists -----------------------------
(***************************************************************************)
(* A list of the console: what its URL asks for, the calls its effect      *)
(* makes, their answers in whatever order they come, and what is shown.    *)
(*                                                                         *)
(* The server counts the rows and reads a page of them by two statements,  *)
(* between which rows come and go.  A call whose session is over is        *)
(* refused, and any such answer ends the console's session and unmounts    *)
(* the list.  The next call starts as soon as the URL's state differs.     *)
(***************************************************************************)
EXTENDS Nullable, FiniteSets

CONSTANTS
    ListRows,                \* in the order they are listed, 1 first
    Searches, Matching,  \* searches and filters, and the rows each keeps
    Sizes, MaxPage,      \* rows of a page, and the largest page a URL may name
    MaxFetches, MaxEdits   \* bounds

ASSUME ListsOK ==
    /\ ListRows \subseteq Nat /\ IsFiniteSet(ListRows) /\ Matching \in [Searches -> SUBSET ListRows]
    /\ Sizes \subseteq Nat \ {0} /\ MaxPage \in Nat \ {0} /\ MaxFetches \in Nat \ {0}

Wants == [search : Searches, size : Sizes, page : 1..MaxPage]
ListPages == [of : Wants, total : Nat, rows : SUBSET ListRows]

ASSUME NoListPage == None \notin Int \cup ListPages

Calls == 1..MaxFetches

VARIABLES
    there,   \* rows in the store
    inForce, \* whether the session is, on the server
    signed,  \* whether the console takes itself to be signed in
    wanted,  \* the URL's search, page size and page
    shown,   \* what the last answer taken holds, None when there is none
    errored,  \* whether an error is shown
    call,    \* each call: stage, what it asks for, total and rows it was answered with
    current, \* call whose answer the mounted list will take, None when none is awaited
    edits

listVars == <<there, inForce, signed, wanted, shown, errored, call, current, edits>>

Unmade == [stage |-> "unmade", of |-> None, total |-> 0, rows |-> {}]
Unused == {c \in Calls : call[c].stage = "unmade"}

ListsInit ==
    /\ there \in SUBSET ListRows
    /\ inForce = TRUE /\ signed = TRUE
    /\ wanted \in [search : Searches, size : Sizes, page : {1}]
    /\ shown = None /\ errored = FALSE
    /\ call = [c \in Calls |-> IF c = 1 THEN [Unmade EXCEPT !.stage = "sent", !.of = wanted] ELSE Unmade]
    /\ current = 1 /\ edits = 0

-----------------------------------------------------------------------------
(* The page.                                                               *)

\* The effect: the call before it is abandoned, its answer still to come.
Fetch(want, before) ==
    \E c \in Unused :
        /\ \A d \in Unused : c <= d
        /\ call' = [before EXCEPT ![c] = [Unmade EXCEPT !.stage = "sent", !.of = want]]
        /\ current' = c /\ errored' = FALSE

Ask(want) ==
    /\ signed /\ want # wanted
    /\ wanted' = want
    /\ Fetch(want, call)
    /\ UNCHANGED <<there, inForce, signed, shown, edits>>

\* Changing what the list holds starts again from its first page.
PatchTableState(search, size) == Ask([search |-> search, size |-> size, page |-> 1])

\* The pager's pages, or one of a URL followed or edited by hand.
TurnTo(n) == Ask([wanted EXCEPT !.page = n])

Retry ==
    /\ errored
    /\ Fetch(wanted, call)
    /\ UNCHANGED <<there, inForce, signed, wanted, shown, edits>>

\* A row's action, done, remounts the list.
RunRowAction(r) ==
    /\ signed /\ shown # None /\ r \in shown.rows \cap there
    /\ there' = there \ {r}
    /\ shown' = None
    /\ Fetch(wanted, call)
    /\ UNCHANGED <<inForce, signed, wanted, edits>>

Ceil(n, d) == (n + d - 1) \div d
LastPage(total, size) == Ceil(AtLeast(1, total), size)

\* Mutant: the answer is taken whatever page was asked for.
PageAsAsked(page, total, size) == page

ClampPage(page, total, size) == AtMost(LastPage(total, size), page)

\* Mutant: every answer is taken.
IsAnyCall(c) == signed /\ call[c].stage # "unmade"

IsCurrent(c) == c = current

Done(c) == [call EXCEPT ![c].stage = "over"]

\* Past the end the list asks again for the last page, and shows nothing new until it has it.
Show(c) ==
    /\ call[c].stage = "answered"
    /\ IF ~IsCurrent(c) THEN call' = Done(c) /\ UNCHANGED <<wanted, shown, errored, current>>
       ELSE LET of == call[c].of
                page == ClampPage(of.page, call[c].total, of.size)
            IN  IF page # of.page
                THEN /\ wanted' = [of EXCEPT !.page = page]
                     /\ Fetch(wanted', Done(c))
                     /\ UNCHANGED shown
                ELSE /\ shown' = [of |-> of, total |-> call[c].total, rows |-> call[c].rows]
                     /\ call' = Done(c) /\ current' = None
                     /\ UNCHANGED <<wanted, errored>>
    /\ UNCHANGED <<there, inForce, signed, edits>>

\* SESSION_ENDED, from any call: the guarded pages give way to sign-in, which remembers where they were.
SessionEnded(c) ==
    /\ call[c].stage = "refused"
    /\ call' = Done(c)
    /\ signed' = FALSE /\ shown' = None /\ errored' = FALSE /\ current' = None
    /\ UNCHANGED <<there, inForce, wanted, edits>>

ShowError(c) ==
    /\ call[c].stage = "failed"
    /\ call' = Done(c)
    /\ IF IsCurrent(c) THEN errored' = TRUE /\ current' = None ELSE UNCHANGED <<errored, current>>
    /\ UNCHANGED <<there, inForce, signed, wanted, shown, edits>>

\* Both factors, then the page the administrator was on.
SignInAgain ==
    /\ ~signed
    /\ inForce' = TRUE /\ signed' = TRUE
    /\ Fetch(wanted, call)
    /\ UNCHANGED <<there, wanted, shown, edits>>

-----------------------------------------------------------------------------
(* The server.                                                             *)

MoveTo(c, stage) == call' = [call EXCEPT ![c].stage = stage]
Kept(want) == there \cap Matching[want.search]

CountRows(c) ==
    /\ call[c].stage = "sent"
    /\ call' = [call EXCEPT ![c].stage = IF inForce THEN "counted" ELSE "refused",
                            ![c].total = IF inForce THEN Cardinality(Kept(call[c].of)) ELSE 0]
    /\ UNCHANGED <<there, inForce, signed, wanted, shown, errored, current, edits>>

\* Rows whose place among those kept is on the page; past the end there are none.
Paginate(want) ==
    {r \in Kept(want) : Ceil(Cardinality({x \in Kept(want) : x <= r}), want.size) = want.page}

Search(c) ==
    /\ call[c].stage = "counted"
    /\ call' = [call EXCEPT ![c].stage = "answered", ![c].rows = Paginate(call[c].of)]
    /\ UNCHANGED <<there, inForce, signed, wanted, shown, errored, current, edits>>

CallFails(c) ==
    /\ call[c].stage \in {"sent", "counted"}
    /\ MoveTo(c, "failed")
    /\ UNCHANGED <<there, inForce, signed, wanted, shown, errored, current, edits>>

RowsChange(rows) ==
    /\ edits < MaxEdits /\ edits' = edits + 1
    /\ rows # there /\ there' = rows
    /\ UNCHANGED <<inForce, signed, wanted, shown, errored, call, current>>

SessionLapses ==
    /\ inForce /\ inForce' = FALSE
    /\ UNCHANGED <<there, signed, wanted, shown, errored, call, current, edits>>

ListsNext ==
    \/ Retry \/ SignInAgain \/ SessionLapses
    \/ \E search \in Searches, size \in Sizes : PatchTableState(search, size)
    \/ \E n \in 1..MaxPage : TurnTo(n)
    \/ \E r \in ListRows : RunRowAction(r)
    \/ \E c \in Calls : CountRows(c) \/ Search(c) \/ CallFails(c) \/ Show(c) \/ SessionEnded(c) \/ ShowError(c)
    \/ \E rows \in SUBSET ListRows : RowsChange(rows)

ListsSpec == ListsInit /\ [][ListsNext]_listVars

-----------------------------------------------------------------------------
\* Every variable has its type.
ListsTypeOK ==
    /\ there \subseteq ListRows /\ wanted \in Wants
    /\ shown \in ListPages \cup {None}
    /\ current # None => current \in Calls /\ call[current].stage \notin {"unmade", "over"}

\* However answers overtake each other, when the list awaits none it shows an error or the answer to
\* what its URL asks for, on a page that the answer has, of rows that its search keeps.
ListAnswersUrl ==
    signed /\ current = None /\ ~errored =>
        /\ shown # None /\ shown.of = wanted
        /\ wanted.page <= LastPage(shown.total, wanted.size)
        /\ shown.rows \subseteq Matching[wanted.search]
==============================================================================
