----------------------------- MODULE CursorPages -----------------------------
(***************************************************************************)
(* A project's walk through the pages of its transactions, newest first,   *)
(* while transactions commit and leave what it filters on.                 *)
(*                                                                         *)
(* The store keeps instants finer than the milliseconds a date has when it *)
(* reaches the cursor: an instant here is half a millisecond.  A row bears *)
(* the instant its transaction began and is seen once that commits.  A row *)
(* is its identifier, a number for its place among random identifiers.     *)
(***************************************************************************)
EXTENDS Nullable, SequencesExt, Orders

CONSTANTS
    Rows, Page,     \* page: how many rows a request asks for
    MaxInstant, MaxBegins \* bounds

Cursors == [at : Nat, id : Rows]

ASSUME PagesOK ==
    /\ Rows \subseteq Nat /\ IsFiniteSet(Rows) /\ Page \in Nat \ {0}
    /\ None \notin Int \cup Cursors

VARIABLES
    created, \* instant each row's transaction began, None before
    seen, gone, \* rows committed that match the filter, and that no longer do
    walk,    \* how far, the cursor, rows listed in order, rows there when the walk began, last rows of its pages
    instant

pageVars == <<created, seen, gone, walk, instant>>

CursorInit ==
    /\ created = [r \in Rows |-> None] /\ seen = {} /\ gone = {} /\ instant = 0
    /\ walk = [stage |-> "new", cursor |-> None, listed |-> <<>>, known |-> {}, ends |-> {}]

InstantPasses == instant < MaxInstant /\ instant' = instant + 1 /\ UNCHANGED <<created, seen, gone, walk>>

BeginRow(r) ==
    /\ created[r] = None /\ Cardinality({x \in Rows : created[x] # None}) < MaxBegins
    /\ created' = [created EXCEPT ![r] = instant]
    /\ UNCHANGED <<seen, gone, walk, instant>>

CommitRow(r) ==
    /\ created[r] # None /\ r \notin seen \cup gone
    /\ seen' = seen \cup {r}
    /\ UNCHANGED <<created, gone, walk, instant>>

\* A state asked for that the transaction leaves.
LeavesFilter(r) ==
    /\ r \in seen
    /\ seen' = seen \ {r} /\ gone' = gone \cup {r}
    /\ UNCHANGED <<created, walk, instant>>

Millisecond(t) == t \div 2

Newer(r, s) == created[r] > created[s] \/ (created[r] = created[s] /\ r > s)

EncodeCursor(r) == [at |-> 2 * Millisecond(created[r]), id |-> r]

\* Mutant: the cursor is an instant only, and what shares it with the row of the cursor comes again.
BeyondInstant(r) == walk.cursor = None \/ created[r] <= walk.cursor.at

Beyond(r) ==
    \/ walk.cursor = None
    \/ created[r] < walk.cursor.at
    \/ created[r] = walk.cursor.at /\ r < walk.cursor.id

\* One more row than the page is asked for tells whether there is more.
ListTransactions ==
    LET rows == InOrder({r \in seen : Beyond(r)}, Newer)
        page == SubSeq(rows, 1, AtMost(Len(rows), Page))
        more == Len(rows) > Page
    IN  /\ walk.stage # "over"
        /\ walk' = [stage |-> IF more THEN "begun" ELSE "over",
                    cursor |-> IF more THEN EncodeCursor(Last(page)) ELSE None,
                    listed |-> walk.listed \o page,
                    known |-> IF walk.stage = "new" THEN seen ELSE walk.known,
                    ends |-> IF more THEN walk.ends \cup {Last(page)} ELSE walk.ends]
        /\ UNCHANGED <<created, seen, gone, instant>>

CursorNext ==
    \/ InstantPasses \/ ListTransactions
    \/ \E r \in Rows : BeginRow(r) \/ CommitRow(r) \/ LeavesFilter(r)

CursorSpec == CursorInit /\ [][CursorNext]_pageVars

-----------------------------------------------------------------------------
\* Every variable has its type.
CursorTypeOK ==
    /\ created \in [Rows -> Nat \cup {None}] /\ seen \subseteq Rows
    /\ gone \subseteq Rows /\ ToSet(walk.listed) \subseteq Rows /\ walk.ends \subseteq Rows

\* A walk lists nothing twice, and passes over a transaction that was there all along only where it
\* was made within the millisecond of the last row of a page: the cursor keeps no finer an instant.
WalkIsComplete ==
    /\ IsInjective(walk.listed)
    /\ walk.stage = "over" => \A r \in walk.known \ (gone \cup ToSet(walk.listed)) :
          \E e \in walk.ends : Millisecond(created[r]) = Millisecond(created[e])

\* What the code does not keep, "the cursor encodes the last row's creation time and id": what it points
\* at is the row a page ended with.
CursorResumes == walk.cursor # None => walk.cursor.at = created[walk.cursor.id]
==============================================================================
