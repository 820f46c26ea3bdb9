------------------------------ MODULE RouteTerms ------------------------------
(***************************************************************************)
(* The versioned terms of routes and of projects' grants on them, and the  *)
(* operations that open versions: one of a route, a rate change set over   *)
(* several, a new route, a grant or its amendment, and its deactivation.   *)
(*                                                                         *)
(* Opening a version finds the open one FOR UPDATE, closes it and inserts  *)
(* the next, both at the time its transaction began.  Whoever waited for a *)
(* row that was closed meanwhile finds none, numbers its version 1, and is *)
(* refused by the store; so is one that began before the version it closes *)
(* was opened.  A grant takes an advisory lock before it looks, and its    *)
(* deactivation does not.  What terms are refused for (a rate below what   *)
(* the provider is expected to charge, limits the wrong way round, a fee   *)
(* changed without the permission) is settled before the first write.      *)
(***************************************************************************)
EXTENDS Nullable, Sequences

CONSTANTS
    Routes, Grants,
    GrantRoute,  \* route each grant is on
    Writers,  \* administrators' operations
    MaxTime, MaxBegun \* bounds: moments, and operations begun

ASSUME TermsOK == GrantRoute \in [Grants -> Routes] /\ None \notin Writers

Titles == Routes \cup Grants

VARIABLES
    versions, \* of each route and grant, in sequence: when it was opened and closed, whether active, the set it came with
    writer,   \* each operation: stage, kind, what is left to open, when it began, its uncommitted versions
    holder,   \* operation that holds the open version of each route and grant, None when free
    granting, \* operation that holds each grant's advisory lock, None when free
    time, begun

termsVars == <<versions, writer, holder, granting, time, begun>>

NoDraft == [t \in Titles |-> <<>>]
IdleWriter ==
    [stage |-> "idle", kind |-> None, asked |-> <<>>, next |-> 0, seen |-> 0, began |-> 0, id |-> 0, draft |-> NoDraft]
Seeded == [from |-> 0, to |-> None, active |-> TRUE, set |-> None]

TermsInit ==
    /\ versions \in [Titles -> {<<>>, <<Seeded>>}]
    /\ \A g \in Grants : versions[g] # <<>> => versions[GrantRoute[g]] # <<>>
    /\ writer = [w \in Writers |-> IdleWriter]
    /\ holder = [t \in Titles |-> None] /\ granting = [g \in Grants |-> None]
    /\ time = 0 /\ begun = 0

TimePasses == time < MaxTime /\ time' = time + 1 /\ UNCHANGED <<versions, writer, holder, granting, begun>>

-----------------------------------------------------------------------------
(* What is asked.                                                          *)

Begin(w, kind, titles) ==
    /\ writer[w].stage = "idle" /\ begun < MaxBegun
    /\ begun' = begun + 1
    /\ writer' = [writer EXCEPT ![w] = [stage |-> IF kind = "grant" THEN "claiming" ELSE "looking", kind |-> kind,
            asked |-> titles, next |-> 1, seen |-> 0, began |-> time, id |-> begun + 1, draft |-> NoDraft]]
    /\ UNCHANGED <<versions, holder, granting, time>>

OpenVersion(w, r) == versions[r] # <<>> /\ Begin(w, "version", <<r>>)
CreateRoute(w, r) == versions[r] = <<>> /\ Begin(w, "route", <<r>>)
RateChangeSet(w, routes) == (\A k \in DOMAIN routes : versions[routes[k]] # <<>>) /\ Begin(w, "set", routes)
GrantOrAmend(w, g) == versions[GrantRoute[g]] # <<>> /\ Begin(w, "grant", <<g>>)
Deactivate(w, g) == versions[g] # <<>> /\ Begin(w, "deactivate", <<g>>)

-----------------------------------------------------------------------------
(* The transaction.                                                        *)

Upon(w) == writer[w].asked[writer[w].next]

\* A transaction sees what is committed and what it wrote.
View(w, t) == IF holder[t] = w THEN writer[w].draft[t] ELSE versions[t]

Claim(w) ==
    /\ writer[w].stage = "claiming" /\ granting[Upon(w)] = None
    /\ granting' = [granting EXCEPT ![Upon(w)] = w]
    /\ writer' = [writer EXCEPT ![w].stage = "looking"]
    /\ UNCHANGED <<versions, holder, time, begun>>

\* The statement's snapshot: which version is open as it begins, none being the 0th.
Look(w) ==
    /\ writer[w].stage = "looking"
    /\ writer' = [writer EXCEPT ![w].stage = "locking", ![w].seen = Len(View(w, Upon(w)))]
    /\ UNCHANGED <<versions, holder, granting, time, begun>>

\* Mutant: a version that was closed while its row was waited for is taken for the open one.
FoundAnyway(w) == Upon(w) \in Titles

Found(w) == writer[w].seen = Len(View(w, Upon(w)))

\* Mutant: a version may be closed before it was opened.
ClosableEver(w) == Upon(w) \in Titles

\* A version is not closed before it was opened.
Closable(w) == writer[w].seen > 0 => View(w, Upon(w))[writer[w].seen].from <= writer[w].began

Drafted(w) ==
    [from |-> writer[w].began, to |-> None, active |-> writer[w].kind # "deactivate",
     set |-> IF writer[w].kind = "set" THEN [id |-> writer[w].id, routes |-> {writer[w].asked[k] : k \in DOMAIN writer[w].asked}] ELSE None]

Replaced(s, n, version) == Append([k \in DOMAIN s |-> IF k = n THEN [s[k] EXCEPT !.to = version.from] ELSE s[k]], version)

Open(w) ==
    LET t == Upon(w)
    IN  /\ writer[w].stage = "locking" /\ holder[t] \in {None, w}
        /\ Found(w) /\ Closable(w)
        /\ holder' = [holder EXCEPT ![t] = w]
        /\ writer' = [writer EXCEPT ![w].draft[t] = Replaced(View(w, t), writer[w].seen, Drafted(w)),
                                    ![w].next = @ + 1,
                                    ![w].stage = IF writer[w].next = Len(writer[w].asked) THEN "done" ELSE "looking"]
        /\ UNCHANGED <<versions, granting, time, begun>>

FreeHeld(w) ==
    /\ holder' = [t \in Titles |-> IF holder[t] = w THEN None ELSE holder[t]]
    /\ granting' = [g \in Grants |-> IF granting[g] = w THEN None ELSE granting[g]]

\* Mutant: each version of a set is committed as it is opened.
CommitEach(w) ==
    /\ writer[w].stage = "done" \/ (writer[w].stage = "looking" /\ writer[w].next > 1)
    /\ versions' = [t \in Titles |-> View(w, t)]
    /\ writer' = [writer EXCEPT ![w] = IF @.stage = "done" THEN IdleWriter ELSE @]
    /\ FreeHeld(w)
    /\ UNCHANGED <<time, begun>>

Commit(w) ==
    /\ writer[w].stage = "done"
    /\ versions' = [t \in Titles |-> View(w, t)]
    /\ writer' = [writer EXCEPT ![w] = IdleWriter]
    /\ FreeHeld(w)
    /\ UNCHANGED <<time, begun>>

\* What the store refuses, a deadlock's victim and a process that dies roll back alike.
RollBackTerms(w) ==
    /\ writer[w].stage # "idle"
    /\ writer' = [writer EXCEPT ![w] = IdleWriter]
    /\ FreeHeld(w)
    /\ UNCHANGED <<versions, time, begun>>

WriterStep(w) == Claim(w) \/ Look(w) \/ Open(w) \/ Commit(w) \/ RollBackTerms(w)

TermsNext ==
    \/ TimePasses
    \/ \E w \in Writers : WriterStep(w)
    \/ \E w \in Writers, r \in Routes : OpenVersion(w, r) \/ CreateRoute(w, r)
    \/ \E w \in Writers, routes \in [1..2 -> Routes] : RateChangeSet(w, routes)
    \/ \E w \in Writers, g \in Grants : GrantOrAmend(w, g) \/ Deactivate(w, g)

TermsSpec == TermsInit /\ [][TermsNext]_termsVars

-----------------------------------------------------------------------------
\* Every variable has its type.
TermsTypeOK ==
    /\ \A t \in Titles : \A n \in DOMAIN versions[t] : versions[t][n].from \in Nat /\ versions[t][n].to \in Nat \cup {None}
    /\ holder \in [Titles -> Writers \cup {None}] /\ granting \in [Grants -> Writers \cup {None}]

\* However operations wait for each other, the versions of a route or a grant follow each other in time
\* without a gap or an overlap, the last of them open.
VersionsTile ==
    \A t \in Titles : \A n \in DOMAIN versions[t] :
        LET v == versions[t][n]
        IN  IF n = Len(versions[t]) THEN v.to = None
            ELSE v.to = versions[t][n + 1].from /\ v.from <= v.to

\* "A rate change set opens every version together or none".
SetsAreWhole ==
    \A t \in Titles : \A n \in DOMAIN versions[t] :
        LET v == versions[t][n]
        IN  v.set # None => \A r \in v.set.routes : \E k \in DOMAIN versions[r] : versions[r][k].set = v.set /\ versions[r][k].from = v.from

\* What a payment resolved at any moment finds: one version in force, and of a set all or nothing.
TermsInForce == VersionsTile /\ SetsAreWhole
==============================================================================
