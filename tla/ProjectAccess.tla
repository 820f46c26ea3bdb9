---------------------------- MODULE ProjectAccess ----------------------------
(***************************************************************************)
(* How a project's credentials are rotated and revoked from the console    *)
(* while its calls exchange them for tokens and present the tokens.        *)
(*                                                                         *)
(* An operation of the console is a transaction whose statements           *)
(* interleave with those of others under READ COMMITTED: a read sees what  *)
(* is committed, FOR UPDATE and updates take the credential's row, and     *)
(* issuing, promoting and deleting take the project's advisory lock.  What *)
(* it writes becomes visible when it commits.  A call reads the token with *)
(* its credential, checks the origin, and only then judges what it read.   *)
(***************************************************************************)
EXTENDS Nullable, Naturals, FiniteSets

CONSTANTS
    Creds,       \* credentials the project may come to hold
    Desks,       \* administrators' operations
    Clients,     \* calls of the project
    Addresses,   \* where calls come from
    Sandbox,     \* whether a project that declares no origin is let in
    RateLimit,   \* requests a credential has in a window
    MaxOps, MaxRequests, MaxAdvances \* bounds: operations, calls, and the other things that happen

ASSUME AccessOK == Sandbox \in BOOLEAN /\ RateLimit \in Nat \ {0} /\ None \notin Creds \cup Desks

VARIABLES
    cred,      \* status and role of each credential, as committed
    token,     \* tokens issued: credential, whether revoked and whether past its time
    project,   \* status and declared origins
    window,    \* requests each credential made in the current window
    operation, \* each administrator's transaction: its stage, credential and what it read
    row,       \* operation that holds a credential's row, None when free
    advisory,  \* operation that holds the project's lock, None when free
    request,   \* each call's stage and what it read
    usable,    \* history: whether a call's credential was usable at some moment since the call arrived
    revoked,   \* history: credentials whose revocation was committed
    counts     \* operations, calls and moves so far

accessVars == <<cred, token, project, window, operation, row, advisory, request, usable, revoked, counts>>

AtRest == [stage |-> "idle", kind |-> None, cred |-> None, role |-> None, primary |-> None]
Away == [stage |-> "idle", cred |-> None, token |-> None, live |-> FALSE, late |-> FALSE, from |-> None]

OnRole(role) == {c \in Creds : cred[c].status = "active" /\ cred[c].role = role}
ActiveCreds == {c \in Creds : cred[c].status = "active"}
Primary == IF OnRole("primary") = {} THEN None ELSE CHOOSE c \in OnRole("primary") : TRUE

AccessInit ==
    /\ cred = [c \in Creds |-> [status |-> "none", role |-> "primary"]]
    /\ token = {}
    /\ project = [status |-> "active", origins |-> {}]
    /\ window = [c \in Creds |-> 0]
    /\ operation = [d \in Desks |-> AtRest]
    /\ row = [c \in Creds |-> None] /\ advisory = None
    /\ request = [k \in Clients |-> Away]
    /\ usable = [k \in Clients |-> FALSE]
    /\ revoked = {}
    /\ counts = [operations |-> 0, calls |-> 0, moves |-> 0]

-----------------------------------------------------------------------------
(* Operations of the console.                                              *)

On(d) == operation[d].cred
Doing(d, kind, stage) == operation[d].kind = kind /\ operation[d].stage = stage
Goes(d, stage) == operation' = [operation EXCEPT ![d].stage = stage]

CountUp(what, max) == counts[what] < max /\ counts' = [counts EXCEPT ![what] = @ + 1]

BeginOperation(d, kind, c) ==
    /\ operation[d].stage = "idle" /\ CountUp("operations", MaxOps)
    /\ (kind = "issue") = (cred[c].status = "none")
    /\ kind = "issue" => \A e \in Desks : operation[e].kind = "issue" => On(e) # c
    /\ operation' = [operation EXCEPT ![d] = [stage |-> IF kind = "issue" THEN "claiming" ELSE "locking",
                                              kind |-> kind, cred |-> c, role |-> None, primary |-> None]]
    /\ UNCHANGED <<cred, token, project, window, row, advisory, request, usable, revoked>>

FreeLock(d) ==
    /\ row' = [c \in Creds |-> IF row[c] = d THEN None ELSE row[c]]
    /\ advisory' = IF advisory = d THEN None ELSE advisory
    /\ operation' = [operation EXCEPT ![d] = AtRest]

\* A refusal, a deadlock's victim and a process that dies roll back alike.
RollBack(d) ==
    /\ operation[d].stage # "idle" /\ FreeLock(d)
    /\ UNCHANGED <<cred, token, project, window, request, usable, revoked, counts>>

\* Mutant: the credential is read without its row being locked.
ReadUnlocked(d) ==
    /\ operation[d].stage = "locking"
    /\ cred[On(d)].status = "active"
    /\ operation[d].kind = "promote" => cred[On(d)].role = "secondary"
    /\ operation' = [operation EXCEPT ![d].stage = IF operation[d].kind = "revoke" THEN "writing" ELSE "claiming",
                                      ![d].role = cred[On(d)].role]
    /\ UNCHANGED <<cred, token, project, window, row, advisory, request, usable, revoked, counts>>

\* active, and the checks that follow it.
LockCredential(d) ==
    /\ operation[d].stage = "locking"
    /\ row[On(d)] = None /\ cred[On(d)].status = "active"
    /\ operation[d].kind = "promote" => cred[On(d)].role = "secondary"
    /\ row' = [row EXCEPT ![On(d)] = d]
    /\ operation' = [operation EXCEPT ![d].stage = IF operation[d].kind = "revoke" THEN "writing" ELSE "claiming",
                                      ![d].role = cred[On(d)].role]
    /\ UNCHANGED <<cred, token, project, window, advisory, request, usable, revoked, counts>>

LockProject(d) ==
    /\ operation[d].stage = "claiming" /\ advisory = None
    /\ advisory' = d
    /\ Goes(d, "reading")
    /\ UNCHANGED <<cred, token, project, window, row, request, usable, revoked, counts>>

\* What the operation goes by is read without a lock on it.
ReadOthers(d) ==
    /\ operation[d].stage = "reading"
    /\ operation[d].kind = "issue" => Cardinality(ActiveCreds) < 2
    /\ operation[d].kind = "delete" => operation[d].role = "secondary" /\ ActiveCreds \ {On(d)} # {}
    /\ operation' = [operation EXCEPT ![d].primary = Primary,
            ![d].stage = IF operation[d].kind = "promote" /\ Primary # None THEN "demoting" ELSE "writing"]
    /\ UNCHANGED <<cred, token, project, window, row, advisory, request, usable, revoked, counts>>

\* The first update of the primary waits for whoever holds its row, and finds whatever they left.
LockPrimary(d) ==
    /\ operation[d].stage = "demoting" /\ row[operation[d].primary] = None
    /\ row' = [row EXCEPT ![operation[d].primary] = d]
    /\ Goes(d, "writing")
    /\ UNCHANGED <<cred, token, project, window, advisory, request, usable, revoked, counts>>

\* The one-per-role index refuses a second active credential in a role.
OnePerRole(creds) ==
    \A c, e \in Creds : creds[c].status = "active" /\ creds[e].status = "active" /\ creds[c].role = creds[e].role => c = e

Dead(tokens, c) == {IF t.cred = c THEN [t EXCEPT !.revoked = TRUE] ELSE t : t \in tokens}

\* The writes of the operation and its commit. Each call that waits learns whether its credential could be used.
Write(d, creds, tokens) ==
    /\ operation[d].stage = "writing" /\ OnePerRole(creds)
    /\ cred' = creds /\ token' = tokens
    /\ usable' = [k \in Clients |-> usable[k] \/ (request[k].cred # None /\ creds[request[k].cred].status = "active"
                                                  /\ project.status = "active")]
    /\ FreeLock(d)
    /\ UNCHANGED <<project, window, request, counts>>

Issue(d) ==
    /\ Doing(d, "issue", "writing")
    /\ Write(d, [cred EXCEPT ![On(d)] = [status |-> "active", role |-> IF operation[d].primary = None THEN "primary" ELSE "secondary"]], token)
    /\ UNCHANGED revoked

\* The former primary is made active again by its identifier, whatever it was by then.
Promote(d) ==
    LET p == operation[d].primary
    IN  /\ Doing(d, "promote", "writing")
        /\ Write(d, [c \in Creds |-> IF c = On(d) THEN [cred[c] EXCEPT !.role = "primary"]
                                     ELSE IF c = p THEN [status |-> "active", role |-> "secondary"] ELSE cred[c]], token)
        /\ UNCHANGED revoked

Delete(d) ==
    /\ Doing(d, "delete", "writing")
    /\ Write(d, [cred EXCEPT ![On(d)].status = "deleted"], Dead(token, On(d)))
    /\ UNCHANGED revoked

Revoke(d) ==
    /\ Doing(d, "revoke", "writing")
    /\ Write(d, [cred EXCEPT ![On(d)].status = "revoked"], Dead(token, On(d)))
    /\ revoked' = revoked \cup {On(d)}

-----------------------------------------------------------------------------
(* The project's record and its declared origins.                          *)

Moved == CountUp("moves", MaxAdvances)

SetProjectStatus(status) ==
    /\ project.status # status /\ Moved
    /\ project' = [project EXCEPT !.status = status]
    /\ usable' = [k \in Clients |-> usable[k] \/ (request[k].cred \in ActiveCreds /\ status = "active")]
    /\ UNCHANGED <<cred, token, window, operation, row, advisory, request, revoked>>

AddOrigin(a) ==
    /\ a \notin project.origins /\ Moved
    /\ project' = [project EXCEPT !.origins = @ \cup {a}]
    /\ UNCHANGED <<cred, token, window, operation, row, advisory, request, usable, revoked>>

RemoveOrigin(a) ==
    /\ a \in project.origins /\ Moved
    /\ project' = [project EXCEPT !.origins = @ \ {a}]
    /\ UNCHANGED <<cred, token, window, operation, row, advisory, request, usable, revoked>>

TokenExpires(t) ==
    /\ t \in token /\ ~t.late /\ Moved
    /\ token' = (token \ {t}) \cup {[t EXCEPT !.late = TRUE]}
    /\ UNCHANGED <<cred, project, window, operation, row, advisory, request, usable, revoked>>

\* The windows are of one minute: the next begins at nought.
WindowPasses ==
    /\ \E c \in Creds : window[c] > 0
    /\ Moved
    /\ window' = [c \in Creds |-> 0]
    /\ UNCHANGED <<cred, token, project, operation, row, advisory, request, usable, revoked>>

-----------------------------------------------------------------------------
(* Calls of the project.                                                   *)

\* In sandbox a project with no declared origin passes.
CheckOrigin(a) == IF project.origins = {} THEN Sandbox ELSE a \in project.origins

UsableNow(c) == cred[c].status = "active" /\ project.status = "active"

\* exchange: the secret is verified while what was read of the credential grows old.
BeginExchange(k, c, a) ==
    /\ request[k].stage = "idle" /\ cred[c].status # "none" /\ CountUp("calls", MaxRequests)
    /\ request' = [request EXCEPT ![k] = [stage |-> "exchanging", cred |-> c, token |-> None, live |-> UsableNow(c), late |-> FALSE, from |-> a]]
    /\ usable' = [usable EXCEPT ![k] = UsableNow(c)]
    /\ UNCHANGED <<cred, token, project, window, operation, row, advisory, revoked>>

TokenOf(k) == [id |-> k, cred |-> request[k].cred, revoked |-> FALSE, late |-> FALSE]

\* The token is stored by a statement of its own; its reference to the credential waits for the row
\* where it is locked FOR UPDATE.
Exchange(k) ==
    /\ request[k].stage = "exchanging"
    /\ row[request[k].cred] # None => On(row[request[k].cred]) # request[k].cred
    /\ CheckOrigin(request[k].from) /\ request[k].live
    /\ token' = {t \in token : t.id # k} \cup {TokenOf(k)}
    /\ request' = [request EXCEPT ![k] = Away]
    /\ usable' = [usable EXCEPT ![k] = FALSE]
    /\ UNCHANGED <<cred, project, window, operation, row, advisory, revoked, counts>>

\* resolveToken's one read.
Arrive(k, t, a) ==
    /\ request[k].stage = "idle" /\ t \in token /\ CountUp("calls", MaxRequests)
    /\ request' = [request EXCEPT ![k] = [stage |-> "arriving", cred |-> t.cred, token |-> t, live |-> FALSE, late |-> FALSE, from |-> a]]
    /\ usable' = [usable EXCEPT ![k] = UsableNow(t.cred)]
    /\ UNCHANGED <<cred, token, project, window, operation, row, advisory, revoked>>

\* Mutant: a token that is not revoked is taken to be under a live credential.
LiveUnrevoked(t) == ~t.revoked /\ project.status = "active"

LiveToken(t) == ~t.revoked /\ cred[t.cred].status = "active" /\ project.status = "active"

ResolveToken(k) ==
    /\ request[k].stage = "arriving"
    /\ \E t \in token : /\ t.id = request[k].token.id /\ t.cred = request[k].cred
                        /\ request' = [request EXCEPT ![k].stage = "judging", ![k].live = LiveToken(t), ![k].late = t.late]
    /\ UNCHANGED <<cred, token, project, window, operation, row, advisory, usable, revoked, counts>>

\* The window's count is one statement; the request beyond the limit is refused.
Admit(k) ==
    /\ request[k].stage = "judging"
    /\ CheckOrigin(request[k].from) /\ request[k].live /\ ~request[k].late
    /\ window' = [window EXCEPT ![request[k].cred] = @ + 1]
    /\ window[request[k].cred] + 1 <= RateLimit
    /\ request' = [request EXCEPT ![k].stage = "admitted"]
    /\ UNCHANGED <<cred, token, project, operation, row, advisory, usable, revoked, counts>>

Refused(k) ==
    \/ request[k].stage = "exchanging" /\ ~(CheckOrigin(request[k].from) /\ request[k].live)
    \/ request[k].stage = "arriving" /\ ~\E t \in token : t.id = request[k].token.id /\ t.cred = request[k].cred
    \/ request[k].stage = "judging" /\ ~(CheckOrigin(request[k].from) /\ request[k].live /\ ~request[k].late)

Turn(k) ==
    /\ Refused(k)
    /\ request' = [request EXCEPT ![k].stage = "refused"]
    /\ UNCHANGED <<cred, token, project, window, operation, row, advisory, usable, revoked, counts>>

RateLimited(k) ==
    /\ request[k].stage = "judging"
    /\ CheckOrigin(request[k].from) /\ request[k].live /\ ~request[k].late
    /\ window[request[k].cred] >= RateLimit
    /\ request' = [request EXCEPT ![k].stage = "refused"]
    /\ UNCHANGED <<cred, token, project, window, operation, row, advisory, usable, revoked, counts>>

Leave(k) ==
    /\ request[k].stage \in {"admitted", "refused"}
    /\ request' = [request EXCEPT ![k] = Away]
    /\ usable' = [usable EXCEPT ![k] = FALSE]
    /\ UNCHANGED <<cred, token, project, window, operation, row, advisory, revoked, counts>>

-----------------------------------------------------------------------------
Steps(d) ==
    \/ LockCredential(d) \/ LockProject(d) \/ ReadOthers(d) \/ LockPrimary(d)
    \/ Issue(d) \/ Promote(d) \/ Delete(d) \/ Revoke(d)

Serves(k) == Exchange(k) \/ ResolveToken(k) \/ Admit(k) \/ Turn(k) \/ RateLimited(k) \/ Leave(k)

AccessNext ==
    \/ \E d \in Desks : Steps(d) \/ RollBack(d)
    \/ \E d \in Desks, kind \in {"issue", "promote", "delete", "revoke"}, c \in Creds : BeginOperation(d, kind, c)
    \/ \E k \in Clients : Serves(k)
    \/ \E k \in Clients, c \in Creds, a \in Addresses : BeginExchange(k, c, a)
    \/ \E k \in Clients, t \in token, a \in Addresses : Arrive(k, t, a)
    \/ \E status \in {"active", "suspended"} : SetProjectStatus(status)
    \/ \E a \in Addresses : AddOrigin(a) \/ RemoveOrigin(a)
    \/ \E t \in token : TokenExpires(t)
    \/ WindowPasses

AccessSpec == AccessInit /\ [][AccessNext]_accessVars

-----------------------------------------------------------------------------
\* Every variable has its type.
AccessTypeOK ==
    /\ \A c \in Creds : cred[c].status \in {"none", "active", "revoked", "deleted"} /\ cred[c].role \in {"primary", "secondary"}
    /\ row \in [Creds -> Desks \cup {None}] /\ advisory \in Desks \cup {None}
    /\ window \in [Creds -> 0..RateLimit] /\ revoked \subseteq Creds

\* "a rotation cannot end with nothing that works": however issues, promotions and deletions run into
\* each other, a project that holds a credential holds a primary one unless one was revoked.
RotationWorks == revoked = {} /\ ActiveCreds # {} => Primary # None

\* A request is admitted only if its credential could be used at some moment since it arrived, though
\* an exchange under way may store a token after the credential's tokens were revoked.
AdmittedIsUsable == \A k \in Clients : request[k].stage = "admitted" => usable[k]

\* "revocation takes effect at once whatever the role": a credential that was revoked stays so.
RevocationStands == \A c \in revoked : cred[c].status = "revoked"
==============================================================================
