---------------------------- MODULE AdminSessions ----------------------------
(***************************************************************************)
(* Sign-in of administrators, their second factor, the lockout and the     *)
(* sessions the console's guard resolves.                                  *)
(*                                                                         *)
(* Sign-in reads the administrator, verifies the password while what it    *)
(* read grows old, then stores the session by a statement of its own.      *)
(* Enrolling and the second factor read and write likewise; only the two   *)
(* updates that complete the second factor share a transaction.            *)
(***************************************************************************)
EXTENDS Nullable

CONSTANTS
    Admins,
    Browsers,     \* each carries at most one session
    Passwords, TotpSecrets,
    Waived,       \* a sandbox that takes any six digits
    Failures,     \* failures in the window that lock an account
    MaxTries, MaxDeeds \* bounds: calls, and what happens besides them

ASSUME SessionsOK == Waived \in BOOLEAN /\ Failures \in Nat \ {0}

VARIABLES
    admin,     \* status, password, authenticator and lock
    session,   \* session each browser carries, None before sign-in
    holds,     \* secret in the authenticator of whoever uses the browser
    visit,     \* each browser's call: stage, what it is for, what it read
    served,    \* history: whether the session could be served at some moment since the call arrived
    failed,    \* failures of each account in the window
    lockedOut, \* history: whether, since the window began, the account was locked or a process died that was to
    disabling, \* accounts whose sessions are revoked and whose disabling is not committed
    tries

sessionVars == <<admin, session, holds, visit, served, failed, lockedOut, disabling, tries>>

Here == [stage |-> "idle", on |-> None, seen |-> None, typed |-> None]
Stage(b, stage) == visit[b].stage = stage
GoTo(b, stage) == visit' = [visit EXCEPT ![b].stage = stage]
BackHere(b) == visit' = [visit EXCEPT ![b] = Here]

SessionsInit ==
    /\ admin \in [Admins -> {[status |-> "active", password |-> p, secret |-> None, enrolled |-> FALSE, locked |-> FALSE] : p \in Passwords}]
    /\ session = [b \in Browsers |-> None] /\ holds = [b \in Browsers |-> None]
    /\ visit = [b \in Browsers |-> Here]
    /\ served = [b \in Browsers |-> FALSE]
    /\ failed = [a \in Admins |-> 0] /\ lockedOut = [a \in Admins |-> FALSE]
    /\ disabling = {}
    /\ tries = [calls |-> 0, deeds |-> 0]

Within(what, max) == tries[what] < max /\ tries' = [tries EXCEPT ![what] = @ + 1]

-----------------------------------------------------------------------------
(* Signing in.                                                             *)

\* A locked account is refused before its password is looked at.
BeginSignIn(b, a, p) ==
    /\ Stage(b, "idle") /\ Within("calls", MaxTries)
    /\ visit' = [visit EXCEPT ![b] = IF admin[a].locked THEN Here ELSE [stage |-> "verifying", on |-> a, seen |-> admin[a], typed |-> p]]
    /\ UNCHANGED <<admin, session, holds, served, failed, lockedOut, disabling>>

Verified(b) == visit[b].seen.status = "active" /\ visit[b].seen.password = visit[b].typed

SignIn(b) ==
    /\ Stage(b, "verifying") /\ Verified(b)
    /\ session' = [session EXCEPT ![b] = [admin |-> visit[b].on, second |-> FALSE, revoked |-> FALSE, over |-> FALSE]]
    /\ BackHere(b)
    /\ UNCHANGED <<admin, holds, served, failed, lockedOut, disabling, tries>>

\* The failure is recorded before failures are counted.
RecordFailedSignIn(b) ==
    /\ \/ Stage(b, "verifying") /\ ~Verified(b)
       \/ Stage(b, "rejected")
    /\ failed' = [failed EXCEPT ![visit[b].on] = @ + 1]
    /\ GoTo(b, "counting")
    /\ UNCHANGED <<admin, session, holds, served, lockedOut, disabling, tries>>

\* Mutant: the account is locked by the failure that makes the limit, not by one that finds it passed.
CountExactly(b) ==
    /\ Stage(b, "counting")
    /\ IF failed[visit[b].on] = Failures THEN GoTo(b, "locking") ELSE BackHere(b)
    /\ UNCHANGED <<admin, session, holds, served, failed, lockedOut, disabling, tries>>

CountFailures(b) ==
    /\ Stage(b, "counting")
    /\ IF failed[visit[b].on] >= Failures THEN GoTo(b, "locking") ELSE BackHere(b)
    /\ UNCHANGED <<admin, session, holds, served, failed, lockedOut, disabling, tries>>

MaybeLock(b) ==
    /\ Stage(b, "locking")
    /\ admin' = [admin EXCEPT ![visit[b].on].locked = TRUE]
    /\ lockedOut' = [lockedOut EXCEPT ![visit[b].on] = TRUE]
    /\ BackHere(b)
    /\ UNCHANGED <<session, holds, served, failed, disabling, tries>>

-----------------------------------------------------------------------------
(* The guard: one read of the session with its administrator.              *)

InForce(b) == session[b] # None /\ ~session[b].revoked /\ ~session[b].over

\* Mutant: a session that was not revoked is that of an active administrator.
LiveUnlessRevoked(b) == InForce(b)

Live(b) == InForce(b) /\ admin[session[b].admin].status = "active"

Complete(b) == InForce(b) /\ session[b].second /\ admin[session[b].admin].status = "active"

Call(b, for) ==
    /\ Stage(b, "idle") /\ session[b] # None /\ Within("calls", MaxTries)
    /\ visit' = [visit EXCEPT ![b] = [stage |-> "guarded", on |-> session[b].admin, seen |-> None, typed |-> for]]
    /\ served' = [served EXCEPT ![b] = Complete(b)]
    /\ UNCHANGED <<admin, session, holds, failed, lockedOut, disabling>>

Admitted(b) == Live(b) /\ (visit[b].typed \in {"operation", "password"} => session[b].second)

\* canActivate and the handler's first read; what a partial session may ask for is enrol, code and sign-out.
CanActivate(b) ==
    /\ Stage(b, "guarded")
    /\ visit' = [visit EXCEPT ![b] = IF Admitted(b) THEN [@ EXCEPT !.stage = visit[b].typed] ELSE Here]
    /\ UNCHANGED <<admin, session, holds, served, failed, lockedOut, disabling, tries>>

Operation(b) ==
    /\ Stage(b, "operation")
    /\ BackHere(b)
    /\ UNCHANGED <<admin, session, holds, served, failed, lockedOut, disabling, tries>>

SignOut(b) ==
    /\ Stage(b, "sign-out")
    /\ session' = [session EXCEPT ![b].revoked = TRUE]
    /\ BackHere(b)
    /\ UNCHANGED <<admin, holds, served, failed, lockedOut, disabling, tries>>

\* changePassword: the password is verified and the new one hashed between the read and the write.
ReadPassword(b, p) ==
    /\ Stage(b, "password")
    /\ visit' = [visit EXCEPT ![b] = IF p = admin[visit[b].on].password THEN [@ EXCEPT !.stage = "hashing"] ELSE Here]
    /\ UNCHANGED <<admin, session, holds, served, failed, lockedOut, disabling, tries>>

ChangePassword(b, p) ==
    /\ Stage(b, "hashing")
    /\ admin' = [admin EXCEPT ![visit[b].on].password = p]
    /\ BackHere(b)
    /\ UNCHANGED <<session, holds, served, failed, lockedOut, disabling, tries>>

-----------------------------------------------------------------------------
(* The second factor.                                                      *)

ReadEnrolment(b) ==
    /\ Stage(b, "enrol")
    /\ IF admin[visit[b].on].enrolled THEN BackHere(b) ELSE GoTo(b, "enrolling")
    /\ UNCHANGED <<admin, session, holds, served, failed, lockedOut, disabling, tries>>

\* The secret is written whatever became of the enrolment since it was read.
BeginTotpEnrolment(b, s) ==
    /\ Stage(b, "enrolling") /\ \A a \in Admins : admin[a].secret # s
    /\ admin' = [admin EXCEPT ![visit[b].on].secret = s]
    /\ holds' = [holds EXCEPT ![b] = s]
    /\ BackHere(b)
    /\ UNCHANGED <<session, served, failed, lockedOut, disabling, tries>>

\* Right or wrong digits of the authenticator at hand.
ReadSecret(b, right) ==
    LET a == visit[b].on
    IN  /\ Stage(b, "code")
        /\ visit' = [visit EXCEPT ![b] =
               IF Waived THEN IF right THEN [@ EXCEPT !.stage = "completing", !.seen = [enrolled |-> TRUE]] ELSE Here
               ELSE IF admin[a].secret = None THEN Here
               ELSE [@ EXCEPT !.stage = IF right /\ holds[b] = admin[a].secret THEN "completing" ELSE "rejected",
                              !.seen = [enrolled |-> admin[a].enrolled]]]
        /\ UNCHANGED <<admin, session, holds, served, failed, lockedOut, disabling, tries>>

\* The session is completed and the lock lifted, whatever became of either since.
CompleteSecondFactor(b) ==
    LET a == visit[b].on
    IN  /\ Stage(b, "completing")
        /\ session' = [session EXCEPT ![b].second = TRUE]
        /\ admin' = [admin EXCEPT ![a].locked = FALSE, ![a].enrolled = @ \/ ~visit[b].seen.enrolled]
        /\ BackHere(b)
        /\ UNCHANGED <<holds, served, failed, lockedOut, disabling, tries>>

-----------------------------------------------------------------------------
(* What other administrators do, and time.                                 *)

\* The sessions are revoked outside the transaction that disables the account, and before it commits.
RevokeAllSessions(a) ==
    /\ a \notin disabling /\ admin[a].status = "active" /\ Within("deeds", MaxDeeds)
    /\ disabling' = disabling \cup {a}
    /\ session' = [b \in Browsers |-> IF session[b] # None /\ session[b].admin = a THEN [session[b] EXCEPT !.revoked = TRUE] ELSE session[b]]
    /\ UNCHANGED <<admin, holds, visit, served, failed, lockedOut>>

PatchAdministrator(a) ==
    /\ \/ a \in disabling /\ admin' = [admin EXCEPT ![a].status = "disabled"] /\ UNCHANGED tries
       \/ admin[a].status = "disabled" /\ Within("deeds", MaxDeeds) /\ admin' = [admin EXCEPT ![a].status = "active"]
    /\ served' = [b \in Browsers |-> served[b] \/ (InForce(b) /\ session[b].second /\ admin'[session[b].admin].status = "active")]
    /\ disabling' = disabling \ {a}
    /\ UNCHANGED <<session, holds, visit, failed, lockedOut>>

RollBackDisabling(a) ==
    /\ a \in disabling /\ disabling' = disabling \ {a}
    /\ UNCHANGED <<admin, session, holds, visit, served, failed, lockedOut, tries>>

RevokeSession(b) ==
    /\ InForce(b) /\ Within("deeds", MaxDeeds)
    /\ session' = [session EXCEPT ![b].revoked = TRUE]
    /\ UNCHANGED <<admin, holds, visit, served, failed, lockedOut, disabling>>

SessionExpires(b) ==
    /\ InForce(b) /\ Within("deeds", MaxDeeds)
    /\ session' = [session EXCEPT ![b].over = TRUE]
    /\ UNCHANGED <<admin, holds, visit, served, failed, lockedOut, disabling>>

LockLapses(a) ==
    /\ admin[a].locked /\ Within("deeds", MaxDeeds)
    /\ admin' = [admin EXCEPT ![a].locked = FALSE]
    /\ UNCHANGED <<session, holds, visit, served, failed, lockedOut, disabling>>

FailuresAge(a) ==
    /\ failed[a] > 0 /\ Within("deeds", MaxDeeds)
    /\ failed' = [failed EXCEPT ![a] = 0] /\ lockedOut' = [lockedOut EXCEPT ![a] = FALSE]
    /\ UNCHANGED <<admin, session, holds, visit, served, disabling>>

\* The process dies in a call: what it stored stays.
DiesInCall(b) ==
    /\ ~Stage(b, "idle") /\ Within("deeds", MaxDeeds)
    /\ BackHere(b)
    /\ lockedOut' = IF visit[b].stage \in {"counting", "locking"} THEN [lockedOut EXCEPT ![visit[b].on] = TRUE] ELSE lockedOut
    /\ UNCHANGED <<admin, session, holds, served, failed, disabling>>

BrowserStep(b) ==
    \/ SignIn(b) \/ RecordFailedSignIn(b) \/ CountFailures(b) \/ MaybeLock(b)
    \/ CanActivate(b) \/ Operation(b) \/ SignOut(b) \/ ReadEnrolment(b) \/ CompleteSecondFactor(b)
    \/ RevokeSession(b) \/ SessionExpires(b) \/ DiesInCall(b)

SessionsNext ==
    \/ \E b \in Browsers : BrowserStep(b)
    \/ \E b \in Browsers, a \in Admins, p \in Passwords : BeginSignIn(b, a, p)
    \/ \E b \in Browsers, p \in Passwords : ReadPassword(b, p) \/ ChangePassword(b, p)
    \/ \E b \in Browsers, for \in {"operation", "enrol", "code", "sign-out", "password"} : Call(b, for)
    \/ \E b \in Browsers, s \in TotpSecrets : BeginTotpEnrolment(b, s)
    \/ \E b \in Browsers, right \in BOOLEAN : ReadSecret(b, right)
    \/ \E a \in Admins : RevokeAllSessions(a) \/ PatchAdministrator(a) \/ RollBackDisabling(a) \/ LockLapses(a) \/ FailuresAge(a)

SessionsSpec == SessionsInit /\ [][SessionsNext]_sessionVars

-----------------------------------------------------------------------------
\* Every variable has its type.
SessionsTypeOK ==
    /\ \A a \in Admins : /\ admin[a].status \in {"active", "disabled"} /\ admin[a].secret \in TotpSecrets \cup {None}
                         /\ admin[a].password \in Passwords /\ admin[a].locked \in BOOLEAN
    /\ \A b \in Browsers : session[b] # None => session[b].admin \in Admins
    /\ disabling \subseteq Admins

\* A browser's operation is served only if, at some moment since it came in, its second factor was
\* complete and its administrator active: a sign-in under way while the account is disabled stores a
\* session that was not revoked with the others, and it is of no use while the account stays disabled.
ServedIsActive == \A b \in Browsers : Stage(b, "operation") => served[b]

\* However many attempts fail at once, once their calls are over an account whose failures in the
\* window reached the limit was locked, unless a process died that was to lock it.
LockoutHolds ==
    \A a \in Admins :
        failed[a] >= Failures /\ (\A b \in Browsers : visit[b].on # a \/ visit[b].stage \notin {"counting", "locking"})
            => lockedOut[a]

\* What the code does not keep, "begins enrolment of an authenticator for an administrator who has
\* none": an enrolled authenticator stays.
EnrolledStays == [][\A a \in Admins : admin[a].enrolled => admin'[a].secret = admin[a].secret]_sessionVars
==============================================================================
