----------------------------- MODULE ConsoleProofs -----------------------------
(***************************************************************************)
(* What administrators and projects' developers do through the two APIs,   *)
(* for every number of them: sessions and their lockout, roles, the alerts *)
(* routed, the terms of routes and grants, deployments and a project's     *)
(* credentials; at the end, the scenes of MCConsole together, with what    *)
(* the console shows and what its forms do from ShownProofs.               *)
(***************************************************************************)
EXTENDS MCConsole, ShownProofs, SequenceTheorems, FiniteSetTheorems, WellFoundedInduction, TLAPS

-----------------------------------------------------------------------------
(***************************************************************************)
(* Sessions.  Whatever makes a session complete while its call waits for   *)
(* the guard is either the moment the call came in or an administrator     *)
(* becoming active, since a session completes its second factor in a call  *)
(* of its own.                                                             *)
(***************************************************************************)
Fors == {"operation", "enrol", "code", "sign-out", "password"}
\* The stages of a call that carries a session.
Carried == Fors \cup {"guarded", "hashing", "enrolling", "completing"}
Stages == Carried \cup {"idle", "verifying", "counting", "locking", "rejected"}

AdminRecord == [status : {"active", "disabled"}, password : Passwords, secret : TotpSecrets \cup {None},
                enrolled : BOOLEAN, locked : BOOLEAN]
SessionRecord == [admin : Admins, second : BOOLEAN, revoked : BOOLEAN, over : BOOLEAN]
Visit == [stage : Stages, on : Admins \cup {None},
          seen : AdminRecord \cup [enrolled : BOOLEAN] \cup {None}, typed : Passwords \cup Fors \cup {None}]

Typed ==
    /\ admin \in [Admins -> AdminRecord]
    /\ session \in [Browsers -> SessionRecord \cup {None}]
    /\ visit \in [Browsers -> Visit]
    /\ served \in [Browsers -> BOOLEAN]

InCall ==
    \A b \in Browsers :
        /\ visit[b].stage # "idle" => visit[b].on \in Admins
        /\ visit[b].stage \in Carried => session[b] \in SessionRecord
        /\ visit[b].stage = "guarded" => visit[b].typed \in Fors

\* A call that waits for the guard with a complete session has had its moment.
GuardedServed == \A b \in Browsers : visit[b].stage = "guarded" /\ Complete(b) => served[b]

SessInv == Typed /\ InCall /\ GuardedServed /\ ServedIsActive

-----------------------------------------------------------------------------
LEMMA InitSessInv == SessionsInit => SessInv
<1> SUFFICES ASSUME SessionsInit PROVE SessInv
  OBVIOUS
<1>1. admin \in [Admins -> AdminRecord]
  <2> DEFINE S == {[status |-> "active", password |-> p, secret |-> None, enrolled |-> FALSE,
                    locked |-> FALSE] : p \in Passwords}
  <2>1. S \subseteq AdminRecord
    <3> SUFFICES ASSUME NEW p \in Passwords
                 PROVE  [status |-> "active", password |-> p, secret |-> None, enrolled |-> FALSE,
                         locked |-> FALSE] \in AdminRecord
      OBVIOUS
    <3> QED BY DEF AdminRecord
  <2>2. admin \in [Admins -> S]
    BY DEF SessionsInit
  <2> HIDE DEF S
  <2> QED BY <2>1, <2>2
<1>2. Here \in Visit /\ Here.stage = "idle"
  BY DEF Here, Visit, Stages
<1>3. Typed
  BY <1>1, <1>2 DEF SessionsInit, Typed
<1> QED BY <1>2, <1>3 DEF SessionsInit, SessInv, InCall, GuardedServed, ServedIsActive, Stage, Carried, Fors

\* A browser's call goes on: sessions of other browsers and the administrators' status stay.
LEMMA VisitStep ==
    ASSUME SessInv, NEW b \in Browsers, NEW s \in Visit, visit' = [visit EXCEPT ![b] = s],
           UNCHANGED served,
           admin' \in [Admins -> AdminRecord],
           \A a \in Admins : admin'[a].status = admin[a].status,
           session' \in [Browsers -> SessionRecord \cup {None}],
           \A c \in Browsers : c # b => session'[c] = session[c],
           s.stage # "idle" => s.on \in Admins,
           s.stage \in Carried => session'[b] \in SessionRecord,
           s.stage # "guarded",
           s.stage = "operation" => served[b]
    PROVE  SessInv'
<1>1. \A c \in Browsers : visit'[c] = IF c = b THEN s ELSE visit[c]
  BY DEF SessInv, Typed
<1>2. Typed'
  BY DEF SessInv, Typed
<1>3. InCall'
  BY <1>1 DEF SessInv, InCall
<1>4. ServedIsActive'
  BY <1>1 DEF SessInv, ServedIsActive, Stage
<1>5. GuardedServed'
  <2> SUFFICES ASSUME NEW c \in Browsers, visit'[c].stage = "guarded", Complete(c)' PROVE served[c]
    BY DEF GuardedServed
  <2>1. c # b /\ visit[c].stage = "guarded" /\ session'[c] = session[c] /\ session[c] \in SessionRecord
    BY <1>1 DEF SessInv, InCall, Carried
  <2>2. admin'[session[c].admin].status = admin[session[c].admin].status
    BY <2>1 DEF SessionRecord
  <2>3. Complete(c)
    BY <2>1, <2>2 DEF Complete, InForce
  <2> QED BY <2>1, <2>3 DEF SessInv, GuardedServed
<1> QED BY <1>2, <1>3, <1>4, <1>5 DEF SessInv

\* No call moves: sessions or administrators change under those that wait.
LEMMA AroundStep ==
    ASSUME SessInv, UNCHANGED visit,
           admin' \in [Admins -> AdminRecord],
           session' \in [Browsers -> SessionRecord \cup {None}],
           \A b \in Browsers : session[b] \in SessionRecord => session'[b] \in SessionRecord,
           served' \in [Browsers -> BOOLEAN], \A b \in Browsers : served[b] => served'[b],
           \A b \in Browsers : Complete(b)' => Complete(b) \/ served'[b]
    PROVE  SessInv'
<1>1. Typed' /\ InCall'
  BY DEF SessInv, Typed, InCall
<1>2. GuardedServed' /\ ServedIsActive'
  BY DEF SessInv, GuardedServed, ServedIsActive, Stage
<1> QED BY <1>1, <1>2 DEF SessInv

LEMMA HereStep ==
    ASSUME SessInv, NEW b \in Browsers, BackHere(b), UNCHANGED served,
           admin' \in [Admins -> AdminRecord],
           \A a \in Admins : admin'[a].status = admin[a].status,
           session' \in [Browsers -> SessionRecord \cup {None}],
           \A c \in Browsers : c # b => session'[c] = session[c]
    PROVE  SessInv'
<1>1. Here \in Visit /\ Here.stage = "idle"
  BY DEF Here, Visit, Stages
<1>2. visit' = [visit EXCEPT ![b] = Here]
  BY DEF BackHere
<1>3. "idle" \notin Carried
  BY DEF Carried, Fors
<1> QED BY <1>1, <1>2, <1>3, VisitStep

\* A call goes on to a stage that neither the guard nor an operation is at, nothing else changing.
LEMMA StageStep ==
    ASSUME SessInv, NEW b \in Browsers, NEW s \in Visit, visit' = [visit EXCEPT ![b] = s],
           UNCHANGED <<admin, session, served>>,
           s.stage = "idle" \/ (visit[b].stage # "idle" /\ s.on = visit[b].on),
           s.stage \in Carried => visit[b].stage \in Carried,
           s.stage \notin {"guarded", "operation"}
    PROVE  SessInv'
<1>1. /\ s.stage # "idle" => s.on \in Admins
      /\ s.stage \in Carried => session'[b] \in SessionRecord
      /\ admin' \in [Admins -> AdminRecord] /\ session' \in [Browsers -> SessionRecord \cup {None}]
  BY DEF SessInv, Typed, InCall
<1> QED BY <1>1, VisitStep

\* An administrator's row with one field set.
LEMMA AdminsWith ==
    ASSUME NEW m \in [Admins -> AdminRecord], NEW a \in Admins
    PROVE  /\ [m EXCEPT ![a].locked = TRUE] \in [Admins -> AdminRecord]
           /\ \A p \in Passwords : [m EXCEPT ![a].password = p] \in [Admins -> AdminRecord]
           /\ \A s \in TotpSecrets : [m EXCEPT ![a].secret = s] \in [Admins -> AdminRecord]
BY DEF AdminRecord

LEMMA AdminsKeepStatus ==
    ASSUME NEW m \in [Admins -> AdminRecord], NEW a \in Admins, NEW b \in Admins
    PROVE  /\ [m EXCEPT ![a].locked = TRUE][b].status = m[b].status
           /\ \A p : [m EXCEPT ![a].password = p][b].status = m[b].status
           /\ \A s : [m EXCEPT ![a].secret = s][b].status = m[b].status
BY DEF AdminRecord

LEMMA VisitType ==
    ASSUME SessInv, NEW b \in Browsers
    PROVE  /\ visit[b] \in Visit
           /\ visit[b].stage # "idle" => visit[b].on \in Admins
           /\ visit[b].stage \in Carried => session[b] \in SessionRecord
           /\ admin \in [Admins -> AdminRecord] /\ session \in [Browsers -> SessionRecord \cup {None}]
           /\ visit \in [Browsers -> Visit] /\ served \in [Browsers -> BOOLEAN]
BY DEF SessInv, Typed, InCall

LEMMA GoToStep ==
    ASSUME SessInv, NEW b \in Browsers, NEW stage \in Stages \ {"idle", "guarded", "operation"},
           GoTo(b, stage), UNCHANGED <<admin, session, served>>, visit[b].stage # "idle",
           stage \in Carried => visit[b].stage \in Carried
    PROVE  SessInv'
<1> DEFINE s == [visit[b] EXCEPT !.stage = stage]
<1>1. s \in Visit /\ s.stage = stage /\ s.on = visit[b].on
  BY VisitType DEF Visit
<1>2. visit' = [visit EXCEPT ![b] = s]
  BY VisitType DEF GoTo
<1> HIDE DEF s
<1> QED BY <1>1, <1>2, StageStep

-----------------------------------------------------------------------------
(***************************************************************************)
(* The actions.                                                            *)
(***************************************************************************)
LEMMA SignInSteps ==
    ASSUME SessInv, NEW b \in Browsers,
           SignIn(b) \/ RecordFailedSignIn(b) \/ CountFailures(b) \/ MaybeLock(b)
    PROVE  SessInv'
<1>1. CASE SignIn(b)
  <2> DEFINE r == [admin |-> visit[b].on, second |-> FALSE, revoked |-> FALSE, over |-> FALSE]
  <2>1. session' = [session EXCEPT ![b] = r] /\ BackHere(b) /\ UNCHANGED <<admin, served>>
    BY <1>1 DEF SignIn
  <2>2. r \in SessionRecord
    BY <1>1, VisitType DEF SignIn, Stage, SessionRecord
  <2> HIDE DEF r
  <2>3. session' \in [Browsers -> SessionRecord \cup {None}]
        /\ \A c \in Browsers : c # b => session'[c] = session[c]
    BY <2>1, <2>2, VisitType
  <2> QED BY <2>1, <2>3, VisitType, HereStep
<1>2. CASE RecordFailedSignIn(b)
  <2>1. GoTo(b, "counting") /\ UNCHANGED <<admin, session, served>> /\ visit[b].stage # "idle"
    BY <1>2 DEF RecordFailedSignIn, Stage
  <2> QED BY <2>1, GoToStep DEF Stages, Carried, Fors
<1>3. CASE CountFailures(b)
  <2>1. /\ GoTo(b, "locking") \/ BackHere(b)
        /\ UNCHANGED <<admin, session, served>> /\ visit[b].stage # "idle"
    BY <1>3 DEF CountFailures, Stage
  <2>2. CASE GoTo(b, "locking")
    BY <2>1, <2>2, GoToStep DEF Stages, Carried, Fors
  <2>3. CASE BackHere(b)
    BY <2>1, <2>3, VisitType, HereStep
  <2> QED BY <2>1, <2>2, <2>3
<1>4. CASE MaybeLock(b)
  <2>1. /\ admin' = [admin EXCEPT ![visit[b].on].locked = TRUE]
        /\ BackHere(b) /\ UNCHANGED <<session, served>> /\ visit[b].stage # "idle"
    BY <1>4 DEF MaybeLock, Stage
  <2>2. /\ admin' \in [Admins -> AdminRecord]
        /\ \A a \in Admins : admin'[a].status = admin[a].status
    <3>1. visit[b].on \in Admins /\ admin \in [Admins -> AdminRecord]
      BY <2>1, VisitType
    <3>2. admin' \in [Admins -> AdminRecord]
      BY <2>1, <3>1, AdminsWith
    <3> QED BY <2>1, <3>1, <3>2, AdminsKeepStatus
  <2> QED BY <2>1, <2>2, VisitType, HereStep
<1> QED BY <1>1, <1>2, <1>3, <1>4

LEMMA BeginStep ==
    ASSUME SessInv, NEW b \in Browsers, NEW a \in Admins, NEW p \in Passwords, BeginSignIn(b, a, p)
    PROVE  SessInv'
<1> DEFINE s == [stage |-> "verifying", on |-> a, seen |-> admin[a], typed |-> p]
<1>1. /\ UNCHANGED <<admin, session, served>>
      /\ BackHere(b) \/ visit' = [visit EXCEPT ![b] = s]
  BY DEF BeginSignIn, BackHere
<1>2. s \in Visit /\ s.stage = "verifying" /\ s.on \in Admins
  BY VisitType DEF Visit, Stages
<1> HIDE DEF s
<1>3. "verifying" \notin Carried
  BY DEF Carried, Fors
<1>4. CASE BackHere(b)
  BY <1>1, <1>4, VisitType, HereStep
<1>5. CASE visit' = [visit EXCEPT ![b] = s]
  BY <1>1, <1>2, <1>3, <1>5, VisitType, VisitStep
<1> QED BY <1>1, <1>4, <1>5

LEMMA CallStep ==
    ASSUME SessInv, NEW b \in Browsers, NEW for \in Fors, Call(b, for)
    PROVE  SessInv'
<1> DEFINE s == [stage |-> "guarded", on |-> session[b].admin, seen |-> None, typed |-> for]
<1>1. /\ visit' = [visit EXCEPT ![b] = s] /\ served' = [served EXCEPT ![b] = Complete(b)]
      /\ UNCHANGED <<admin, session>> /\ visit[b].stage = "idle" /\ session[b] # None
  BY DEF Call, Stage
<1>2. session[b] \in SessionRecord
  BY <1>1, VisitType
<1>3. s \in Visit /\ s.stage = "guarded" /\ s.on \in Admins /\ s.typed \in Fors
  BY <1>2 DEF Visit, Stages, Carried, SessionRecord
<1>4. Complete(b) \in BOOLEAN
  BY DEF Complete
<1> HIDE DEF s
<1>5. /\ \A c \in Browsers : visit'[c] = IF c = b THEN s ELSE visit[c]
      /\ \A c \in Browsers : served'[c] = IF c = b THEN Complete(b) ELSE served[c]
      /\ visit' \in [Browsers -> Visit] /\ served' \in [Browsers -> BOOLEAN]
  BY <1>1, <1>3, <1>4, VisitType
<1>6. Typed' /\ InCall'
  BY <1>1, <1>2, <1>3, <1>5 DEF SessInv, Typed, InCall
<1>7. \A c \in Browsers : Complete(c)' <=> Complete(c)
  BY <1>1 DEF Complete, InForce
<1>8. GuardedServed'
  BY <1>5, <1>7 DEF SessInv, GuardedServed
<1>9. ServedIsActive'
  BY <1>3, <1>5 DEF SessInv, ServedIsActive, Stage
<1> QED BY <1>6, <1>8, <1>9 DEF SessInv

LEMMA CanActivateStep ==
    ASSUME SessInv, NEW b \in Browsers, CanActivate(b)
    PROVE  SessInv'
<1> DEFINE s == [visit[b] EXCEPT !.stage = visit[b].typed]
<1>1. /\ UNCHANGED <<admin, session, served>> /\ visit[b].stage = "guarded"
      /\ visit' = [visit EXCEPT ![b] = IF Admitted(b) THEN s ELSE Here]
  BY VisitType DEF CanActivate, Stage
<1>2. CASE ~Admitted(b)
  BY <1>1, <1>2, VisitType, HereStep DEF BackHere
<1>3. CASE Admitted(b)
  <2>1. visit[b].typed \in Fors
    BY <1>1 DEF SessInv, InCall
  <2>2. s \in Visit /\ s.stage = visit[b].typed /\ s.on = visit[b].on
    BY <2>1, VisitType DEF Visit, Stages, Carried
  <2>3. s.stage = "operation" => served[b]
    <3> SUFFICES ASSUME s.stage = "operation" PROVE served[b]
      OBVIOUS
    <3>1. Complete(b)
      BY <1>3, <2>2 DEF Admitted, Live, Complete
    <3> QED BY <1>1, <3>1 DEF SessInv, GuardedServed
  <2>4. visit[b].stage # "idle" /\ visit[b].stage \in Carried /\ s.stage # "guarded"
    BY <1>1, <2>1, <2>2 DEF Carried, Fors
  <2>5. visit' = [visit EXCEPT ![b] = s]
    BY <1>1, <1>3
  <2> HIDE DEF s
  <2> QED BY <1>1, <2>2, <2>3, <2>4, <2>5, VisitType, VisitStep
<1> QED BY <1>2, <1>3

LEMMA SessionRowStep ==
    ASSUME SessInv, NEW b \in Browsers, SignOut(b) \/ Operation(b) \/ DiesInCall(b)
    PROVE  SessInv'
<1>1. CASE SignOut(b)
  <2> DEFINE r == [session[b] EXCEPT !.revoked = TRUE]
  <2>1. session' = [session EXCEPT ![b] = r] /\ BackHere(b) /\ UNCHANGED <<admin, served>>
    BY <1>1 DEF SignOut
  <2>2. session[b] \in SessionRecord
    BY <1>1, VisitType DEF SignOut, Stage, Carried, Fors
  <2>3. r \in SessionRecord
    BY <2>2 DEF SessionRecord
  <2> HIDE DEF r
  <2>4. session' \in [Browsers -> SessionRecord \cup {None}]
        /\ \A c \in Browsers : c # b => session'[c] = session[c]
    BY <2>1, <2>3, VisitType
  <2> QED BY <2>1, <2>4, VisitType, HereStep
<1>2. CASE Operation(b) \/ DiesInCall(b)
  <2>1. BackHere(b) /\ UNCHANGED <<admin, session, served>>
    BY <1>2 DEF Operation, DiesInCall
  <2> QED BY <2>1, VisitType, HereStep
<1> QED BY <1>1, <1>2

LEMMA PasswordSteps ==
    ASSUME SessInv, NEW b \in Browsers, NEW p \in Passwords, ReadPassword(b, p) \/ ChangePassword(b, p)
    PROVE  SessInv'
<1>1. CASE ReadPassword(b, p)
  <2>1. /\ BackHere(b) \/ GoTo(b, "hashing")
        /\ UNCHANGED <<admin, session, served>> /\ visit[b].stage = "password"
    BY <1>1 DEF ReadPassword, BackHere, GoTo, Stage
  <2>2. CASE BackHere(b)
    BY <2>1, <2>2, VisitType, HereStep
  <2>3. CASE GoTo(b, "hashing")
    BY <2>1, <2>3, GoToStep DEF Stages, Carried, Fors
  <2> QED BY <2>1, <2>2, <2>3
<1>2. CASE ChangePassword(b, p)
  <2>1. /\ admin' = [admin EXCEPT ![visit[b].on].password = p]
        /\ BackHere(b) /\ UNCHANGED <<session, served>> /\ visit[b].stage # "idle"
    BY <1>2 DEF ChangePassword, Stage
  <2>2. /\ admin' \in [Admins -> AdminRecord]
        /\ \A a \in Admins : admin'[a].status = admin[a].status
    <3>1. visit[b].on \in Admins /\ admin \in [Admins -> AdminRecord]
      BY <2>1, VisitType
    <3>2. admin' \in [Admins -> AdminRecord]
      BY <2>1, <3>1, AdminsWith
    <3> QED BY <2>1, <3>1, <3>2, AdminsKeepStatus
  <2> QED BY <2>1, <2>2, VisitType, HereStep
<1> QED BY <1>1, <1>2

LEMMA EnrolmentSteps ==
    ASSUME SessInv, NEW b \in Browsers,
           ReadEnrolment(b) \/ \E s \in TotpSecrets : BeginTotpEnrolment(b, s)
    PROVE  SessInv'
<1>1. CASE ReadEnrolment(b)
  <2>1. /\ BackHere(b) \/ GoTo(b, "enrolling")
        /\ UNCHANGED <<admin, session, served>> /\ visit[b].stage = "enrol"
    BY <1>1 DEF ReadEnrolment, Stage
  <2>2. CASE BackHere(b)
    BY <2>1, <2>2, VisitType, HereStep
  <2>3. CASE GoTo(b, "enrolling")
    BY <2>1, <2>3, GoToStep DEF Stages, Carried, Fors
  <2> QED BY <2>1, <2>2, <2>3
<1>2. CASE \E s \in TotpSecrets : BeginTotpEnrolment(b, s)
  <2>1. PICK s \in TotpSecrets : BeginTotpEnrolment(b, s)
    BY <1>2
  <2>2. /\ admin' = [admin EXCEPT ![visit[b].on].secret = s]
        /\ BackHere(b) /\ UNCHANGED <<session, served>> /\ visit[b].stage # "idle"
    BY <2>1 DEF BeginTotpEnrolment, Stage
  <2>3. /\ admin' \in [Admins -> AdminRecord]
        /\ \A a \in Admins : admin'[a].status = admin[a].status
    <3>1. visit[b].on \in Admins /\ admin \in [Admins -> AdminRecord]
      BY <2>2, VisitType
    <3>2. admin' \in [Admins -> AdminRecord]
      BY <2>2, <3>1, AdminsWith
    <3> QED BY <2>2, <3>1, <3>2, AdminsKeepStatus
  <2> QED BY <2>2, <2>3, VisitType, HereStep
<1> QED BY <1>1, <1>2

LEMMA ReadSecretStep ==
    ASSUME SessInv, NEW b \in Browsers, NEW right \in BOOLEAN, ReadSecret(b, right)
    PROVE  SessInv'
<1>1. /\ UNCHANGED <<admin, session, served>> /\ visit[b].stage = "code"
      /\ \/ BackHere(b)
         \/ \E stage \in {"completing", "rejected"}, e \in BOOLEAN :
                visit' = [visit EXCEPT ![b] = [visit[b] EXCEPT !.stage = stage, !.seen = [enrolled |-> e]]]
  <2>1. visit[b].stage = "code" /\ visit[b].on \in Admins
    BY VisitType DEF ReadSecret, Stage
  <2>2. admin[visit[b].on].enrolled \in BOOLEAN
    BY <2>1, VisitType DEF AdminRecord
  <2>3. CASE Waived
    BY <2>1, <2>3 DEF ReadSecret, BackHere
  <2>4. CASE ~Waived /\ admin[visit[b].on].secret = None
    BY <2>1, <2>4 DEF ReadSecret, BackHere
  <2>5. CASE ~Waived /\ admin[visit[b].on].secret # None
    <3>1. CASE right /\ holds[b] = admin[visit[b].on].secret
      BY <2>1, <2>2, <2>5, <3>1 DEF ReadSecret
    <3>2. CASE ~(right /\ holds[b] = admin[visit[b].on].secret)
      BY <2>1, <2>2, <2>5, <3>2 DEF ReadSecret
    <3> QED BY <3>1, <3>2
  <2> QED BY <2>3, <2>4, <2>5
<1>2. CASE BackHere(b)
  BY <1>1, <1>2, VisitType, HereStep
<1>3. CASE ~BackHere(b)
  <2>1. PICK stage \in {"completing", "rejected"}, e \in BOOLEAN :
          visit' = [visit EXCEPT ![b] = [visit[b] EXCEPT !.stage = stage, !.seen = [enrolled |-> e]]]
    BY <1>1, <1>3
  <2> DEFINE s == [visit[b] EXCEPT !.stage = stage, !.seen = [enrolled |-> e]]
  <2>2. s \in Visit /\ s.stage = stage /\ s.on = visit[b].on
    BY VisitType DEF Visit, Stages, Carried
  <2> HIDE DEF s
  <2>3. visit' = [visit EXCEPT ![b] = s]
    BY <2>1 DEF s
  <2>4. s.stage \notin {"guarded", "operation", "idle"} /\ visit[b].stage # "idle" /\ visit[b].stage \in Carried
    BY <1>1, <2>2 DEF Carried, Fors
  <2> QED BY <1>1, <2>2, <2>3, <2>4, StageStep
<1> QED BY <1>2, <1>3

LEMMA CompleteStep ==
    ASSUME SessInv, NEW b \in Browsers, CompleteSecondFactor(b)
    PROVE  SessInv'
<1> DEFINE r == [session[b] EXCEPT !.second = TRUE]
           enrolled == admin[visit[b].on].enrolled \/ ~visit[b].seen.enrolled
<1>1. /\ session' = [session EXCEPT ![b] = r] /\ BackHere(b) /\ UNCHANGED served
      /\ admin' = [admin EXCEPT ![visit[b].on].locked = FALSE, ![visit[b].on].enrolled = @ \/ ~visit[b].seen.enrolled]
      /\ visit[b].stage = "completing" /\ visit[b].on \in Admins
  BY VisitType DEF CompleteSecondFactor, Stage
<1>2. session[b] \in SessionRecord
  BY <1>1, VisitType DEF Carried
<1>3. r \in SessionRecord
  BY <1>2 DEF SessionRecord
<1>4. enrolled \in BOOLEAN
  OBVIOUS
<1> HIDE DEF r
<1>5. session' \in [Browsers -> SessionRecord \cup {None}]
      /\ \A c \in Browsers : c # b => session'[c] = session[c]
  BY <1>1, <1>3, VisitType
<1>6. admin[visit[b].on] \in AdminRecord
  BY <1>1, VisitType
<1> HIDE DEF enrolled
<1> DEFINE signedIn == [admin[visit[b].on] EXCEPT !.locked = FALSE, !.enrolled = enrolled]
<1>7. signedIn \in AdminRecord /\ signedIn.status = admin[visit[b].on].status
  BY <1>4, <1>6 DEF AdminRecord
<1>8. admin' = [admin EXCEPT ![visit[b].on] = signedIn]
  BY <1>1, <1>6, VisitType DEF AdminRecord, enrolled
<1> HIDE DEF signedIn
<1>9. /\ admin' \in [Admins -> AdminRecord]
      /\ \A a \in Admins : admin'[a].status = admin[a].status
  BY <1>1, <1>7, <1>8, VisitType
<1> QED BY <1>1, <1>5, <1>9, HereStep

\* A session that ended, or is what it was.
EndedOrSame(r, s) == r = s \/ r.revoked = TRUE \/ r.over = TRUE

LEMMA EndedStep ==
    ASSUME SessInv, UNCHANGED <<admin, visit, served>>,
           session' \in [Browsers -> SessionRecord \cup {None}],
           \A b \in Browsers : session[b] \in SessionRecord => session'[b] \in SessionRecord,
           \A b \in Browsers : EndedOrSame(session'[b], session[b])
    PROVE  SessInv'
<1>1. \A b \in Browsers : Complete(b)' => Complete(b)
  BY DEF Complete, InForce, EndedOrSame
<1> QED BY <1>1, VisitType, AroundStep DEF SessInv, Typed

LEMMA RevocationSteps ==
    ASSUME SessInv, \/ \E b \in Browsers : RevokeSession(b) \/ SessionExpires(b)
                    \/ \E a \in Admins : RevokeAllSessions(a) \/ RollBackDisabling(a) \/ FailuresAge(a)
    PROVE  SessInv'
<1> USE DEF EndedOrSame
<1>0. session \in [Browsers -> SessionRecord \cup {None}]
  BY DEF SessInv, Typed
<1>1. ASSUME NEW b \in Browsers, RevokeSession(b) \/ SessionExpires(b)
      PROVE  SessInv'
  <2>1. session[b] \in SessionRecord
    BY <1>0, <1>1 DEF RevokeSession, SessionExpires, InForce
  <2>2. PICK r \in SessionRecord : session' = [session EXCEPT ![b] = r] /\ (r.revoked = TRUE \/ r.over = TRUE)
    <3>1. CASE RevokeSession(b)
      <4> DEFINE r == [session[b] EXCEPT !.revoked = TRUE]
      <4>1. r \in SessionRecord /\ r.revoked = TRUE
        BY <2>1 DEF SessionRecord
      <4>2. session' = [session EXCEPT ![b] = r]
        BY <3>1 DEF RevokeSession
      <4> HIDE DEF r
      <4> QED BY <4>1, <4>2
    <3>2. CASE SessionExpires(b)
      <4> DEFINE r == [session[b] EXCEPT !.over = TRUE]
      <4>1. r \in SessionRecord /\ r.over = TRUE
        BY <2>1 DEF SessionRecord
      <4>2. session' = [session EXCEPT ![b] = r]
        BY <3>2 DEF SessionExpires
      <4> HIDE DEF r
      <4> QED BY <4>1, <4>2
    <3> QED BY <1>1, <3>1, <3>2
  <2>3. UNCHANGED <<admin, visit, served>>
    BY <1>1 DEF RevokeSession, SessionExpires
  <2>4. \A c \in Browsers : session'[c] = IF c = b THEN r ELSE session[c]
    BY <1>0, <2>2
  <2>5. /\ session' \in [Browsers -> SessionRecord \cup {None}]
        /\ \A c \in Browsers : session[c] \in SessionRecord => session'[c] \in SessionRecord
        /\ \A c \in Browsers : EndedOrSame(session'[c], session[c])
    BY <1>0, <2>2, <2>4
  <2> QED BY <2>3, <2>5, EndedStep
<1>2. ASSUME NEW a \in Admins, RevokeAllSessions(a)
      PROVE  SessInv'
  <2> DEFINE r(b) == IF session[b] # None /\ session[b].admin = a THEN [session[b] EXCEPT !.revoked = TRUE] ELSE session[b]
  <2>1. UNCHANGED <<admin, visit, served>> /\ session' = [b \in Browsers |-> r(b)]
    BY <1>2 DEF RevokeAllSessions
  <2>2. ASSUME NEW b \in Browsers
        PROVE  /\ r(b) \in SessionRecord \cup {None} /\ (session[b] \in SessionRecord => r(b) \in SessionRecord)
               /\ EndedOrSame(r(b), session[b])
    <3>1. CASE session[b] # None /\ session[b].admin = a
      <4>1. session[b] \in SessionRecord
        BY <1>0, <3>1
      <4>2. r(b) \in SessionRecord /\ r(b).revoked = TRUE
        BY <3>1, <4>1 DEF SessionRecord
      <4> HIDE DEF r
      <4> QED BY <4>2
    <3>2. CASE ~(session[b] # None /\ session[b].admin = a)
      BY <1>0, <3>2
    <3> QED BY <3>1, <3>2
  <2> HIDE DEF r
  <2>3. /\ session' \in [Browsers -> SessionRecord \cup {None}]
        /\ \A b \in Browsers : session[b] \in SessionRecord => session'[b] \in SessionRecord
        /\ \A b \in Browsers : EndedOrSame(session'[b], session[b])
    BY <2>1, <2>2
  <2> QED BY <2>1, <2>3, EndedStep
<1>3. ASSUME NEW a \in Admins, RollBackDisabling(a) \/ FailuresAge(a)
      PROVE  SessInv'
  <2>1. UNCHANGED <<admin, visit, served, session>>
    BY <1>3 DEF RollBackDisabling, FailuresAge
  <2> QED BY <1>0, <2>1, EndedStep
<1> QED BY <1>1, <1>2, <1>3

\* An administrator's row changes under the calls that wait.
LEMMA RowSteps ==
    ASSUME SessInv, NEW a \in Admins, PatchAdministrator(a) \/ LockLapses(a)
    PROVE  SessInv'
<1>0. /\ admin \in [Admins -> AdminRecord] /\ session \in [Browsers -> SessionRecord \cup {None}]
      /\ served \in [Browsers -> BOOLEAN]
  BY DEF SessInv, Typed
<1>1. CASE LockLapses(a)
  <2>1. admin' = [admin EXCEPT ![a].locked = FALSE] /\ UNCHANGED <<session, visit, served>>
    BY <1>1 DEF LockLapses
  <2>2. /\ admin' \in [Admins -> AdminRecord]
        /\ \A c \in Admins : admin'[c].status = admin[c].status
    BY <2>1, <1>0 DEF AdminRecord
  <2>3. \A b \in Browsers : Complete(b)' => Complete(b)
    <3> SUFFICES ASSUME NEW b \in Browsers, Complete(b)' PROVE Complete(b)
      OBVIOUS
    <3>1. session'[b] = session[b] /\ session[b] \in SessionRecord
      BY <2>1, <1>0 DEF Complete, InForce
    <3>2. admin'[session[b].admin].status = admin[session[b].admin].status
      BY <2>2, <3>1 DEF SessionRecord
    <3> QED BY <3>1, <3>2 DEF Complete, InForce
  <2>4. /\ served' \in [Browsers -> BOOLEAN] /\ \A b \in Browsers : served[b] => served'[b]
        /\ \A b \in Browsers : session[b] \in SessionRecord => session'[b] \in SessionRecord
        /\ session' \in [Browsers -> SessionRecord \cup {None}]
    BY <1>0, <2>1
  <2> QED BY <2>1, <2>2, <2>3, <2>4, AroundStep
<1>2. CASE PatchAdministrator(a)
  <2>1. /\ \E status \in {"active", "disabled"} : admin' = [admin EXCEPT ![a].status = status]
        /\ served' = [b \in Browsers |-> served[b] \/ (InForce(b) /\ session[b].second /\ admin'[session[b].admin].status = "active")]
        /\ UNCHANGED <<session, visit>>
    BY <1>2 DEF PatchAdministrator
  <2>2. admin' \in [Admins -> AdminRecord]
    BY <2>1, <1>0 DEF AdminRecord
  <2>3. \A b \in Browsers : Complete(b)' => served'[b]
    BY <2>1 DEF Complete, InForce
  <2>4. served' \in [Browsers -> BOOLEAN] /\ \A b \in Browsers : served[b] => served'[b]
    BY <2>1, <1>0
  <2>5. /\ \A b \in Browsers : session[b] \in SessionRecord => session'[b] \in SessionRecord
        /\ session' \in [Browsers -> SessionRecord \cup {None}]
    BY <1>0, <2>1
  <2> QED BY <2>1, <2>2, <2>3, <2>4, <2>5, AroundStep
<1> QED BY <1>1, <1>2

-----------------------------------------------------------------------------
LEMMA SessionsStep == SessInv /\ [SessionsNext]_sessionVars => SessInv'
<1> SUFFICES ASSUME SessInv, [SessionsNext]_sessionVars PROVE SessInv'
  OBVIOUS
<1>1. CASE UNCHANGED sessionVars
  BY <1>1 DEF sessionVars, SessInv, Typed, InCall, GuardedServed, ServedIsActive, Complete, InForce, Stage
<1>2. ASSUME NEW b \in Browsers, BrowserStep(b) PROVE SessInv'
  BY <1>2, SignInSteps, CanActivateStep, SessionRowStep, EnrolmentSteps, CompleteStep, RevocationSteps DEF BrowserStep
<1>3. ASSUME NEW b \in Browsers, NEW a \in Admins, NEW p \in Passwords, BeginSignIn(b, a, p) PROVE SessInv'
  BY <1>3, BeginStep
<1>4. ASSUME NEW b \in Browsers, NEW p \in Passwords, ReadPassword(b, p) \/ ChangePassword(b, p) PROVE SessInv'
  BY <1>4, PasswordSteps
<1>5. ASSUME NEW b \in Browsers, NEW for \in Fors, Call(b, for) PROVE SessInv'
  BY <1>5, CallStep
<1>6. ASSUME NEW b \in Browsers, NEW s \in TotpSecrets, BeginTotpEnrolment(b, s) PROVE SessInv'
  BY <1>6, EnrolmentSteps
<1>7. ASSUME NEW b \in Browsers, NEW right \in BOOLEAN, ReadSecret(b, right) PROVE SessInv'
  BY <1>7, ReadSecretStep
<1>8. ASSUME NEW a \in Admins,
             RevokeAllSessions(a) \/ PatchAdministrator(a) \/ RollBackDisabling(a) \/ LockLapses(a) \/ FailuresAge(a)
      PROVE  SessInv'
  BY <1>8, RevocationSteps, RowSteps
<1> QED BY <1>1, <1>2, <1>3, <1>4, <1>5, <1>6, <1>7, <1>8 DEF SessionsNext, Fors

\* An operation of the console is served only to a session that, at some moment since the call came
\* in, had completed its second factor and was of an active administrator.
THEOREM ServedToTheActive == SessionsSpec => []ServedIsActive
<1>1. SessionsInit => SessInv
  BY InitSessInv
<1>2. SessInv /\ [SessionsNext]_sessionVars => SessInv'
  BY SessionsStep
<1>3. SessInv => ServedIsActive
  BY DEF SessInv
<1> QED BY <1>1, <1>2, <1>3, PTL DEF SessionsSpec

-----------------------------------------------------------------------------
(***************************************************************************)
(* The lockout.  An account whose failures reached the limit was locked,   *)
(* or a call that failed is yet to count them or to lock it.               *)
(***************************************************************************)
Locking(a) == \E b \in Browsers : visit[b].on = a /\ visit[b].stage \in {"counting", "locking"}

LockInv ==
    /\ failed \in [Admins -> Nat] /\ lockedOut \in [Admins -> BOOLEAN] /\ disabling \subseteq Admins
    /\ \A a \in Admins : failed[a] >= Failures => lockedOut[a] \/ Locking(a)

\* A call that neither counts nor locks goes on, and no failure is recorded.
LEMMA CallGoesOn ==
    ASSUME SessInv, LockInv, NEW b \in Browsers, visit[b].stage \notin {"counting", "locking"},
           NEW s, visit' = [visit EXCEPT ![b] = s], UNCHANGED <<failed, lockedOut, disabling>>
    PROVE  LockInv'
<1>1. \A c \in Browsers : c # b => visit'[c] = visit[c]
  BY VisitType
<1>2. \A a \in Admins : Locking(a) => Locking(a)'
  BY <1>1 DEF Locking
<1> QED BY <1>2 DEF LockInv

LEMMA CallsStay ==
    ASSUME LockInv, UNCHANGED <<visit, failed, lockedOut>>, disabling' \subseteq Admins
    PROVE  LockInv'
BY DEF LockInv, Locking

LEMMA FailureStep ==
    ASSUME SessInv, LockInv, NEW b \in Browsers, RecordFailedSignIn(b)
    PROVE  LockInv'
<1> DEFINE o == visit[b].on
           s == [visit[b] EXCEPT !.stage = "counting"]
<1>1. /\ visit[b].stage \in {"verifying", "rejected"} /\ failed' = [failed EXCEPT ![o] = failed[o] + 1]
      /\ visit' = [visit EXCEPT ![b] = s] /\ UNCHANGED <<lockedOut, disabling>>
  BY VisitType DEF RecordFailedSignIn, Stage, GoTo
<1>2. o \in Admins /\ s.stage = "counting" /\ s.on = o
  BY <1>1, VisitType DEF Visit
<1> HIDE DEF s
<1>3. visit'[b] = s /\ \A c \in Browsers : c # b => visit'[c] = visit[c]
  BY <1>1, VisitType
<1>4. \A a \in Admins : a = o => Locking(a)'
  BY <1>2, <1>3 DEF Locking
<1>5. \A a \in Admins : Locking(a) => Locking(a)'
  BY <1>1, <1>3 DEF Locking
<1>6. failed' \in [Admins -> Nat] /\ \A a \in Admins : a # o => failed'[a] = failed[a]
  BY <1>1, <1>2 DEF LockInv
<1>7. ASSUME NEW a \in Admins, failed'[a] >= Failures PROVE lockedOut'[a] \/ Locking(a)'
  <2>1. CASE a = o
    BY <2>1, <1>4
  <2>2. CASE a # o
    BY <2>2, <1>1, <1>5, <1>6, <1>7 DEF LockInv
  <2> QED BY <2>1, <2>2
<1>8. UNCHANGED <<lockedOut, disabling>>
  BY <1>1
<1> QED BY <1>6, <1>7, <1>8 DEF LockInv

\* Counting what is below the limit, locking, and dying instead of it leave no account of that call's
\* behind: it was locked, or its failures are too few.
LEMMA CallIsOver ==
    ASSUME SessInv, LockInv, NEW b \in Browsers, visit[b].stage # "idle", BackHere(b), UNCHANGED <<failed, disabling>>,
           lockedOut' \in [Admins -> BOOLEAN], \A a \in Admins : lockedOut[a] => lockedOut'[a],
           visit[b].stage \in {"counting", "locking"} => failed[visit[b].on] < Failures \/ lockedOut'[visit[b].on]
    PROVE  LockInv'
<1>1. \A c \in Browsers : c # b => visit'[c] = visit[c]
  BY VisitType DEF BackHere
<1>2. ASSUME NEW a \in Admins, failed[a] >= Failures PROVE lockedOut'[a] \/ Locking(a)'
  <2>1. CASE lockedOut[a]
    BY <2>1
  <2>2. CASE Locking(a)
    <3>1. PICK c \in Browsers : visit[c].on = a /\ visit[c].stage \in {"counting", "locking"}
      BY <2>2 DEF Locking
    <3>2. CASE c = b
      BY <1>2, <3>1, <3>2, SessionsOK DEF LockInv
    <3>3. CASE c # b
      BY <1>1, <3>1, <3>3 DEF Locking
    <3> QED BY <3>2, <3>3
  <2> QED BY <1>2, <2>1, <2>2 DEF LockInv
<1> QED BY <1>2 DEF LockInv

LEMMA CountStep ==
    ASSUME SessInv, LockInv, NEW b \in Browsers, CountFailures(b)
    PROVE  LockInv'
<1>1. /\ visit[b].stage = "counting" /\ UNCHANGED <<failed, lockedOut, disabling>>
      /\ IF failed[visit[b].on] >= Failures THEN GoTo(b, "locking") ELSE BackHere(b)
  BY DEF CountFailures, Stage
<1>2. visit[b].on \in Admins /\ failed[visit[b].on] \in Nat
  BY <1>1, VisitType DEF LockInv
<1>3. CASE failed[visit[b].on] >= Failures
  <2>1. \A c \in Browsers : visit'[c].on = visit[c].on /\ (c # b => visit'[c].stage = visit[c].stage)
    BY <1>1, <1>3, VisitType DEF GoTo, Visit
  <2>2. visit'[b].stage = "locking"
    BY <1>1, <1>3, VisitType DEF GoTo, Visit
  <2>3. \A a \in Admins : Locking(a) => Locking(a)'
    BY <2>1, <2>2 DEF Locking
  <2> QED BY <1>1, <2>3 DEF LockInv
<1>4. CASE ~(failed[visit[b].on] >= Failures)
  <2>1. failed[visit[b].on] < Failures
    BY <1>2, <1>4, SessionsOK
  <2> QED BY <1>1, <1>4, <2>1, CallIsOver DEF LockInv
<1> QED BY <1>3, <1>4

LEMMA LockedStep ==
    ASSUME SessInv, LockInv, NEW b \in Browsers, MaybeLock(b) \/ DiesInCall(b)
    PROVE  LockInv'
<1>1. /\ visit[b].stage # "idle" /\ BackHere(b) /\ UNCHANGED <<failed, disabling>>
      /\ lockedOut' = IF visit[b].stage \in {"counting", "locking"} THEN [lockedOut EXCEPT ![visit[b].on] = TRUE] ELSE lockedOut
  BY DEF MaybeLock, DiesInCall, Stage
<1>2. visit[b].on \in Admins
  BY <1>1, VisitType
<1>3. /\ lockedOut' \in [Admins -> BOOLEAN] /\ \A a \in Admins : lockedOut[a] => lockedOut'[a]
      /\ visit[b].stage \in {"counting", "locking"} => lockedOut'[visit[b].on]
  BY <1>1, <1>2 DEF LockInv
<1> QED BY <1>1, <1>3, CallIsOver

LEMMA LockoutStep == SessInv /\ LockInv /\ [SessionsNext]_sessionVars => LockInv'
<1> SUFFICES ASSUME SessInv, LockInv, [SessionsNext]_sessionVars PROVE LockInv'
  OBVIOUS
<1>1. CASE UNCHANGED sessionVars
  BY <1>1, CallsStay DEF sessionVars, LockInv
<1>2. ASSUME NEW b \in Browsers, BrowserStep(b) PROVE LockInv'
  <2>1. CASE RecordFailedSignIn(b) \/ CountFailures(b) \/ MaybeLock(b) \/ DiesInCall(b)
    BY <2>1, FailureStep, CountStep, LockedStep
  <2>2. CASE SignIn(b) \/ Operation(b) \/ SignOut(b) \/ CompleteSecondFactor(b)
    <3>1. visit[b].stage \in {"verifying", "operation", "sign-out", "completing"} /\ BackHere(b)
          /\ UNCHANGED <<failed, lockedOut, disabling>>
      BY <2>2 DEF SignIn, Operation, SignOut, CompleteSecondFactor, Stage
    <3> QED BY <3>1, CallGoesOn DEF BackHere
  <2>3. CASE CanActivate(b)
    <3>1. visit[b].stage = "guarded" /\ UNCHANGED <<failed, lockedOut, disabling>>
          /\ \E s : visit' = [visit EXCEPT ![b] = s]
      BY <2>3, VisitType DEF CanActivate, Stage
    <3> QED BY <3>1, CallGoesOn
  <2>4. CASE ReadEnrolment(b)
    <3>1. visit[b].stage = "enrol" /\ UNCHANGED <<failed, lockedOut, disabling>>
          /\ \E s : visit' = [visit EXCEPT ![b] = s]
      BY <2>4, VisitType DEF ReadEnrolment, Stage, BackHere, GoTo
    <3> QED BY <3>1, CallGoesOn
  <2>5. CASE RevokeSession(b) \/ SessionExpires(b)
    BY <2>5, CallsStay DEF RevokeSession, SessionExpires, LockInv
  <2> QED BY <1>2, <2>1, <2>2, <2>3, <2>4, <2>5 DEF BrowserStep
<1>3. ASSUME NEW b \in Browsers, NEW a \in Admins, NEW p \in Passwords, BeginSignIn(b, a, p) PROVE LockInv'
  <2>1. visit[b].stage = "idle" /\ UNCHANGED <<failed, lockedOut, disabling>> /\ \E s : visit' = [visit EXCEPT ![b] = s]
    BY <1>3 DEF BeginSignIn, Stage
  <2> QED BY <2>1, CallGoesOn
<1>4. ASSUME NEW b \in Browsers, NEW p \in Passwords, ReadPassword(b, p) \/ ChangePassword(b, p) PROVE LockInv'
  <2>1. visit[b].stage \in {"password", "hashing"} /\ UNCHANGED <<failed, lockedOut, disabling>>
        /\ \E s : visit' = [visit EXCEPT ![b] = s]
    BY <1>4, VisitType DEF ReadPassword, ChangePassword, Stage, BackHere
  <2> QED BY <2>1, CallGoesOn
<1>5. ASSUME NEW b \in Browsers, NEW for \in Fors, Call(b, for) PROVE LockInv'
  <2>1. visit[b].stage = "idle" /\ UNCHANGED <<failed, lockedOut, disabling>> /\ \E s : visit' = [visit EXCEPT ![b] = s]
    BY <1>5 DEF Call, Stage
  <2> QED BY <2>1, CallGoesOn
<1>6. ASSUME NEW b \in Browsers, NEW s \in TotpSecrets, BeginTotpEnrolment(b, s) PROVE LockInv'
  <2>1. visit[b].stage = "enrolling" /\ UNCHANGED <<failed, lockedOut, disabling>> /\ BackHere(b)
    BY <1>6 DEF BeginTotpEnrolment, Stage
  <2> QED BY <2>1, CallGoesOn DEF BackHere
<1>7. ASSUME NEW b \in Browsers, NEW right \in BOOLEAN, ReadSecret(b, right) PROVE LockInv'
  <2>1. visit[b].stage = "code" /\ UNCHANGED <<failed, lockedOut, disabling>> /\ \E s : visit' = [visit EXCEPT ![b] = s]
    BY <1>7 DEF ReadSecret, Stage
  <2> QED BY <2>1, CallGoesOn
<1>8. ASSUME NEW a \in Admins, RevokeAllSessions(a) \/ PatchAdministrator(a) \/ RollBackDisabling(a) \/ LockLapses(a)
      PROVE  LockInv'
  <2>1. UNCHANGED <<visit, failed, lockedOut>> /\ disabling' \subseteq Admins
    BY <1>8 DEF RevokeAllSessions, PatchAdministrator, RollBackDisabling, LockLapses, LockInv
  <2> QED BY <2>1, CallsStay
<1>9. ASSUME NEW a \in Admins, FailuresAge(a) PROVE LockInv'
  <2>1. /\ failed' = [failed EXCEPT ![a] = 0] /\ lockedOut' = [lockedOut EXCEPT ![a] = FALSE] /\ UNCHANGED <<visit, disabling>>
    BY <1>9 DEF FailuresAge
  <2>2. \A c \in Admins : Locking(c)' <=> Locking(c)
    BY <2>1 DEF Locking
  <2>3. \A c \in Admins : IF c = a THEN failed'[c] = 0 ELSE failed'[c] = failed[c] /\ lockedOut'[c] = lockedOut[c]
    BY <2>1 DEF LockInv
  <2>4. ~(0 >= Failures)
    BY SessionsOK
  <2> QED BY <2>1, <2>2, <2>3, <2>4 DEF LockInv
<1> QED BY <1>1, <1>2, <1>3, <1>4, <1>5, <1>6, <1>7, <1>8, <1>9 DEF SessionsNext, Fors

LEMMA InitLockInv == SessionsInit => LockInv
BY SessionsOK DEF SessionsInit, LockInv

\* However many sign-ins and codes of one account fail at once, and whatever process dies among them, the
\* account was locked once its failures in the window reached the limit (admin-auth.service.ts).
THEOREM LockoutAlwaysHolds == SessionsSpec => []LockoutHolds
<1>1. LockInv => LockoutHolds
  BY DEF LockInv, Locking, LockoutHolds
<1> QED BY <1>1, InitSessInv, InitLockInv, SessionsStep, LockoutStep, PTL DEF SessionsSpec

-----------------------------------------------------------------------------
(***************************************************************************)
(* Changes to roles and to who holds them.                                 *)
(***************************************************************************)

Deed == [stage : {"idle", "judged", "approving", "applying"}, change : Changes \cup {None},
         by : People \cup {None}, sensitive : BOOLEAN, prior : SUBSET Permissions]

RolesTyped ==
    /\ role \in [Roles -> (SUBSET Permissions) \cup {None}]
    /\ held \subseteq [administrator : People, role : Roles]
    /\ deed \in [People -> Deed]
    /\ asked \subseteq [change : Changes, by : People]

\* Only the creation of a role is about one that is not there yet, and no role goes.
Created(c) == c.kind # "role_create" => role[c.role] # None
RolesThere ==
    /\ \A h \in held : role[h.role] # None
    /\ \A q \in asked : Created(q.change)
    /\ \A p \in People : deed[p].stage # "idle" => deed[p].change \in Changes /\ Created(deed[p].change)

Pair(r, s) == [role |-> r, permission |-> s]
Vetted(r) == \A s \in PermissionsOf(r) \cap Sensitive : Pair(r, s) \in vetted

\* What is applied without a second person was judged harmless, and stays so: whatever the role is
\* given meanwhile, two people agreed to.
Harmless(c) ==
    /\ c.kind = "role_permissions" => c.permissions \cap Sensitive = {}
    /\ c.kind = "assignment_add" => Vetted(c.role)
Alone(p) == deed[p].stage # "idle" /\ deed[p].by = p
AloneIsHarmless ==
    \A p \in People :
        /\ Alone(p) /\ ~deed[p].sensitive => Harmless(deed[p].change)
        /\ Alone(p) /\ deed[p].sensitive => deed[p].stage = "judged"

RolesInv == RolesTyped /\ RolesThere /\ AloneIsHarmless /\ SecondPerson

LEMMA ChangeFields ==
    \A c \in Changes :
        /\ c.role \in Roles
        /\ c.kind \in {"role_create", "role_permissions", "assignment_add", "assignment_remove"}
        /\ OfRole(c) => c.permissions \in SUBSET Permissions
        /\ ~OfRole(c) => Named(c) \in [administrator : People, role : Roles]
  BY DEF Changes, OfRole, Named

\* An assignment is not a permission of a role.
LEMMA PairsApart ==
    ASSUME NEW r, NEW P, NEW a, NEW o
    PROVE  [administrator |-> a, role |-> o] \notin Allowing(r, P)
<1> SUFFICES ASSUME NEW x \in Allowing(r, P), x = [administrator |-> a, role |-> o] PROVE FALSE
  OBVIOUS
<1>1. "permission" \in DOMAIN x
  BY DEF Allowing
<1>2. "permission" \notin DOMAIN [administrator |-> a, role |-> o]
  OBVIOUS
<1> QED
  BY <1>1, <1>2

LEMMA InAllowing == \A r, P, o, s : Pair(o, s) \in Allowing(r, P) <=> o = r /\ s \in P
  BY DEF Allowing, Pair

LEMMA OnePair == \A r, s : Allowing(r, {s}) = {Pair(r, s)}
<1> SUFFICES ASSUME NEW r, NEW s PROVE Allowing(r, {s}) = {Pair(r, s)}
  OBVIOUS
<1>1. ASSUME NEW x \in [role : {r}, permission : {s}] PROVE x = [role |-> r, permission |-> s]
  <2>1. x = [role |-> x.role, permission |-> x.permission]
    OBVIOUS
  <2> QED
    BY <2>1
<1>2. [role |-> r, permission |-> s] \in [role : {r}, permission : {s}]
  OBVIOUS
<1> QED
  BY <1>1, <1>2 DEF Allowing, Pair

LEMMA PermissionsTyped == RolesTyped => \A r \in Roles : PermissionsOf(r) \in SUBSET Permissions
<1> SUFFICES ASSUME RolesTyped, NEW r \in Roles PROVE PermissionsOf(r) \in SUBSET Permissions
  OBVIOUS
<1>1. role[r] \in SUBSET Permissions \/ role[r] = None
  BY DEF RolesTyped
<1> QED
  BY <1>1 DEF PermissionsOf

\* A deed begins, goes on or ends: nothing is applied.
LEMMA DeedKeeps ==
    ASSUME RolesInv, UNCHANGED <<role, held, vetted>>,
           NEW p \in People, NEW d \in Deed, deed' = [deed EXCEPT ![p] = d],
           asked' \subseteq [change : Changes, by : People], \A q \in asked' : Created(q.change),
           d.stage # "idle" => d.change \in Changes /\ Created(d.change),
           d.stage # "idle" /\ d.by = p /\ ~d.sensitive => Harmless(d.change),
           d.stage # "idle" /\ d.by = p /\ d.sensitive => d.stage = "judged"
    PROVE  RolesInv'
<1>1. /\ deed' \in [People -> Deed] /\ deed'[p] = d
      /\ \A q \in People : q # p => deed'[q] = deed[q]
  BY DEF RolesInv, RolesTyped
<1>2. /\ \A c : Created(c)' <=> Created(c)
      /\ \A c : Harmless(c)' <=> Harmless(c)
  BY DEF Created, Harmless, Vetted, PermissionsOf, Allowing
<1>3. RolesTyped' /\ SecondPerson'
  BY <1>1 DEF RolesInv, RolesTyped, SecondPerson, PermissionsOf, Allowing
<1>4. RolesThere'
  BY <1>1, <1>2 DEF RolesInv, RolesThere
<1>5. AloneIsHarmless'
  BY <1>1, <1>2 DEF RolesInv, AloneIsHarmless, Alone
<1> QED
  BY <1>3, <1>4, <1>5 DEF RolesInv

LEMMA NoDeedIs == NoDeed \in Deed /\ NoDeed.stage = "idle"
  BY DEF NoDeed, Deed

LEMMA DeedMade ==
    ASSUME NEW stage \in {"idle", "judged", "approving", "applying"}, NEW c \in Changes, NEW by \in People,
           NEW sensitive \in BOOLEAN, NEW prior \in SUBSET Permissions
    PROVE  [stage |-> stage, change |-> c, by |-> by, sensitive |-> sensitive, prior |-> prior] \in Deed
  BY DEF Deed

\* What is judged harmless is: a change of permissions brings none that are sensitive, and the role of an
\* assignment has none.
LEMMA JudgedHarmless ==
    ASSUME NEW c \in Changes, ~NeedsApproval(c) PROVE Harmless(c)
<1>1. CASE c.kind = "role_permissions"
  BY <1>1 DEF NeedsApproval, RequiresApproval, Harmless
<1>2. CASE c.kind = "assignment_add"
  <2>1. PermissionsOf(c.role) \cap Sensitive = {}
    BY <1>2 DEF NeedsApproval, RequiresApproval
  <2>2. Vetted(c.role)
    BY <2>1 DEF Vetted
  <2> QED
    BY <1>2, <2>2 DEF Harmless
<1> QED
  BY <1>1, <1>2 DEF Harmless

LEMMA ProposeKeeps ==
    ASSUME RolesInv, NEW p \in People, NEW c \in Changes, Propose(p, c)
    PROVE  RolesInv'
<1> DEFINE d == [stage |-> "judged", change |-> c, by |-> p, sensitive |-> NeedsApproval(c), prior |-> {}]
<1>1. deed' = [deed EXCEPT ![p] = d] /\ UNCHANGED <<role, held, asked, vetted>>
  BY DEF Propose, Began
<1>2. NeedsApproval(c) \in BOOLEAN
  BY ChangeFields DEF NeedsApproval, RequiresApproval
<1>3. d \in Deed
  BY <1>2, DeedMade
<1>4. Created(c)
  BY DEF Propose, Created
<1>5. d.change = c /\ d.stage = "judged" /\ d.by = p /\ d.sensitive = NeedsApproval(c)
  OBVIOUS
<1> HIDE DEF d
<1> QED
  BY <1>1, <1>3, <1>4, <1>5, JudgedHarmless, DeedKeeps DEF RolesInv, RolesTyped, RolesThere

LEMMA QueueKeeps == ASSUME RolesInv, NEW p \in People, Queue(p) PROVE RolesInv'
<1>1. deed' = [deed EXCEPT ![p] = NoDeed] /\ UNCHANGED <<role, held, vetted>>
  BY DEF Queue
<1>2. deed[p].change \in Changes /\ Created(deed[p].change)
  BY DEF Queue, RolesInv, RolesThere
<1>3. asked' = asked \cup {[change |-> deed[p].change, by |-> p]}
  BY DEF Queue
<1>4. asked' \subseteq [change : Changes, by : People]
  BY <1>2, <1>3 DEF RolesInv, RolesTyped
<1>5. \A q \in asked' : Created(q.change)
  BY <1>2, <1>3 DEF RolesInv, RolesThere
<1> QED
  BY <1>1, <1>4, <1>5, NoDeedIs, DeedKeeps

LEMMA ReadPriorKeeps == ASSUME RolesInv, NEW p \in People, ReadPrior(p) PROVE RolesInv'
<1> DEFINE P == PermissionsOf(deed[p].change.role)
           d == [deed[p] EXCEPT !.stage = "applying", !.prior = P]
<1>1. deed' = [deed EXCEPT ![p] = d] /\ UNCHANGED <<role, held, asked, vetted>>
  BY DEF ReadPrior
<1>2. deed[p].change \in Changes /\ deed[p] \in Deed /\ Created(deed[p].change)
  BY DEF ReadPrior, RolesInv, RolesThere, RolesTyped
<1>3. P \in SUBSET Permissions
  BY <1>2, ChangeFields, PermissionsTyped DEF RolesInv
<1>4. /\ d \in Deed /\ d.stage = "applying" /\ d.change = deed[p].change /\ d.by = deed[p].by
      /\ d.sensitive = deed[p].sensitive
  BY <1>2, <1>3 DEF Deed
<1>5. /\ deed[p].by = p => ~deed[p].sensitive
      /\ deed[p].by = p => Harmless(deed[p].change)
  BY DEF ReadPrior, RolesInv, AloneIsHarmless, Alone
<1> HIDE DEF P, d
<1> QED
  BY <1>1, <1>2, <1>4, <1>5, DeedKeeps DEF RolesInv, RolesTyped, RolesThere

LEMMA ApproveKeeps == ASSUME RolesInv, NEW p \in People, NEW q \in asked, Approve(p, q) PROVE RolesInv'
<1> DEFINE d == [stage |-> "approving", change |-> q.change, by |-> q.by, sensitive |-> TRUE, prior |-> {}]
<1>1. deed' = [deed EXCEPT ![p] = d] /\ UNCHANGED <<role, held, asked, vetted>> /\ q.by # p
  BY DEF Approve, Began
<1>2. q.change \in Changes /\ q.by \in People /\ Created(q.change)
  BY DEF RolesInv, RolesTyped, RolesThere
<1>3. d \in Deed /\ d.change = q.change /\ d.by = q.by
  BY <1>2, DeedMade
<1> HIDE DEF d
<1> QED
  BY <1>1, <1>2, <1>3, DeedKeeps DEF RolesInv, RolesTyped, RolesThere

LEMMA RollBackKeeps == ASSUME RolesInv, NEW p \in People, RollBackChange(p) PROVE RolesInv'
  BY NoDeedIs, DeedKeeps DEF RollBackChange, RolesInv, RolesTyped, RolesThere

LEMMA DeclineKeeps == ASSUME RolesInv, NEW p \in People, NEW q \in asked, Decline(p, q) PROVE RolesInv'
<1>1. deed' = [deed EXCEPT ![p] = deed[p]] /\ deed[p] \in Deed /\ UNCHANGED <<role, held, vetted>>
  BY DEF Decline, RolesInv, RolesTyped
<1>2. asked' \subseteq asked
  BY DEF Decline
<1> QED
  BY <1>1, <1>2, DeedKeeps DEF RolesInv, RolesTyped, RolesThere, AloneIsHarmless, Alone

\* What a change leaves of a role: permissions it had, and those the change gives it.
LEMMA ApplyKeeps ==
    ASSUME RolesOK, RolesInv, NEW p \in People, ApplyChange(p)
    PROVE  RolesInv'
<1> DEFINE left == Dropped(p)
           second == deed[p].by # p
<1>c. PICK c : c = deed[p].change
  OBVIOUS
<1>r. PICK r : r = c.role
  OBVIOUS
<1>0. /\ c \in Changes /\ Created(c)
      /\ ~second => Harmless(c)
      /\ Insertable(p)
  BY <1>c DEF ApplyChange, RolesInv, RolesThere, RolesTyped, AloneIsHarmless, Alone
<1>1. /\ deed' = [deed EXCEPT ![p] = NoDeed]
      /\ asked' \subseteq asked
  BY DEF ApplyChange
<1>2. /\ deed' \in [People -> Deed]
      /\ \A q \in People : deed'[q].stage # "idle" => q # p /\ deed'[q] = deed[q]
  BY <1>1, NoDeedIs DEF RolesInv, RolesTyped
<1>3. left \subseteq PermissionsOf(r) /\ PermissionsOf(r) \in SUBSET Permissions /\ r \in Roles
  BY <1>0, <1>c, <1>r, ChangeFields, PermissionsTyped DEF Dropped, RolesInv
<1>4. CASE OfRole(c)
  <2>1. held' = held
    BY <1>4, <1>c DEF ApplyChange, OfRole
  <2>2. /\ role' = [role EXCEPT ![r] = left \cup c.permissions]
        /\ vetted' = (vetted \ Allowing(r, Permissions \ left)) \cup (IF second THEN Allowing(r, c.permissions) ELSE {})
    BY <1>4, <1>c, <1>r DEF ApplyChange, OfRole
  <2>3. /\ c.permissions \in SUBSET Permissions /\ left \cap c.permissions = {}
        /\ c.kind = "role_create" => role[r] = None
    BY <1>0, <1>4, <1>c, <1>r, ChangeFields DEF Insertable
  <2> HIDE DEF left, second
  <2>4. /\ role' \in [Roles -> (SUBSET Permissions) \cup {None}] /\ role'[r] = left \cup c.permissions /\ role'[r] # None
        /\ \A o \in Roles : o # r => role'[o] = role[o]
    <3>1. left \cup c.permissions \in SUBSET Permissions
      BY <1>3, <2>3
    <3>2. left \cup c.permissions # None
      BY <3>1 DEF RolesOK
    <3> QED
      BY <1>3, <2>2, <3>1, <3>2 DEF RolesInv, RolesTyped
  <2>5. PermissionsOf(r)' = left \cup c.permissions /\ \A o \in Roles : o # r => PermissionsOf(o)' = PermissionsOf(o)
    BY <2>4 DEF PermissionsOf
  <2>6. \A h \in held : h \in vetted => h \in vetted'
    BY <2>2, PairsApart DEF RolesInv, RolesTyped
  \* A permission the role keeps, or that two people gave it, stays agreed to.
  <2>7. ASSUME NEW o \in Roles, NEW s \in PermissionsOf(o)' \cap Sensitive,
               s \in PermissionsOf(o) => Pair(o, s) \in vetted, role[o] # None
        PROVE  Pair(o, s) \in vetted'
    <3>1. CASE o # r
      <4>1. Pair(o, s) \notin Allowing(r, Permissions \ left)
        BY <3>1, InAllowing
      <4> QED
        BY <2>7, <3>1, <4>1, <2>2, <2>5
    <3>2. CASE o = r /\ s \in left
      <4>1. Pair(o, s) \notin Allowing(r, Permissions \ left)
        BY <3>2, InAllowing
      <4> QED
        BY <2>7, <1>3, <3>2, <4>1, <2>2
    <3>3. CASE o = r /\ s \in c.permissions
      <4>1. c.kind = "role_permissions"
        BY <1>4, <2>3, <2>7, <3>3 DEF OfRole
      <4>2. second
        BY <1>0, <2>7, <3>3, <4>1 DEF Harmless, second
      <4> QED
        BY <2>2, <3>3, <4>2, InAllowing
    <3> QED
      BY <2>7, <3>1, <3>2, <3>3, <2>5
  <2>8. SecondPerson'
    <3> SUFFICES ASSUME NEW h \in held, NEW s \in PermissionsOf(h.role)' \cap Sensitive, h \notin vetted'
                 PROVE  Pair(h.role, s) \in vetted'
      BY <2>1, OnePair DEF SecondPerson
    <3>1. h.role \in Roles /\ role[h.role] # None
      BY DEF RolesInv, RolesTyped, RolesThere
    <3>2. h \notin vetted
      BY <2>6
    <3>3. s \in PermissionsOf(h.role) => Pair(h.role, s) \in vetted
      BY <3>2, OnePair DEF RolesInv, SecondPerson
    <3> QED
      BY <2>7, <3>1, <3>3
  <2>9. \A d \in Changes : Created(d) => Created(d)'
    BY <2>4, ChangeFields DEF Created
  <2>10. \A d \in Changes : Created(d) /\ Harmless(d) => Harmless(d)'
    <3> SUFFICES ASSUME NEW d \in Changes, Created(d), Harmless(d), d.kind = "assignment_add",
                        NEW s \in PermissionsOf(d.role)' \cap Sensitive
                 PROVE  Pair(d.role, s) \in vetted'
      BY DEF Harmless, Vetted
    <3>1. d.role \in Roles /\ role[d.role] # None
      BY ChangeFields DEF Created
    <3>2. s \in PermissionsOf(d.role) => Pair(d.role, s) \in vetted
      BY DEF Harmless, Vetted
    <3> QED
      BY <2>7, <3>1, <3>2
  <2>11. RolesTyped' /\ RolesThere'
    BY <1>1, <1>2, <2>1, <2>4, <2>9 DEF RolesInv, RolesTyped, RolesThere
  <2>12. AloneIsHarmless'
    BY <1>2, <2>10 DEF RolesInv, RolesThere, AloneIsHarmless, Alone
  <2> QED
    BY <2>8, <2>11, <2>12 DEF RolesInv
<1>5. CASE ~OfRole(c)
  <2>1. c.kind = "assignment_add" \/ c.kind = "assignment_remove"
    BY <1>0, <1>5, ChangeFields DEF OfRole
  <2>2. /\ role' = role
        /\ held' = IF c.kind = "assignment_add" THEN held \cup {Named(c)} ELSE held \ {Named(c)}
        /\ vetted' = (vetted \ (IF c.kind = "assignment_remove" THEN {Named(c)} ELSE {}))
                     \cup (IF second /\ c.kind # "assignment_remove" THEN {Named(c)} ELSE {})
    BY <1>5, <1>c, <2>1 DEF ApplyChange
  <2>3. Named(c) \in [administrator : People, role : Roles] /\ Named(c).role = r
    BY <1>0, <1>5, <1>r, ChangeFields DEF Named
  <2> HIDE DEF left
  <2>4. \A o, s : Pair(o, s) \in vetted => Pair(o, s) \in vetted'
    <3>1. \A o, s : Pair(o, s) # Named(c)
      <4> TAKE o, s
      <4>1. Pair(o, s) \in Allowing(o, {s})
        BY InAllowing
      <4>2. Named(c) \notin Allowing(o, {s})
        BY PairsApart DEF Named
      <4> QED
        BY <4>1, <4>2
    <3> QED
      BY <2>2, <3>1
  <2>5. \A d : (Created(d) => Created(d)') /\ (Harmless(d) => Harmless(d)')
    BY <2>2, <2>4 DEF Created, Harmless, Vetted, PermissionsOf
  <2>6. SecondPerson'
    <3>0. \A o : PermissionsOf(o)' = PermissionsOf(o)
      BY <2>2 DEF PermissionsOf
    <3> SUFFICES ASSUME NEW h \in held', NEW s \in PermissionsOf(h.role)' \cap Sensitive, h \notin vetted'
                 PROVE  Pair(h.role, s) \in vetted'
      BY OnePair DEF SecondPerson
    <3>1. CASE h \in held /\ h \notin vetted
      <4>1. Allowing(h.role, {s}) = {Pair(h.role, s)}
        BY OnePair
      <4>2. s \in PermissionsOf(h.role) \cap Sensitive
        BY <3>0
      <4>3. Allowing(h.role, {s}) \subseteq vetted
        BY <3>1, <4>2 DEF RolesInv, SecondPerson
      <4> QED
        BY <2>4, <4>1, <4>3
    <3>2. CASE h \in vetted
      BY <2>1, <2>2, <3>2
    <3>3. CASE h = Named(c) /\ c.kind = "assignment_add"
      <4>1. ~second
        BY <2>2, <3>3
      <4> QED
        BY <1>0, <1>r, <2>3, <2>4, <3>0, <3>3, <4>1 DEF Harmless, Vetted
    <3> QED
      BY <2>1, <2>2, <3>1, <3>2, <3>3
  <2>7. RolesTyped' /\ RolesThere'
    <3>1. held' \subseteq [administrator : People, role : Roles]
      BY <2>2, <2>3 DEF RolesInv, RolesTyped
    <3>2. \A h \in held' : role'[h.role] # None
      BY <1>0, <1>r, <2>1, <2>2, <2>3 DEF RolesInv, RolesThere, Created
    <3> QED
      BY <1>1, <1>2, <2>2, <2>5, <3>1, <3>2 DEF RolesInv, RolesTyped, RolesThere
  <2>8. AloneIsHarmless'
    BY <1>2, <2>5 DEF RolesInv, AloneIsHarmless, Alone
  <2> QED
    BY <2>6, <2>7, <2>8 DEF RolesInv
<1> QED
  BY <1>4, <1>5

LEMMA RolesStart == RolesOK /\ RolesInit => RolesInv
<1> SUFFICES ASSUME RolesOK, RolesInit PROVE RolesInv
  OBVIOUS
<1>1. Permissions # None
  BY DEF RolesOK
<1>2. /\ \A p \in People : deed[p] = NoDeed
      /\ asked = {} /\ held = [administrator : Founders, role : {Owner}] /\ held \subseteq vetted
      /\ role = [r \in Roles |-> IF r = Owner THEN Permissions ELSE None]
  BY DEF RolesInit
<1>3. RolesTyped
  <2>1. held \subseteq [administrator : People, role : Roles]
    BY <1>2 DEF RolesOK
  <2>2. deed \in [People -> Deed]
    BY NoDeedIs DEF RolesInit
  <2> QED
    BY <1>2, <2>1, <2>2 DEF RolesTyped
<1>4. RolesThere
  BY <1>1, <1>2, NoDeedIs DEF RolesThere, RolesOK
<1>5. AloneIsHarmless /\ SecondPerson
  BY <1>2, NoDeedIs DEF AloneIsHarmless, Alone, SecondPerson
<1> QED
  BY <1>3, <1>4, <1>5 DEF RolesInv

LEMMA RolesGoOn == RolesOK /\ RolesInv /\ [RolesNext]_roleVars => RolesInv'
<1> SUFFICES ASSUME RolesOK, RolesInv, [RolesNext]_roleVars PROVE RolesInv'
  OBVIOUS
<1>1. ASSUME NEW p \in People, NEW c \in Changes, Propose(p, c) PROVE RolesInv'
  BY <1>1, ProposeKeeps
<1>2. ASSUME NEW p \in People, Queue(p) \/ ReadPrior(p) \/ ApplyChange(p) \/ RollBackChange(p) PROVE RolesInv'
  BY <1>2, QueueKeeps, ReadPriorKeeps, ApplyKeeps, RollBackKeeps
<1>3. ASSUME NEW p \in People, NEW q \in asked, Approve(p, q) \/ Decline(p, q) PROVE RolesInv'
  BY <1>3, ApproveKeeps, DeclineKeeps
<1>4. CASE UNCHANGED roleVars
  BY <1>4 DEF roleVars, RolesInv, RolesTyped, RolesThere, AloneIsHarmless, Alone, Harmless, Created, Vetted,
              SecondPerson, PermissionsOf
<1> QED
  BY <1>1, <1>2, <1>3, <1>4 DEF RolesNext

\* Whoever holds a sensitive permission holds it by what two people agreed to, although needsApproval
\* (role.service.ts) is judged by a read outside the transaction that applies the change: nothing that
\* was judged harmless becomes harmful by what others apply meanwhile.
THEOREM RolesNeedTwo == RolesSpec => []RolesAreAgreed
<1>1. RolesInv => RolesAreAgreed
  <2> SUFFICES ASSUME RolesInv PROVE RolesTypeOK
    BY DEF RolesInv, RolesAreAgreed
  <2>1. \A r \in Roles : role[r] = None \/ role[r] \subseteq Permissions
    BY DEF RolesInv, RolesTyped
  <2> QED
    BY <2>1 DEF RolesInv, RolesTyped, RolesTypeOK
<1> QED
  BY <1>1, RolesOK, RolesStart, RolesGoOn, PTL DEF RolesSpec

-----------------------------------------------------------------------------
(***************************************************************************)
(* Policies and groups of alerts.  A transaction that has deleted what was *)
(* there keeps the row of its policy or group, so that nothing was         *)
(* inserted there since.                                                   *)
(***************************************************************************)
PolicyInput == [kind : {"policy"}, category : Categories, groups : PolicyChoices]
GroupInput == [kind : {"group"}, group : Groups, active : BOOLEAN, addressed : BOOLEAN]
SetterRecord ==
    [stage : {"resting", "checked", "holding", "deleted"}, input : {None} \cup PolicyInput \cup GroupInput,
     before : SUBSET Groups]

SettersTyped ==
    /\ routed \in [Categories -> SUBSET Groups] /\ active \subseteq Groups /\ reached \subseteq Groups
    /\ setter \in [Setters -> SetterRecord]
    /\ \A s \in Setters : ~InStage(s, "resting") => setter[s].input \in PolicyInput \cup GroupInput

\* Whether two transactions set the same row.
SameRow(i, j) ==
    \/ i \in PolicyInput /\ j \in PolicyInput /\ i.category = j.category
    \/ i \in GroupInput /\ j \in GroupInput /\ i.group = j.group

HoldersApart ==
    \A s \in Setters : \A o \in Setters \ {s} :
        setter[s].stage \in Holding /\ setter[o].stage \in Holding => ~SameRow(setter[s].input, setter[o].input)

\* What a transaction found to delete is all there is.
DeletedAll ==
    \A s \in Setters : InStage(s, "deleted") =>
        /\ setter[s].input \in PolicyInput => setter[s].before = routed[setter[s].input.category]
        /\ setter[s].input \in GroupInput => setter[s].before = reached \cap {setter[s].input.group}

\* RoutingAsDecided, the record whole.
AsDecided == decided = [policy |-> routed, reached |-> reached]

RoutingInv == SettersTyped /\ HoldersApart /\ DeletedAll /\ AsDecided

LEMMA InitRoutingInv == RoutingInit => RoutingInv
<1> SUFFICES ASSUME RoutingInit PROVE RoutingInv
  OBVIOUS
<1>1. SettersTyped
  BY DEF RoutingInit, SettersTyped, SetterRecord, Resting, InStage, PolicyChoices
<1>2. HoldersApart /\ DeletedAll /\ AsDecided
  BY DEF RoutingInit, HoldersApart, DeletedAll, AsDecided, Resting, InStage, Holding
<1> QED BY <1>1, <1>2 DEF RoutingInv

\* A transaction that begins holds nothing yet.
LEMMA CheckSteps ==
    ASSUME RoutingInv, NEW s \in Setters, NEW i \in PolicyInput \cup GroupInput, Begun(s, i)
    PROVE  RoutingInv'
<1> DEFINE r == [stage |-> "checked", input |-> i, before |-> {}]
<1>1. setter' = [setter EXCEPT ![s] = r] /\ UNCHANGED <<routed, active, reached, decided>>
  BY DEF Begun
<1>2. r \in SetterRecord /\ r.input \in PolicyInput \cup GroupInput /\ r.stage = "checked"
  BY DEF SetterRecord
<1> HIDE DEF r
<1>3. SettersTyped'
  BY <1>1, <1>2 DEF RoutingInv, SettersTyped, InStage
<1>4. HoldersApart' /\ DeletedAll' /\ AsDecided'
  BY <1>1, <1>2 DEF RoutingInv, SettersTyped, HoldersApart, DeletedAll, AsDecided, InStage, Holding
<1> QED BY <1>3, <1>4 DEF RoutingInv

LEMMA LockRowStep ==
    ASSUME RoutingInv, NEW s \in Setters, LockRow(s)
    PROVE  RoutingInv'
<1>1. /\ setter' = [setter EXCEPT ![s].stage = "holding"] /\ UNCHANGED <<routed, active, reached, decided>>
      /\ InStage(s, "checked") /\ setter \in [Setters -> SetterRecord]
  BY DEF LockRow, RowFree, RoutingInv, SettersTyped
<1> DEFINE r == [setter[s] EXCEPT !.stage = "holding"]
<1>2. r \in SetterRecord /\ r.input = setter[s].input /\ r.stage = "holding" /\ setter' = [setter EXCEPT ![s] = r]
  BY <1>1 DEF SetterRecord
<1>3. setter[s].input \in PolicyInput \cup GroupInput
  BY <1>1 DEF RoutingInv, SettersTyped, InStage
<1>4. ASSUME NEW o \in Setters \ {s}, setter[o].stage \in Holding
      PROVE  ~SameRow(setter[s].input, setter[o].input) /\ ~SameRow(setter[o].input, setter[s].input)
  <2>1. /\ \A c \in Categories : ~(PolicyOf(s, c) /\ PolicyOf(o, c))
        /\ \A g \in Groups : ~(GroupOf(s, g) /\ GroupOf(o, g))
    BY <1>4 DEF LockRow, RowFree
  <2>2. \A i \in PolicyInput : i.kind = "policy" /\ i.category \in Categories
    BY DEF PolicyInput
  <2>3. \A i \in GroupInput : i.kind = "group" /\ i.group \in Groups
    BY DEF GroupInput
  <2>4. ASSUME SameRow(setter[s].input, setter[o].input) \/ SameRow(setter[o].input, setter[s].input) PROVE FALSE
    <3>1. CASE setter[s].input \in PolicyInput /\ setter[o].input \in PolicyInput /\ setter[s].input.category = setter[o].input.category
      <4>1. PolicyOf(s, setter[s].input.category) /\ PolicyOf(o, setter[s].input.category) /\ setter[s].input.category \in Categories
        BY <3>1, <2>2 DEF PolicyOf
      <4> QED BY <4>1, <2>1
    <3>2. CASE setter[s].input \in GroupInput /\ setter[o].input \in GroupInput /\ setter[s].input.group = setter[o].input.group
      <4>1. GroupOf(s, setter[s].input.group) /\ GroupOf(o, setter[s].input.group) /\ setter[s].input.group \in Groups
        BY <3>2, <2>3 DEF GroupOf
      <4> QED BY <4>1, <2>1
    <3> QED BY <2>4, <3>1, <3>2 DEF SameRow
  <2> QED BY <2>4
<1> HIDE DEF r
<1>5. SettersTyped'
  BY <1>1, <1>2, <1>3 DEF RoutingInv, SettersTyped, InStage
<1>6. HoldersApart'
  <2> SUFFICES ASSUME NEW a \in Setters, NEW b \in Setters \ {a}, setter'[a].stage \in Holding, setter'[b].stage \in Holding
               PROVE  ~SameRow(setter'[a].input, setter'[b].input)
    BY DEF HoldersApart, SameRow
  <2>1. CASE a = s
    BY <2>1, <1>1, <1>2, <1>4
  <2>2. CASE b = s
    BY <2>2, <1>1, <1>2, <1>4
  <2>3. CASE a # s /\ b # s
    BY <2>3, <1>1, <1>2 DEF RoutingInv, HoldersApart
  <2> QED BY <2>1, <2>2, <2>3
<1>7. DeletedAll' /\ AsDecided'
  BY <1>1, <1>2 DEF RoutingInv, DeletedAll, AsDecided, InStage
<1> QED BY <1>5, <1>6, <1>7 DEF RoutingInv

LEMMA KindsApart ==
    ASSUME NEW i
    PROVE  /\ i \in PolicyInput => i.kind = "policy" /\ i \notin GroupInput /\ i.category \in Categories /\ i.groups \subseteq Groups
           /\ i \in GroupInput => i.kind = "group" /\ i \notin PolicyInput /\ i.group \in Groups
BY DEF PolicyInput, GroupInput, PolicyChoices

LEMMA DeleteRowsStep ==
    ASSUME RoutingInv, NEW s \in Setters, DeleteRows(s)
    PROVE  RoutingInv'
<1> DEFINE found == IF setter[s].input.kind = "policy" THEN routed[setter[s].input.category] ELSE reached \cap {setter[s].input.group}
           r == [setter[s] EXCEPT !.stage = "deleted", !.before = found]
<1>1. /\ InStage(s, "holding") /\ UNCHANGED <<routed, active, reached, decided>>
      /\ setter' = [setter EXCEPT ![s].stage = "deleted", ![s].before = found]
      /\ setter \in [Setters -> SetterRecord] /\ setter[s].input \in PolicyInput \cup GroupInput
      /\ routed \in [Categories -> SUBSET Groups] /\ reached \subseteq Groups
  BY DEF DeleteRows, RoutingInv, SettersTyped, InStage
<1>2. /\ found \subseteq Groups
      /\ setter[s].input \in PolicyInput => found = routed[setter[s].input.category]
      /\ setter[s].input \in GroupInput => found = reached \cap {setter[s].input.group}
  BY <1>1, KindsApart
<1> HIDE DEF found
<1>3. /\ r \in SetterRecord /\ r.input = setter[s].input /\ r.stage = "deleted" /\ r.before = found
      /\ setter' = [setter EXCEPT ![s] = r]
  BY <1>1, <1>2 DEF SetterRecord
<1> HIDE DEF r
<1>4. SettersTyped'
  BY <1>1, <1>3 DEF RoutingInv, SettersTyped, InStage
<1>5. HoldersApart'
  <2>1. setter[s].stage \in Holding
    BY <1>1 DEF InStage, Holding
  <2> QED BY <2>1, <1>1, <1>3 DEF RoutingInv, HoldersApart, SameRow
<1>6. DeletedAll' /\ AsDecided'
  BY <1>1, <1>2, <1>3 DEF RoutingInv, DeletedAll, AsDecided, InStage
<1> QED BY <1>4, <1>5, <1>6 DEF RoutingInv

\* A transaction that ends lets go of its row.
LEMMA RestStep ==
    ASSUME RoutingInv, NEW s \in Setters, setter' = [setter EXCEPT ![s] = Resting],
           routed' \in [Categories -> SUBSET Groups], active' \subseteq Groups, reached' \subseteq Groups,
           decided' = [policy |-> routed', reached |-> reached'],
           \A o \in Setters \ {s} : InStage(o, "deleted") =>
               /\ setter[o].input \in PolicyInput => routed'[setter[o].input.category] = routed[setter[o].input.category]
               /\ setter[o].input \in GroupInput => reached' \cap {setter[o].input.group} = reached \cap {setter[o].input.group}
    PROVE  RoutingInv'
<1>1. Resting \in SetterRecord /\ Resting.stage = "resting"
  BY DEF Resting, SetterRecord
<1>2. SettersTyped'
  BY <1>1 DEF RoutingInv, SettersTyped, InStage
<1>3. HoldersApart'
  BY <1>1 DEF RoutingInv, SettersTyped, HoldersApart, SameRow, Holding
<1>4. DeletedAll'
  BY <1>1 DEF RoutingInv, SettersTyped, DeletedAll, InStage
<1> QED BY <1>2, <1>3, <1>4 DEF RoutingInv, AsDecided

LEMMA SetPolicyStep ==
    ASSUME RoutingInv, NEW s \in Setters, SetPolicy(s)
    PROVE  RoutingInv'
<1> DEFINE c == setter[s].input.category
           groups == setter[s].input.groups
<1>1. /\ InStage(s, "deleted") /\ setter[s].input.kind = "policy"
      /\ routed' = [routed EXCEPT ![c] = (routed[c] \ setter[s].before) \cup groups]
      /\ decided' = [decided EXCEPT !.policy[c] = groups]
      /\ setter' = [setter EXCEPT ![s] = Resting] /\ UNCHANGED <<active, reached>>
  BY DEF SetPolicy
<1>2. /\ setter[s].input \in PolicyInput /\ c \in Categories /\ groups \subseteq Groups
      /\ routed \in [Categories -> SUBSET Groups] /\ active \subseteq Groups /\ reached \subseteq Groups
      /\ decided = [policy |-> routed, reached |-> reached]
  BY <1>1, KindsApart DEF RoutingInv, SettersTyped, AsDecided, InStage
<1>3. setter[s].before = routed[c]
  BY <1>1, <1>2 DEF RoutingInv, DeletedAll
<1>4. \A o \in Setters \ {s} : InStage(o, "deleted") /\ setter[o].input \in PolicyInput => setter[o].input.category # c
  BY <1>1, <1>2 DEF RoutingInv, HoldersApart, SameRow, InStage, Holding
<1>5. \A o \in Setters : setter[o].input \in PolicyInput => setter[o].input.category \in Categories
  BY KindsApart
<1> HIDE DEF c, groups
<1>6. (routed[c] \ setter[s].before) \cup groups = groups
  BY <1>3
<1>7. routed' = [routed EXCEPT ![c] = groups] /\ decided' = [policy |-> routed', reached |-> reached']
  BY <1>1, <1>2, <1>6
<1>8. routed' \in [Categories -> SUBSET Groups] /\ \A d \in Categories : d # c => routed'[d] = routed[d]
  BY <1>7, <1>2
<1>9. \A o \in Setters \ {s} : InStage(o, "deleted") =>
          /\ setter[o].input \in PolicyInput => routed'[setter[o].input.category] = routed[setter[o].input.category]
          /\ setter[o].input \in GroupInput => reached' \cap {setter[o].input.group} = reached \cap {setter[o].input.group}
  BY <1>1, <1>4, <1>5, <1>8
<1> QED BY <1>1, <1>2, <1>7, <1>8, <1>9, RestStep

LEMMA SetGroupStep ==
    ASSUME RoutingInv, NEW s \in Setters, SetGroup(s)
    PROVE  RoutingInv'
<1> DEFINE g == setter[s].input.group
           now == IF setter[s].input.addressed THEN {g} ELSE {}
<1>1. /\ InStage(s, "deleted") /\ setter[s].input.kind = "group"
      /\ active' = IF setter[s].input.active THEN active \cup {g} ELSE active \ {g}
      /\ reached' = (reached \ setter[s].before) \cup now
      /\ decided' = [decided EXCEPT !.reached = (@ \ {g}) \cup now]
      /\ setter' = [setter EXCEPT ![s] = Resting] /\ UNCHANGED routed
  BY DEF SetGroup
<1>2. /\ setter[s].input \in GroupInput /\ g \in Groups /\ now \subseteq {g}
      /\ routed \in [Categories -> SUBSET Groups] /\ active \subseteq Groups /\ reached \subseteq Groups
      /\ decided = [policy |-> routed, reached |-> reached]
  BY <1>1, KindsApart DEF RoutingInv, SettersTyped, AsDecided, InStage
<1>3. setter[s].before = reached \cap {g}
  BY <1>1, <1>2 DEF RoutingInv, DeletedAll
<1>4. \A o \in Setters \ {s} : InStage(o, "deleted") /\ setter[o].input \in GroupInput => setter[o].input.group # g
  BY <1>1, <1>2 DEF RoutingInv, HoldersApart, SameRow, InStage, Holding
<1> HIDE DEF g, now
<1>5. reached' = (reached \ {g}) \cup now
  BY <1>1, <1>3
<1>6. active' \subseteq Groups /\ reached' \subseteq Groups
  BY <1>1, <1>2, <1>5
<1>7. decided' = [policy |-> routed', reached |-> reached']
  BY <1>1, <1>2, <1>5
<1>8. \A h \in Groups : h # g => reached' \cap {h} = reached \cap {h}
  BY <1>2, <1>5
<1>9. \A o \in Setters : setter[o].input \in GroupInput => setter[o].input.group \in Groups
  BY KindsApart
<1> QED BY <1>1, <1>2, <1>4, <1>6, <1>7, <1>8, <1>9, RestStep

LEMMA RoutingStep == RoutingInv /\ [RoutingNext]_routingVars => RoutingInv'
<1> SUFFICES ASSUME RoutingInv, [RoutingNext]_routingVars PROVE RoutingInv'
  OBVIOUS
<1>1. CASE UNCHANGED routingVars
  BY <1>1 DEF routingVars, RoutingInv, SettersTyped, HoldersApart, SameRow, DeletedAll, AsDecided, InStage
<1>2. ASSUME NEW s \in Setters, NEW c \in Categories, NEW groups \in PolicyChoices, CheckPolicy(s, c, groups)
      PROVE  RoutingInv'
  <2>1. [kind |-> "policy", category |-> c, groups |-> groups] \in PolicyInput
    BY DEF PolicyInput
  <2> QED BY <1>2, <2>1, CheckSteps DEF CheckPolicy
<1>3. ASSUME NEW s \in Setters, NEW g \in Groups, NEW on \in BOOLEAN, NEW addressed \in BOOLEAN,
             CheckGroup(s, g, on, addressed)
      PROVE  RoutingInv'
  <2>1. [kind |-> "group", group |-> g, active |-> on, addressed |-> addressed] \in GroupInput
    BY DEF GroupInput
  <2> QED BY <1>3, <2>1, CheckSteps DEF CheckGroup
<1>4. ASSUME NEW s \in Setters, LockRow(s) \/ DeleteRows(s) \/ SetPolicy(s) \/ SetGroup(s) PROVE RoutingInv'
  BY <1>4, LockRowStep, DeleteRowsStep, SetPolicyStep, SetGroupStep
<1>5. ASSUME NEW s \in Setters, RollBackSetting(s) PROVE RoutingInv'
  BY <1>5, RestStep DEF RollBackSetting, RoutingInv, SettersTyped, AsDecided
<1> QED BY <1>1, <1>2, <1>3, <1>4, <1>5 DEF RoutingNext

\* However many administrators set one category or one group at once, the groups of the one and the
\* addresses of the other are those that one of them chose (oversight.controller.ts).
THEOREM RoutedAsDecided == RoutingSpec => []RoutingAsDecided
<1>1. RoutingInit => RoutingInv
  BY InitRoutingInv
<1>2. RoutingInv /\ [RoutingNext]_routingVars => RoutingInv'
  BY RoutingStep
<1>3. RoutingInv => RoutingAsDecided
  BY DEF RoutingInv, AsDecided, RoutingAsDecided
<1> QED BY <1>1, <1>2, <1>3, PTL DEF RoutingSpec

-----------------------------------------------------------------------------
LEMMA FunctionIsSeq ==
    ASSUME NEW S, NEW n \in Nat, NEW f \in [1..n -> S]
    PROVE  f \in Seq(S) /\ Len(f) = n
OBVIOUS

(***************************************************************************)
(* Versioned terms.  An operation that has opened a version holds its row  *)
(* until it ends, and what it drafted there follows what is committed; a   *)
(* set's draft holds, of every route it came past, the version of the set. *)
(***************************************************************************)
SetRecord == [id : Nat, routes : SUBSET Titles]
VersionRecord == [from : Nat, to : Nat \cup {None}, active : BOOLEAN, set : {None} \cup SetRecord]
WriterRecord ==
    [stage : {"idle", "claiming", "looking", "locking", "done"},
     kind : {None, "version", "route", "set", "grant", "deactivate"},
     asked : Seq(Titles), next : Nat, seen : Nat, began : Nat, id : Nat, draft : [Titles -> Seq(VersionRecord)]]

TermsTyped ==
    /\ versions \in [Titles -> Seq(VersionRecord)]
    /\ writer \in [Writers -> WriterRecord]
    /\ holder \in [Titles -> Writers \cup {None}] /\ granting \in [Grants -> Writers \cup {None}]
    /\ time \in Nat /\ begun \in Nat
    /\ \A w \in Writers : /\ writer[w].stage \in {"claiming", "looking", "locking"} => writer[w].next \in 1..Len(writer[w].asked)
                          /\ writer[w].stage = "claiming" => Upon(w) \in Grants
                          /\ writer[w].stage = "done" => writer[w].next = Len(writer[w].asked) + 1
                          /\ writer[w].next <= Len(writer[w].asked) + 1

Tiles(s) ==
    \A n \in DOMAIN s : IF n = Len(s) THEN s[n].to = None ELSE s[n].to = s[n + 1].from /\ s[n].from <= s[n].to

\* What s holds beyond t was drafted at one moment and for one set.
Follows(s, t, began, set) ==
    /\ Len(t) <= Len(s)
    /\ \A n \in DOMAIN t : s[n].from = t[n].from /\ s[n].set = t[n].set
    /\ \A n \in DOMAIN s : n > Len(t) => s[n].from = began /\ s[n].set = set

SetOf(w) == Drafted(w).set
HasVersion(s, began, set) == \E n \in DOMAIN s : s[n].from = began /\ s[n].set = set

DraftsFollow(w) ==
    \A t \in Titles : holder[t] = w =>
        /\ writer[w].stage # "idle"
        /\ Tiles(writer[w].draft[t])
        /\ Follows(writer[w].draft[t], versions[t], writer[w].began, SetOf(w))

OpenedSoFar(w) ==
    \A k \in 1..(writer[w].next - 1) :
        /\ holder[writer[w].asked[k]] = w
        /\ HasVersion(writer[w].draft[writer[w].asked[k]], writer[w].began, SetOf(w))

TermsInv ==
    /\ TermsTyped
    /\ \A t \in Titles : Tiles(versions[t])
    /\ \A w \in Writers : DraftsFollow(w) /\ OpenedSoFar(w)
    /\ SetsAreWhole

\* q is s with its last version closed and one more after it.
OneMore(q, s, v) ==
    /\ q \in Seq(VersionRecord) /\ Len(q) = Len(s) + 1 /\ q[Len(s) + 1] = v
    /\ \A n \in 1..Len(s) : /\ q[n].from = s[n].from /\ q[n].set = s[n].set
                            /\ q[n].to = IF n = Len(s) THEN v.from ELSE s[n].to

LEMMA ReplacedLast ==
    ASSUME NEW s \in Seq(VersionRecord), NEW v \in VersionRecord
    PROVE  OneMore(Replaced(s, Len(s), v), s, v)
<1> DEFINE f(k) == IF k = Len(s) THEN [s[k] EXCEPT !.to = v.from] ELSE s[k]
           p == [k \in 1..Len(s) |-> f(k)]
           q == Replaced(s, Len(s), v)
<1>1. Len(s) \in Nat /\ DOMAIN s = 1..Len(s) /\ v.from \in Nat
  BY DEF VersionRecord
<1>2. ASSUME NEW k \in 1..Len(s)
      PROVE  f(k) \in VersionRecord /\ f(k).from = s[k].from /\ f(k).set = s[k].set /\ f(k).to = IF k = Len(s) THEN v.from ELSE s[k].to
  <2>1. s[k] \in VersionRecord
    BY <1>1
  <2> QED BY <2>1, <1>1 DEF VersionRecord
<1>3. q = Append(p, v)
  BY <1>1 DEF Replaced
<1> HIDE DEF f
<1>4. p \in Seq(VersionRecord) /\ Len(p) = Len(s) /\ \A k \in 1..Len(s) : p[k] = f(k)
  <2>1. p \in [1..Len(s) -> VersionRecord] /\ \A k \in 1..Len(s) : p[k] = f(k)
    BY <1>2
  <2> HIDE DEF p
  <2> QED BY <2>1, <1>1, FunctionIsSeq
<1> HIDE DEF p
<1>5. /\ q \in Seq(VersionRecord) /\ Len(q) = Len(s) + 1 /\ q[Len(s) + 1] = v
      /\ \A k \in 1..Len(s) : q[k] = f(k)
  BY <1>3, <1>4, <1>1, AppendProperties
<1> HIDE DEF q
<1>6. OneMore(q, s, v)
  BY <1>5, <1>2 DEF OneMore
<1> QED BY <1>6 DEF q

LEMMA ReplacedTiles ==
    ASSUME NEW s \in Seq(VersionRecord), NEW v \in VersionRecord, NEW q, OneMore(q, s, v), Tiles(s),
           v.to = None, Len(s) > 0 => s[Len(s)].from <= v.from
    PROVE  Tiles(q)
<1> DEFINE m == Len(s)
<1>1. /\ m \in Nat /\ DOMAIN q = 1..(m + 1) /\ DOMAIN s = 1..m /\ Len(q) = m + 1 /\ q[m + 1] = v
      /\ \A n \in 1..m : q[n].from = s[n].from /\ q[n].to = IF n = m THEN v.from ELSE s[n].to
      /\ m > 0 => s[m].from <= v.from
  BY DEF OneMore
<1>2. \A n \in 1..m : n # m => s[n].to = s[n + 1].from /\ s[n].from <= s[n].to
  BY <1>1 DEF Tiles
<1> HIDE DEF m
<1>3. ASSUME NEW n \in 1..(m + 1)
      PROVE  IF n = m + 1 THEN q[n].to = None ELSE q[n].to = q[n + 1].from /\ q[n].from <= q[n].to
  <2>1. CASE n = m + 1
    BY <1>1, <2>1
  <2>2. CASE n = m
    <3>1. m > 0 /\ m \in 1..m
      BY <1>1, <2>2
    <3> QED BY <1>1, <2>2, <3>1
  <2>3. CASE n # m /\ n # m + 1
    <3>1. n \in 1..m /\ n + 1 \in 1..m
      BY <1>1, <2>3
    <3> QED BY <1>1, <1>2, <2>3, <3>1
  <2> QED BY <2>1, <2>2, <2>3
<1> QED BY <1>1, <1>3 DEF Tiles

LEMMA ReplacedFollows ==
    ASSUME NEW s \in Seq(VersionRecord), NEW v \in VersionRecord, NEW q, OneMore(q, s, v),
           NEW t \in Seq(VersionRecord), Follows(s, t, v.from, v.set)
    PROVE  Follows(q, t, v.from, v.set) /\ HasVersion(q, v.from, v.set)
<1> DEFINE m == Len(s)
           l == Len(t)
<1>1. /\ m \in Nat /\ DOMAIN q = 1..(m + 1) /\ DOMAIN s = 1..m /\ Len(q) = m + 1 /\ q[m + 1] = v
      /\ \A n \in 1..m : q[n].from = s[n].from /\ q[n].set = s[n].set
      /\ l \in Nat /\ DOMAIN t = 1..l /\ l <= m
      /\ \A n \in 1..l : s[n].from = t[n].from /\ s[n].set = t[n].set
      /\ \A n \in 1..m : n > l => s[n].from = v.from /\ s[n].set = v.set
  BY DEF OneMore, Follows
<1> HIDE DEF m, l
<1>2. /\ l <= m + 1
      /\ \A n \in 1..l : q[n].from = t[n].from /\ q[n].set = t[n].set
  BY <1>1
<1>3. \A n \in 1..(m + 1) : n > l => q[n].from = v.from /\ q[n].set = v.set
  BY <1>1
<1>4. Follows(q, t, v.from, v.set)
  BY <1>1, <1>2, <1>3 DEF Follows, l
<1>5. HasVersion(q, v.from, v.set)
  BY <1>1 DEF HasVersion
<1> QED BY <1>4, <1>5

\* What an operation drafted is not disturbed by another's step.
LEMMA OthersDrafts ==
    ASSUME TermsTyped, NEW o \in Writers, DraftsFollow(o), OpenedSoFar(o), writer'[o] = writer[o],
           \A t \in Titles : (holder'[t] = o) = (holder[t] = o),
           \A t \in Titles : holder[t] = o => versions'[t] = versions[t]
    PROVE  DraftsFollow(o)' /\ OpenedSoFar(o)'
<1>1. SetOf(o)' = SetOf(o)
  BY DEF SetOf, Drafted
<1>2. DraftsFollow(o)'
  BY <1>1 DEF DraftsFollow
<1>3. \A k \in 1..(writer[o].next - 1) : writer[o].asked[k] \in Titles
  <2>1. writer[o].asked \in Seq(Titles) /\ writer[o].next \in Nat /\ writer[o].next <= Len(writer[o].asked) + 1
    BY DEF TermsTyped, WriterRecord
  <2> QED BY <2>1
<1>4. OpenedSoFar(o)'
  BY <1>1, <1>3 DEF OpenedSoFar
<1> QED BY <1>2, <1>4

\* The titles an operation opens are titles.
LEMMA UponTitle ==
    ASSUME TermsTyped, NEW w \in Writers, writer[w].stage \in {"claiming", "looking", "locking"}
    PROVE  Upon(w) \in Titles /\ View(w, Upon(w)) \in Seq(VersionRecord)
<1>1. writer[w] \in WriterRecord /\ writer[w].next \in 1..Len(writer[w].asked)
  BY DEF TermsTyped
<1>2. Upon(w) \in Titles
  BY <1>1 DEF Upon, WriterRecord
<1> QED BY <1>1, <1>2 DEF View, TermsTyped, WriterRecord

LEMMA NoDraftTyped == NoDraft \in [Titles -> Seq(VersionRecord)]
<1>1. <<>> \in Seq(VersionRecord)
  OBVIOUS
<1> QED BY <1>1 DEF NoDraft

LEMMA InitTermsInv == TermsInit => TermsInv
<1> SUFFICES ASSUME TermsInit PROVE TermsInv
  OBVIOUS
<1>1. Seeded \in VersionRecord /\ Seeded.to = None /\ Seeded.set = None
  BY DEF Seeded, VersionRecord
<1> DEFINE one == <<Seeded>>
<1>2. one \in Seq(VersionRecord) /\ Len(one) = 1 /\ one[1] = Seeded
  BY <1>1
<1>3. \A t \in Titles : versions[t] = <<>> \/ versions[t] = one
  BY DEF TermsInit
<1>0. Tiles(one) /\ Tiles(<<>>) /\ <<>> \in Seq(VersionRecord) /\ DOMAIN <<>> = {} /\ DOMAIN one = {1}
  BY <1>1 DEF Tiles
<1> HIDE DEF one
<1>4. IdleWriter \in WriterRecord /\ IdleWriter.stage = "idle" /\ IdleWriter.next = 0 /\ Len(IdleWriter.asked) = 0
  BY NoDraftTyped DEF IdleWriter, WriterRecord
<1>5. TermsTyped
  <2>1. versions \in [Titles -> Seq(VersionRecord)]
    <3>1. versions \in [Titles -> {<<>>, one}]
      BY DEF TermsInit, one
    <3> QED BY <3>1, <1>2, <1>0
  <2>2. writer = [w \in Writers |-> IdleWriter]
    BY DEF TermsInit
  <2> QED BY <1>4, <2>1, <2>2 DEF TermsTyped, TermsInit
<1>6. \A t \in Titles : Tiles(versions[t])
  BY <1>0, <1>3
<1>7. ASSUME NEW w \in Writers PROVE DraftsFollow(w) /\ OpenedSoFar(w)
  <2>1. (\A t \in Titles : holder[t] # w) /\ writer[w].next = 0
    BY <1>4, TermsOK DEF TermsInit
  <2> QED BY <2>1 DEF DraftsFollow, OpenedSoFar
<1>8. SetsAreWhole
  BY <1>0, <1>1, <1>2, <1>3 DEF SetsAreWhole
<1> QED BY <1>5, <1>6, <1>7, <1>8 DEF TermsInv

LEMMA BeginTermsStep ==
    ASSUME TermsInv, NEW w \in Writers, NEW kind \in {"version", "route", "set", "grant", "deactivate"},
           NEW titles \in Seq(Titles), Len(titles) > 0, kind = "grant" => titles[1] \in Grants, Begin(w, kind, titles)
    PROVE  TermsInv'
<1> DEFINE stage == IF kind = "grant" THEN "claiming" ELSE "looking"
           r == [stage |-> stage, kind |-> kind, asked |-> titles, next |-> 1, seen |-> 0, began |-> time, id |-> begun + 1, draft |-> NoDraft]
<1>1. /\ writer[w].stage = "idle" /\ begun' = begun + 1 /\ writer' = [writer EXCEPT ![w] = r]
      /\ UNCHANGED <<versions, holder, granting, time>>
  BY DEF Begin
<1>2. /\ writer \in [Writers -> WriterRecord] /\ time \in Nat /\ begun \in Nat /\ Len(titles) \in Nat \ {0}
  BY DEF TermsInv, TermsTyped
<1>3. /\ r \in WriterRecord /\ r.stage = stage /\ r.asked = titles /\ r.next = 1
  BY <1>1, <1>2, NoDraftTyped DEF WriterRecord
<1>4. stage \in {"claiming", "looking"} /\ (stage = "claiming" => kind = "grant")
  OBVIOUS
<1> HIDE DEF r, stage
<1>5. writer'[w] = r /\ \A o \in Writers \ {w} : writer'[o] = writer[o]
  BY <1>1, <1>2
<1>6. TermsTyped'
  <2>1. writer' \in [Writers -> WriterRecord] /\ begun' \in Nat
    BY <1>1, <1>2, <1>3
  <2>2. /\ r.stage \in {"claiming", "looking", "locking"} => r.next \in 1..Len(r.asked)
        /\ r.stage = "claiming" => r.asked[r.next] \in Grants
        /\ r.stage # "done" /\ r.next <= Len(r.asked) + 1
    BY <1>2, <1>3, <1>4
  <2> QED BY <1>1, <1>5, <2>1, <2>2 DEF TermsInv, TermsTyped, Upon
<1>7. ASSUME NEW o \in Writers PROVE DraftsFollow(o)' /\ OpenedSoFar(o)'
  <2>1. CASE o = w
    <3>1. \A t \in Titles : holder'[t] # w
      BY <1>1 DEF TermsInv, DraftsFollow
    <3>2. writer'[w].next = 1
      BY <1>3, <1>5
    <3> QED BY <2>1, <3>1, <3>2 DEF DraftsFollow, OpenedSoFar
  <2>2. CASE o # w
    BY <2>2, <1>1, <1>5, OthersDrafts DEF TermsInv
  <2> QED BY <2>1, <2>2
<1>8. (\A t \in Titles : Tiles(versions'[t])) /\ SetsAreWhole'
  BY <1>1 DEF TermsInv, SetsAreWhole
<1> QED BY <1>6, <1>7, <1>8 DEF TermsInv

\* Claiming a grant and looking for the open version draft nothing.
LEMMA LookSteps ==
    ASSUME TermsInv, NEW w \in Writers, Claim(w) \/ Look(w)
    PROVE  TermsInv'
<1>1. /\ writer[w].stage \in {"claiming", "looking"} /\ UNCHANGED <<versions, holder, time, begun>>
      /\ writer \in [Writers -> WriterRecord] /\ granting \in [Grants -> Writers \cup {None}]
  BY DEF Claim, Look, TermsInv, TermsTyped
<1>2. Len(View(w, Upon(w))) \in Nat
  BY <1>1, UponTitle DEF TermsInv
<1> DEFINE found == IF Claim(w) THEN writer[w].seen ELSE Len(View(w, Upon(w)))
           stage == IF Claim(w) THEN "looking" ELSE "locking"
           r == [writer[w] EXCEPT !.stage = stage, !.seen = found]
<1>3. writer' = [writer EXCEPT ![w] = r] /\ granting' \in [Grants -> Writers \cup {None}]
  <2>1. CASE Claim(w)
    <3>1. Upon(w) \in Grants
      BY <2>1 DEF TermsInv, TermsTyped, Claim
    <3>2. writer' = [writer EXCEPT ![w].stage = "looking"] /\ granting' = [granting EXCEPT ![Upon(w)] = w]
      BY <2>1 DEF Claim
    <3>3. r = [writer[w] EXCEPT !.stage = "looking"]
      BY <1>1, <2>1 DEF WriterRecord
    <3> HIDE DEF r
    <3> QED BY <1>1, <3>1, <3>2, <3>3
  <2>2. CASE Look(w) /\ ~Claim(w)
    BY <1>1, <2>2 DEF Look
  <2> QED BY <2>1, <2>2
<1>4. /\ r \in WriterRecord /\ r.stage = stage /\ r.kind = writer[w].kind /\ r.asked = writer[w].asked /\ r.next = writer[w].next
      /\ r.began = writer[w].began /\ r.id = writer[w].id /\ r.draft = writer[w].draft /\ stage \in {"looking", "locking"}
  <2>1. found \in Nat /\ stage \in {"looking", "locking"}
    BY <1>1, <1>2 DEF WriterRecord
  <2> HIDE DEF found, stage
  <2> QED BY <1>1, <2>1 DEF WriterRecord
<1> HIDE DEF r, found, stage
<1>5. writer'[w] = r /\ \A o \in Writers \ {w} : writer'[o] = writer[o]
  BY <1>1, <1>3
<1>6. TermsTyped'
  <2>1. writer[w].next \in 1..Len(writer[w].asked)
    BY <1>1 DEF TermsInv, TermsTyped
  <2>2. /\ r.next \in 1..Len(r.asked) /\ r.next <= Len(r.asked) + 1 /\ r.stage \notin {"claiming", "done"}
    BY <1>4, <2>1
  <2> QED BY <1>1, <1>3, <1>4, <1>5, <2>2 DEF TermsInv, TermsTyped, Upon
<1>7. ASSUME NEW o \in Writers PROVE DraftsFollow(o)' /\ OpenedSoFar(o)'
  <2>1. CASE o = w
    <3>1. SetOf(w)' = SetOf(w)
      BY <1>4, <1>5 DEF SetOf, Drafted
    <3>2. r.stage # "idle"
      BY <1>4
    <3>3. DraftsFollow(w)'
      BY <1>1, <1>4, <1>5, <3>1, <3>2 DEF TermsInv, DraftsFollow
    <3>4. OpenedSoFar(w)'
      BY <1>1, <1>4, <1>5, <3>1 DEF TermsInv, OpenedSoFar
    <3> QED BY <2>1, <3>3, <3>4
  <2>2. CASE o # w
    BY <2>2, <1>1, <1>5, OthersDrafts DEF TermsInv
  <2> QED BY <2>1, <2>2
<1>8. (\A t \in Titles : Tiles(versions'[t])) /\ SetsAreWhole'
  BY <1>1 DEF TermsInv, SetsAreWhole
<1> QED BY <1>6, <1>7, <1>8 DEF TermsInv

\* An operation that opens a version has its row from then on.
LEMMA OpenStep ==
    ASSUME TermsInv, NEW w \in Writers, Open(w)
    PROVE  TermsInv'
<1> DEFINE t == Upon(w)
           s == View(w, t)
           v == Drafted(w)
           q == Replaced(s, writer[w].seen, v)
           stage == IF writer[w].next = Len(writer[w].asked) THEN "done" ELSE "looking"
           r == [writer[w] EXCEPT !.draft = [writer[w].draft EXCEPT ![t] = q], !.next = writer[w].next + 1, !.stage = stage]
<1>1. /\ writer[w].stage = "locking" /\ holder[t] \in {None, w} /\ writer[w].seen = Len(s)
      /\ Len(s) > 0 => s[Len(s)].from <= writer[w].began
      /\ holder' = [holder EXCEPT ![t] = w] /\ UNCHANGED <<versions, granting, time, begun>>
  BY DEF Open, Found, Closable
<1>2. /\ t \in Titles /\ s \in Seq(VersionRecord) /\ writer \in [Writers -> WriterRecord]
      /\ holder \in [Titles -> Writers \cup {None}] /\ writer[w].next \in 1..Len(writer[w].asked)
      /\ versions \in [Titles -> Seq(VersionRecord)]
  BY <1>1, UponTitle DEF TermsInv, TermsTyped
<1>3. v \in VersionRecord /\ v.from = writer[w].began /\ v.set = SetOf(w) /\ v.to = None
  <2>1. /\ writer[w] \in WriterRecord /\ {writer[w].asked[k] : k \in DOMAIN writer[w].asked} \subseteq Titles
    BY <1>2 DEF WriterRecord
  <2> QED BY <2>1 DEF Drafted, SetOf, VersionRecord, SetRecord, WriterRecord
<1>4. writer' = [writer EXCEPT ![w] = r]
  <2>1. writer' = [writer EXCEPT ![w].draft[t] = q, ![w].next = @ + 1, ![w].stage = stage]
    BY DEF Open
  <2> HIDE DEF t, q, stage
  <2> QED BY <2>1, <1>2
<1> HIDE DEF v
<1>5. Tiles(s) /\ Follows(s, versions[t], v.from, v.set)
  <2>1. CASE holder[t] = w
    BY <1>2, <1>3, <2>1 DEF View, TermsInv, DraftsFollow
  <2>2. CASE holder[t] # w
    <3>1. s = versions[t]
      BY <2>2 DEF View
    <3> QED BY <1>2, <3>1 DEF TermsInv, Follows
  <2> QED BY <2>1, <2>2
<1> HIDE DEF s
<1>6. OneMore(q, s, v)
  BY <1>1, <1>2, <1>3, ReplacedLast
<1> HIDE DEF q
<1>7. q \in Seq(VersionRecord) /\ Tiles(q) /\ Follows(q, versions[t], v.from, v.set) /\ HasVersion(q, v.from, v.set)
  <2>1. q \in Seq(VersionRecord)
    BY <1>6 DEF OneMore
  <2>2. Tiles(q)
    BY <1>1, <1>2, <1>3, <1>5, <1>6, ReplacedTiles
  <2>3. versions[t] \in Seq(VersionRecord)
    BY <1>2
  <2> QED BY <1>2, <1>3, <1>5, <1>6, <2>1, <2>2, <2>3, ReplacedFollows
<1>8. /\ r \in WriterRecord /\ r.stage = stage /\ r.kind = writer[w].kind /\ r.asked = writer[w].asked /\ r.next = writer[w].next + 1
      /\ r.began = writer[w].began /\ r.id = writer[w].id /\ r.draft = [writer[w].draft EXCEPT ![t] = q]
      /\ stage \in {"done", "looking"}
  <2>1. stage \in {"done", "looking"} /\ writer[w].next + 1 \in Nat /\ writer[w] \in WriterRecord
    BY <1>2
  <2> DEFINE d == [writer[w].draft EXCEPT ![t] = q]
  <2>2. d \in [Titles -> Seq(VersionRecord)]
    BY <1>2, <1>7 DEF WriterRecord
  <2> HIDE DEF d, stage
  <2> QED BY <2>1, <2>2 DEF WriterRecord, d
<1>9. stage = "done" <=> writer[w].next = Len(writer[w].asked)
  OBVIOUS
<1> DEFINE titles == writer[w].asked
<1>10. titles \in Seq(Titles) /\ titles[writer[w].next] = t
  BY <1>2 DEF WriterRecord, Upon
<1> HIDE DEF r, stage, t
<1>11. writer'[w] = r /\ (\A o \in Writers \ {w} : writer'[o] = writer[o]) /\ writer' \in [Writers -> WriterRecord]
  BY <1>2, <1>4, <1>8
<1>12. /\ holder' \in [Titles -> Writers \cup {None}] /\ holder'[t] = w
       /\ \A u \in Titles : u # t => holder'[u] = holder[u]
  BY <1>1, <1>2
<1>13. TermsTyped'
  <2>1. /\ r.stage \in {"claiming", "looking", "locking"} => r.next \in 1..Len(r.asked)
        /\ r.stage = "done" => r.next = Len(r.asked) + 1
        /\ r.next <= Len(r.asked) + 1 /\ r.stage # "claiming"
    <3> DEFINE l == Len(writer[w].asked)
               n == writer[w].next
    <3>1. l \in Nat /\ n \in 1..l /\ Len(r.asked) = l /\ r.next = n + 1 /\ r.stage \in {"done", "looking"}
      BY <1>2, <1>8 DEF WriterRecord
    <3>2. r.stage = "done" <=> n = l
      BY <1>8, <1>9
    <3> HIDE DEF l, n
    <3> QED BY <3>1, <3>2
  <2> QED BY <1>1, <1>11, <1>12, <2>1 DEF TermsInv, TermsTyped, Upon
<1>14. ASSUME NEW o \in Writers PROVE DraftsFollow(o)' /\ OpenedSoFar(o)'
  <2>1. CASE o = w
    <3>1. SetOf(w)' = SetOf(w) /\ writer'[w].began = writer[w].began /\ writer'[w].stage # "idle"
      <4>1. /\ writer'[w].kind = writer[w].kind /\ writer'[w].asked = writer[w].asked /\ writer'[w].id = writer[w].id
            /\ writer'[w].began = writer[w].began /\ writer'[w].stage \in {"done", "looking"}
        BY <1>8, <1>11
      <4>2. SetOf(w)' = SetOf(w)
        BY <4>1 DEF SetOf, Drafted
      <4> QED BY <4>1, <4>2
    <3>2. /\ writer'[w].draft[t] = q
          /\ \A u \in Titles : u # t => writer'[w].draft[u] = writer[w].draft[u]
      BY <1>2, <1>8, <1>11 DEF WriterRecord
    <3>3. DraftsFollow(w)'
      <4> SUFFICES ASSUME NEW u \in Titles, holder'[u] = w
                   PROVE  Tiles(writer'[w].draft[u]) /\ Follows(writer'[w].draft[u], versions[u], writer[w].began, SetOf(w))
        BY <1>1, <3>1 DEF DraftsFollow
      <4>1. CASE u = t
        BY <4>1, <3>2, <1>7, <1>3
      <4>2. CASE u # t
        BY <4>2, <3>2, <1>12 DEF TermsInv, DraftsFollow
      <4> QED BY <4>1, <4>2
    <3>4. OpenedSoFar(w)'
      <4> SUFFICES ASSUME NEW k \in 1..writer[w].next
                   PROVE  holder'[titles[k]] = w /\ HasVersion(writer'[w].draft[titles[k]], writer[w].began, SetOf(w))
        <5>1. writer'[w].next - 1 = writer[w].next /\ writer'[w].asked = titles
          <6>1. writer'[w].next = writer[w].next + 1 /\ writer'[w].asked = titles /\ writer[w].next \in Nat
            BY <1>2, <1>8, <1>11
          <6> QED BY <6>1
        <5> HIDE DEF titles
        <5> QED BY <3>1, <5>1 DEF OpenedSoFar
      <4>1. titles[k] \in Titles
        BY <1>2, <1>10
      <4>2. CASE titles[k] = t
        BY <4>2, <1>3, <1>7, <1>12, <3>2
      <4>3. CASE titles[k] # t
        <5>1. k \in 1..(writer[w].next - 1)
          BY <4>3, <1>2, <1>10
        <5> QED BY <5>1, <4>1, <4>3, <1>12, <3>2 DEF TermsInv, OpenedSoFar
      <4> QED BY <4>2, <4>3
    <3> QED BY <2>1, <3>3, <3>4
  <2>2. CASE o # w
    <3>1. \A u \in Titles : (holder'[u] = o) = (holder[u] = o)
      BY <2>2, <1>1, <1>12, TermsOK DEF TermsInv, DraftsFollow
    <3> QED BY <2>2, <3>1, <1>1, <1>11, OthersDrafts DEF TermsInv
  <2> QED BY <2>1, <2>2
<1>15. (\A u \in Titles : Tiles(versions'[u])) /\ SetsAreWhole'
  BY <1>1 DEF TermsInv, SetsAreWhole
<1> QED BY <1>13, <1>14, <1>15 DEF TermsInv

\* Operations that end let go of their rows, and what they drafted is committed or forgotten.
LEMMA EndSteps ==
    ASSUME TermsInv, NEW w \in Writers, FreeHeld(w), UNCHANGED <<time, begun>>,
           writer' = [writer EXCEPT ![w] = IdleWriter],
           versions' \in [Titles -> Seq(VersionRecord)],
           \A t \in Titles : Tiles(versions'[t]),
           \A t \in Titles : holder[t] # w => versions'[t] = versions[t],
           SetsAreWhole'
    PROVE  TermsInv'
<1>1. /\ holder' = [t \in Titles |-> IF holder[t] = w THEN None ELSE holder[t]]
      /\ granting' = [g \in Grants |-> IF granting[g] = w THEN None ELSE granting[g]]
      /\ holder \in [Titles -> Writers \cup {None}] /\ granting \in [Grants -> Writers \cup {None}]
      /\ writer \in [Writers -> WriterRecord]
  BY DEF FreeHeld, TermsInv, TermsTyped
<1>2. IdleWriter \in WriterRecord /\ IdleWriter.stage = "idle" /\ IdleWriter.next = 0 /\ Len(IdleWriter.asked) = 0
  BY NoDraftTyped DEF IdleWriter, WriterRecord
<1>3. writer'[w] = IdleWriter /\ (\A o \in Writers \ {w} : writer'[o] = writer[o]) /\ writer' \in [Writers -> WriterRecord]
  BY <1>1, <1>2
<1>4. TermsTyped'
  <2>1. holder' \in [Titles -> Writers \cup {None}] /\ granting' \in [Grants -> Writers \cup {None}]
    BY <1>1
  <2> QED BY <1>2, <1>3, <2>1 DEF TermsInv, TermsTyped, Upon
<1>5. ASSUME NEW o \in Writers PROVE DraftsFollow(o)' /\ OpenedSoFar(o)'
  <2>1. CASE o = w
    <3>1. \A t \in Titles : holder'[t] # w
      BY <1>1, TermsOK
    <3> QED BY <2>1, <3>1, <1>2, <1>3 DEF DraftsFollow, OpenedSoFar
  <2>2. CASE o # w
    <3>1. \A t \in Titles : (holder'[t] = o) = (holder[t] = o)
      BY <2>2, <1>1, TermsOK
    <3> QED BY <2>2, <3>1, <1>3, OthersDrafts DEF TermsInv
  <2> QED BY <2>1, <2>2
<1> QED BY <1>4, <1>5 DEF TermsInv

\* What was committed is still there after what follows it is.
LEMMA FollowedHas ==
    ASSUME NEW s \in Seq(VersionRecord), NEW t \in Seq(VersionRecord), NEW began, NEW set, Follows(s, t, began, set),
           NEW n \in DOMAIN t
    PROVE  HasVersion(s, t[n].from, t[n].set)
BY DEF Follows, HasVersion

LEMMA CommitStep ==
    ASSUME TermsInv, NEW w \in Writers, Commit(w)
    PROVE  TermsInv'
<1>1. /\ writer[w].stage = "done" /\ versions' = [t \in Titles |-> View(w, t)] /\ writer' = [writer EXCEPT ![w] = IdleWriter]
      /\ FreeHeld(w) /\ UNCHANGED <<time, begun>>
  BY DEF Commit
<1>2. /\ versions \in [Titles -> Seq(VersionRecord)] /\ writer[w] \in WriterRecord
      /\ writer[w].next - 1 = Len(writer[w].asked)
  <2>1. versions \in [Titles -> Seq(VersionRecord)] /\ writer[w] \in WriterRecord /\ writer[w].next = Len(writer[w].asked) + 1
    BY <1>1 DEF TermsInv, TermsTyped
  <2>2. writer[w].next \in Nat /\ Len(writer[w].asked) \in Nat
    BY <2>1 DEF WriterRecord
  <2> QED BY <2>1, <2>2
<1>3. ASSUME NEW t \in Titles
      PROVE  /\ View(w, t) \in Seq(VersionRecord) /\ Tiles(View(w, t))
             /\ Follows(View(w, t), versions[t], writer[w].began, SetOf(w))
             /\ holder[t] # w => View(w, t) = versions[t]
  <2>1. CASE holder[t] = w
    BY <1>2, <2>1 DEF View, TermsInv, DraftsFollow, WriterRecord
  <2>2. CASE holder[t] # w
    BY <1>2, <2>2 DEF View, TermsInv, Follows
  <2> QED BY <2>1, <2>2
<1>4. /\ \A t \in Titles : versions'[t] = View(w, t)
      /\ versions' \in [Titles -> Seq(VersionRecord)] /\ \A t \in Titles : Tiles(versions'[t])
      /\ \A t \in Titles : holder[t] # w => versions'[t] = versions[t]
  BY <1>1, <1>3
<1>5. SetsAreWhole'
  <2> SUFFICES ASSUME NEW t \in Titles, NEW n \in DOMAIN versions'[t], versions'[t][n].set # None,
                      NEW r \in versions'[t][n].set.routes
               PROVE  HasVersion(versions'[r], versions'[t][n].from, versions'[t][n].set)
    BY DEF SetsAreWhole, HasVersion
  <2>1. Follows(versions'[t], versions[t], writer[w].began, SetOf(w)) /\ versions[t] \in Seq(VersionRecord)
        /\ versions'[t] \in Seq(VersionRecord)
    BY <1>2, <1>3, <1>4
  <2>2. r \in Titles
    <3>1. versions'[t][n] \in VersionRecord
      BY <2>1
    <3> QED BY <3>1 DEF VersionRecord, SetRecord
  <2>3. Follows(versions'[r], versions[r], writer[w].began, SetOf(w)) /\ versions[r] \in Seq(VersionRecord)
        /\ versions'[r] \in Seq(VersionRecord)
    BY <1>2, <1>3, <1>4, <2>2
  <2>4. CASE n \in DOMAIN versions[t]
    <3>1. versions'[t][n].from = versions[t][n].from /\ versions'[t][n].set = versions[t][n].set
      BY <2>1, <2>4 DEF Follows
    <3>2. PICK k \in DOMAIN versions[r] : versions[r][k].set = versions[t][n].set /\ versions[r][k].from = versions[t][n].from
      BY <2>4, <3>1 DEF TermsInv, SetsAreWhole
    <3> QED BY <2>3, <3>1, <3>2, FollowedHas
  <2>5. CASE n \notin DOMAIN versions[t]
    <3>1. n > Len(versions[t])
      BY <2>1, <2>5
    <3>2. versions'[t][n].from = writer[w].began /\ versions'[t][n].set = SetOf(w)
      BY <2>1, <3>1 DEF Follows
    <3>3. PICK k \in DOMAIN writer[w].asked : r = writer[w].asked[k]
      BY <3>2 DEF SetOf, Drafted
    <3>4. k \in 1..(writer[w].next - 1)
      <4>1. writer[w].asked \in Seq(Titles)
        BY <1>2 DEF WriterRecord
      <4> QED BY <1>2, <3>3, <4>1
    <3>5. holder[r] = w /\ HasVersion(writer[w].draft[r], writer[w].began, SetOf(w))
      BY <3>3, <3>4 DEF TermsInv, OpenedSoFar
    <3>6. versions'[r] = writer[w].draft[r]
      BY <1>4, <2>2, <3>5 DEF View
    <3> QED BY <3>2, <3>5, <3>6
  <2> QED BY <2>4, <2>5
<1> QED BY <1>1, <1>4, <1>5, EndSteps

LEMMA RollBackStep ==
    ASSUME TermsInv, NEW w \in Writers, RollBackTerms(w)
    PROVE  TermsInv'
<1>1. /\ UNCHANGED <<versions, time, begun>> /\ writer' = [writer EXCEPT ![w] = IdleWriter] /\ FreeHeld(w)
  BY DEF RollBackTerms
<1>2. /\ versions' \in [Titles -> Seq(VersionRecord)] /\ (\A t \in Titles : Tiles(versions'[t])) /\ SetsAreWhole'
  BY <1>1 DEF TermsInv, TermsTyped, SetsAreWhole
<1> QED BY <1>1, <1>2, EndSteps

LEMMA AskSteps ==
    ASSUME TermsInv, NEW w \in Writers,
           \/ \E r \in Routes : OpenVersion(w, r) \/ CreateRoute(w, r)
           \/ \E routes \in [1..2 -> Routes] : RateChangeSet(w, routes)
           \/ \E g \in Grants : GrantOrAmend(w, g) \/ Deactivate(w, g)
    PROVE  TermsInv'
<1>1. ASSUME NEW t \in Titles PROVE <<t>> \in Seq(Titles) /\ Len(<<t>>) = 1 /\ <<t>>[1] = t
  OBVIOUS
<1>2. ASSUME NEW r \in Routes, OpenVersion(w, r) \/ CreateRoute(w, r) PROVE TermsInv'
  <2>1. Begin(w, "version", <<r>>) \/ Begin(w, "route", <<r>>)
    BY <1>2 DEF OpenVersion, CreateRoute
  <2>2. <<r>> \in Seq(Titles) /\ Len(<<r>>) > 0
    BY <1>1 DEF Titles
  <2> QED BY <2>1, <2>2, BeginTermsStep
<1>3. ASSUME NEW routes \in [1..2 -> Routes], RateChangeSet(w, routes) PROVE TermsInv'
  <2>1. routes \in Seq(Titles) /\ Len(routes) > 0
    <3>1. routes \in [1..2 -> Titles]
      BY DEF Titles
    <3>2. routes \in Seq(Titles) /\ Len(routes) = 2
      BY <3>1, FunctionIsSeq
    <3> QED BY <3>2
  <2>2. Begin(w, "set", routes)
    BY <1>3 DEF RateChangeSet
  <2> QED BY <2>1, <2>2, BeginTermsStep
<1>4. ASSUME NEW g \in Grants, GrantOrAmend(w, g) \/ Deactivate(w, g) PROVE TermsInv'
  <2>1. Begin(w, "grant", <<g>>) \/ Begin(w, "deactivate", <<g>>)
    BY <1>4 DEF GrantOrAmend, Deactivate
  <2>2. <<g>> \in Seq(Titles) /\ Len(<<g>>) > 0 /\ <<g>>[1] \in Grants
    BY <1>1 DEF Titles
  <2> QED BY <2>1, <2>2, BeginTermsStep
<1> QED BY <1>2, <1>3, <1>4

LEMMA TermsStep == TermsInv /\ [TermsNext]_termsVars => TermsInv'
<1> SUFFICES ASSUME TermsInv, [TermsNext]_termsVars PROVE TermsInv'
  OBVIOUS
<1>1. CASE UNCHANGED <<versions, writer, holder, granting, begun>> /\ time' \in Nat
  <2>1. TermsTyped'
    BY <1>1 DEF TermsInv, TermsTyped, Upon
  <2>2. \A w \in Writers : DraftsFollow(w)' /\ OpenedSoFar(w)'
    BY <1>1, OthersDrafts DEF TermsInv
  <2> QED BY <1>1, <2>1, <2>2 DEF TermsInv, SetsAreWhole
<1>2. CASE TimePasses \/ UNCHANGED termsVars
  <2>1. UNCHANGED <<versions, writer, holder, granting, begun>> /\ time' \in Nat
    BY <1>2 DEF TimePasses, termsVars, TermsInv, TermsTyped
  <2> QED BY <1>1, <2>1
<1>3. ASSUME NEW w \in Writers, WriterStep(w) PROVE TermsInv'
  BY <1>3, LookSteps, OpenStep, CommitStep, RollBackStep DEF WriterStep
<1>4. ASSUME NEW w \in Writers,
             \/ \E r \in Routes : OpenVersion(w, r) \/ CreateRoute(w, r)
             \/ \E routes \in [1..2 -> Routes] : RateChangeSet(w, routes)
             \/ \E g \in Grants : GrantOrAmend(w, g) \/ Deactivate(w, g)
      PROVE  TermsInv'
  BY <1>4, AskSteps
<1> QED BY <1>2, <1>3, <1>4 DEF TermsNext

\* However the operations that open versions wait for each other, what a payment resolved at any moment
\* finds is one version in force of each route and grant, and of a rate change set all or nothing
\* (configuration.controller.ts, grant.service.ts).
THEOREM TermsAlwaysInForce == TermsSpec => []TermsInForce
<1>1. TermsInit => TermsInv
  BY InitTermsInv
<1>2. TermsInv /\ [TermsNext]_termsVars => TermsInv'
  BY TermsStep
<1>3. TermsInv => TermsInForce
  BY DEF TermsInv, TermsInForce, VersionsTile, Tiles
<1> QED BY <1>1, <1>2, <1>3, PTL DEF TermsSpec

-----------------------------------------------------------------------------
(***************************************************************************)
(* Deployments.  Whoever migrates holds the lock, so that what it found    *)
(* applied is what is; the tables there are the first ones of the newest   *)
(* release.                                                                *)
(***************************************************************************)
DeployRecord ==
    [stage : {"ready", "locked", "migrating", "failed", "migrated", "granted", "guards read", "granting over",
              "opened", "dead", "done"},
     done : SUBSET Files, reads : SUBSET Files, rewrites : SUBSET Files, guarded : SUBSET Files,
     opened : {None} \cup [Keys -> Secrets \cup {None}], file : [Keys -> Secrets \cup {None}]]

DeploysTyped ==
    /\ applied \in Seq(Files)
    /\ lock \in Deploys \cup {None}
    /\ deploy \in [Deploys -> DeployRecord]
    /\ appRole \in [reads : SUBSET Files, rewrites : SUBSET Files]
    /\ sealed \in {None} \cup [Keys -> Secrets \cup {None}]

RightsGiven == {"granting over", "opened", "done"}

\* How far a deployment has come, and what is there by then.
DeployStands(d) ==
    LET stage == deploy[d].stage
    IN  /\ stage \in {"locked", "migrating"} => lock = d
        /\ stage = "migrating" => deploy[d].done = Tables
        /\ stage # "failed"
        /\ stage \in {"migrated", "granted", "guards read"} => Known(d) \subseteq Tables
        /\ stage \in {"granted", "guards read"} => Known(d) \subseteq deploy[d].reads /\ appRole.reads \subseteq deploy[d].reads
        /\ stage = "granted" => deploy[d].rewrites \cap AppendOnly \subseteq Tables
        /\ stage = "guards read" => deploy[d].rewrites \cap AppendOnly \subseteq deploy[d].guarded
        /\ stage \in RightsGiven => Known(d) \subseteq appRole.reads

NameOrder == \A k, l \in DOMAIN applied : k < l => applied[k] < applied[l]
NoneSkipped == \A f \in Tables : \A g \in Files : g < f => g \in Tables
OneGrants == \A d, e \in Granting : d = e

DeploysInv ==
    /\ DeploysTyped /\ NameOrder /\ NoneSkipped /\ OneGrants
    /\ \A d \in Deploys : DeployStands(d)
    /\ appRole.rewrites \cap AppendOnly = {}
    /\ SealedIsWhole

LEMMA LeastFile ==
    ASSUME NEW S \in SUBSET Nat, S # {}
    PROVE  \E f \in S : \A g \in S : f <= g
<1>1. PICK f \in S : \A g \in S : ~(<<g, f>> \in OpToRel(<, Nat))
  BY NatLessThanWellFounded, WFMin
<1>2. \A g \in S : ~(g < f)
  BY <1>1 DEF OpToRel
<1> QED BY <1>2

\* A deployment is not disturbed by what another does.
LEMMA OthersStand ==
    ASSUME NEW o \in Deploys, DeployStands(o), deploy'[o] = deploy[o], Tables \subseteq Tables', lock = o => lock' = o,
           deploy[o].stage = "migrating" => Tables' = Tables,
           appRole.reads \subseteq appRole'.reads, o \in Granting => appRole' = appRole
    PROVE  DeployStands(o)'
BY DEF DeployStands, Known, Granting

LEMMA InitDeploysInv == ProvisioningInit => DeploysInv
<1> SUFFICES ASSUME ProvisioningInit PROVE DeploysInv
  OBVIOUS
<1>1. applied = <<>> /\ applied \in Seq(Files) /\ DOMAIN applied = {}
  BY DEF ProvisioningInit
<1>2. ASSUME NEW d \in Deploys PROVE deploy[d] \in DeployRecord /\ deploy[d].stage = "ready"
  <2>1. PICK f \in [Keys -> Secrets \cup {None}] : deploy[d] = [Unrun EXCEPT !.file = f]
    BY DEF ProvisioningInit
  <2>2. deploy[d] = [stage |-> "ready", done |-> {}, reads |-> {}, rewrites |-> {}, guarded |-> {}, opened |-> None, file |-> f]
    BY <2>1 DEF Unrun
  <2> QED BY <2>2 DEF DeployRecord
<1>3. DeploysTyped
  <2>1. DOMAIN deploy = Deploys /\ deploy = [d \in Deploys |-> deploy[d]]
    BY DEF ProvisioningInit
  <2>2. deploy \in [Deploys -> DeployRecord]
    BY <1>2, <2>1
  <2> QED BY <1>1, <2>2 DEF ProvisioningInit, DeploysTyped
<1>4. NameOrder /\ NoneSkipped
  BY <1>1 DEF NameOrder, NoneSkipped, Tables
<1>5. OneGrants /\ \A d \in Deploys : DeployStands(d)
  BY <1>2 DEF OneGrants, Granting, DeployStands, RightsGiven
<1>6. appRole.rewrites \cap AppendOnly = {} /\ SealedIsWhole
  BY ProvisioningOK DEF ProvisioningInit, SealedIsWhole
<1> QED BY <1>3, <1>4, <1>5, <1>6 DEF DeploysInv

\* A deployment alone moves: the tables and the application's role stay.
LEMMA MoveAlone ==
    ASSUME DeploysInv, NEW d \in Deploys, NEW r \in DeployRecord, deploy' = [deploy EXCEPT ![d] = r],
           UNCHANGED <<applied, appRole>>, lock' \in Deploys \cup {None}, sealed' \in {None} \cup [Keys -> Secrets \cup {None}],
           \A o \in Deploys \ {d} : lock = o => lock' = o,
           DeployStands(d)', SealedIsWhole',
           r.stage \in {"granted", "guards read"} => Granting \subseteq {d}
    PROVE  DeploysInv'
<1>1. deploy'[d] = r /\ (\A o \in Deploys \ {d} : deploy'[o] = deploy[o]) /\ deploy' \in [Deploys -> DeployRecord]
  BY DEF DeploysInv, DeploysTyped
<1>2. Tables' = Tables
  BY DEF Tables
<1>3. \A o \in Deploys : DeployStands(o)'
  BY <1>1, <1>2, OthersStand DEF DeploysInv
<1>4. OneGrants'
  <2>1. \A o \in Deploys \ {d} : o \in Granting' => o \in Granting
    BY <1>1 DEF Granting
  <2>2. d \in Granting' => Granting \subseteq {d}
    BY <1>1 DEF Granting
  <2>3. Granting' \subseteq Deploys
    BY DEF Granting
  <2> QED BY <2>1, <2>2, <2>3 DEF DeploysInv, OneGrants
<1>5. DeploysTyped' /\ NameOrder' /\ NoneSkipped' /\ appRole'.rewrites \cap AppendOnly = {}
  BY <1>1, <1>2 DEF DeploysInv, DeploysTyped, NameOrder, NoneSkipped
<1> QED BY <1>3, <1>4, <1>5 DEF DeploysInv

\* The steps of a deployment that only change where it stands.
LEMMA MigrateSteps ==
    ASSUME DeploysInv, NEW d \in Deploys, BeginMigrate(d) \/ ReadDone(d) \/ EndMigrate(d)
    PROVE  DeploysInv'
<1>0. deploy[d] \in DeployRecord /\ deploy \in [Deploys -> DeployRecord] /\ DeployStands(d) /\ Tables \subseteq Files
      /\ lock \in Deploys \cup {None}
  <2>1. applied \in Seq(Files)
    BY DEF DeploysInv, DeploysTyped
  <2>2. Tables \subseteq Files
    BY <2>1 DEF Tables
  <2> QED BY <2>2 DEF DeploysInv, DeploysTyped
<1>1. UNCHANGED <<applied, appRole, sealed, origin>> /\ Tables' = Tables
  BY DEF BeginMigrate, ReadDone, EndMigrate, Tables
<1>2. CASE BeginMigrate(d)
  <2> DEFINE r == [deploy[d] EXCEPT !.stage = "locked"]
  <2>1. lock = None /\ lock' = d /\ deploy' = [deploy EXCEPT ![d] = r]
    BY <1>0, <1>2 DEF BeginMigrate, LockMigrations, DeployMoves
  <2>2. r \in DeployRecord /\ r.stage = "locked"
    BY <1>0 DEF DeployRecord
  <2> HIDE DEF r
  <2>3. deploy'[d] = r
    BY <1>0, <2>1
  <2>4. DeployStands(d)'
    BY <2>1, <2>2, <2>3 DEF DeployStands, RightsGiven
  <2> QED BY <1>1, <2>1, <2>2, <2>4, ProvisioningOK, MoveAlone DEF DeploysInv, DeploysTyped, SealedIsWhole
<1>3. CASE ReadDone(d)
  <2> DEFINE r == [deploy[d] EXCEPT !.stage = "migrating", !.done = Tables]
  <2>1. lock' = lock /\ deploy' = [deploy EXCEPT ![d] = r] /\ deploy[d].stage = "locked"
    BY <1>0, <1>3 DEF ReadDone, Reached
  <2>2. r \in DeployRecord /\ r.stage = "migrating" /\ r.done = Tables
    BY <1>0 DEF DeployRecord
  <2> HIDE DEF r
  <2>3. deploy'[d] = r
    BY <1>0, <2>1
  <2>4. DeployStands(d)'
    BY <1>0, <1>1, <2>1, <2>2, <2>3 DEF DeployStands, RightsGiven
  <2> QED BY <1>0, <1>1, <2>1, <2>2, <2>4, MoveAlone DEF DeploysInv, DeploysTyped, SealedIsWhole
<1>4. CASE EndMigrate(d)
  <2> DEFINE r == [deploy[d] EXCEPT !.stage = "migrated"]
  <2>1. lock' = (IF lock = d THEN None ELSE lock) /\ deploy' = [deploy EXCEPT ![d] = r] /\ deploy[d].stage = "migrating"
        /\ Known(d) \subseteq deploy[d].done
    BY <1>0, <1>4 DEF EndMigrate, Reached, Unlocked, DeployMoves, Pending
  <2>2. r \in DeployRecord /\ r.stage = "migrated"
    BY <1>0 DEF DeployRecord
  <2> HIDE DEF r
  <2>3. deploy'[d] = r
    BY <1>0, <2>1
  <2>4. DeployStands(d)'
    BY <1>0, <1>1, <2>1, <2>2, <2>3 DEF DeployStands, RightsGiven, Known
  <2>5. lock' \in Deploys \cup {None} /\ \A o \in Deploys \ {d} : lock = o => lock' = o
    BY <1>0, <2>1
  <2> QED BY <1>1, <2>1, <2>2, <2>4, <2>5, MoveAlone DEF DeploysInv, DeploysTyped, SealedIsWhole
<1> QED BY <1>2, <1>3, <1>4

\* The migration that is applied is the least that is not there yet: what is before it is.
LEMMA ApplyStep ==
    ASSUME DeploysInv, NEW d \in Deploys, ApplyMigration(d)
    PROVE  DeploysInv'
<1> DEFINE f == CHOOSE f \in Pending(d) : \A g \in Pending(d) : f <= g
<1>0. /\ deploy[d] \in DeployRecord /\ deploy \in [Deploys -> DeployRecord] /\ applied \in Seq(Files)
      /\ deploy[d].stage = "migrating" /\ lock = d /\ deploy[d].done = Tables
      /\ UNCHANGED <<appRole, sealed, origin>>
  BY DEF ApplyMigration, Reached, DeploysInv, DeploysTyped, DeployStands
<1>1. f \in Pending(d) /\ (\A g \in Pending(d) : f <= g) /\ f \in Files /\ f \in Nat /\ f \notin Tables /\ f <= Release[d]
  <2>1. Pending(d) \in SUBSET Nat /\ Pending(d) # {}
    BY ProvisioningOK DEF Pending, Known, ApplyMigration
  <2>2. \E g \in Pending(d) : \A h \in Pending(d) : g <= h
    BY <2>1, LeastFile
  <2>3. f \in Pending(d) /\ \A g \in Pending(d) : f <= g
    BY <2>2
  <2> HIDE DEF f
  <2> QED BY <1>0, <2>3, ProvisioningOK DEF Pending, Known
<1> DEFINE r == [deploy[d] EXCEPT !.done = deploy[d].done \cup {f}]
<1>2. applied' = Append(applied, f) /\ deploy' = [deploy EXCEPT ![d] = r] /\ lock' = lock
  BY <1>0, <1>1 DEF ApplyMigration
<1> HIDE DEF f
<1>3. r \in DeployRecord /\ r.done = Tables \cup {f} /\ r.stage = "migrating"
  BY <1>0, <1>1 DEF DeployRecord
<1> HIDE DEF r
<1>4. deploy'[d] = r /\ (\A o \in Deploys \ {d} : deploy'[o] = deploy[o]) /\ deploy' \in [Deploys -> DeployRecord]
  BY <1>0, <1>2, <1>3
<1> DEFINE n == Len(applied)
<1>5. /\ n \in Nat /\ DOMAIN applied = 1..n /\ DOMAIN applied' = 1..(n + 1) /\ applied'[n + 1] = f
      /\ (\A k \in 1..n : applied'[k] = applied[k]) /\ applied' \in Seq(Files)
  BY <1>0, <1>1, <1>2
<1> HIDE DEF n
<1>6. Tables' = Tables \cup {f} /\ Tables \subseteq Files
  <2>1. Tables' = {applied'[k] : k \in 1..(n + 1)} /\ Tables = {applied[k] : k \in 1..n}
    BY <1>5 DEF Tables
  <2>2. n + 1 \in 1..(n + 1) /\ \A k \in 1..(n + 1) : k = n + 1 \/ k \in 1..n
    BY <1>5
  <2>3. 1..n \subseteq 1..(n + 1)
    BY <1>5
  <2>4. Tables' = Tables \cup {f}
    BY <1>5, <2>1, <2>2, <2>3
  <2>5. Tables \subseteq Files
    BY <1>0, <1>5, <2>1
  <2> QED BY <2>4, <2>5
<1>7. \A g \in Files : g < f => g \in Tables
  <2> SUFFICES ASSUME NEW g \in Files, g < f, g \notin Tables PROVE FALSE
    OBVIOUS
  <2>1. g \in Nat /\ Release[d] \in Nat
    BY ProvisioningOK
  <2>2. g \in Pending(d)
    BY <1>0, <1>1, <2>1 DEF Pending, Known
  <2> QED BY <1>1, <2>1, <2>2
<1>8. \A g \in Tables : g < f
  <2> SUFFICES ASSUME NEW g \in Tables, ~(g < f) PROVE FALSE
    OBVIOUS
  <2>1. g \in Nat /\ f < g
    BY <1>1, <1>6, ProvisioningOK
  <2> QED BY <1>1, <2>1 DEF DeploysInv, NoneSkipped
<1>9. NameOrder'
  <2> SUFFICES ASSUME NEW k \in 1..(n + 1), NEW l \in 1..(n + 1), k < l PROVE applied'[k] < applied'[l]
    BY <1>5 DEF NameOrder
  <2>1. CASE l = n + 1
    <3>1. k \in 1..n
      BY <1>5, <2>1
    <3>2. applied[k] \in Tables
      BY <1>5, <3>1 DEF Tables
    <3> QED BY <1>5, <1>8, <2>1, <3>1, <3>2
  <2>2. CASE l # n + 1
    <3>1. k \in 1..n /\ l \in 1..n
      BY <1>5, <2>2
    <3> QED BY <1>5, <3>1 DEF DeploysInv, NameOrder
  <2> QED BY <2>1, <2>2
<1>10. NoneSkipped'
  BY <1>6, <1>7 DEF DeploysInv, NoneSkipped
<1>11. ASSUME NEW o \in Deploys PROVE DeployStands(o)'
  <2>1. CASE o = d
    BY <1>0, <1>2, <1>3, <1>4, <1>6, <2>1 DEF DeployStands, RightsGiven
  <2>2. CASE o # d
    <3>1. deploy[o].stage # "migrating"
      BY <1>0, <2>2 DEF DeploysInv, DeployStands
    <3> QED BY <1>0, <1>2, <1>4, <1>6, <2>2, <3>1, OthersStand DEF DeploysInv
  <2> QED BY <2>1, <2>2
<1>12. OneGrants'
  <2>1. Granting' \subseteq Granting
    BY <1>3, <1>4 DEF Granting
  <2> QED BY <2>1 DEF DeploysInv, OneGrants
<1>13. DeploysTyped' /\ appRole'.rewrites \cap AppendOnly = {} /\ SealedIsWhole'
  BY <1>0, <1>2, <1>4, <1>5 DEF DeploysInv, DeploysTyped, SealedIsWhole
<1> QED BY <1>9, <1>10, <1>11, <1>12, <1>13 DEF DeploysInv

\* Who grants is alone, from the grant to the privileges taken back.
LEMMA GrantSteps ==
    ASSUME DeploysInv, NEW d \in Deploys, GrantAll(d) \/ AppendOnlyMutations(d)
    PROVE  DeploysInv'
<1>0. /\ deploy[d] \in DeployRecord /\ deploy \in [Deploys -> DeployRecord] /\ DeployStands(d)
      /\ appRole \in [reads : SUBSET Files, rewrites : SUBSET Files] /\ lock \in Deploys \cup {None}
      /\ Tables \subseteq Files
  <2>1. applied \in Seq(Files)
    BY DEF DeploysInv, DeploysTyped
  <2>2. Tables \subseteq Files
    BY <2>1 DEF Tables
  <2> QED BY <2>2 DEF DeploysInv, DeploysTyped
<1>1. UNCHANGED <<applied, lock, appRole, sealed, origin>> /\ Tables' = Tables
  BY DEF GrantAll, AppendOnlyMutations, Tables
<1>2. CASE GrantAll(d)
  <2> DEFINE r == [deploy[d] EXCEPT !.stage = "granted", !.reads = appRole.reads \cup Tables, !.rewrites = appRole.rewrites \cup Tables]
  <2>1. deploy' = [deploy EXCEPT ![d] = r] /\ deploy[d].stage = "migrated" /\ Granting = {}
    BY <1>0, <1>2 DEF GrantAll, Reached
  <2>2. r \in DeployRecord /\ r.stage = "granted" /\ r.reads = appRole.reads \cup Tables /\ r.rewrites = appRole.rewrites \cup Tables
    BY <1>0 DEF DeployRecord
  <2> HIDE DEF r
  <2>3. deploy'[d] = r
    BY <1>0, <2>1
  <2>4. r.rewrites \cap AppendOnly \subseteq Tables /\ Known(d) \subseteq Tables
    BY <1>0, <2>1, <2>2 DEF DeploysInv, DeployStands
  <2>5. DeployStands(d)'
    BY <1>1, <2>2, <2>3, <2>4 DEF DeployStands, RightsGiven, Known
  <2> QED BY <1>0, <1>1, <2>1, <2>2, <2>5, MoveAlone DEF DeploysInv, DeploysTyped, SealedIsWhole
<1>3. CASE AppendOnlyMutations(d)
  <2> DEFINE r == [deploy[d] EXCEPT !.stage = "guards read", !.guarded = Tables \cap AppendOnly]
  <2>1. deploy' = [deploy EXCEPT ![d] = r] /\ deploy[d].stage = "granted"
    BY <1>0, <1>3 DEF AppendOnlyMutations, Reached, Guarded
  <2>2. r \in DeployRecord /\ r.stage = "guards read" /\ r.guarded = Tables \cap AppendOnly
        /\ r.reads = deploy[d].reads /\ r.rewrites = deploy[d].rewrites
    BY <1>0 DEF DeployRecord
  <2> HIDE DEF r
  <2>3. deploy'[d] = r
    BY <1>0, <2>1
  <2>4. r.rewrites \cap AppendOnly \subseteq r.guarded
    BY <1>0, <2>1, <2>2 DEF DeployStands
  <2>5. DeployStands(d)'
    BY <1>0, <1>1, <2>1, <2>2, <2>3, <2>4 DEF DeployStands, RightsGiven, Known
  <2>6. Granting \subseteq {d}
    <3>1. d \in Granting
      BY <2>1 DEF Granting
    <3> QED BY <3>1 DEF DeploysInv, OneGrants
  <2> QED BY <1>0, <1>1, <2>1, <2>2, <2>5, <2>6, MoveAlone DEF DeploysInv, DeploysTyped, SealedIsWhole
<1> QED BY <1>2, <1>3

LEMMA GrantOverStep ==
    ASSUME DeploysInv, NEW d \in Deploys, GrantAppRole(d)
    PROVE  DeploysInv'
<1> DEFINE r == [deploy[d] EXCEPT !.stage = "granting over"]
<1>0. /\ deploy[d] \in DeployRecord /\ deploy \in [Deploys -> DeployRecord] /\ DeployStands(d)
      /\ deploy[d].stage = "guards read" /\ UNCHANGED <<applied, lock, sealed, origin>> /\ Tables' = Tables
      /\ appRole' = [reads |-> deploy[d].reads, rewrites |-> deploy[d].rewrites \ deploy[d].guarded]
      /\ deploy' = [deploy EXCEPT ![d] = r]
  BY DEF GrantAppRole, Reached, DeployMoves, DeploysInv, DeploysTyped, Tables
<1>1. r \in DeployRecord /\ r.stage = "granting over"
  BY <1>0 DEF DeployRecord
<1> HIDE DEF r
<1>2. deploy'[d] = r /\ (\A o \in Deploys \ {d} : deploy'[o] = deploy[o]) /\ deploy' \in [Deploys -> DeployRecord]
  BY <1>0, <1>1
<1>3. /\ appRole' \in [reads : SUBSET Files, rewrites : SUBSET Files] /\ appRole'.rewrites \cap AppendOnly = {}
      /\ Known(d) \subseteq appRole'.reads /\ appRole.reads \subseteq appRole'.reads
  BY <1>0 DEF DeployRecord, DeployStands
<1>4. d \in Granting /\ \A o \in Deploys \ {d} : o \notin Granting
  BY <1>0 DEF DeploysInv, OneGrants, Granting
<1>5. ASSUME NEW o \in Deploys PROVE DeployStands(o)'
  <2>1. CASE o = d
    BY <1>1, <1>2, <1>3, <2>1 DEF DeployStands, RightsGiven, Known
  <2>2. CASE o # d
    BY <1>0, <1>2, <1>3, <1>4, <2>2, OthersStand DEF DeploysInv
  <2> QED BY <2>1, <2>2
<1>6. OneGrants'
  <2>1. Granting' \subseteq Granting
    BY <1>1, <1>2 DEF Granting
  <2> QED BY <2>1 DEF DeploysInv, OneGrants
<1> QED BY <1>0, <1>2, <1>3, <1>5, <1>6 DEF DeploysInv, DeploysTyped, NameOrder, NoneSkipped, SealedIsWhole

\* Reading what is sealed and replacing it, a refusal, and a death.
LEMMA LastSteps ==
    ASSUME DeploysInv, NEW d \in Deploys,
           GrantCollides(d) \/ ReadCredentials(d) \/ SyncCredentials(d) \/ CredentialsRefused(d) \/ DeployDies(d)
    PROVE  DeploysInv'
<1>0. /\ deploy[d] \in DeployRecord /\ deploy \in [Deploys -> DeployRecord] /\ DeployStands(d)
      /\ lock \in Deploys \cup {None} /\ sealed \in {None} \cup [Keys -> Secrets \cup {None}]
  BY DEF DeploysInv, DeploysTyped
<1>1. UNCHANGED <<applied, appRole>> /\ Tables' = Tables
  BY DEF GrantCollides, ReadCredentials, SyncCredentials, CredentialsRefused, DeployDies, Tables
<1>2. CASE ReadCredentials(d)
  <2> DEFINE r == [deploy[d] EXCEPT !.stage = "opened", !.opened = sealed]
  <2>1. deploy' = [deploy EXCEPT ![d] = r] /\ deploy[d].stage = "granting over" /\ UNCHANGED <<lock, sealed, origin>>
    BY <1>0, <1>2 DEF ReadCredentials, Reached
  <2>2. r \in DeployRecord /\ r.stage = "opened"
    BY <1>0 DEF DeployRecord
  <2> HIDE DEF r
  <2>3. deploy'[d] = r
    BY <1>0, <2>1
  <2>4. DeployStands(d)'
    BY <1>0, <1>1, <2>1, <2>2, <2>3 DEF DeployStands, RightsGiven, Known
  <2> QED BY <1>0, <1>1, <2>1, <2>2, <2>4, MoveAlone DEF DeploysInv, SealedIsWhole
<1>3. CASE SyncCredentials(d)
  <2> DEFINE r == [deploy[d] EXCEPT !.stage = "done"]
  <2>1. deploy' = [deploy EXCEPT ![d] = r] /\ deploy[d].stage = "opened" /\ UNCHANGED lock
    BY <1>0, <1>3 DEF SyncCredentials, Reached, DeployMoves
  <2>2. r \in DeployRecord /\ r.stage = "done"
    BY <1>0 DEF DeployRecord
  <2> HIDE DEF r
  <2>3. deploy'[d] = r
    BY <1>0, <2>1
  <2>4. DeployStands(d)'
    BY <1>0, <1>1, <2>1, <2>2, <2>3 DEF DeployStands, RightsGiven, Known
  <2>5. SealedIsWhole' /\ sealed' \in {None} \cup [Keys -> Secrets \cup {None}]
    <3>1. CASE UNCHANGED <<sealed, origin>>
      BY <1>0, <3>1 DEF DeploysInv, SealedIsWhole
    <3>2. CASE sealed' = deploy[d].file /\ (Given(d) = Keys)
      BY <1>0, <3>2 DEF SealedIsWhole, Given, DeployRecord
    <3> QED BY <1>3, <3>1, <3>2 DEF SyncCredentials, CredentialsFromEnv
  <2> QED BY <1>0, <1>1, <2>1, <2>2, <2>4, <2>5, MoveAlone
<1>4. CASE GrantCollides(d) \/ CredentialsRefused(d) \/ DeployDies(d)
  <2> DEFINE r == [deploy[d] EXCEPT !.stage = "dead"]
  <2>1. /\ deploy' = [deploy EXCEPT ![d] = r] /\ UNCHANGED <<sealed, origin>>
        /\ lock' = lock \/ lock' = IF lock = d THEN None ELSE lock
    BY <1>0, <1>4 DEF GrantCollides, CredentialsRefused, DeployDies, DeployMoves, Unlocked
  <2>2. r \in DeployRecord /\ r.stage = "dead"
    BY <1>0 DEF DeployRecord
  <2> HIDE DEF r
  <2>3. deploy'[d] = r
    BY <1>0, <2>1
  <2>4. DeployStands(d)'
    BY <2>2, <2>3 DEF DeployStands, RightsGiven
  <2>5. lock' \in Deploys \cup {None} /\ \A o \in Deploys \ {d} : lock = o => lock' = o
    BY <1>0, <2>1
  <2> QED BY <1>0, <1>1, <2>1, <2>2, <2>4, <2>5, MoveAlone DEF DeploysInv, SealedIsWhole
<1> QED BY <1>2, <1>3, <1>4

LEMMA AllStay ==
    ASSUME DeploysInv, UNCHANGED <<applied, lock, deploy, appRole>>, SealedIsWhole',
           sealed' \in {None} \cup [Keys -> Secrets \cup {None}]
    PROVE  DeploysInv'
<1>1. Tables' = Tables /\ Granting' = Granting
  BY DEF Tables, Granting
<1>2. \A o \in Deploys : DeployStands(o)'
  BY <1>1, OthersStand DEF DeploysInv
<1>3. DeploysTyped' /\ NameOrder' /\ NoneSkipped' /\ OneGrants'
  BY <1>1 DEF DeploysInv, DeploysTyped, NameOrder, NoneSkipped, OneGrants
<1> QED BY <1>2, <1>3 DEF DeploysInv

LEMMA ReplaceStep ==
    ASSUME DeploysInv, NEW s \in [Keys -> Secrets \cup {None}], SetCredentials(s)
    PROVE  DeploysInv'
<1>1. sealed' = s /\ origin' = "console" /\ UNCHANGED <<applied, lock, deploy, appRole>>
  BY DEF SetCredentials
<1>2. SealedIsWhole' /\ sealed' \in {None} \cup [Keys -> Secrets \cup {None}]
  BY <1>1, ProvisioningOK DEF SealedIsWhole
<1> QED BY <1>1, <1>2, AllStay

LEMMA ProvisioningStep == DeploysInv /\ [ProvisioningNext]_provisioningVars => DeploysInv'
<1> SUFFICES ASSUME DeploysInv, [ProvisioningNext]_provisioningVars PROVE DeploysInv'
  OBVIOUS
<1>1. CASE UNCHANGED provisioningVars
  <2>1. SealedIsWhole' /\ sealed' \in {None} \cup [Keys -> Secrets \cup {None}]
    BY <1>1 DEF provisioningVars, DeploysInv, DeploysTyped, SealedIsWhole
  <2> QED BY <1>1, <2>1, AllStay DEF provisioningVars
<1>2. ASSUME NEW d \in Deploys, DeployStep(d) PROVE DeploysInv'
  BY <1>2, MigrateSteps, ApplyStep, GrantSteps, GrantOverStep, LastSteps DEF DeployStep
<1>3. ASSUME NEW s \in [Keys -> Secrets \cup {None}], SetCredentials(s) PROVE DeploysInv'
  BY <1>3, ReplaceStep
<1> QED BY <1>1, <1>2, <1>3 DEF ProvisioningNext

\* Whatever deployments overlap or die, and of whatever releases, migrations apply once and in name order
\* and fail no deployment, the application never may rewrite an append-only table, and it reaches every
\* table of the release once that one granted (migrate.ts, grants.ts).
THEOREM SchemaAlwaysHolds == ProvisioningSpec => []SchemaHolds
<1>1. DeploysInv => SchemaHolds
  BY DEF DeploysInv, SchemaHolds, NameOrder, DeployStands, RightsGiven, Reached
<1> QED BY <1>1, InitDeploysInv, ProvisioningStep, PTL DEF ProvisioningSpec

\* Whatever the console replaces meanwhile, credentials that came from a deployment's file are a whole set
\* (provider-account.service.ts).
THEOREM SealedAlwaysWhole == ProvisioningSpec => []SealedIsWhole
<1>1. DeploysInv => SealedIsWhole
  BY DEF DeploysInv
<1> QED BY <1>1, InitDeploysInv, ProvisioningStep, PTL DEF ProvisioningSpec

-----------------------------------------------------------------------------
(***************************************************************************)
(* A project's credentials.  While a call waits, its credential cannot     *)
(* have become usable unnoticed.  An operation on a credential holds its   *)
(* row from the moment it judged it, and those that give a role hold the   *)
(* project's lock while they do.                                           *)
(***************************************************************************)
CredRecord == [status : {"none", "active", "revoked", "deleted"}, role : {"primary", "secondary"}]
TokenRecord == [id : Clients, cred : Creds, revoked : BOOLEAN, late : BOOLEAN]
DeskKinds == {"issue", "promote", "delete", "revoke"}
DeskRecord ==
    [stage : {"idle", "locking", "claiming", "reading", "demoting", "writing"}, kind : DeskKinds \cup {None},
     cred : Creds \cup {None}, role : {None, "primary", "secondary"}, primary : Creds \cup {None}]
RequestRecord ==
    [stage : {"idle", "exchanging", "arriving", "judging", "admitted", "refused"}, cred : Creds \cup {None},
     token : TokenRecord \cup {None}, live : BOOLEAN, late : BOOLEAN, from : Addresses \cup {None}]

StoreTyped ==
    /\ cred \in [Creds -> CredRecord] /\ token \subseteq TokenRecord
    /\ project \in [status : {"active", "suspended"}, origins : SUBSET Addresses]
    /\ window \in [Creds -> 0..RateLimit] /\ revoked \subseteq Creds

DesksTyped ==
    /\ operation \in [Desks -> DeskRecord]
    /\ row \in [Creds -> Desks \cup {None}] /\ advisory \in Desks \cup {None}

CallsOpen ==
    /\ request \in [Clients -> RequestRecord] /\ usable \in [Clients -> BOOLEAN]
    /\ \A k \in Clients : request[k].stage \in {"exchanging", "arriving", "judging"} => request[k].cred \in Creds

\* A call that waits has had its moment if its credential is usable, or was found live.
MomentSeen ==
    \A k \in Clients :
        /\ request[k].stage \in {"arriving", "judging"} /\ UsableNow(request[k].cred) => usable[k]
        /\ request[k].stage = "judging" /\ request[k].live => usable[k]

CallsInv == CallsOpen /\ MomentSeen /\ AdmittedIsUsable

\* What an operation judged is so until it ends.
DeskStands(d) ==
    LET o == operation[d]
    IN  /\ o.stage # "idle" => o.kind \in DeskKinds /\ o.cred \in Creds
        /\ o.stage \notin {"idle", "locking"} /\ o.kind # "issue" =>
               /\ row[o.cred] = d /\ cred[o.cred].status = "active" /\ cred[o.cred].role = o.role
               /\ o.kind = "promote" => o.role = "secondary"
        /\ o.stage # "idle" /\ o.kind = "issue" => o.stage # "locking" /\ cred[o.cred].status = "none"
        /\ o.stage \in {"claiming", "reading", "demoting"} => o.kind # "revoke"
        /\ o.stage \in {"reading", "demoting", "writing"} /\ o.kind # "revoke" => advisory = d
        /\ o.stage = "demoting" => o.kind = "promote" /\ o.primary # None
        /\ o.stage \in {"demoting", "writing"} /\ o.kind = "promote" /\ o.primary # None => cred[o.primary].status # "none"
        /\ o.stage = "writing" /\ o.kind = "delete" => o.role = "secondary"
        /\ o.stage = "writing" /\ o.kind = "promote" /\ o.primary # None => row[o.primary] = d

IssuesApart ==
    \A d, e \in Desks :
        d # e /\ operation[d].stage # "idle" /\ operation[e].stage # "idle"
        /\ operation[d].kind = "issue" /\ operation[e].kind = "issue" => On(d) # On(e)

\* As long as none was revoked, a primary credential that was found is there, that one or another.
PrimaryStays ==
    \A d \in Desks :
        revoked = {} /\ operation[d].stage = "writing" /\ operation[d].kind = "issue" /\ operation[d].primary # None
            => OnRole("primary") # {}

HasPrimary == revoked = {} /\ ActiveCreds # {} => OnRole("primary") # {}

DesksInv == DesksTyped /\ (\A d \in Desks : DeskStands(d)) /\ IssuesApart /\ PrimaryStays /\ HasPrimary

AccessInv == StoreTyped /\ CallsInv /\ DesksInv

LEMMA InitAccessInv == AccessInit => AccessInv
<1> SUFFICES ASSUME AccessInit PROVE AccessInv
  OBVIOUS
<1>1. StoreTyped
  BY AccessOK DEF AccessInit, StoreTyped, CredRecord
<1>2. Away \in RequestRecord /\ Away.stage = "idle" /\ AtRest \in DeskRecord /\ AtRest.stage = "idle"
  BY DEF Away, RequestRecord, AtRest, DeskRecord
<1>3. /\ request \in [Clients -> RequestRecord] /\ usable \in [Clients -> BOOLEAN] /\ operation \in [Desks -> DeskRecord]
      /\ (\A k \in Clients : request[k].stage = "idle") /\ \A d \in Desks : operation[d].stage = "idle"
      /\ row \in [Creds -> Desks \cup {None}] /\ advisory \in Desks \cup {None}
  BY <1>2 DEF AccessInit
<1>4. CallsInv
  BY <1>3 DEF CallsInv, CallsOpen, MomentSeen, AdmittedIsUsable
<1>5. \A d \in Desks : DeskStands(d)
  BY <1>3 DEF DeskStands
<1>6. ActiveCreds = {}
  BY DEF ActiveCreds, AccessInit
<1>7. DesksInv
  BY <1>3, <1>5, <1>6 DEF DesksInv, DesksTyped, IssuesApart, PrimaryStays, HasPrimary
<1> QED BY <1>1, <1>4, <1>7 DEF AccessInv

-----------------------------------------------------------------------------
\* What does not concern the calls, or the operations, leaves them as they were.
LEMMA CallsSame ==
    ASSUME CallsInv, UNCHANGED <<cred, request, usable>>, project'.status = project.status
    PROVE  CallsInv'
BY DEF CallsInv, CallsOpen, MomentSeen, AdmittedIsUsable, UsableNow

LEMMA DesksSame ==
    ASSUME DesksInv, UNCHANGED <<cred, operation, row, advisory, revoked>>
    PROVE  DesksInv'
BY DEF DesksInv, DesksTyped, DeskStands, IssuesApart, PrimaryStays, HasPrimary, OnRole, ActiveCreds, On

\* One call moves on.
LEMMA CallMoves ==
    ASSUME CallsInv, NEW k \in Clients, NEW r \in RequestRecord, NEW u \in BOOLEAN,
           request' = [request EXCEPT ![k] = r], usable' = [usable EXCEPT ![k] = u], UNCHANGED <<cred, project>>,
           r.stage \in {"exchanging", "arriving", "judging"} => r.cred \in Creds,
           r.stage \in {"arriving", "judging"} /\ UsableNow(r.cred) => u,
           r.stage = "judging" /\ r.live => u,
           r.stage = "admitted" => u
    PROVE  CallsInv'
<1>1. /\ request \in [Clients -> RequestRecord] /\ usable \in [Clients -> BOOLEAN]
      /\ request'[k] = r /\ usable'[k] = u
      /\ \A l \in Clients \ {k} : request'[l] = request[l] /\ usable'[l] = usable[l]
  BY DEF CallsInv, CallsOpen
<1>2. CallsOpen'
  BY <1>1 DEF CallsInv, CallsOpen
<1>3. MomentSeen'
  BY <1>1 DEF CallsInv, MomentSeen, UsableNow
<1>4. AdmittedIsUsable'
  BY <1>1 DEF CallsInv, AdmittedIsUsable
<1> QED BY <1>2, <1>3, <1>4 DEF CallsInv

\* A call whose own moment is not touched: it goes to a stage that asks no more of it.
LEMMA CallGoes ==
    ASSUME CallsInv, NEW k \in Clients, NEW stage \in {"refused", "admitted"},
           request' = [request EXCEPT ![k].stage = stage], UNCHANGED <<cred, project, usable>>,
           stage = "admitted" => usable[k]
    PROVE  CallsInv'
<1> DEFINE r == [request[k] EXCEPT !.stage = stage]
<1>1. request \in [Clients -> RequestRecord] /\ usable \in [Clients -> BOOLEAN]
  BY DEF CallsInv, CallsOpen
<1>2. r \in RequestRecord /\ r.stage = stage
  BY <1>1 DEF RequestRecord
<1>3. request' = [request EXCEPT ![k] = r] /\ usable' = [usable EXCEPT ![k] = usable[k]] /\ usable[k] \in BOOLEAN
  BY <1>1
<1> HIDE DEF r
<1> QED BY <1>2, <1>3, CallMoves

LEMMA CallBegins ==
    ASSUME AccessInv, NEW k \in Clients, NEW a \in Addresses,
           \/ \E c \in Creds : BeginExchange(k, c, a)
           \/ \E t \in token : Arrive(k, t, a)
    PROVE  AccessInv'
<1>1. ASSUME NEW c \in Creds, BeginExchange(k, c, a) PROVE AccessInv'
  <2> DEFINE r == [stage |-> "exchanging", cred |-> c, token |-> None, live |-> UsableNow(c), late |-> FALSE, from |-> a]
  <2>1. /\ request' = [request EXCEPT ![k] = r] /\ usable' = [usable EXCEPT ![k] = UsableNow(c)]
        /\ UNCHANGED <<cred, token, project, window, operation, row, advisory, revoked>>
    BY <1>1 DEF BeginExchange
  <2>2. UsableNow(c) \in BOOLEAN
    BY DEF UsableNow
  <2>3. r \in RequestRecord /\ r.stage = "exchanging" /\ r.cred = c
    BY <2>2 DEF RequestRecord
  <2> HIDE DEF r
  <2>4. CallsInv'
    BY <2>1, <2>2, <2>3, CallMoves DEF AccessInv
  <2> QED BY <2>1, <2>4, DesksSame DEF AccessInv, StoreTyped
<1>2. ASSUME NEW t \in token, Arrive(k, t, a) PROVE AccessInv'
  <2> DEFINE r == [stage |-> "arriving", cred |-> t.cred, token |-> t, live |-> FALSE, late |-> FALSE, from |-> a]
  <2>1. /\ request' = [request EXCEPT ![k] = r] /\ usable' = [usable EXCEPT ![k] = UsableNow(t.cred)]
        /\ UNCHANGED <<cred, token, project, window, operation, row, advisory, revoked>>
    BY <1>2 DEF Arrive
  <2>2. UsableNow(t.cred) \in BOOLEAN /\ t \in TokenRecord /\ t.cred \in Creds
    BY DEF UsableNow, AccessInv, StoreTyped, TokenRecord
  <2>3. r \in RequestRecord /\ r.stage = "arriving" /\ r.cred = t.cred
    BY <2>2 DEF RequestRecord
  <2> HIDE DEF r
  <2>4. CallsInv'
    BY <2>1, <2>2, <2>3, CallMoves DEF AccessInv
  <2> QED BY <2>1, <2>4, DesksSame DEF AccessInv, StoreTyped
<1> QED BY <1>1, <1>2

\* What a call was found to be is what its credential is at that moment.
LEMMA ResolveStep ==
    ASSUME AccessInv, NEW k \in Clients, ResolveToken(k)
    PROVE  AccessInv'
<1>1. PICK t \in token : /\ t.cred = request[k].cred
                         /\ request' = [request EXCEPT ![k].stage = "judging", ![k].live = LiveToken(t), ![k].late = t.late]
  BY DEF ResolveToken
<1>2. /\ request[k].stage = "arriving" /\ UNCHANGED <<cred, token, project, window, operation, row, advisory, usable, revoked>>
      /\ request \in [Clients -> RequestRecord] /\ usable \in [Clients -> BOOLEAN] /\ request[k].cred \in Creds
      /\ LiveToken(t) \in BOOLEAN /\ t.late \in BOOLEAN
  BY DEF ResolveToken, AccessInv, CallsInv, CallsOpen, StoreTyped, TokenRecord, LiveToken
<1> DEFINE r == [request[k] EXCEPT !.stage = "judging", !.live = LiveToken(t), !.late = t.late]
<1>3. r \in RequestRecord /\ r.stage = "judging" /\ r.live = LiveToken(t) /\ r.cred = request[k].cred
  <2> DEFINE alive == LiveToken(t)
  <2>1. alive \in BOOLEAN /\ request[k] \in RequestRecord
    BY <1>2
  <2> HIDE DEF alive
  <2>2. [request[k] EXCEPT !.stage = "judging", !.live = alive, !.late = t.late] \in RequestRecord
    BY <1>2, <2>1 DEF RequestRecord
  <2>3. r \in RequestRecord
    BY <2>2 DEF alive
  <2> QED BY <1>2, <2>1, <2>3 DEF RequestRecord, alive
<1>4. request' = [request EXCEPT ![k] = r]
  BY <1>1, <1>2
<1> HIDE DEF r
<1>5. LiveToken(t) => UsableNow(request[k].cred)
  BY <1>1 DEF LiveToken, UsableNow
<1>6. UsableNow(request[k].cred) => usable[k]
  BY <1>2 DEF AccessInv, CallsInv, MomentSeen
<1>7. usable' = [usable EXCEPT ![k] = usable[k]] /\ usable[k] \in BOOLEAN
  BY <1>2
<1>8. CallsInv'
  BY <1>2, <1>3, <1>4, <1>5, <1>6, <1>7, CallMoves DEF AccessInv
<1> QED BY <1>2, <1>8, DesksSame DEF AccessInv, StoreTyped

LEMMA CallEnds ==
    ASSUME AccessInv, NEW k \in Clients, Exchange(k) \/ Leave(k)
    PROVE  AccessInv'
<1>1. Away \in RequestRecord /\ Away.stage = "idle"
  BY DEF Away, RequestRecord
<1>2. /\ request' = [request EXCEPT ![k] = Away] /\ usable' = [usable EXCEPT ![k] = FALSE]
      /\ UNCHANGED <<cred, project, window, operation, row, advisory, revoked>>
  BY DEF Exchange, Leave
<1>3. CallsInv'
  BY <1>1, <1>2, CallMoves DEF AccessInv
<1>4. token' \subseteq TokenRecord
  <2>1. CASE Exchange(k)
    <3>1. TokenOf(k) \in TokenRecord
      BY <2>1 DEF TokenOf, TokenRecord, Exchange, AccessInv, CallsInv, CallsOpen
    <3> QED BY <2>1, <3>1 DEF Exchange, AccessInv, StoreTyped
  <2>2. CASE Leave(k)
    BY <2>2 DEF Leave, AccessInv, StoreTyped
  <2> QED BY <2>1, <2>2
<1> QED BY <1>2, <1>3, <1>4, DesksSame DEF AccessInv, StoreTyped

LEMMA JudgingSteps ==
    ASSUME AccessInv, NEW k \in Clients, Admit(k) \/ Turn(k) \/ RateLimited(k)
    PROVE  AccessInv'
<1>1. UNCHANGED <<cred, token, project, operation, row, advisory, usable, revoked>>
  BY DEF Admit, Turn, RateLimited
<1>2. CASE Admit(k)
  <2>1. /\ request' = [request EXCEPT ![k].stage = "admitted"] /\ usable[k]
        /\ window' = [window EXCEPT ![request[k].cred] = @ + 1] /\ window[request[k].cred] + 1 <= RateLimit
    BY <1>2 DEF Admit, AccessInv, CallsInv, MomentSeen
  <2>2. CallsInv'
    BY <1>1, <2>1, CallGoes DEF AccessInv
  <2>3. request[k].cred \in Creds
    BY <1>2 DEF Admit, AccessInv, CallsInv, CallsOpen
  <2>4. window' \in [Creds -> 0..RateLimit]
    BY <2>1, <2>3, AccessOK DEF AccessInv, StoreTyped
  <2> QED BY <1>1, <2>2, <2>4, DesksSame DEF AccessInv, StoreTyped
<1>3. CASE Turn(k) \/ RateLimited(k)
  <2>1. request' = [request EXCEPT ![k].stage = "refused"] /\ UNCHANGED window
    BY <1>3 DEF Turn, RateLimited
  <2>2. CallsInv'
    BY <1>1, <2>1, CallGoes DEF AccessInv
  <2> QED BY <1>1, <2>1, <2>2, DesksSame DEF AccessInv, StoreTyped
<1> QED BY <1>2, <1>3

\* The project's record, tokens' time and the windows.
LEMMA ProjectSteps ==
    ASSUME AccessInv,
           \/ \E status \in {"active", "suspended"} : SetProjectStatus(status)
           \/ \E a \in Addresses : AddOrigin(a) \/ RemoveOrigin(a)
           \/ \E t \in token : TokenExpires(t)
           \/ WindowPasses
    PROVE  AccessInv'
<1>1. ASSUME NEW status \in {"active", "suspended"}, SetProjectStatus(status) PROVE AccessInv'
  <2>1. /\ project' = [project EXCEPT !.status = status]
        /\ usable' = [k \in Clients |-> usable[k] \/ (request[k].cred \in ActiveCreds /\ status = "active")]
        /\ UNCHANGED <<cred, token, window, operation, row, advisory, request, revoked>>
    BY <1>1 DEF SetProjectStatus
  <2>2. project' \in [status : {"active", "suspended"}, origins : SUBSET Addresses] /\ project'.status = status
    BY <2>1 DEF AccessInv, StoreTyped
  <2>3. usable' \in [Clients -> BOOLEAN] /\ \A k \in Clients : usable[k] => usable'[k]
    BY <2>1 DEF AccessInv, CallsInv, CallsOpen
  <2>4. \A k \in Clients : request[k].cred \in Creds /\ UsableNow(request[k].cred)' => usable'[k]
    BY <2>1, <2>2 DEF UsableNow, ActiveCreds
  <2>5. CallsInv'
    BY <2>1, <2>3, <2>4 DEF AccessInv, CallsInv, CallsOpen, MomentSeen, AdmittedIsUsable, UsableNow
  <2> QED BY <2>1, <2>2, <2>5, DesksSame DEF AccessInv, StoreTyped
<1>2. ASSUME NEW a \in Addresses, AddOrigin(a) \/ RemoveOrigin(a) PROVE AccessInv'
  <2>1. /\ project' = [project EXCEPT !.origins = @ \cup {a}] \/ project' = [project EXCEPT !.origins = @ \ {a}]
        /\ UNCHANGED <<cred, token, window, operation, row, advisory, request, usable, revoked>>
    BY <1>2 DEF AddOrigin, RemoveOrigin
  <2>2. /\ project' \in [status : {"active", "suspended"}, origins : SUBSET Addresses]
        /\ project'.status = project.status
    BY <2>1 DEF AccessInv, StoreTyped
  <2> QED BY <2>1, <2>2, CallsSame, DesksSame DEF AccessInv, StoreTyped
<1>3. ASSUME NEW t \in token, TokenExpires(t) PROVE AccessInv'
  <2>1. /\ token' = (token \ {t}) \cup {[t EXCEPT !.late = TRUE]}
        /\ UNCHANGED <<cred, project, window, operation, row, advisory, request, usable, revoked>>
    BY <1>3 DEF TokenExpires
  <2>2. t \in TokenRecord /\ [t EXCEPT !.late = TRUE] \in TokenRecord
    BY DEF AccessInv, StoreTyped, TokenRecord
  <2>3. token' \subseteq TokenRecord
    BY <2>1, <2>2 DEF AccessInv, StoreTyped
  <2> QED BY <2>1, <2>3, CallsSame, DesksSame DEF AccessInv, StoreTyped
<1>4. CASE WindowPasses
  <2>1. /\ window' = [c \in Creds |-> 0]
        /\ UNCHANGED <<cred, token, project, operation, row, advisory, request, usable, revoked>>
    BY <1>4 DEF WindowPasses
  <2>2. window' \in [Creds -> 0..RateLimit]
    BY <2>1, AccessOK
  <2> QED BY <2>1, <2>2, CallsSame, DesksSame DEF AccessInv, StoreTyped
<1> QED BY <1>1, <1>2, <1>3, <1>4

-----------------------------------------------------------------------------
\* What an operation judged is not disturbed by what another does.
LEMMA OthersJudged ==
    ASSUME DesksTyped, NEW o \in Desks, DeskStands(o), operation'[o] = operation[o],
           \A c \in Creds : row[c] = o => row'[c] = o, advisory = o => advisory' = o,
           operation[o].stage \notin {"idle", "locking"} => cred'[On(o)] = cred[On(o)],
           \A c \in Creds : cred[c].status # "none" => cred'[c].status # "none"
    PROVE  DeskStands(o)'
<1>1. operation[o] \in DeskRecord
  BY DEF DesksTyped
<1>2. operation[o].primary # None => operation[o].primary \in Creds
  BY <1>1 DEF DeskRecord
<1> QED BY <1>2 DEF DeskStands, On

\* One operation moves on, and nothing is written.
LEMMA DeskMoves ==
    ASSUME AccessInv, NEW d \in Desks, NEW r \in DeskRecord, operation' = [operation EXCEPT ![d] = r],
           UNCHANGED <<cred, token, project, window, request, usable, revoked>>,
           row' \in [Creds -> Desks \cup {None}], advisory' \in Desks \cup {None},
           \A o \in Desks \ {d} : (\A c \in Creds : row[c] = o => row'[c] = o) /\ (advisory = o => advisory' = o),
           DeskStands(d)',
           r.stage # "idle" /\ r.kind = "issue" =>
               \A e \in Desks \ {d} : operation[e].stage # "idle" /\ operation[e].kind = "issue" => On(e) # r.cred,
           r.stage = "writing" /\ r.kind = "issue" /\ r.primary # None => OnRole("primary") # {}
    PROVE  AccessInv'
<1>1. /\ operation'[d] = r /\ (\A o \in Desks \ {d} : operation'[o] = operation[o]) /\ operation' \in [Desks -> DeskRecord]
  BY DEF AccessInv, DesksInv, DesksTyped
<1>2. \A o \in Desks \ {d} : DeskStands(o)'
  BY <1>1, OthersJudged DEF AccessInv, DesksInv
<1>3. IssuesApart'
  BY <1>1 DEF AccessInv, DesksInv, IssuesApart, On
<1>4. PrimaryStays' /\ HasPrimary'
  BY <1>1 DEF AccessInv, DesksInv, PrimaryStays, HasPrimary, OnRole, ActiveCreds
<1>5. DesksInv'
  BY <1>1, <1>2, <1>3, <1>4 DEF DesksInv, DesksTyped
<1> QED BY <1>5, CallsSame DEF AccessInv, StoreTyped

LEMMA RollBackDesk ==
    ASSUME AccessInv, NEW d \in Desks, RollBack(d)
    PROVE  AccessInv'
<1>1. /\ row' = [c \in Creds |-> IF row[c] = d THEN None ELSE row[c]] /\ advisory' = (IF advisory = d THEN None ELSE advisory)
      /\ operation' = [operation EXCEPT ![d] = AtRest] /\ UNCHANGED <<cred, token, project, window, request, usable, revoked>>
      /\ row \in [Creds -> Desks \cup {None}] /\ advisory \in Desks \cup {None} /\ operation \in [Desks -> DeskRecord]
  BY DEF RollBack, FreeLock, AccessInv, DesksInv, DesksTyped
<1>2. AtRest \in DeskRecord /\ AtRest.stage = "idle"
  BY DEF AtRest, DeskRecord
<1>3. DeskStands(d)'
  BY <1>1, <1>2 DEF DeskStands
<1>4. /\ row' \in [Creds -> Desks \cup {None}] /\ advisory' \in Desks \cup {None}
      /\ \A o \in Desks \ {d} : (\A c \in Creds : row[c] = o => row'[c] = o) /\ (advisory = o => advisory' = o)
  BY <1>1
<1> QED BY <1>1, <1>2, <1>3, <1>4, DeskMoves

LEMMA BeginOperationStep ==
    ASSUME AccessInv, NEW d \in Desks, NEW kind \in DeskKinds, NEW c \in Creds, BeginOperation(d, kind, c)
    PROVE  AccessInv'
<1> DEFINE stage == IF kind = "issue" THEN "claiming" ELSE "locking"
           r == [stage |-> stage, kind |-> kind, cred |-> c, role |-> None, primary |-> None]
<1>1. /\ operation' = [operation EXCEPT ![d] = r] /\ UNCHANGED <<cred, token, project, window, row, advisory, request, usable, revoked>>
      /\ operation[d].stage = "idle" /\ (kind = "issue") = (cred[c].status = "none")
      /\ kind = "issue" => \A e \in Desks : operation[e].kind = "issue" => On(e) # c
  BY DEF BeginOperation
<1>2. stage \in {"claiming", "locking"} /\ (stage = "claiming" <=> kind = "issue")
  OBVIOUS
<1> HIDE DEF stage
<1>3. r \in DeskRecord /\ r.stage = stage /\ r.kind = kind /\ r.cred = c
  BY <1>2 DEF DeskRecord
<1> HIDE DEF r
<1>4. operation'[d] = r
  BY <1>1 DEF AccessInv, DesksInv, DesksTyped
<1>5. DeskStands(d)'
  BY <1>1, <1>2, <1>3, <1>4 DEF DeskStands, DeskKinds
<1>6. row' \in [Creds -> Desks \cup {None}] /\ advisory' \in Desks \cup {None}
  BY <1>1 DEF AccessInv, DesksInv, DesksTyped
<1> QED BY <1>1, <1>2, <1>3, <1>5, <1>6, DeskMoves

LEMMA LockSteps ==
    ASSUME AccessInv, NEW d \in Desks, LockCredential(d) \/ LockProject(d) \/ LockPrimary(d)
    PROVE  AccessInv'
<1> DEFINE o == operation[d]
<1>0. /\ o \in DeskRecord /\ DeskStands(d) /\ operation \in [Desks -> DeskRecord] /\ cred \in [Creds -> CredRecord]
      /\ row \in [Creds -> Desks \cup {None}] /\ advisory \in Desks \cup {None} /\ On(d) = o.cred
      /\ UNCHANGED <<cred, token, project, window, request, usable, revoked>>
  BY DEF AccessInv, DesksInv, DesksTyped, StoreTyped, LockCredential, LockProject, LockPrimary, On
<1>1. CASE LockCredential(d)
  <2> DEFINE stage == IF o.kind = "revoke" THEN "writing" ELSE "claiming"
             rank == cred[On(d)].role
             r == [operation[d] EXCEPT !.stage = stage, !.role = rank]
  <2>1. /\ o.stage = "locking" /\ row[o.cred] = None /\ cred[o.cred].status = "active"
        /\ o.kind = "promote" => cred[o.cred].role = "secondary"
        /\ row' = [row EXCEPT ![o.cred] = d] /\ operation' = [operation EXCEPT ![d] = r] /\ UNCHANGED advisory
    BY <1>0, <1>1 DEF LockCredential
  <2>2. o.cred \in Creds /\ o.kind # "issue" /\ o.kind \in DeskKinds
    BY <1>0, <2>1 DEF DeskStands
  <2>3. stage \in {"writing", "claiming"} /\ (stage = "writing" <=> o.kind = "revoke") /\ rank \in {"primary", "secondary"}
        /\ rank = cred[o.cred].role
    BY <1>0, <2>2 DEF CredRecord
  <2> HIDE DEF stage, rank
  <2>4. r \in DeskRecord /\ r.stage = stage /\ r.role = rank /\ r.kind = o.kind /\ r.cred = o.cred /\ r.primary = o.primary
    BY <1>0, <2>3 DEF DeskRecord
  <2> HIDE DEF r, o
  <2>5. operation'[d] = r
    BY <1>0, <2>1
  <2>6. /\ row' \in [Creds -> Desks \cup {None}] /\ row'[o.cred] = d
        /\ \A e \in Desks \ {d} : \A c \in Creds : row[c] = e => row'[c] = e
    BY <1>0, <2>1, <2>2, AccessOK
  <2>7. DeskStands(d)'
    BY <1>0, <2>1, <2>2, <2>3, <2>4, <2>5, <2>6 DEF DeskStands, DeskKinds
  <2> QED BY <1>0, <2>1, <2>2, <2>3, <2>4, <2>6, <2>7, DeskMoves
<1>2. CASE LockProject(d)
  <2> DEFINE r == [operation[d] EXCEPT !.stage = "reading"]
  <2>1. /\ o.stage = "claiming" /\ advisory = None /\ advisory' = d /\ operation' = [operation EXCEPT ![d] = r] /\ UNCHANGED row
    BY <1>2 DEF LockProject, Goes
  <2>2. r \in DeskRecord /\ r.stage = "reading" /\ r.role = o.role /\ r.kind = o.kind /\ r.cred = o.cred /\ r.primary = o.primary
    BY <1>0 DEF DeskRecord
  <2> HIDE DEF r
  <2>3. operation'[d] = r
    BY <1>0, <2>1
  <2>4. DeskStands(d)'
    BY <1>0, <2>1, <2>2, <2>3 DEF DeskStands
  <2>5. \A e \in Desks \ {d} : operation[e].stage # "idle" /\ operation[e].kind = "issue" /\ o.kind = "issue" => On(e) # o.cred
    BY <1>0, <2>1 DEF AccessInv, DesksInv, IssuesApart
  <2> QED BY <1>0, <2>1, <2>2, <2>4, <2>5, DeskMoves, AccessOK
<1>3. CASE LockPrimary(d)
  <2> DEFINE r == [operation[d] EXCEPT !.stage = "writing"]
  <2>1. /\ o.stage = "demoting" /\ row[o.primary] = None /\ row' = [row EXCEPT ![o.primary] = d]
        /\ operation' = [operation EXCEPT ![d] = r] /\ UNCHANGED advisory
    BY <1>3 DEF LockPrimary, Goes
  <2>2. r \in DeskRecord /\ r.stage = "writing" /\ r.role = o.role /\ r.kind = o.kind /\ r.cred = o.cred /\ r.primary = o.primary
    BY <1>0 DEF DeskRecord
  <2> HIDE DEF r
  <2>3. operation'[d] = r
    BY <1>0, <2>1
  <2>4. o.kind = "promote" /\ o.primary \in Creds /\ row[o.cred] = d /\ o.cred \in Creds
    BY <1>0, <2>1 DEF DeskStands, DeskRecord
  <2>5. /\ row' \in [Creds -> Desks \cup {None}] /\ row'[o.primary] = d /\ row'[o.cred] = d
        /\ \A e \in Desks \ {d} : \A c \in Creds : row[c] = e => row'[c] = e
    BY <1>0, <2>1, <2>4, AccessOK
  <2> HIDE DEF o
  <2>6. DeskStands(d)'
    BY <1>0, <2>1, <2>2, <2>3, <2>4, <2>5 DEF DeskStands, o
  <2> QED BY <1>0, <2>1, <2>2, <2>4, <2>5, <2>6, DeskMoves
<1> QED BY <1>1, <1>2, <1>3

\* None stands for no primary, and only for that.
LEMMA PrimaryFound ==
    /\ Primary # None => Primary \in OnRole("primary")
    /\ Primary = None => OnRole("primary") = {}
BY AccessOK DEF Primary, OnRole

LEMMA ReadOthersStep ==
    ASSUME AccessInv, NEW d \in Desks, ReadOthers(d)
    PROVE  AccessInv'
<1> DEFINE o == operation[d]
           stage == IF o.kind = "promote" /\ Primary # None THEN "demoting" ELSE "writing"
           r == [operation[d] EXCEPT !.primary = Primary, !.stage = stage]
<1>0. /\ o \in DeskRecord /\ DeskStands(d) /\ operation \in [Desks -> DeskRecord]
      /\ row \in [Creds -> Desks \cup {None}] /\ advisory \in Desks \cup {None}
      /\ UNCHANGED <<cred, token, project, window, row, advisory, request, usable, revoked>>
      /\ operation' = [operation EXCEPT ![d] = r] /\ o.stage = "reading" /\ (o.kind = "delete" => o.role = "secondary")
  BY DEF AccessInv, DesksInv, DesksTyped, ReadOthers
<1>1. Primary # None => Primary \in Creds /\ cred[Primary].status = "active" /\ OnRole("primary") # {}
  BY PrimaryFound DEF OnRole
<1>2. stage \in {"demoting", "writing"} /\ (stage = "demoting" <=> o.kind = "promote" /\ Primary # None)
  OBVIOUS
<1> HIDE DEF stage
<1>3. r \in DeskRecord /\ r.stage = stage /\ r.role = o.role /\ r.kind = o.kind /\ r.cred = o.cred /\ r.primary = Primary
  BY <1>0, <1>1, <1>2 DEF DeskRecord
<1> HIDE DEF r
<1>4. operation'[d] = r
  BY <1>0
<1>5. DeskStands(d)'
  BY <1>0, <1>1, <1>2, <1>3, <1>4 DEF DeskStands
<1>6. \A e \in Desks \ {d} : operation[e].stage # "idle" /\ operation[e].kind = "issue" /\ o.kind = "issue" => On(e) # o.cred
  BY <1>0 DEF AccessInv, DesksInv, IssuesApart, On
<1> QED BY <1>0, <1>1, <1>3, <1>5, <1>6, DeskMoves

-----------------------------------------------------------------------------
\* A call that waits learns of every commit.
LEMMA WriteCalls ==
    ASSUME AccessInv, NEW d \in Desks, NEW creds \in [Creds -> CredRecord], NEW tokens, Write(d, creds, tokens)
    PROVE  CallsInv'
<1>1. /\ cred' = creds /\ UNCHANGED <<project, request>>
      /\ usable' = [k \in Clients |-> usable[k] \/ (request[k].cred # None /\ creds[request[k].cred].status = "active"
                                                    /\ project.status = "active")]
  BY DEF Write
<1>2. usable' \in [Clients -> BOOLEAN] /\ \A k \in Clients : usable[k] => usable'[k]
  BY <1>1 DEF AccessInv, CallsInv, CallsOpen
<1>3. \A k \in Clients : request[k].cred \in Creds /\ UsableNow(request[k].cred)' => usable'[k]
  BY <1>1, AccessOK DEF UsableNow
<1> QED BY <1>1, <1>2, <1>3 DEF AccessInv, CallsInv, CallsOpen, MomentSeen, AdmittedIsUsable, UsableNow

\* What is written is of rows the operation holds, or the credential it issues; whoever takes or gives a
\* role holds the project's lock, and a revocation is remembered.
LEMMA WriteStep ==
    ASSUME AccessInv, NEW d \in Desks, NEW creds \in [Creds -> CredRecord], NEW tokens \in SUBSET TokenRecord, Write(d, creds, tokens),
           \A c \in Creds : creds[c] # cred[c] =>
               \/ row[c] = d /\ cred[c].status # "none"
               \/ c = On(d) /\ operation[d].kind = "issue",
           \A c \in Creds : creds[c].status = "none" => cred[c].status = "none",
           revoked' \subseteq Creds, revoked \subseteq revoked',
           operation[d].kind = "revoke" => revoked' # {},
           HasPrimary'
    PROVE  AccessInv'
<1>1. /\ cred' = creds /\ token' = tokens /\ UNCHANGED <<project, window>> /\ operation[d].stage = "writing"
      /\ row' = [c \in Creds |-> IF row[c] = d THEN None ELSE row[c]] /\ advisory' = (IF advisory = d THEN None ELSE advisory)
      /\ operation' = [operation EXCEPT ![d] = AtRest]
  BY DEF Write, FreeLock
<1>2. /\ row \in [Creds -> Desks \cup {None}] /\ advisory \in Desks \cup {None} /\ operation \in [Desks -> DeskRecord]
      /\ cred \in [Creds -> CredRecord] /\ DeskStands(d)
  BY DEF AccessInv, DesksInv, DesksTyped, StoreTyped
<1>3. AtRest \in DeskRecord /\ AtRest.stage = "idle"
  BY DEF AtRest, DeskRecord
<1>4. operation'[d] = AtRest /\ (\A o \in Desks \ {d} : operation'[o] = operation[o]) /\ operation' \in [Desks -> DeskRecord]
  BY <1>1, <1>2, <1>3
<1>5. StoreTyped'
  BY <1>1 DEF AccessInv, StoreTyped
<1>6. DesksTyped'
  BY <1>1, <1>2, <1>4 DEF DesksTyped
<1>7. ASSUME NEW o \in Desks, o # d PROVE DeskStands(o)'
  <2>1. DeskStands(o) /\ operation'[o] = operation[o] /\ (\A c \in Creds : row[c] = o => row'[c] = o) /\ (advisory = o => advisory' = o)
    BY <1>1, <1>2, <1>4, <1>7 DEF AccessInv, DesksInv
  <2>2. ASSUME operation[o].stage \notin {"idle", "locking"} PROVE cred'[On(o)] = cred[On(o)]
    <3>1. On(o) \in Creds
      BY <2>1, <2>2 DEF DeskStands, On
    <3>2. CASE operation[o].kind = "issue"
      <4>1. cred[On(o)].status = "none"
        BY <2>1, <2>2, <3>2 DEF DeskStands, On
      <4>2. operation[d].kind = "issue" => On(o) # On(d)
        BY <1>1, <1>7, <2>2, <3>2 DEF AccessInv, DesksInv, IssuesApart
      <4> QED BY <1>1, <3>1, <4>1, <4>2
    <3>3. CASE operation[o].kind # "issue"
      <4>1. row[On(o)] = o /\ cred[On(o)].status = "active"
        BY <2>1, <2>2, <3>3 DEF DeskStands, On
      <4>2. operation[d].kind = "issue" => cred[On(d)].status = "none"
        BY <1>1, <1>2 DEF DeskStands, On
      <4> QED BY <1>1, <1>7, <3>1, <4>1, <4>2
    <3> QED BY <3>2, <3>3
  <2>3. \A c \in Creds : cred[c].status # "none" => cred'[c].status # "none"
    BY <1>1
  <2> QED BY <2>1, <2>2, <2>3, OthersJudged DEF AccessInv, DesksInv
<1>8. DeskStands(d)'
  BY <1>3, <1>4 DEF DeskStands
<1>9. IssuesApart'
  BY <1>3, <1>4 DEF AccessInv, DesksInv, IssuesApart, On
<1>10. PrimaryStays'
  <2> SUFFICES ASSUME NEW e \in Desks, revoked' = {}, operation'[e].stage = "writing", operation'[e].kind = "issue"
               PROVE  FALSE
    BY DEF PrimaryStays
  <2>1. e # d /\ operation[e] = operation'[e] /\ DeskStands(e)
    BY <1>3, <1>4 DEF AccessInv, DesksInv
  <2>2. advisory = e
    BY <2>1 DEF DeskStands
  <2>3. advisory = d
    BY <1>1, <1>2 DEF DeskStands
  <2> QED BY <2>1, <2>2, <2>3
<1>11. CallsInv'
  BY WriteCalls
<1> QED BY <1>5, <1>6, <1>7, <1>8, <1>9, <1>10, <1>11 DEF AccessInv, DesksInv

\* Revoking and deleting mark the credential's tokens.
LEMMA DeadTyped ==
    ASSUME NEW tokens \in SUBSET TokenRecord, NEW c
    PROVE  Dead(tokens, c) \in SUBSET TokenRecord
<1>1. \A t \in tokens : (IF t.cred = c THEN [t EXCEPT !.revoked = TRUE] ELSE t) \in TokenRecord
  BY DEF TokenRecord
<1> QED BY <1>1 DEF Dead

LEMMA IssueStep ==
    ASSUME AccessInv, NEW d \in Desks, Issue(d)
    PROVE  AccessInv'
<1> DEFINE given == IF operation[d].primary = None THEN "primary" ELSE "secondary"
           v == [status |-> "active", role |-> given]
           creds == [cred EXCEPT ![On(d)] = v]
<1>1. /\ Write(d, creds, token) /\ revoked' = revoked /\ operation[d].kind = "issue" /\ operation[d].stage = "writing"
      /\ cred' = creds
  BY DEF Issue, Doing, Write
<1>2. /\ On(d) \in Creds /\ cred[On(d)].status = "none" /\ cred \in [Creds -> CredRecord] /\ token \in SUBSET TokenRecord
      /\ revoked \subseteq Creds
  BY <1>1 DEF AccessInv, DesksInv, DeskStands, StoreTyped, On
<1>3. v \in CredRecord /\ v.status = "active" /\ v.role = given
  BY DEF CredRecord
<1>4. given = "primary" <=> operation[d].primary = None
  OBVIOUS
<1> HIDE DEF v, given
<1>5. /\ creds \in [Creds -> CredRecord] /\ creds[On(d)] = v /\ \A c \in Creds : c # On(d) => creds[c] = cred[c]
  BY <1>2, <1>3
<1> HIDE DEF creds
<1>6. HasPrimary'
  <2> SUFFICES ASSUME revoked = {} PROVE \E c \in Creds : creds[c].status = "active" /\ creds[c].role = "primary"
    BY <1>1 DEF HasPrimary, OnRole
  <2>1. CASE operation[d].primary = None
    BY <1>2, <1>3, <1>4, <1>5, <2>1
  <2>2. CASE operation[d].primary # None
    <3>1. OnRole("primary") # {}
      BY <1>1, <2>2 DEF AccessInv, DesksInv, PrimaryStays
    <3>2. PICK c \in Creds : cred[c].status = "active" /\ cred[c].role = "primary"
      BY <3>1 DEF OnRole
    <3> QED BY <1>2, <1>5, <3>2
  <2> QED BY <2>1, <2>2
<1>7. \A c \in Creds : creds[c].status = "none" => cred[c].status = "none"
  BY <1>2, <1>3, <1>5
<1>8. \A c \in Creds : creds[c] # cred[c] => c = On(d) /\ operation[d].kind = "issue"
  BY <1>1, <1>5
<1> QED BY <1>1, <1>2, <1>5, <1>6, <1>7, <1>8, WriteStep

LEMMA PromoteStep ==
    ASSUME AccessInv, NEW d \in Desks, Promote(d)
    PROVE  AccessInv'
<1> DEFINE p == operation[d].primary
           f(c) == IF c = On(d) THEN [cred[c] EXCEPT !.role = "primary"]
                   ELSE IF c = p THEN [status |-> "active", role |-> "secondary"] ELSE cred[c]
           creds == [c \in Creds |-> f(c)]
<1>1. /\ Write(d, creds, token) /\ revoked' = revoked /\ operation[d].kind = "promote" /\ operation[d].stage = "writing"
      /\ cred' = creds
  BY DEF Promote, Doing, Write
<1>2. /\ On(d) \in Creds /\ row[On(d)] = d /\ cred[On(d)].status = "active" /\ cred \in [Creds -> CredRecord]
      /\ token \in SUBSET TokenRecord /\ revoked \subseteq Creds
      /\ p # None => row[p] = d /\ cred[p].status # "none"
  BY <1>1 DEF AccessInv, DesksInv, DeskStands, StoreTyped, On
<1>3. ASSUME NEW c \in Creds
      PROVE  /\ f(c) \in CredRecord
             /\ c = On(d) => f(c).status = "active" /\ f(c).role = "primary"
             /\ c # On(d) /\ c # p => f(c) = cred[c]
             /\ f(c).status = "none" => cred[c].status = "none"
  <2>1. cred[c] \in CredRecord
    BY <1>2
  <2> QED BY <1>2, <2>1 DEF CredRecord
<1> HIDE DEF f
<1>4. creds \in [Creds -> CredRecord] /\ \A c \in Creds : creds[c] = f(c)
  BY <1>3
<1> HIDE DEF creds
<1>5. HasPrimary'
  BY <1>1, <1>2, <1>3, <1>4 DEF HasPrimary, OnRole
<1>6. \A c \in Creds : creds[c] # cred[c] => row[c] = d /\ cred[c].status # "none"
  <2> SUFFICES ASSUME NEW c \in Creds, creds[c] # cred[c] PROVE row[c] = d /\ cred[c].status # "none"
    OBVIOUS
  <2>1. c = On(d) \/ c = p
    BY <1>3, <1>4
  <2>2. c # None
    BY AccessOK
  <2> QED BY <1>2, <2>1, <2>2
<1> QED BY <1>1, <1>2, <1>3, <1>4, <1>5, <1>6, WriteStep

LEMMA WithdrawSteps ==
    ASSUME AccessInv, NEW d \in Desks, Delete(d) \/ Revoke(d)
    PROVE  AccessInv'
<1> DEFINE tokens == Dead(token, On(d))
<1>1. tokens \in SUBSET TokenRecord
  BY DeadTyped DEF AccessInv, StoreTyped
<1> HIDE DEF tokens
<1>2. /\ operation[d].kind \in {"delete", "revoke"} /\ operation[d].stage = "writing"
      /\ \E status \in {"deleted", "revoked"} : Write(d, [cred EXCEPT ![On(d)].status = status], tokens)
      /\ (operation[d].kind = "delete" /\ revoked' = revoked) \/ revoked' = revoked \cup {On(d)}
  BY DEF Delete, Revoke, Doing, tokens
<1>3. PICK status \in {"deleted", "revoked"} : Write(d, [cred EXCEPT ![On(d)].status = status], tokens)
  BY <1>2
<1> DEFINE creds == [cred EXCEPT ![On(d)].status = status]
<1>4. /\ On(d) \in Creds /\ row[On(d)] = d /\ cred[On(d)].status = "active" /\ cred \in [Creds -> CredRecord]
      /\ revoked \subseteq Creds /\ (operation[d].kind = "delete" => cred[On(d)].role = "secondary")
  BY <1>2 DEF AccessInv, DesksInv, DeskStands, StoreTyped, On
<1>5. /\ creds \in [Creds -> CredRecord] /\ creds[On(d)].status = status /\ \A c \in Creds : c # On(d) => creds[c] = cred[c]
  BY <1>4 DEF CredRecord
<1>6. Write(d, creds, tokens) /\ cred' = creds
  BY <1>3 DEF Write
<1> HIDE DEF creds
<1>7. HasPrimary'
  <2> SUFFICES ASSUME revoked' = {}, NEW c \in Creds, creds[c].status = "active"
               PROVE  \E e \in Creds : creds[e].status = "active" /\ creds[e].role = "primary"
    BY <1>6 DEF HasPrimary, OnRole, ActiveCreds
  <2>1. revoked = {} /\ operation[d].kind = "delete" /\ cred[On(d)].role = "secondary"
    BY <1>2, <1>4
  <2>2. c # On(d) /\ c \in ActiveCreds
    BY <1>5 DEF ActiveCreds
  <2>3. PICK e \in Creds : cred[e].status = "active" /\ cred[e].role = "primary"
    BY <2>1, <2>2 DEF AccessInv, DesksInv, HasPrimary, OnRole
  <2> QED BY <1>5, <2>1, <2>3
<1>8. /\ \A c \in Creds : creds[c] # cred[c] => row[c] = d /\ cred[c].status # "none"
      /\ \A c \in Creds : creds[c].status = "none" => cred[c].status = "none"
  BY <1>4, <1>5
<1>9. revoked' \subseteq Creds /\ revoked \subseteq revoked' /\ (operation[d].kind = "revoke" => revoked' # {})
  <2>1. CASE operation[d].kind = "delete" /\ revoked' = revoked
    BY <1>4, <2>1
  <2>2. CASE revoked' = revoked \cup {On(d)}
    BY <1>4, <2>2
  <2> QED BY <1>2, <2>1, <2>2
<1> QED BY <1>1, <1>5, <1>6, <1>7, <1>8, <1>9, WriteStep

-----------------------------------------------------------------------------
LEMMA AccessStep == AccessInv /\ [AccessNext]_accessVars => AccessInv'
<1> SUFFICES ASSUME AccessInv, [AccessNext]_accessVars PROVE AccessInv'
  OBVIOUS
<1>1. CASE UNCHANGED accessVars
  BY <1>1, CallsSame, DesksSame DEF accessVars, AccessInv, StoreTyped
<1>2. ASSUME NEW d \in Desks, Steps(d) \/ RollBack(d) PROVE AccessInv'
  BY <1>2, LockSteps, ReadOthersStep, IssueStep, PromoteStep, WithdrawSteps, RollBackDesk DEF Steps
<1>3. ASSUME NEW d \in Desks, NEW kind \in {"issue", "promote", "delete", "revoke"}, NEW c \in Creds, BeginOperation(d, kind, c)
      PROVE  AccessInv'
  BY <1>3, BeginOperationStep DEF DeskKinds
<1>4. ASSUME NEW k \in Clients, Serves(k) PROVE AccessInv'
  BY <1>4, ResolveStep, CallEnds, JudgingSteps DEF Serves
<1>5. ASSUME NEW k \in Clients, NEW a \in Addresses,
             \/ \E c \in Creds : BeginExchange(k, c, a)
             \/ \E t \in token : Arrive(k, t, a)
      PROVE  AccessInv'
  BY <1>5, CallBegins
<1>6. ASSUME \/ \E status \in {"active", "suspended"} : SetProjectStatus(status)
             \/ \E a \in Addresses : AddOrigin(a) \/ RemoveOrigin(a)
             \/ \E t \in token : TokenExpires(t)
             \/ WindowPasses
      PROVE  AccessInv'
  BY <1>6, ProjectSteps
<1> QED BY <1>1, <1>2, <1>3, <1>4, <1>5, <1>6 DEF AccessNext

\* A request is admitted only if its credential could be used at some moment since it arrived, though an
\* exchange under way may store a token after the credential's tokens were revoked (resolveToken of
\* project-auth.service.ts).
THEOREM AdmittedToTheUsable == AccessSpec => []AdmittedIsUsable
<1>1. AccessInv => AdmittedIsUsable
  BY DEF AccessInv, CallsInv
<1> QED BY <1>1, InitAccessInv, AccessStep, PTL DEF AccessSpec

\* However issues, promotions and deletions run into each other, a project that holds a credential holds
\* a primary one unless one was revoked: the next rotation finds what it replaces (credential.service.ts).
THEOREM RotationAlwaysWorks == AccessSpec => []RotationWorks
<1>1. AccessInv => RotationWorks
  BY PrimaryFound DEF AccessInv, DesksInv, HasPrimary, RotationWorks
<1> QED BY <1>1, InitAccessInv, AccessStep, PTL DEF AccessSpec

-----------------------------------------------------------------------------
(***************************************************************************)
(* The scenes together.  A behaviour plays the scene it began with, and in *)
(* it the component takes its own steps or none.                           *)
(***************************************************************************)
LEMMA SceneStays == [ConsoleNext]_consoleVars => UNCHANGED scene
BY DEF ConsoleNext, consoleVars

LEMMA SceneSteps ==
    ASSUME [ConsoleNext]_consoleVars
    PROVE  /\ scene = "access" => [AccessNext]_accessVars
           /\ scene = "sessions" => [SessionsNext]_sessionVars
           /\ scene = "terms" => [TermsNext]_termsVars
           /\ scene = "routing" => [RoutingNext]_routingVars
           /\ scene = "provisioning" => [ProvisioningNext]_provisioningVars
           /\ scene = "forms" => [FormsNext]_formVars
           /\ scene = "pages" => [CursorNext]_pageVars
           /\ scene = "lists" => [ListsNext]_listVars
           /\ scene = "board" => [BoardNext]_boardVars
BY DEF ConsoleNext, consoleVars

LEMMA SceneStarts ==
    ASSUME ConsoleInit
    PROVE  /\ scene = "access" => AccessInit
           /\ scene = "sessions" => SessionsInit
           /\ scene = "terms" => TermsInit
           /\ scene = "routing" => RoutingInit
           /\ scene = "provisioning" => ProvisioningInit
           /\ scene = "forms" => FormsInit
           /\ scene = "pages" => CursorInit
           /\ scene = "lists" => ListsInit
           /\ scene = "board" => BoardInit
BY DEF ConsoleInit

\* A call is served only to a credential, a token or a session that was in force at some moment since it
\* arrived, a rotation finds the credential it replaces, and too many failures leave an account locked
\* (project-auth.service.ts, credential.service.ts, admin-auth.service.ts).
THEOREM ServedAlwaysUsable == ConsoleSpec => []ServedIsUsable
<1> DEFINE Inv == (scene = "access" => AccessInv) /\ (scene = "sessions" => SessInv /\ LockInv)
<1>1. ConsoleInit => Inv
  BY SceneStarts, InitAccessInv, InitSessInv, InitLockInv
<1>2. Inv /\ [ConsoleNext]_consoleVars => Inv'
  BY SceneStays, SceneSteps, AccessStep, SessionsStep, LockoutStep
<1>3. Inv => ServedIsUsable
  <2>1. AccessInv => AccessTypeOK /\ AdmittedIsUsable /\ RotationWorks
    BY PrimaryFound DEF AccessInv, StoreTyped, CallsInv, DesksInv, DesksTyped, CredRecord, AccessTypeOK, HasPrimary, RotationWorks
  <2>2. SessInv /\ LockInv => SessionsTypeOK /\ ServedIsActive /\ LockoutHolds
    BY DEF SessInv, Typed, AdminRecord, SessionRecord, SessionsTypeOK, LockInv, Locking, LockoutHolds
  <2> QED BY <2>1, <2>2 DEF ServedIsUsable
<1> QED BY <1>1, <1>2, <1>3, PTL DEF ConsoleSpec

\* What operators decided last is what holds, however their transactions wait for each other: the terms of
\* a route and a grant at every moment, and whom a category's alerts go to (configuration.controller.ts,
\* grant.service.ts, oversight.controller.ts).
THEOREM OperatorsAlwaysAgree == ConsoleSpec => []OperatorsAgree
<1> DEFINE Inv == (scene = "terms" => TermsInv) /\ (scene = "routing" => RoutingInv)
<1>1. ConsoleInit => Inv
  BY SceneStarts, InitTermsInv, InitRoutingInv
<1>2. Inv /\ [ConsoleNext]_consoleVars => Inv'
  BY SceneStays, SceneSteps, TermsStep, RoutingStep
<1>3. Inv => OperatorsAgree
  <2>1. TermsInv => TermsTypeOK /\ TermsInForce
    <3> SUFFICES ASSUME TermsInv PROVE TermsTypeOK /\ TermsInForce
      OBVIOUS
    <3>1. \A t \in Titles : versions[t] \in Seq(VersionRecord)
      BY DEF TermsInv, TermsTyped
    <3>2. \A t \in Titles : \A n \in DOMAIN versions[t] : versions[t][n] \in VersionRecord
      BY <3>1
    <3>3. TermsTypeOK
      BY <3>2 DEF TermsInv, TermsTyped, VersionRecord, TermsTypeOK
    <3> QED BY <3>3 DEF TermsInv, TermsInForce, VersionsTile, Tiles
  <2>2. RoutingInv => RoutingTypeOK /\ RoutingAsDecided
    BY DEF RoutingInv, SettersTyped, AsDecided, RoutingTypeOK, RoutingAsDecided
  <2> QED BY <2>1, <2>2 DEF OperatorsAgree
<1> QED BY <1>1, <1>2, <1>3, PTL DEF ConsoleSpec

\* Whatever deployments overlap or die, migrations apply once and in order, the application's role reaches
\* the tables of its release and rewrites none it may only append to, and a provider account's credentials
\* come from one source (migrate.ts, grants.ts, provider-account.service.ts).
THEOREM DeploymentsAlwaysHold == ConsoleSpec => []DeploymentsHold
<1> DEFINE Inv == scene = "provisioning" => DeploysInv
<1>1. ConsoleInit => Inv
  BY SceneStarts, InitDeploysInv
<1>2. Inv /\ [ConsoleNext]_consoleVars => Inv'
  BY SceneStays, SceneSteps, ProvisioningStep
<1>3. Inv => DeploymentsHold
  <2>1. DeploysInv => ProvisioningTypeOK
    BY DEF DeploysInv, DeploysTyped, ProvisioningTypeOK, Tables
  <2>2. DeploysInv => SchemaHolds /\ SealedIsWhole
    BY DEF DeploysInv, SchemaHolds, NameOrder, DeployStands, RightsGiven, Reached
  <2> QED BY <2>1, <2>2 DEF DeploymentsHold
<1> QED BY <1>1, <1>2, <1>3, PTL DEF ConsoleSpec

\* Whatever is edited, left, lost or asked for again, a code performs the operation it was mailed for once at
\* most and with the values it was asked for, and a form says only what came of it (ConfirmedAction in
\* common.tsx, confirmation.service.ts).
THEOREM FormsAlwaysServe == ConsoleSpec => []FormsServe
<1> DEFINE Inv == scene = "forms" => FormsInv
<1>1. ConsoleInit => Inv
  BY SceneStarts, FormsStart
<1>2. Inv /\ [ConsoleNext]_consoleVars => Inv'
  BY SceneStays, SceneSteps, FormsStep
<1>3. Inv => FormsServe
  BY FormsHold DEF FormsServe
<1> QED BY <1>1, <1>2, <1>3, PTL DEF ConsoleSpec

\* What a page of the console shows is what the stored rows say: a walk through cursors lists each transaction
\* that was there when it began, once and in order; a list answers what its URL asks for; and the home's
\* verdict and chart tell each alert and route that stood all along, with labels that stay apart
\* (transaction-list.ts, useTable.ts, home.controller.ts, routeChart.ts).
THEOREM ShownAlwaysHeld == ConsoleSpec => []ShownIsHeld
<1> DEFINE Inv == (scene = "pages" => PagesInv) /\ (scene = "lists" => ListsInv) /\ (scene = "board" => BoardInv)
<1>1. ConsoleInit => Inv
  BY SceneStarts, CursorStart, ListsStart, BoardStart
<1>2. Inv /\ [ConsoleNext]_consoleVars => Inv'
  BY SceneStays, SceneSteps, CursorStep, ListsStep, BoardStep
<1>3. Inv => ShownIsHeld
  BY PagesHold, ListsHold, BoardHolds DEF ShownIsHeld
<1> QED BY <1>1, <1>2, <1>3, PTL DEF ConsoleSpec

==============================================================================
