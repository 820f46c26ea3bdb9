------------------------------- MODULE MCConsole -------------------------------
(***************************************************************************)
(* Instances of what administrators and projects' developers do through    *)
(* the two APIs, checked together: a behaviour plays one scene, and the    *)
(* others' variables have no value, those of the roles their first.          *)
(***************************************************************************)
EXTENDS ProjectAccess, AdminSessions, RoleChanges, RouteTerms, AlertRouting, Provisioning,
        CursorPages, ConsoleLists, HomeBoard, ConfirmedForms, TLC

CONSTANTS c1, c2, d1, d2, k1, h1, a0, b1, b2, w1, w2, s1, s2, p1, p2, p3, owner, desk, manage, support,
          r1, r2, g1, t1, t2, e1, n1, n2, dp1, dp2, y1, y2, x1, x2, pa, f1, f2, plain, padded

VARIABLE scene

MCGrantRoute == g1 :> r1
MCRelease == dp1 :> 3 @@ dp2 :> 2
MCMatching == [s \in Searches |-> IF s = "all" THEN ListRows ELSE {2}]
MCParsed == plain :> plain @@ padded :> plain
SameForms == Permutations(Forms)

-----------------------------------------------------------------------------
(* The home board: three routes, and an alert on each of three subjects. *)

MCChartedAs ==
    << [direction |-> "collection", country |-> "CI"], [direction |-> "collection", country |-> "CM"],
       [direction |-> "disbursement", country |-> "CM"] >>
Raised(kind, type, subject, severity, raised) ==
    [kind |-> kind, type |-> type, subject |-> subject, severity |-> severity, raised |-> raised]
MCAlertOf ==
    "route" :> Raised("health:success_rate:route", "route", 1, "warning", 2)
    @@ "held" :> Raised("undetermined", "transaction", x1, "warning", 1)
    @@ "stuck" :> Raised("undetermined", "transaction", x2, "critical", 3)
Ended(terminal, succeeded) == [terminal |-> terminal, succeeded |-> succeeded]
History(first, second) ==
    [h \in 1..LastHour |-> CASE h = 1 -> first [] h = 2 -> second [] OTHER -> Ended(0, 0)]
MCHistories == {History(Ended(2, 2), Ended(2, 1)), History(Ended(1, 1), Ended(3, 2))}
MCFigures == {[recent |-> Ended(2, s), base |-> Ended(4, 4)] : s \in 1..2}
MCSince == [account \in Accounts |-> 2]

\* To keep the instance small, either the histories or the alerts and accounts vary at first, and
\* transactions end and are corrected on the first route.
FewBoards ==
    \/ live \subseteq {"route"} /\ suspended = {} /\ may = {"alerts"}
    \/ \A r \in Charted : ended[r] = History(Ended(2, 2), Ended(2, 1))
FirstRouteEnds == \A r \in Charted \ {1} : ended'[r] = ended[r]

-----------------------------------------------------------------------------
NoAccess ==
    /\ cred = None /\ token = None /\ project = None /\ window = None /\ operation = None /\ row = None
    /\ advisory = None /\ request = None /\ usable = None /\ revoked = None /\ counts = None
NoSessions ==
    /\ admin = None /\ session = None /\ holds = None /\ visit = None /\ served = None /\ failed = None
    /\ lockedOut = None /\ disabling = None /\ tries = None
NoTerms == versions = None /\ writer = None /\ holder = None /\ granting = None /\ time = None /\ begun = None
NoRouting == routed = None /\ active = None /\ reached = None /\ setter = None /\ decided = None /\ changes = None
NoProvisioning ==
    /\ applied = None /\ lock = None /\ deploy = None /\ appRole = None /\ sealed = None /\ origin = None
    /\ replaced = None
NoPages == created = None /\ seen = None /\ gone = None /\ walk = None /\ instant = None
NoLists ==
    /\ there = None /\ inForce = None /\ signed = None /\ wanted = None /\ shown = None /\ errored = None
    /\ call = None /\ current = None /\ edits = None
NoBoard ==
    /\ ended = None /\ hour = None /\ live = None /\ suspended = None /\ may = None /\ load = None
    /\ moves = None
NoForms == form = None /\ calls = None /\ codes = None /\ written = None

Scenes == {"access", "sessions", "roles", "terms", "routing", "provisioning", "pages", "lists", "board", "forms"}

ConsoleInit ==
    /\ scene \in Scenes
    /\ IF scene = "access" THEN AccessInit ELSE NoAccess
    /\ IF scene = "sessions" THEN SessionsInit ELSE NoSessions
    /\ RolesInit
    /\ IF scene = "terms" THEN TermsInit ELSE NoTerms
    /\ IF scene = "routing" THEN RoutingInit ELSE NoRouting
    /\ IF scene = "provisioning" THEN ProvisioningInit ELSE NoProvisioning
    /\ IF scene = "pages" THEN CursorInit ELSE NoPages
    /\ IF scene = "lists" THEN ListsInit ELSE NoLists
    /\ IF scene = "board" THEN BoardInit /\ FewBoards ELSE NoBoard
    /\ IF scene = "forms" THEN FormsInit ELSE NoForms

\* The scene's component takes a step, and the others none.
ConsoleNext ==
    /\ UNCHANGED scene
    /\ IF scene = "access" THEN AccessNext ELSE UNCHANGED accessVars
    /\ IF scene = "sessions" THEN SessionsNext ELSE UNCHANGED sessionVars
    /\ IF scene = "roles" THEN RolesNext ELSE UNCHANGED roleVars
    /\ IF scene = "terms" THEN TermsNext ELSE UNCHANGED termsVars
    /\ IF scene = "routing" THEN RoutingNext ELSE UNCHANGED routingVars
    /\ IF scene = "provisioning" THEN ProvisioningNext ELSE UNCHANGED provisioningVars
    /\ IF scene = "pages" THEN CursorNext ELSE UNCHANGED pageVars
    /\ IF scene = "lists" THEN ListsNext ELSE UNCHANGED listVars
    /\ IF scene = "board" THEN BoardNext /\ FirstRouteEnds ELSE UNCHANGED boardVars
    /\ IF scene = "forms" THEN FormsNext ELSE UNCHANGED formVars

consoleVars ==
    <<scene, accessVars, sessionVars, roleVars, termsVars, routingVars, provisioningVars, pageVars, listVars,
      boardVars, formVars>>

ConsoleSpec == ConsoleInit /\ [][ConsoleNext]_consoleVars

-----------------------------------------------------------------------------
\* A call is served only to a credential, a token or a session that was in force at some moment since it
\* arrived; a rotation always finds the credential it replaces; and too many failures leave an account
\* locked, whatever runs beside them (project-auth.service.ts, credential.service.ts,
\* admin-auth.service.ts).
ServedIsUsable ==
    /\ scene = "access" => AccessTypeOK /\ AdmittedIsUsable /\ RotationWorks
    /\ scene = "sessions" => SessionsTypeOK /\ ServedIsActive /\ LockoutHolds

\* What operators decided holds, however their statements interleave: the terms of a route and a grant
\* at every moment, and whom a category's alerts go to, each as TermsInForce and RoutingAsDecided state
\* it (configuration.controller.ts, grant.service.ts, oversight.controller.ts).
OperatorsAgree ==
    /\ scene = "terms" => TermsTypeOK /\ TermsInForce
    /\ scene = "routing" => RoutingTypeOK /\ RoutingAsDecided

\* Deployments that overlap leave the schema of the newest, and a provider account's credentials from
\* one source (migrate.ts, grants.ts, provider-account.service.ts).
DeploymentsHold == scene = "provisioning" => ProvisioningTypeOK /\ SchemaHolds /\ SealedIsWhole

\* What a list, a page or the home board shows is what the store held for what was asked
\* (transaction-list.ts, useTable.ts, home.controller.ts).
ShownIsHeld ==
    /\ scene = "pages" => CursorTypeOK /\ WalkIsComplete
    /\ scene = "lists" => ListsTypeOK /\ ListAnswersUrl
    /\ scene = "board" => BoardTypeOK /\ BoardTellsAlerts /\ ChartIsWhole /\ LabelsApart

\* A code given to one form performs that form's operation with the values it was asked for, and the
\* form says what came of it (ConfirmedAction in common.tsx, confirmation.service.ts).
FormsServe == scene = "forms" => FormsTypeOK /\ CodesBindForms /\ FormsTellTruth

==============================================================================
