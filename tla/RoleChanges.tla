----------------------------- MODULE RoleChanges -----------------------------
(***************************************************************************)
(* Changes to roles and to who holds them, and the second person some of   *)
(* them need.                                                              *)
(*                                                                         *)
(* What an administrator may do is loaded when a call arrives.  Whether a  *)
(* change needs approval is judged by a read outside the transaction that  *)
(* then applies it or queues it, and an approved change is applied as it   *)
(* was proposed.  Setting a role's permissions deletes the rows its        *)
(* statement sees and inserts the new ones: nothing locks the role.        *)
(***************************************************************************)
EXTENDS Nullable, FiniteSets

CONSTANTS
    People, Founders, Roles, \* administrators, those of them who hold the seeded role, and roles
    Permissions, Sensitive, \* permissions whose presence on a role makes its changes need approval
    ManageRoles,            \* the permission to change roles and to approve changes to them
    Owner,                  \* the seeded role, which has every permission
    MaxAsked                \* bound: changes proposed and decisions begun

ASSUME RolesOK ==
    /\ Sensitive \subseteq Permissions /\ ManageRoles \in Sensitive /\ Owner \in Roles /\ Founders \subseteq People
    /\ \A P \in SUBSET Permissions : P # None

VARIABLES
    role,      \* permissions of each role, None before it is created
    held,      \* assignments: who holds which role
    deed,      \* each administrator's call: stage, change, whose proposal it is, and what was read for it
    asked,     \* changes that await a second person, with who proposed them
    vetted,    \* history: permissions of roles, and assignments, that two people agreed to
    started      \* calls begun so far

roleVars == <<role, held, deed, asked, vetted, started>>

\* A change creates a role, sets the permissions of one, or adds or removes an assignment.
Changes ==
    [kind : {"role_create", "role_permissions"}, role : Roles, permissions : SUBSET Permissions]
    \cup [kind : {"assignment_add", "assignment_remove"}, role : Roles, administrator : People]

OfRole(c) == c.kind \in {"role_create", "role_permissions"}
Allowing(r, permissions) == [role : {r}, permission : permissions]
NoDeed == [stage |-> "idle", change |-> None, by |-> None, sensitive |-> FALSE, prior |-> {}]

RolesInit ==
    /\ role = [r \in Roles |-> IF r = Owner THEN Permissions ELSE None]
    /\ held = [administrator : Founders, role : {Owner}]
    /\ deed = [p \in People |-> NoDeed]
    /\ asked = {}
    /\ vetted = Allowing(Owner, Permissions) \cup held
    /\ started = 0

PermissionsOf(r) == IF role[r] = None THEN {} ELSE role[r]
Granted(p) == UNION {PermissionsOf(h.role) : h \in {x \in held : x.administrator = p}}
Named(c) == [administrator |-> c.administrator, role |-> c.role]

Began(p, c, by, sensitive, stage) ==
    /\ deed[p].stage = "idle" /\ started < MaxAsked
    /\ ManageRoles \in Granted(p)
    /\ started' = started + 1
    /\ deed' = [deed EXCEPT ![p] = [stage |-> stage, change |-> c, by |-> by, sensitive |-> sensitive, prior |-> {}]]
    /\ UNCHANGED <<role, held, asked, vetted>>

RequiresApproval(permissions) == permissions \cap Sensitive # {}

\* Mutant: a change to a role is judged by the permissions the role has before it.
JudgedBefore(c) == c.kind # "role_create" /\ RequiresApproval(PermissionsOf(c.role))

\* A role is created without a second person, whatever its permissions; to assign it takes one.
NeedsApproval(c) ==
    CASE c.kind = "role_create" -> FALSE
      [] c.kind = "role_permissions" -> RequiresApproval(PermissionsOf(c.role) \cup c.permissions)
      [] OTHER -> RequiresApproval(PermissionsOf(c.role))

\* The guard's permission, the refusal to alter one's own assignments, and the judgement.
Propose(p, c) ==
    /\ (c.kind = "role_create") = (role[c.role] = None)
    /\ ~OfRole(c) => c.administrator # p
    /\ c.kind = "assignment_remove" => Named(c) \in held
    /\ Began(p, c, p, NeedsApproval(c), "judged")

Queue(p) ==
    /\ deed[p].stage = "judged" /\ deed[p].sensitive
    /\ asked' = asked \cup {[change |-> deed[p].change, by |-> p]}
    /\ deed' = [deed EXCEPT ![p] = NoDeed]
    /\ UNCHANGED <<role, held, vetted, started>>

\* The rows the deletion will find.
ReadPrior(p) ==
    /\ deed[p].stage \in {"judged", "approving"} /\ (deed[p].stage = "judged" => ~deed[p].sensitive)
    /\ deed' = [deed EXCEPT ![p].stage = "applying", ![p].prior = PermissionsOf(deed[p].change.role)]
    /\ UNCHANGED <<role, held, asked, vetted, started>>

\* What remains of the role where others changed it meanwhile.
Dropped(p) == PermissionsOf(deed[p].change.role) \ deed[p].prior

\* A row that is there already, and a name that is taken, are refused by the store.
Insertable(p) ==
    LET c == deed[p].change
    IN  /\ OfRole(c) => Dropped(p) \cap c.permissions = {}
        /\ c.kind = "role_create" => role[c.role] = None

ApplyChange(p) ==
    LET c == deed[p].change
        second == deed[p].by # p
    IN  /\ deed[p].stage = "applying" /\ Insertable(p)
        /\ role' = IF OfRole(c) THEN [role EXCEPT ![c.role] = Dropped(p) \cup c.permissions] ELSE role
        /\ held' = CASE c.kind = "assignment_add" -> held \cup {Named(c)}
                     [] c.kind = "assignment_remove" -> held \ {Named(c)}
                     [] OTHER -> held
        /\ vetted' = LET of == IF OfRole(c) THEN Allowing(c.role, c.permissions) ELSE {Named(c)}
                         gone == IF OfRole(c) THEN Allowing(c.role, Permissions \ Dropped(p))
                                 ELSE IF c.kind = "assignment_remove" THEN {Named(c)} ELSE {}
                     IN  (vetted \ gone) \cup (IF second /\ c.kind # "assignment_remove" THEN of ELSE {})
        /\ asked' = asked \ {q \in asked : second /\ q.change = c /\ q.by = deed[p].by}
        /\ deed' = [deed EXCEPT ![p] = NoDeed]
        /\ UNCHANGED started

\* A conflict, a refusal and a process that dies roll back alike.
RollBackChange(p) ==
    /\ deed[p].stage # "idle"
    /\ deed' = [deed EXCEPT ![p] = NoDeed]
    /\ UNCHANGED <<role, held, asked, vetted, started>>

\* Mutant: whoever proposed a change may approve it.
ApproveAnyway(p, q) ==
    /\ q \in asked /\ \A e \in People : deed[e].stage \in {"approving", "applying"} => deed[e].by = e \/ deed[e].change # q.change
    /\ Began(p, q.change, q.by, TRUE, "approving")

\* decide: the request is locked until the decision commits, and the approver is not who proposed it.
Approve(p, q) ==
    /\ q \in asked /\ q.by # p
    /\ \A e \in People : deed[e].by # q.by \/ deed[e].change # q.change \/ deed[e].stage \notin {"approving", "applying"}
    /\ Began(p, q.change, q.by, TRUE, "approving")

Decline(p, q) ==
    /\ q \in asked /\ q.by # p /\ ManageRoles \in Granted(p)
    /\ \A e \in People : deed[e].by # q.by \/ deed[e].change # q.change \/ deed[e].stage \notin {"approving", "applying"}
    /\ asked' = asked \ {q}
    /\ UNCHANGED <<role, held, deed, vetted, started>>

RolesNext ==
    \/ \E p \in People, c \in Changes : Propose(p, c)
    \/ \E p \in People : Queue(p) \/ ReadPrior(p) \/ ApplyChange(p) \/ RollBackChange(p)
    \/ \E p \in People, q \in asked : Approve(p, q) \/ Decline(p, q)

RolesSpec == RolesInit /\ [][RolesNext]_roleVars

-----------------------------------------------------------------------------
\* Every variable has its type.
RolesTypeOK ==
    /\ \A r \in Roles : role[r] = None \/ role[r] \subseteq Permissions
    /\ held \subseteq [administrator : People, role : Roles]
    /\ \A q \in asked : q.change \in Changes /\ q.by \in People

\* "Changes to roles carrying treasury or administration permissions require a second approver": whoever
\* holds a sensitive permission holds it by an assignment, or by a permission of its role, that two
\* people agreed to, whatever becomes of the role between a change's judgement and its application.
SecondPerson ==
    \A h \in held : \A s \in PermissionsOf(h.role) \cap Sensitive : Allowing(h.role, {s}) \subseteq vetted \/ h \in vetted

\* What the code does not keep: a role has the permissions that one change gave it, though no one decided
\* on what two changes at once leave.
RoleIsAsDecided ==
    [][\A r \in Roles : role'[r] # role[r] =>
          \E p \in People : /\ deed[p].change # None /\ OfRole(deed[p].change)
                            /\ role'[r] = deed[p].change.permissions]_roleVars

\* What a sensitive permission needs two people for, two people agreed to (role.service.ts,
\* approval.service.ts); and every variable has its type.
RolesAreAgreed == RolesTypeOK /\ SecondPerson
==============================================================================
