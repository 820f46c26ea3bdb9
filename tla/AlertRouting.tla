----------------------------- MODULE AlertRouting -----------------------------
(***************************************************************************)
(* Where alerts go: the groups of each category and the addresses of each  *)
(* group, as administrators set them.                                      *)
(*                                                                         *)
(* Setting a policy and setting a group are transactions that check before *)
(* they write.  A policy's row, once upserted, keeps other policies of the *)
(* category waiting, as a group's row does once updated, and each statement*)
(* sees what committed before it; nothing keeps a check true until the     *)
(* writes it allows commit.                                                *)
(***************************************************************************)
EXTENDS Nullable, FiniteSets

CONSTANTS
    Categories, Groups,
    Setters,    \* administrators' transactions
    MaxRoutings  \* bound: transactions begun

VARIABLES
    routed,   \* groups of each category
    active,   \* groups that are active
    reached,  \* groups that have addresses
    setter,   \* each transaction: stage, what it sets, what it found to delete
    decided,  \* history: the last policy committed for each category, and the last addresses for each group
    changes

routingVars == <<routed, active, reached, setter, decided, changes>>

PolicyChoices == (SUBSET Groups) \ {{}}
Resting == [stage |-> "resting", input |-> None, before |-> {}]

RoutingInit ==
    /\ routed \in [Categories -> PolicyChoices]
    /\ active = Groups /\ reached = Groups
    /\ setter = [s \in Setters |-> Resting]
    /\ decided = [policy |-> routed, reached |-> reached]
    /\ changes = 0

PolicyOf(s, c) == setter[s].input.kind = "policy" /\ setter[s].input.category = c
GroupOf(s, g) == setter[s].input.kind = "group" /\ setter[s].input.group = g
InStage(s, stage) == setter[s].stage = stage
Holding == {"holding", "deleted"}
Begun(s, input) ==
    /\ InStage(s, "resting") /\ changes < MaxRoutings /\ changes' = changes + 1
    /\ setter' = [setter EXCEPT ![s] = [stage |-> "checked", input |-> input, before |-> {}]]
    /\ UNCHANGED <<routed, active, reached, decided>>

\* The groups a policy names are at least one, and one of them at least is active.
CheckPolicy(s, c, groups) ==
    /\ groups \cap active # {}
    /\ Begun(s, [kind |-> "policy", category |-> c, groups |-> groups])

\* A group that alone keeps a category is not deactivated; whether it has addresses is not asked.
CheckGroup(s, g, on, addressed) ==
    /\ on \/ \A c \in Categories : g \in routed[c] => (routed[c] \ {g}) \cap active # {}
    /\ Begun(s, [kind |-> "group", group |-> g, active |-> on, addressed |-> addressed])

\* Mutant: nothing keeps two policies of a category apart.
NoneHolds(s) == InStage(s, "checked")

RowFree(s) ==
    InStage(s, "checked") /\
    \A o \in Setters \ {s} : setter[o].stage \in Holding =>
        /\ \A c \in Categories : ~(PolicyOf(s, c) /\ PolicyOf(o, c))
        /\ \A g \in Groups : ~(GroupOf(s, g) /\ GroupOf(o, g))

\* The upsert of the policy, or the update of the group.
LockRow(s) ==
    /\ RowFree(s)
    /\ setter' = [setter EXCEPT ![s].stage = "holding"]
    /\ UNCHANGED <<routed, active, reached, decided, changes>>

\* The rows the deletion sees: those of the category, or of the group.
DeleteRows(s) ==
    /\ InStage(s, "holding")
    /\ setter' = [setter EXCEPT ![s].stage = "deleted",
                     ![s].before = IF setter[s].input.kind = "policy" THEN routed[setter[s].input.category] ELSE reached \cap {setter[s].input.group}]
    /\ UNCHANGED <<routed, active, reached, decided, changes>>

\* Rows that were not seen to be deleted stay, and one inserted that is there already is refused.
SetPolicy(s) ==
    LET c == setter[s].input.category
        left == routed[c] \ setter[s].before
    IN  /\ InStage(s, "deleted") /\ setter[s].input.kind = "policy" /\ left \cap setter[s].input.groups = {}
        /\ routed' = [routed EXCEPT ![c] = left \cup setter[s].input.groups]
        /\ decided' = [decided EXCEPT !.policy[c] = setter[s].input.groups]
        /\ setter' = [setter EXCEPT ![s] = Resting]
        /\ UNCHANGED <<active, reached, changes>>

SetGroup(s) ==
    LET g == setter[s].input.group
        now == IF setter[s].input.addressed THEN {g} ELSE {}
    IN  /\ InStage(s, "deleted") /\ setter[s].input.kind = "group"
        /\ ((reached \cap {g}) \ setter[s].before) \cap now = {}
        /\ active' = IF setter[s].input.active THEN active \cup {g} ELSE active \ {g}
        /\ reached' = (reached \ setter[s].before) \cup now
        /\ decided' = [decided EXCEPT !.reached = (@ \ {g}) \cup now]
        /\ setter' = [setter EXCEPT ![s] = Resting]
        /\ UNCHANGED <<routed, changes>>

\* A refusal by the store and a process that dies alike.
RollBackSetting(s) ==
    /\ ~InStage(s, "resting")
    /\ setter' = [setter EXCEPT ![s] = Resting]
    /\ UNCHANGED <<routed, active, reached, decided, changes>>

RoutingNext ==
    \/ \E s \in Setters, c \in Categories, groups \in PolicyChoices : CheckPolicy(s, c, groups)
    \/ \E s \in Setters, g \in Groups, on, addressed \in BOOLEAN : CheckGroup(s, g, on, addressed)
    \/ \E s \in Setters : LockRow(s) \/ DeleteRows(s) \/ SetPolicy(s) \/ SetGroup(s) \/ RollBackSetting(s)

RoutingSpec == RoutingInit /\ [][RoutingNext]_routingVars

-----------------------------------------------------------------------------
\* Every variable has its type.
RoutingTypeOK ==
    /\ routed \in [Categories -> SUBSET Groups] /\ active \subseteq Groups /\ reached \subseteq Groups

\* However many administrators set one category or one group at once, the groups of the one and the
\* addresses of the other are those that one of them chose.
RoutingAsDecided == routed = decided.policy /\ reached = decided.reached

\* What the code does not keep, "No category may be left without an active group": two administrators may each leave the other's.
CategoryKeepsGroup == \A c \in Categories : routed[c] \cap active # {}
==============================================================================
