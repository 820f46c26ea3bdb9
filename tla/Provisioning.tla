----------------------------- MODULE Provisioning -----------------------------
(***************************************************************************)
(* What a deployment runs against the store: the migrations, the           *)
(* privileges of the application's role, and the providers' credentials    *)
(* from the deployment's file, with deployments overlapping, dying and     *)
(* being of different releases.                                            *)
(*                                                                         *)
(* A migration stands for the table it creates; some create tables whose   *)
(* rows the store's triggers keep from change.  There is one provider        *)
(* account, and a file is what it gives for each key the adapter reads.     *)
(***************************************************************************)
EXTENDS Nullable, SequencesExt

CONSTANTS
    Files,      \* migrations in name order, 1 first
    AppendOnly, \* those whose tables are append-only
    Deploys, Release, \* deployments, and the last migration each one's release has
    Keys, Secrets, \* what the adapter reads, and the values a file may give
    MaxChanges  \* bound: credentials replaced from the console

ASSUME ProvisioningOK ==
    /\ Files \subseteq Nat /\ AppendOnly \subseteq Files
    /\ Release \in [Deploys -> Files] /\ None \notin Deploys /\ "console" \notin Deploys

VARIABLES
    applied,   \* migrations in the order applied
    lock,      \* deployment that holds the advisory lock, None when free
    deploy,    \* each deployment: stage, migrations it found done, privileges it has drafted, what it took from the file
    appRole,      \* tables the application may read, and those it may rewrite
    sealed,    \* the provider account's credentials, None before the first
    origin,    \* history: the deployment or the console they are from
    replaced

provisioningVars == <<applied, lock, deploy, appRole, sealed, origin, replaced>>

Unrun == [stage |-> "ready", done |-> {}, reads |-> {}, rewrites |-> {}, guarded |-> {}, opened |-> None, file |-> None]

ProvisioningInit ==
    /\ applied = <<>> /\ lock = None
    /\ deploy \in [Deploys -> {[Unrun EXCEPT !.file = f] : f \in [Keys -> Secrets \cup {None}]}]
    /\ appRole = [reads |-> {}, rewrites |-> {}]
    /\ sealed = None /\ origin = None /\ replaced = 0

Reached(d, stage) == deploy[d].stage = stage
Tables == {applied[k] : k \in DOMAIN applied}
Known(d) == {f \in Files : f <= Release[d]}
Pending(d) == Known(d) \ deploy[d].done
DeployMoves(d, stage) == deploy' = [deploy EXCEPT ![d].stage = stage]
Unlocked(d) == lock' = IF lock = d THEN None ELSE lock

\* Mutant: the lock is not waited for.
LockFreely(d) == Reached(d, "ready") /\ lock' = lock

LockMigrations(d) == Reached(d, "ready") /\ lock = None /\ lock' = d

BeginMigrate(d) ==
    /\ LockMigrations(d)
    /\ DeployMoves(d, "locked")
    /\ UNCHANGED <<applied, appRole, sealed, origin, replaced>>

ReadDone(d) ==
    /\ Reached(d, "locked")
    /\ deploy' = [deploy EXCEPT ![d].stage = "migrating", ![d].done = Tables]
    /\ UNCHANGED <<applied, lock, appRole, sealed, origin, replaced>>

\* One migration and its record in a transaction; a table that is there already fails it, and the deployment.
ApplyMigration(d) ==
    /\ Reached(d, "migrating") /\ Pending(d) # {}
    /\ LET f == CHOOSE f \in Pending(d) : \A g \in Pending(d) : f <= g
       IN  IF f \in Tables
           THEN DeployMoves(d, "failed") /\ Unlocked(d) /\ UNCHANGED applied
           ELSE /\ applied' = Append(applied, f)
                /\ deploy' = [deploy EXCEPT ![d].done = @ \cup {f}]
                /\ UNCHANGED lock
    /\ UNCHANGED <<appRole, sealed, origin, replaced>>

EndMigrate(d) ==
    /\ Reached(d, "migrating") /\ Pending(d) = {}
    /\ Unlocked(d)
    /\ DeployMoves(d, "migrated")
    /\ UNCHANGED <<applied, appRole, sealed, origin, replaced>>

-----------------------------------------------------------------------------
(* The role: one transaction of a blanket grant, the triggers read, and the *)
(* privileges taken back, each statement seeing the tables of its moment.   *)

Granting == {d \in Deploys : deploy[d].stage \in {"granted", "guards read"}}

GrantAll(d) ==
    /\ Reached(d, "migrated") /\ Granting = {}
    /\ deploy' = [deploy EXCEPT ![d].stage = "granted", ![d].reads = appRole.reads \cup Tables, ![d].rewrites = appRole.rewrites \cup Tables]
    /\ UNCHANGED <<applied, lock, appRole, sealed, origin, replaced>>

\* A grant on a table another deployment is granting waits for it, and fails once that one commits.
GrantCollides(d) ==
    /\ Reached(d, "migrated") /\ Granting # {}
    /\ DeployMoves(d, "dead")
    /\ UNCHANGED <<applied, lock, appRole, sealed, origin, replaced>>

\* Mutant: the append-only tables are those there were when the migrations ended.
GuardedBefore(d) == deploy[d].done \cap AppendOnly

Guarded(d) == IF Reached(d, "granted") THEN Tables \cap AppendOnly ELSE {}

AppendOnlyMutations(d) ==
    /\ Reached(d, "granted")
    /\ deploy' = [deploy EXCEPT ![d].stage = "guards read", ![d].guarded = Guarded(d)]
    /\ UNCHANGED <<applied, lock, appRole, sealed, origin, replaced>>

GrantAppRole(d) ==
    /\ Reached(d, "guards read")
    /\ appRole' = [reads |-> deploy[d].reads, rewrites |-> deploy[d].rewrites \ deploy[d].guarded]
    /\ DeployMoves(d, "granting over")
    /\ UNCHANGED <<applied, lock, sealed, origin, replaced>>

-----------------------------------------------------------------------------
(* The credentials.                                                        *)

ReadCredentials(d) ==
    /\ Reached(d, "granting over")
    /\ deploy' = [deploy EXCEPT ![d].stage = "opened", ![d].opened = sealed]
    /\ UNCHANGED <<applied, lock, appRole, sealed, origin, replaced>>

Given(d) == {k \in Keys : deploy[d].file[k] # None}

\* Mutant: half a set is not refused.
CompleteEnough(d) == Given(d) # {}

CredentialsFromEnv(d) == Given(d) = Keys

\* Credentials that open to the file's own are left as they are, and so are those of a provider it does not mention.
SyncCredentials(d) ==
    /\ Reached(d, "opened")
    /\ Given(d) = {} \/ CredentialsFromEnv(d)
    /\ IF Given(d) = {} \/ deploy[d].opened = deploy[d].file THEN UNCHANGED <<sealed, origin>>
       ELSE sealed' = deploy[d].file /\ origin' = d
    /\ DeployMoves(d, "done")
    /\ UNCHANGED <<applied, lock, appRole, replaced>>

CredentialsRefused(d) ==
    /\ Reached(d, "opened")
    /\ Given(d) # {} /\ ~CredentialsFromEnv(d)
    /\ DeployMoves(d, "dead")
    /\ UNCHANGED <<applied, lock, appRole, sealed, origin, replaced>>

\* The console's replacement, of any keys.
SetCredentials(s) ==
    /\ replaced < MaxChanges /\ replaced' = replaced + 1
    /\ sealed' = s /\ origin' = "console"
    /\ UNCHANGED <<applied, lock, deploy, appRole>>

\* A session's lock goes with it, and a transaction that did not commit is rolled back.
DeployDies(d) ==
    /\ deploy[d].stage \notin {"ready", "failed", "dead", "done"}
    /\ DeployMoves(d, "dead")
    /\ Unlocked(d)
    /\ UNCHANGED <<applied, appRole, sealed, origin, replaced>>

DeployStep(d) ==
    \/ BeginMigrate(d) \/ ReadDone(d) \/ ApplyMigration(d) \/ EndMigrate(d)
    \/ GrantAll(d) \/ GrantCollides(d) \/ AppendOnlyMutations(d) \/ GrantAppRole(d)
    \/ ReadCredentials(d) \/ SyncCredentials(d) \/ CredentialsRefused(d) \/ DeployDies(d)

ProvisioningNext == (\E d \in Deploys : DeployStep(d)) \/ \E s \in [Keys -> Secrets \cup {None}] : SetCredentials(s)
ProvisioningSpec == ProvisioningInit /\ [][ProvisioningNext]_provisioningVars

-----------------------------------------------------------------------------
\* Every variable has its type.
ProvisioningTypeOK ==
    /\ Tables \subseteq Files /\ appRole.reads \subseteq Files /\ appRole.rewrites \subseteq Files
    /\ lock \in Deploys \cup {None} /\ sealed \in {None} \cup [Keys -> Secrets \cup {None}]

\* Half a set never comes from a deployment, whatever the console replaced meanwhile.
SealedIsWhole == origin \in Deploys => \A k \in Keys : sealed[k] # None

\* Whatever deployments overlap or die, migrations apply once and in name order and fail no deployment,
\* the application never may rewrite an append-only table, and once a deployment has granted the
\* application reaches every table of its release.
SchemaHolds ==
    /\ \A k \in DOMAIN applied : \A l \in DOMAIN applied : k < l => applied[k] < applied[l]
    /\ \A d \in Deploys : ~Reached(d, "failed")
    /\ appRole.rewrites \cap AppendOnly = {}
    /\ \A d \in Deploys : deploy[d].stage \in {"granting over", "opened", "done"} => Known(d) \subseteq appRole.reads
================================================================================
