------------------------------- MODULE MCOffice -------------------------------
(***************************************************************************)
(* Instances of what the treasury's and reconciliation's desks do, checked *)
(* together: a behaviour plays one scene, and the others stand still.      *)
(***************************************************************************)
EXTENDS Treasury, ReconciliationRuns, ConfirmedOperations, TLC

CONSTANTS fc, fd, a1, a2, out, in, sweep, cash1, cash2, topup, grant, fix,
          q1, k1, i1, b1, b2, w1, w2, c1, c2, c3, a, v, w

VARIABLE scene

\* A payout bears the project's fee of 1 and costs 1 at the provider; a collection's payer bears the
\* processing fee and is debited 2.
Bill(requested, processing, platform, processingBearer, platformBearer, provider, debit) ==
    [requested |-> requested, processing |-> processing, platform |-> platform,
     processingBearer |-> processingBearer, platformBearer |-> platformBearer,
     provider |-> provider, debit |-> debit]
MCPayments ==
    out :> [direction |-> "disbursement", float |-> fd, fees |-> Bill(2, 1, 0, "project", "project", 1, None)]
    @@ in :> [direction |-> "collection", float |-> fc, fees |-> Bill(3, 1, 1, "counterparty", "project", 1, 2)]
MCTransfers == sweep :> [source |-> fc, destination |-> fd, amount |-> 3, fee |-> 1]
MCCashouts == cash1 :> [float |-> fd, amount |-> 2] @@ cash2 :> [float |-> fd, amount |-> 1]
MCFundings == topup :> [float |-> fd, amount |-> 2] @@ grant :> [float |-> None, amount |-> 1]
MCAdjustments == fix :> << Debit("expense", 1), Credit(fd, 1) >>
MCBooks == [x \in Accounts |-> CASE x = fc -> 5 [] x = fd -> 3 [] x = "available" -> 4 [] x = "capital" -> 4 [] OTHER -> 0]

MCSteps == {<<"absent", "succeeded">>}

\* One administrator presents two codes for a funding and one for an approval.
Question(operation, values) == [administrator |-> a, operation |-> operation, values |-> values]
MCAsked == c1 :> Question("fund", v) @@ c2 :> Question("fund", v) @@ c3 :> Question("approve", w)

-----------------------------------------------------------------------------
Ended(status, job) ==
    [status |-> status, mode |-> "automated", file |-> None, started |-> 0, end |-> 0, job |-> job]

\* A run has completed and what it raised is open, one adjustment asked for; a worker has one more
\* finding of the next to record.
Aftermath ==
    LET old == {Finding("missing_transaction", q1, "absent")} \cup {Finding("float_drift", k, "held") : k \in Conditions}
        new == Finding("state_divergence", q1, "succeeded")
    IN  /\ lists = TRUE /\ clock = MaxClock
        /\ ours = [t \in Txns |-> [state |-> "undetermined", created |-> 0, ended |-> None, review |-> "disputed"]]
        /\ report = [t \in Txns |-> "succeeded"]
        /\ held = Conditions
        /\ run = << Ended("completed", "over"), Ended("running", "running") >>
        /\ work = [x \in Executors |-> IF x = w1 THEN [Begun(2) EXCEPT !.stage = "recording", !.findings = {new}]
                                       ELSE None]
        /\ request = << [about |-> Finding("missing_transaction", q1, "absent"), follow |-> "post_adjustment",
                         by |-> b1, status |-> "pending"] >>
        /\ discrepancy = [f \in old |-> Fresh] /\ decisions = 0 /\ covered = {} /\ losses = MaxLosses
        /\ import = [i \in Imports |-> [records |-> None, end |-> None, run |-> None]]
        /\ picked = [r \in Reviewers |-> None]
Beginning == ReconciliationStart /\ held = {} /\ decisions = MaxDecisions

\* Workers are interchangeable, and so are administrators who only look at statements: the first of
\* the idle ones is the one to begin.
FirstIdle ==
    LET resting == {x \in Executors : work[x] = None}
        unread == {x \in Reviewers : picked[x] = None}
    IN  /\ \A x \in {y \in resting : work'[y] # None} : x = CHOOSE y \in resting : TRUE
        /\ \A x \in {y \in unread : picked'[y] # None} : x = CHOOSE y \in unread : TRUE

\* An account without a listing has runs of statements only: any other would fail when it reads.
Readable == \A r \in DOMAIN run' : lists \/ run'[r].mode = "manual"

OfficeInit ==
    /\ scene \in {"treasury", "runs", "codes"}
    /\ TreasuryInit /\ ConfirmedInit
    /\ IF scene = "runs" THEN Aftermath \/ Beginning ELSE Beginning /\ lists = FALSE

OfficeNext ==
    /\ UNCHANGED scene
    /\ \/ scene = "treasury" /\ TreasuryNext /\ UNCHANGED <<reconciliationVars, codeVars>>
       \/ scene = "runs" /\ ReconciliationNext /\ FirstIdle /\ Readable /\ UNCHANGED <<treasuryVars, codeVars>>
       \/ scene = "codes" /\ ConfirmedNext /\ UNCHANGED <<treasuryVars, reconciliationVars>>

officeVars == <<scene, treasuryVars, reconciliationVars, codeVars>>

\* The fairness of each component, in its scene.
OfficeFairness ==
    /\ WF_officeVars(scene = "treasury" /\ EvaluateCover /\ UNCHANGED <<scene, reconciliationVars, codeVars>>)
    /\ WF_officeVars(scene = "treasury" /\ CheckFloatDrift /\ UNCHANGED <<scene, reconciliationVars, codeVars>>)
    /\ WF_officeVars(scene = "runs" /\ EnqueueAny /\ UNCHANGED <<scene, treasuryVars, codeVars>>)
    /\ WF_officeVars(scene = "runs" /\ ClaimAny /\ FirstIdle /\ UNCHANGED <<scene, treasuryVars, codeVars>>)
    /\ WF_officeVars(scene = "runs" /\ RecoverAny /\ UNCHANGED <<scene, treasuryVars, codeVars>>)
    /\ \A x \in Executors : WF_officeVars(scene = "runs" /\ Executing(x) /\ UNCHANGED <<scene, treasuryVars, codeVars>>)

OfficeSpec == OfficeInit /\ [][OfficeNext]_officeVars /\ OfficeFairness

-----------------------------------------------------------------------------
\* Once money has stopped moving the alerts say what holds; a run that started comes to its end unless
\* it is adrift; and what a run leaves out was compared by a run that completed, or foreseen.
OfficeConcludes == AlertsSettle /\ RunsConclude /\ ScopeReaches
==============================================================================
