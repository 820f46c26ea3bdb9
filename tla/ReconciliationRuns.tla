-------------------------- MODULE ReconciliationRuns --------------------------
(***************************************************************************)
(* Reconciliation of one provider account: statements are uploaded, runs   *)
(* are started, executed by the worker and recorded, and administrators    *)
(* decide the discrepancies they raise, a second one where the amount asks *)
(* for it.  Transactions and the provider's records move on meanwhile.     *)
(* Processes die, a job whose process died or is merely slow is given to   *)
(* another worker, and what a run does may throw anywhere.                 *)
(*                                                                         *)
(* A finding is [type, about, observed], which is also the fingerprint of  *)
(* its discrepancy.  Findings that are not about a transaction (drift of a *)
(* float, an orphan, a checkpoint, a transfer) are Conditions that hold.   *)
(***************************************************************************)
EXTENDS Nullable, Sequences, FiniteSets

CONSTANTS
    Txns, Conditions,
    Large,        \* those of them above the second-approval threshold
    Overcharged,  \* transactions whose fee the provider reports differently
    Outcomes,     \* states the transactions move to
    ReportSteps,  \* how the provider's records move
    Imports,      \* statement files
    Reviewers,    \* administrators
    Executors,    \* workers that execute runs
    Ahead,        \* how far from now a period may be said to end
    MaxClock, MaxRuns, MaxLosses, MaxDecisions \* bounds: time, runs, mishaps of processes, steps of administrators

ASSUME ReconciliationOK ==
    /\ Large \subseteq Txns \cup Conditions /\ Overcharged \subseteq Txns
    /\ Outcomes \subseteq {"undetermined", "succeeded", "failed"}
    /\ Txns \cap Conditions = {} /\ Ahead \subseteq Int /\ MaxClock \in Nat /\ None \notin Reviewers

VARIABLES
    lists,       \* whether the provider lists its transactions, or the account takes statements
    clock,
    ours,        \* each transaction's state (None before it is declared), when it was created and ended, and its
                 \* reconciliation status
    report,      \* what the provider says of it
    held,        \* conditions that hold
    run,         \* the runs, in the order they were started, each with its job
    work,        \* what each worker is executing: the run, its stage, records, findings and what it compared
    discrepancy, \* by fingerprint
    request,     \* approval requests, in the order they were queued
    import,      \* each statement: its records and period end, None before the upload, and its run
    decisions,   \* steps of administrators on discrepancies
    picked,      \* statement each administrator saw not run yet
    losses,      \* processes that died, were refused or too slow
    covered      \* history: transactions a run that completed has compared, in whatever state

reconciliationVars == <<clock, ours, report, held, run, work, discrepancy, request, import, decisions, picked,
                        covered, lists, losses>>

Undecided == {"processing", "undetermined"}
Final == {"succeeded", "failed"}

Runs == DOMAIN run
Running == {r \in Runs : run[r].status = "running"}

Raised == DOMAIN discrepancy
AboutTxn(f) == f.about \in Txns

ReconciliationStart ==
    /\ lists \in BOOLEAN /\ clock = 0
    /\ ours = [t \in Txns |-> [state |-> None, created |-> None, ended |-> None, review |-> "unreviewed"]]
    /\ report = [t \in Txns |-> "absent"]
    /\ held \in SUBSET Conditions
    /\ run = <<>> /\ work = [w \in Executors |-> None]
    /\ discrepancy = <<>> /\ request = <<>>
    /\ import = [i \in Imports |-> [records |-> None, end |-> None, run |-> None]]
    /\ picked = [a \in Reviewers |-> None]
    /\ covered = {} /\ losses = 0

ReconciliationInit == ReconciliationStart /\ decisions = 0

-----------------------------------------------------------------------------
(* What goes on meanwhile.                                                 *)

Tick ==
    /\ clock < MaxClock /\ clock' = clock + 1
    /\ UNCHANGED <<ours, report, held, run, work, discrepancy, request, import, decisions, picked, covered, lists, losses>>

Declare(t) ==
    /\ ours[t].state = None
    /\ ours' = [ours EXCEPT ![t].state = "processing", ![t].created = clock]
    /\ UNCHANGED <<clock, report, held, run, work, discrepancy, request, import, decisions, picked, covered, lists, losses>>

\* What happens at a tick happens after a period that ends with it.  The end is stamped with the
\* start of the database transaction, which may be long before the end is seen.
Concluded(t, state, review) ==
    {[ours EXCEPT ![t].state = state, ![t].review = review, ![t].ended = end] :
        end \in IF state \in Final THEN {n \in 1..(clock + 1) : ours[t].created < n} ELSE {None}}

TxnMoves(t, state) ==
    /\ ours[t].state \in Undecided /\ state \in Outcomes \ {ours[t].state}
    /\ ours' \in Concluded(t, state, ours[t].review)
    /\ UNCHANGED <<clock, report, held, run, work, discrepancy, request, import, decisions, picked, covered, lists, losses>>

ReportMoves(t, state) ==
    /\ ours[t].state # None /\ <<report[t], state>> \in ReportSteps
    /\ report' = [report EXCEPT ![t] = state]
    /\ UNCHANGED <<clock, ours, held, run, work, discrepancy, request, import, decisions, picked, covered, lists, losses>>

-----------------------------------------------------------------------------
(* Statements and the start of runs.                                       *)

\* The period a statement or a run is said to cover is the administrator's to say, its end in the
\* future included.
PeriodEnds == {clock + n : n \in Ahead}

\* A file is known by its checksum and accepted once.
Upload(i, end) ==
    /\ ~lists /\ import[i].records = None /\ end \in PeriodEnds
    /\ import' = [import EXCEPT ![i].records = report, ![i].end = end]
    /\ UNCHANGED <<clock, ours, report, held, run, work, discrepancy, request, decisions, picked, covered, lists, losses>>

\* The store keeps one running run to the account.
Start(mode, file, end, job) ==
    /\ Len(run) < MaxRuns /\ Running = {}
    /\ run' = Append(run, [status |-> "running", mode |-> mode, file |-> file, started |-> clock, end |-> end, job |-> job])

\* A request starts the run and enqueues its job in a statement of its own.
StartRun(end) ==
    /\ end \in PeriodEnds
    /\ Start("automated", None, end, "starting")
    /\ UNCHANGED <<clock, ours, report, held, work, discrepancy, request, import, decisions, picked, covered, lists, losses>>

PickStatement(a, i) ==
    /\ picked[a] = None /\ import[i].records # None /\ import[i].run = None
    /\ picked' = [picked EXCEPT ![a] = i]
    /\ UNCHANGED <<clock, ours, report, held, run, work, discrepancy, request, import, decisions, covered, lists, losses>>

\* The statement was looked at before; another request may have run it since.
RunStatement(a) ==
    LET i == picked[a] IN
    /\ i # None
    /\ picked' = [picked EXCEPT ![a] = None]
    /\ IF Running = {}
       THEN /\ Start("manual", i, import[i].end, "starting")
            /\ import' = [import EXCEPT ![i].run = Len(run')]
       ELSE UNCHANGED <<run, import>>
    /\ UNCHANGED <<clock, ours, report, held, work, discrepancy, request, decisions, covered, lists, losses>>

EnqueueRun(r) ==
    /\ run[r].job = "starting"
    /\ run' = [run EXCEPT ![r].job = "queued"]
    /\ UNCHANGED <<clock, ours, report, held, work, discrepancy, request, import, decisions, picked, covered, lists, losses>>

Begun(r) == [run |-> r, stage |-> "begun", records |-> None, findings |-> {}, compared |-> {}]

\* The weekly job starts a run and executes it within one call: the run has no job of its own.
ScheduleWeekly(w) ==
    /\ lists /\ work[w] = None
    /\ Start("automated", None, clock, "none")
    /\ work' = [work EXCEPT ![w] = Begun(Len(run'))]
    /\ UNCHANGED <<clock, ours, report, held, discrepancy, request, import, decisions, picked, covered, lists, losses>>

\* A worker takes the job and finds the run still running, or has nothing to do.
ClaimRun(w, r) ==
    /\ work[w] = None /\ run[r].job = "queued"
    /\ IF run[r].status = "running"
       THEN run' = [run EXCEPT ![r].job = "running"] /\ work' = [work EXCEPT ![w] = Begun(r)]
       ELSE run' = [run EXCEPT ![r].job = "over"] /\ UNCHANGED work
    /\ UNCHANGED <<clock, ours, report, held, discrepancy, request, import, decisions, picked, covered, lists, losses>>

Mishap == losses < MaxLosses /\ losses' = losses + 1

\* A job locked for long is queued again, whether its worker died or is slow.
RecoverJob(r) ==
    /\ run[r].job = "running"
    /\ run' = [run EXCEPT ![r].job = "queued"]
    /\ IF \E w \in Executors : work[w] # None /\ work[w].run = r THEN Mishap ELSE UNCHANGED losses
    /\ UNCHANGED <<clock, ours, report, held, work, discrepancy, request, import, decisions, picked, covered, lists>>

\* A process dies between the run's row and its job.
StarterDies(r) ==
    /\ run[r].job = "starting" /\ Mishap
    /\ run' = [run EXCEPT ![r].job = "none"]
    /\ UNCHANGED <<clock, ours, report, held, work, discrepancy, request, import, decisions, picked, covered, lists>>

\* A worker dies while it executes.
WorkerDies(w) ==
    /\ work[w] # None /\ Mishap
    /\ work' = [work EXCEPT ![w] = None]
    /\ UNCHANGED <<clock, ours, report, held, run, discrepancy, request, import, decisions, picked, covered, lists>>

\* What is executed throws and the store refuses to mark the run failed as well: the job is dead.
AbandonRun(w) ==
    /\ work[w] # None /\ Mishap
    /\ work' = [work EXCEPT ![w] = None]
    /\ run' = [run EXCEPT ![work[w].run].job = "none"]
    /\ UNCHANGED <<clock, ours, report, held, discrepancy, request, import, decisions, picked, covered, lists>>

-----------------------------------------------------------------------------
(* The execution of a run.                                                 *)

\* The job ends with the execution: it has one attempt.
Closed(r, status) ==
    [run EXCEPT ![r].status = status, ![r].job = IF @ = "none" THEN @ ELSE "over"]

Leave(w) == work' = [work EXCEPT ![w] = None]

\* Mutant: an error leaves the run as it is.
FailRunForgotten(w) ==
    /\ work[w] # None /\ Leave(w)
    /\ run' = Closed(work[w].run, run[work[w].run].status)
    /\ UNCHANGED <<clock, ours, report, held, discrepancy, request, import, decisions, picked, covered, lists, losses>>

\* Anything the execution does may throw, as a provider without a listing does and a finding another
\* execution records first.  Whatever became of the run meanwhile, it is marked failed.
FailRun(w) ==
    /\ work[w] # None /\ Leave(w)
    /\ run' = Closed(work[w].run, "failed")
    /\ UNCHANGED <<clock, ours, report, held, discrepancy, request, import, decisions, picked, covered, lists, losses>>

ReadRecords(w) ==
    /\ work[w] # None /\ work[w].stage = "begun"
    /\ LET r == run[work[w].run] IN
       /\ r.mode = "manual" \/ lists
       /\ work' = [work EXCEPT ![w].stage = "read",
                       ![w].records = IF r.mode = "manual" THEN import[r.file].records ELSE report]
    /\ UNCHANGED <<clock, ours, report, held, run, discrepancy, request, import, decisions, picked, covered, lists, losses>>

\* The latest period end of the other runs that completed.
Since(r) ==
    LET ends == {run[p].end : p \in {p \in Runs \ {r} : run[p].status = "completed"}}
    IN  IF ends = {} THEN None ELSE CHOOSE n \in ends : \A e \in ends : e <= n

Open(t) == ours[t].state \in Undecided \/ (ours[t].state # None /\ ours[t].review = "disputed")

\* Mutant: the preceding run is the one started last, whether or not it completed.
InScopeStarted(t, r) == Open(t) \/ (ours[t].state # None /\ (r = 1 \/ ours[t].ended > run[r - 1].end))

InScope(t, r) == Open(t) \/ (ours[t].state # None /\ (Since(r) = None \/ ours[t].ended > Since(r)))

Finding(type, about, observed) == [type |-> type, about |-> about, observed |-> observed]

Findings(t, theirs, end) ==
    CASE theirs = "absent" /\ (ours[t].state \in {"succeeded", "undetermined"}
                               \/ (ours[t].state = "processing" /\ ours[t].created < end))
            -> {Finding("missing_transaction", t, "absent")}
      [] theirs \in Final /\ theirs # ours[t].state -> {Finding("state_divergence", t, theirs)}
      [] theirs = "succeeded" /\ ours[t].state = "succeeded" /\ t \in Overcharged
            -> {Finding("fee_variance", t, "succeeded")}
      [] OTHER -> {}

FoundBy(w, t) == Findings(t, work[w].records[t], run[work[w].run].end)

Stale(t) == {Finding("stale_undetermined", t, "undetermined") : u \in {t} \cap {s \in Txns : ours[s].state = "undetermined"}}

Scope(w) == {t \in Txns : InScope(t, work[w].run)}
FoundIn(w) ==
    (UNION {FoundBy(w, t) : t \in Scope(w)}) \cup (UNION {Stale(t) : t \in Txns})
    \cup {Finding("float_drift", c, "held") : c \in held}
Agreed(w) == {t \in Scope(w) : work[w].records[t] = ours[t].state /\ FoundBy(w, t) = {}}

Compare(w) ==
    /\ work[w] # None /\ work[w].stage = "read"
    /\ work' = [work EXCEPT ![w] = [@ EXCEPT !.stage = "recording", !.compared = Scope(w), !.findings = FoundIn(w)]]
    /\ ours' = [t \in Txns |-> IF t \in Agreed(w) /\ ours[t].review = "unreviewed"
                               THEN [ours[t] EXCEPT !.review = "matched"] ELSE ours[t]]
    /\ UNCHANGED <<clock, report, held, run, discrepancy, request, import, decisions, picked, covered, lists, losses>>

Fresh == [status |-> "open", posted |-> 0, adjusted |-> FALSE, author |-> None, approver |-> None]

\* One transaction for each finding: a new one disputes its transaction, a known one is only counted.
RecordFinding(w, f) ==
    /\ work[w] # None /\ work[w].stage = "recording" /\ f \in work[w].findings
    /\ work' = [work EXCEPT ![w].findings = @ \ {f}]
    /\ IF f \in Raised
       THEN UNCHANGED <<discrepancy, ours>>
       ELSE /\ discrepancy' = [g \in Raised \cup {f} |-> IF g = f THEN Fresh ELSE discrepancy[g]]
            /\ ours' = [t \in Txns |-> IF t = f.about THEN [ours[t] EXCEPT !.review = "disputed"] ELSE ours[t]]
    /\ UNCHANGED <<clock, report, held, run, request, import, decisions, picked, covered, lists, losses>>

CompleteRun(w) ==
    /\ work[w] # None /\ work[w].stage = "recording" /\ work[w].findings = {} /\ Leave(w)
    /\ run' = Closed(work[w].run, "completed")
    /\ covered' = covered \cup work[w].compared
    /\ UNCHANGED <<clock, ours, report, held, discrepancy, request, import, decisions, picked, lists, losses>>

-----------------------------------------------------------------------------
(* Decisions.                                                              *)

Deliberate == decisions < MaxDecisions /\ decisions' = decisions + 1

Assign(f) ==
    /\ f \in Raised /\ discrepancy[f].status # "resolved" /\ Deliberate
    /\ discrepancy' = [discrepancy EXCEPT ![f].status = IF @ = "open" THEN "under_review" ELSE "open"]
    /\ UNCHANGED <<clock, ours, report, held, run, work, request, import, picked, covered, lists, losses>>

Follows(f) == {"none", "post_adjustment"} \cup IF AboutTxn(f) THEN {"correct_transaction"} ELSE {}

\* Mutant: the transaction stays in dispute.
ExaminedLater(f) == ours

\* A decision that is not a correction ends the dispute of the discrepancy's transaction.
Examined(f) ==
    [t \in Txns |-> IF t = f.about /\ ours[t].review = "disputed" THEN [ours[t] EXCEPT !.review = "examined"] ELSE ours[t]]

\* A transaction that is in the target state by now is left alone, its dispute included.
Corrected(f) ==
    LET target == IF f.observed = "succeeded" THEN "succeeded" ELSE "failed"
    IN  IF ours[f.about].state = target THEN {ours} ELSE Concluded(f.about, target, "corrected")

Resolved(f, follow, author, approver) ==
    [discrepancy EXCEPT ![f] =
        [status |-> "resolved", adjusted |-> follow # "none", author |-> author, approver |-> approver,
         posted |-> @.posted + IF follow = "none" \/ (follow = "correct_transaction" /\ ours' = ours) THEN 0 ELSE 1]]

Decide(f, a, follow) ==
    /\ f \in Raised /\ discrepancy[f].status # "resolved" /\ follow \in Follows(f) /\ Deliberate
    /\ IF follow # "none" /\ f.about \in Large
       THEN /\ request' = Append(request, [about |-> f, follow |-> follow, by |-> a, status |-> "pending"])
            /\ UNCHANGED <<discrepancy, ours>>
       ELSE /\ ours' \in IF follow = "correct_transaction" THEN Corrected(f) ELSE {Examined(f)}
            /\ discrepancy' = Resolved(f, follow, a, None)
            /\ UNCHANGED request
    /\ UNCHANGED <<clock, report, held, run, work, import, picked, covered, lists, losses>>

\* Mutant: an approved resolution does not look at the discrepancy again.
ExecuteAgain(q, approver) ==
    LET f == request[q].about IN
    /\ ours' \in IF request[q].follow = "correct_transaction" THEN Corrected(f) ELSE {ours}
    /\ discrepancy' = Resolved(f, request[q].follow, request[q].by, approver)

\* Approved later: a discrepancy resolved by then is left alone.  A transaction whose adjustment is
\* posted here stays disputed.
ExecuteApproved(q, approver) ==
    LET f == request[q].about IN
    IF discrepancy[f].status = "resolved" THEN UNCHANGED <<ours, discrepancy>>
    ELSE /\ ours' \in IF request[q].follow = "correct_transaction" THEN Corrected(f) ELSE {ours}
         /\ discrepancy' = Resolved(f, request[q].follow, request[q].by, approver)

DecideRequest(q, a, verdict) ==
    /\ q \in DOMAIN request /\ request[q].status = "pending" /\ request[q].by # a /\ Deliberate
    /\ IF verdict = "approved" THEN ExecuteApproved(q, a) ELSE UNCHANGED <<ours, discrepancy>>
    /\ request' = [request EXCEPT ![q].status = verdict]
    /\ UNCHANGED <<clock, report, held, run, work, import, picked, covered, lists, losses>>

-----------------------------------------------------------------------------
Meanwhile ==
    \/ Tick
    \/ \E t \in Txns : Declare(t)
    \/ \E t \in Txns, s \in Final \cup Undecided : TxnMoves(t, s) \/ ReportMoves(t, s)

Starting ==
    \/ \E i \in Imports, end \in PeriodEnds : Upload(i, end)
    \/ \E end \in PeriodEnds : StartRun(end)
    \/ \E a \in Reviewers : RunStatement(a) \/ \E i \in Imports : PickStatement(a, i)
    \/ \E w \in Executors : ScheduleWeekly(w)

Queueing ==
    \E r \in Runs : EnqueueRun(r) \/ RecoverJob(r) \/ StarterDies(r) \/ \E w \in Executors : ClaimRun(w, r)

Executing(w) ==
    /\ work[w] # None
    /\ ReadRecords(w) \/ FailRun(w) \/ Compare(w) \/ (\E f \in work[w].findings : RecordFinding(w, f)) \/ CompleteRun(w)

Deciding ==
    \/ \E f \in Raised : Assign(f) \/ \E a \in Reviewers, follow \in Follows(f) : Decide(f, a, follow)
    \/ \E q \in DOMAIN request, a \in Reviewers, verdict \in {"approved", "declined"} : DecideRequest(q, a, verdict)

ReconciliationNext ==
    Meanwhile \/ Starting \/ Queueing \/ Deciding \/ \E w \in Executors : Executing(w) \/ WorkerDies(w) \/ AbandonRun(w)

\* A request that is alive enqueues the job, an idle worker takes it, stale jobs are recovered and a
\* worker that is alive goes on.
EnqueueAny == \E r \in Runs : EnqueueRun(r)
ClaimAny == \E r \in Runs, w \in Executors : ClaimRun(w, r)
RecoverAny == \E r \in Runs : RecoverJob(r)
ReconciliationFairness ==
    /\ WF_reconciliationVars(EnqueueAny) /\ WF_reconciliationVars(ClaimAny) /\ WF_reconciliationVars(RecoverAny)
    /\ \A w \in Executors : WF_reconciliationVars(Executing(w))

ReconciliationSpec == ReconciliationInit /\ [][ReconciliationNext]_reconciliationVars /\ ReconciliationFairness

-----------------------------------------------------------------------------
\* Every variable has its type.
ReconciliationTypeOK ==
    /\ clock \in 0..MaxClock
    /\ ours \in [Txns -> [state : Undecided \cup Final \cup {None}, created : Nat \cup {None}, ended : Nat \cup {None},
                          review : {"unreviewed", "matched", "disputed", "examined", "corrected"}]]
    /\ \A r \in Runs : run[r].status \in {"running", "completed", "failed"}
    /\ Cardinality(Running) <= 1
    /\ \A w \in Executors : work[w] # None => work[w].run \in Runs
    /\ \A f \in Raised : f.about \in Txns \cup Conditions

\* A discrepancy moves money once, whatever was queued, decided and approved about it in whatever
\* order, and above the threshold only when an administrator other than the one who asked agreed.
PostedOnce ==
    \A f \in Raised :
        /\ discrepancy[f].posted <= 1
        /\ discrepancy[f].posted = 1 /\ f.about \in Large =>
               discrepancy[f].approver \notin {None, discrepancy[f].author}

\* A transaction is in dispute only as long as one of its discrepancies is open, or when one was
\* resolved with an adjustment or a correction: a decision that posts nothing never leaves it there,
\* and no finding is dropped on the way to its discrepancy.
DisputesAreOpen ==
    \A t \in Txns : ours[t].review = "disputed" =>
        \E f \in Raised : f.about = t /\ (discrepancy[f].status # "resolved" \/ discrepancy[f].adjusted)

\* A discrepancy is adjusted once, by a second person when large, and a transaction is disputed only as
\* long as one of its discrepancies is open or was adjusted (reconciliation.service.ts); and every
\* variable has its type.
DiscrepanciesHold == ReconciliationTypeOK /\ PostedOnce /\ DisputesAreOpen

\* No job will take the run up and no worker has it: the weekly run of a worker that died, a run
\* whose request died before the job was enqueued, or one that could not even be marked failed.
Adrift(r) == run[r].job = "none" /\ \A w \in Executors : work[w] = None \/ work[w].run # r

\* A run that started comes to its end and frees the account for the next, through executions that
\* throw, a worker that dies and two workers at once; nothing ends one that is adrift.
RunsConclude ==
    \A r \in 1..MaxRuns : (r \in Running) ~> (r \notin Running \/ Adrift(r))

\* The transaction ended in the future of a run that was started for it.
Foreseen(t) == \E r \in Runs : run[r].started < ours[t].ended /\ ours[t].ended <= run[r].end

\* A run covers "every transaction that reached a terminal state since the preceding run": one it
\* leaves out, because its end lies before the last period, was compared by a run that completed,
\* unless it ended in a period that had been declared before it was over.  A run that failed, was lost
\* or executed twice takes nothing out of the next one's scope.
ScopeReaches ==
    [][\A w \in Executors : Compare(w) =>
           \A t \in Txns : ours[t].state # None =>
               InScope(t, work[w].run) \/ t \in covered \/ Foreseen(t)]_reconciliationVars
==============================================================================
