------------------------ MODULE TransactionLifecycle ------------------------
(***************************************************************************)
(* The life of ProxiaPay transactions between the request handlers of the  *)
(* project API, the slots of the background worker, the store and the      *)
(* providers: confirmation with its reservation, submission with fallback, *)
(* status acquisition, payer codes, and process death at any point.        *)
(*                                                                         *)
(* Every database transaction of the code is one step here: each takes the *)
(* transaction's row lock first and keeps it to its commit.  What the code *)
(* does between two database transactions (a provider call) is a step of   *)
(* its own, so every interleaving the row lock admits is explored.         *)
(***************************************************************************)
EXTENDS Integers, FiniteSets, Functions

CONSTANTS
    Txns,                 \* the previews that may be confirmed, one transaction each
    Disbursements,        \* those of them that are disbursements
    Providers,            \* the provider accounts bound to the route
    Workers,              \* slots of the background worker
    Requests,             \* handlers of the project API
    Amount,               \* what each transaction reserves (R + Y) or credits (R - Y)
    Funding,              \* the project's available balance before the first confirmation
    FallbackPayouts,      \* the disbursements whose route_version.disbursement_fallback is set
    MaxHops,              \* submissions tried by one call of submit (5 in the code)
    CodeAttempts,         \* setting payer.code_attempts
    MaxWrong,             \* bound: wrong codes counted for a transaction
    JobAttempts,          \* attempts of a job before it is dead (10 in the code)
    Together,             \* bound: which previews may be confirmed in one behaviour
    MaxDeaths,            \* bound: processes that die, and handlers that throw after the preparation
    None

ASSUME ConstantsOK ==
    /\ IsFiniteSet(Txns)
    /\ Disbursements \subseteq Txns
    /\ Amount \in [Txns -> Nat \ {0}]
    /\ Funding \in Nat
    /\ MaxHops \in Nat \ {0}
    /\ CodeAttempts \in Nat \ {0}
    /\ MaxWrong \in Nat
    /\ MaxDeaths \in Nat
    /\ FallbackPayouts \subseteq Disbursements
    /\ JobAttempts \in Nat \ {0}
    /\ None \notin Txns \cup Providers

VARIABLES
    txn,        \* the transaction's row, its attempts and its ledger postings
    submitJob,  \* the job transaction.submit queued by confirmation
    tries,      \* its attempts, counted to JobAttempts: they are only ever compared with it
    statusJob,  \* the job transaction.status_check, one live per dedupe key
    proc,       \* what each process is doing
    money,      \* external: what became of the request at each provider
    late,       \* the deadlines of the transaction that have passed
    wrong,      \* history: wrong codes the provider refused
    deaths      \* bound on process deaths

vars == <<txn, submitJob, tries, statusJob, proc, money, late, wrong, deaths>>
jobs == <<submitJob, tries, statusJob>>

Procs == Workers \cup Requests

Checkable == {"submitted", "processing", "action_required"}
OpenStates == Checkable \cup {"created"}
TerminalStates == {"succeeded", "failed", "expired"}
States == OpenStates \cup TerminalStates \cup {"undetermined", "absent"}

AttemptStates == {"none", "submitting", "processing", "action_required",
                  "undetermined", "failed", "succeeded"}
Accounts == {"available", "reserved", "suspense", "outside"}
SettlementEntries == {"collection", "disbursement_settlement", "suspense_settlement"}

(***************************************************************************)
(* A transaction as the store holds it.  current is the account of         *)
(* current_attempt_id (an account is tried at most once per transaction,   *)
(* so it names the attempt); known, the attempts with a provider_reference;*)
(* checkAt, whether next_status_check_at is set.  book is the sum of the   *)
(* postings the transaction wrote per account, every account outside the   *)
(* project's money (floats, revenues, expense) counted as "outside";       *)
(* settled counts its settlement entries by type.                          *)
(***************************************************************************)
TxnRow == [state   : States,
           current : Providers \cup {None},
           attempt : [Providers -> AttemptStates],
           known   : SUBSET Providers,
           checkAt : BOOLEAN,
           action  : {"none", "code", "browser"},
           codes   : Nat,
           book    : [Accounts -> Int],
           settled : [SettlementEntries -> Nat]]

Absent == [state |-> "absent", current |-> None, attempt |-> [q \in Providers |-> "none"],
           known |-> {}, checkAt |-> FALSE, action |-> "none", codes |-> 0,
           book |-> [a \in Accounts |-> 0], settled |-> [e \in SettlementEntries |-> 0]]

Stages == {"idle", "prepare", "call", "record", "defer", "look", "ask", "apply",
           "askCode", "applyCode", "finish"}
Results == {"none", "unavailable", "rejected", "undetermined", "undetermined_ref",
            "accepted", "code", "browser", "pending", "succeeded", "failed"}
ProcState == [stage : Stages, t : Txns \cup {None}, job : {"none", "submit", "status"},
              q : Providers \cup {None}, result : Results, hops : Nat]

Idle == [stage |-> "idle", t |-> None, job |-> "none", q |-> None, result |-> "none", hops |-> 0]

Running(stage, t, job) == [Idle EXCEPT !.stage = stage, !.t = t, !.job = job]

(***************************************************************************)
(* The ledger recipes, as the money they move for one transaction.         *)
(***************************************************************************)
Move(book, from, to, n) == [book EXCEPT ![from] = @ - n, ![to] = @ + n]

\* The account that carries the reservation: suspense once undetermined.
Source(x) == IF x.state = "undetermined" THEN "suspense" ELSE "reserved"

SettlementEntry(t, x) ==
    IF t \notin Disbursements THEN "collection"
    ELSE IF x.state = "undetermined" THEN "suspense_settlement" ELSE "disbursement_settlement"

Reserve(t, x) == [x EXCEPT !.book = Move(@, "available", "reserved", Amount[t])]

Release(t, x) ==
    IF t \in Disbursements THEN Move(x.book, Source(x), "available", Amount[t]) ELSE x.book

Settle(t, x) ==
    IF t \in Disbursements THEN Move(x.book, Source(x), "outside", Amount[t])
    ELSE Move(x.book, "outside", "available", Amount[t])

ProjectAvailable == Funding + SumFunction([t \in Txns |-> txn[t].book["available"]])

(***************************************************************************)
(* The outcome transitions of TransactionService: each returns the row the *)
(* call leaves behind.  q is the attempt it names, None where it names     *)
(* none.                                                                   *)
(***************************************************************************)
EndAttempt(x, q, s) == IF q = None THEN x.attempt ELSE [x.attempt EXCEPT ![q] = s]

\* Mutant: a transaction already concluded is concluded again.
FinalizeSuccessAgain(t, x, q) ==
    [x EXCEPT !.state = "succeeded", !.checkAt = FALSE, !.book = Settle(t, x),
              !.settled[SettlementEntry(t, x)] = @ + 1,
              !.attempt = EndAttempt(x, q, "succeeded")]

FinalizeSuccess(t, x, q) ==
    IF x.state \in TerminalStates THEN x
    ELSE [x EXCEPT !.state = "succeeded", !.checkAt = FALSE,
                   !.book = Settle(t, x),
                   !.settled[SettlementEntry(t, x)] = @ + 1,
                   !.attempt = EndAttempt(x, q, "succeeded")]

FinalizeFailure(t, x, q, next) ==
    IF x.state \in TerminalStates THEN x
    ELSE [x EXCEPT !.state = next, !.checkAt = FALSE,
                   !.book = Release(t, x),
                   !.attempt = EndAttempt(x, q, "failed")]

\* Mutant: the reservation is not moved to suspense.
MarkUndeterminedInPlace(t, x, q) ==
    IF x.state \in TerminalStates \cup {"undetermined"} THEN x
    ELSE [x EXCEPT !.state = "undetermined", !.checkAt = FALSE,
                   !.attempt = EndAttempt(x, q, "undetermined")]

MarkUndetermined(t, x, q) ==
    IF x.state \in TerminalStates \cup {"undetermined"} THEN x
    ELSE [x EXCEPT !.state = "undetermined", !.checkAt = FALSE,
                   !.book = IF t \in Disbursements
                            THEN Move(@, "reserved", "suspense", Amount[t]) ELSE @,
                   !.attempt = EndAttempt(x, q, "undetermined")]

\* Mutant: a check that learned nothing is not repeated.
ScheduleNever(x) == [x EXCEPT !.checkAt = FALSE]

Schedule(x) == [x EXCEPT !.checkAt = TRUE]

-----------------------------------------------------------------------------
Init ==
    /\ txn = [t \in Txns |-> Absent]
    /\ submitJob = [t \in Txns |-> "none"]
    /\ tries = [t \in Txns |-> 0]
    /\ statusJob = [t \in Txns |-> "none"]
    /\ proc = [p \in Procs |-> Idle]
    /\ money = [t \in Txns |-> [q \in Providers |-> "none"]]
    /\ late = [t \in Txns |-> {}]
    /\ wrong = [t \in Txns |-> 0]
    /\ deaths = 0

\* The operation is over: a job still has to be marked complete, a request has not.
Done(p) == proc' = [proc EXCEPT ![p] =
                      IF @.job = "none" THEN Idle ELSE Running("finish", @.t, @.job)]

(***************************************************************************)
(* Confirmation.  The reservation, the row and the submit job commit       *)
(* together; the same request then goes on to submit.                      *)
(***************************************************************************)

\* Mutant: the balance is compared without the reservations of others.
CoveredByFunding(t) == t \in Disbursements => Funding >= Amount[t]

\* reserve throws where the available balance falls short; the whole confirmation is undone.
Covered(t) == t \in Disbursements => ProjectAvailable >= Amount[t]

Confirm(r, t) ==
    /\ proc[r] = Idle
    /\ txn[t].state = "absent"
    /\ \E some \in Together : {u \in Txns : txn[u].state # "absent"} \cup {t} \subseteq some
    /\ Covered(t)
    /\ LET created == [Absent EXCEPT !.state = "created"]
       IN  txn' = [txn EXCEPT ![t] = IF t \in Disbursements THEN Reserve(t, created) ELSE created]
    /\ submitJob' = [submitJob EXCEPT ![t] = "queued"]
    /\ proc' = [proc EXCEPT ![r] = Running("prepare", t, "none")]
    /\ UNCHANGED <<tries, statusJob, money, late, wrong, deaths>>

(***************************************************************************)
(* Submission: prepareAttempt, the provider call, recordOutcome.           *)
(***************************************************************************)
Tried(x) == {q \in Providers : x.attempt[q] # "none"}

\* Mutant: the transaction is not marked as submitted before the provider is called.
NewAttemptUnrecorded(x, q) == [x EXCEPT !.current = q, !.attempt[q] = "submitting"]

NewAttempt(x, q) == [x EXCEPT !.state = "submitted", !.current = q,
                              !.attempt[q] = "submitting"]

\* Which untried account is taken, or that none is available, is the routes' and breakers' choice.
PrepareAttempt(p) ==
    /\ proc[p].stage = "prepare"
    /\ LET t == proc[p].t
           x == txn[t]
       IN  \/ /\ x.state # "created"
              /\ Done(p)
              /\ UNCHANGED txn
           \/ /\ x.state = "created"
              /\ \E q \in Providers \ Tried(x) :
                    /\ txn' = [txn EXCEPT ![t] = NewAttempt(x, q)]
                    /\ proc' = [proc EXCEPT ![p].stage = "call", ![p].q = q]
           \/ /\ x.state = "created"
              /\ txn' = [txn EXCEPT ![t] = FinalizeFailure(t, x, None, "failed")]
              /\ Done(p)
    /\ UNCHANGED <<jobs, money, late, wrong, deaths>>

\* Mutant: a job whose handler threw is left as it is.
JobFailsForgotten(p) ==
    /\ proc' = [proc EXCEPT ![p] = Idle]
    /\ UNCHANGED submitJob

\* The handler threw: the job is queued again, or dead once its attempts are spent.  What was thrown at
\* a request is the caller's.
JobFails(p) ==
    /\ proc' = [proc EXCEPT ![p] = Idle]
    /\ submitJob' = IF proc[p].job = "submit"
                    THEN [submitJob EXCEPT ![proc[p].t] = IF tries[proc[p].t] >= JobAttempts THEN "dead" ELSE "queued"]
                    ELSE submitJob

\* No amount can be sent to the account taken, the provider's fee consuming the whole quote: the
\* attempt is undone, and the next preparation may take the same account again.
PrepareThrows(p) ==
    /\ proc[p].stage = "prepare"
    /\ LET x == txn[proc[p].t] IN x.state = "created" /\ Tried(x) # Providers
    /\ JobFails(p)
    /\ UNCHANGED <<txn, tries, statusJob, money, late, wrong, deaths>>

\* External: what a provider may do with a request, and what the adapter makes of its answer.  A call
\* that broke off, a server error and a 2xx without a reference may each have been carried out.
Answers == [result : {"accepted", "code", "browser", "undetermined_ref"}, money : {"pending"}]
           \cup [result : {"undetermined"}, money : {"none", "pending"}]
           \cup [result : {"rejected"}, money : {"refused", "pending"}]
           \cup [result : {"unavailable"}, money : {"none", "pending"}]

CallProvider(p) ==
    /\ proc[p].stage = "call"
    /\ \E a \in Answers :
          /\ a.result \in {"code", "browser"} => proc[p].t \notin Disbursements
          /\ money' = [money EXCEPT ![proc[p].t][proc[p].q] = a.money]
          /\ proc' = [proc EXCEPT ![p].stage = "record", ![p].result = a.result]
    /\ UNCHANGED <<txn, jobs, late, wrong, deaths>>

FallbackAllowed(t) == t \notin Disbursements \/ t \in FallbackPayouts

\* Mutant: the adapter's word is stored as the state.
AcceptedVerbatim(x, q, result) ==
    [x EXCEPT !.state = result, !.checkAt = TRUE, !.known = @ \cup {q}]

\* The accepted branch of recordOutcome.
Accepted(x, q, result) ==
    LET next == IF result = "accepted" THEN "processing" ELSE "action_required"
    IN  [x EXCEPT !.state = next, !.checkAt = TRUE, !.known = @ \cup {q},
                  !.attempt[q] = next,
                  !.action = IF result = "accepted" THEN @ ELSE result,
                  !.codes = IF result = "code" THEN CodeAttempts ELSE @]

\* failAttempt where fallback is allowed: the transaction is created again.
FallBack(x, q) == [x EXCEPT !.state = "created", !.attempt[q] = "failed"]

Learned(x, q, result) == IF result = "undetermined_ref" THEN [x EXCEPT !.known = @ \cup {q}] ELSE x

RecordOutcome(p) ==
    /\ proc[p].stage = "record"
    /\ LET t == proc[p].t
           q == proc[p].q
           x == txn[t]
           result == proc[p].result
           current == x.state = "submitted" /\ x.current = q
           refused == result \in {"unavailable", "rejected"}
       IN  \/ /\ ~current
              /\ Done(p)
              /\ UNCHANGED txn
           \/ /\ current /\ refused /\ FallbackAllowed(t)
              /\ txn' = [txn EXCEPT ![t] = FallBack(x, q)]
              /\ IF proc[p].hops + 1 < MaxHops
                 THEN proc' = [proc EXCEPT ![p] = [Running("prepare", t, @.job)
                                                     EXCEPT !.hops = proc[p].hops + 1]]
                 ELSE Done(p)
           \/ /\ current /\ refused /\ ~FallbackAllowed(t)
              /\ txn' = [txn EXCEPT ![t] = FinalizeFailure(t, x, q, "failed")]
              /\ Done(p)
           \/ /\ current /\ result \in {"undetermined", "undetermined_ref"}
              /\ txn' = [txn EXCEPT ![t] = MarkUndetermined(t, Learned(x, q, result), q)]
              /\ Done(p)
           \/ /\ current /\ result \in {"accepted", "code", "browser"}
              /\ txn' = [txn EXCEPT ![t] = Accepted(x, q, result)]
              /\ Done(p)
    /\ UNCHANGED <<jobs, money, late, wrong, deaths>>

(***************************************************************************)
(* Status acquisition: the sweep, the checks it and the jobs run.          *)
(***************************************************************************)
SweepSelect(w, t) ==
    /\ proc[w] = Idle
    /\ txn[t].state \in Checkable
    /\ txn[t].checkAt
    /\ proc' = [proc EXCEPT ![w] = Running("defer", t, "none")]
    /\ UNCHANGED <<txn, jobs, money, late, wrong, deaths>>

\* The sweep pushes the check out without looking at the state again.
SweepDefer(w) ==
    /\ proc[w].stage = "defer"
    /\ txn' = [txn EXCEPT ![proc[w].t] = Schedule(@)]
    /\ proc' = [proc EXCEPT ![w].stage = "look"]
    /\ UNCHANGED <<jobs, money, late, wrong, deaths>>

\* The first transaction of check.
Look(w) ==
    /\ proc[w].stage = "look"
    /\ LET t == proc[w].t
           x == txn[t]
           acknowledged == x.current \in x.known
       IN  \/ /\ x.state \notin Checkable
              /\ Done(w)
              /\ UNCHANGED txn
           \/ /\ x.state \in Checkable /\ ~acknowledged
              /\ txn' = [txn EXCEPT ![t] = IF "ceiling" \in late[t]
                                           THEN MarkUndetermined(t, x, x.current) ELSE Schedule(x)]
              /\ Done(w)
           \/ /\ x.state \in Checkable /\ acknowledged
              /\ proc' = [proc EXCEPT ![w].stage = "ask", ![w].q = x.current]
              /\ UNCHANGED txn
    /\ UNCHANGED <<jobs, money, late, wrong, deaths>>

\* Mutant: a request not yet concluded is taken for a refused one.
ReportEarly(m) == IF m = "paid" THEN "succeeded" ELSE "failed"

\* What the provider reports of a request, by what became of it.
Report(m) == CASE m = "paid" -> "succeeded" [] m = "refused" -> "failed" [] OTHER -> "pending"

AskStatus(w) ==
    /\ proc[w].stage = "ask"
    /\ \E result \in {Report(money[proc[w].t][proc[w].q]), "unavailable"} :
          proc' = [proc EXCEPT ![w].stage = "apply", ![w].result = result]
    /\ UNCHANGED <<txn, jobs, money, late, wrong, deaths>>

\* Mutant: the state is not looked at again after the provider answered.
StatusOutcomeUnchecked(t, x, q, result) ==
    IF result = "succeeded" THEN FinalizeSuccess(t, x, q)
    ELSE IF result = "failed" THEN FinalizeFailure(t, x, q, "failed")
    ELSE Schedule([x EXCEPT !.state = "processing"])

\* The second transaction of check, in the order of its tests.
StatusOutcome(t, x, q, result) ==
    IF x.state \notin Checkable THEN x
    ELSE IF result = "succeeded" THEN FinalizeSuccess(t, x, q)
    ELSE IF result = "failed" THEN FinalizeFailure(t, x, q, "failed")
    ELSE IF x.state = "action_required" /\ "window" \in late[t] THEN FinalizeFailure(t, x, q, "expired")
    ELSE IF "ceiling" \in late[t] THEN MarkUndetermined(t, x, q)
    ELSE IF result = "pending" /\ x.state = "submitted" THEN Schedule([x EXCEPT !.state = "processing"])
    ELSE Schedule(x)

ApplyStatus(w) ==
    /\ proc[w].stage = "apply"
    /\ LET t == proc[w].t
       IN  txn' = [txn EXCEPT ![t] = StatusOutcome(t, @, proc[w].q, proc[w].result)]
    /\ Done(w)
    /\ UNCHANGED <<jobs, money, late, wrong, deaths>>

(***************************************************************************)
(* Payer codes.  A refused code is recorded and then an error is thrown in *)
(* the same database transaction, which undoes the record: the row is left *)
(* as it was.                                                              *)
(***************************************************************************)
SubmitCode(r, t) ==
    /\ proc[r] = Idle
    /\ txn[t].state = "action_required" /\ txn[t].action = "code"
    /\ "window" \notin late[t]
    /\ txn[t].codes > 0
    /\ proc' = [proc EXCEPT ![r] = [Running("askCode", t, "none") EXCEPT !.q = txn[t].current]]
    /\ UNCHANGED <<txn, jobs, money, late, wrong, deaths>>

AskCode(r) ==
    /\ proc[r].stage = "askCode"
    /\ LET t == proc[r].t
           q == proc[r].q
       IN  \/ \* the right code, or a request already concluded
              /\ money' = [money EXCEPT ![t][q] = IF @ = "pending" THEN "paid" ELSE @]
              /\ proc' = [proc EXCEPT ![r].stage = "applyCode", ![r].result = Report(money'[t][q])]
              /\ UNCHANGED wrong
           \/ \* a wrong code
              /\ money[t][q] = "pending"
              /\ wrong' = [wrong EXCEPT ![t] = IF @ < MaxWrong THEN @ + 1 ELSE @]
              /\ proc' = [proc EXCEPT ![r].stage = "applyCode", ![r].result = "pending"]
              /\ UNCHANGED money
    /\ UNCHANGED <<txn, jobs, late, deaths>>

ApplyCode(r) ==
    /\ proc[r].stage = "applyCode"
    /\ LET t == proc[r].t
           q == proc[r].q
       IN  txn' = [txn EXCEPT ![t] = CASE proc[r].result = "succeeded" -> FinalizeSuccess(t, @, q)
                                       [] proc[r].result = "failed" -> FinalizeFailure(t, @, q, "failed")
                                       [] OTHER -> @]
    /\ Done(r)
    /\ UNCHANGED <<jobs, money, late, wrong, deaths>>

(***************************************************************************)
(* Jobs.  A job is counted an attempt when it is claimed.  It returns to   *)
(* the queue when its process dies (recoverStale), and when its handler    *)
(* throws (fail) unless its attempts are spent: then it is dead, and       *)
(* nothing runs it again.                                                  *)
(***************************************************************************)
ClaimSubmit(w, t) ==
    /\ proc[w] = Idle
    /\ submitJob[t] = "queued"
    /\ submitJob' = [submitJob EXCEPT ![t] = "running"]
    /\ tries' = [tries EXCEPT ![t] = IF @ < JobAttempts THEN @ + 1 ELSE @]
    /\ proc' = [proc EXCEPT ![w] = Running("prepare", t, "submit")]
    /\ UNCHANGED <<txn, statusJob, money, late, wrong, deaths>>

ClaimStatus(w, t) ==
    /\ proc[w] = Idle
    /\ statusJob[t] = "queued"
    /\ statusJob' = [statusJob EXCEPT ![t] = "running"]
    /\ proc' = [proc EXCEPT ![w] = Running("look", t, "status")]
    /\ UNCHANGED <<txn, submitJob, tries, money, late, wrong, deaths>>

FinishJob(w) ==
    /\ proc[w].stage = "finish"
    /\ IF proc[w].job = "submit"
       THEN submitJob' = [submitJob EXCEPT ![proc[w].t] = "done"] /\ UNCHANGED statusJob
       ELSE statusJob' = [statusJob EXCEPT ![proc[w].t] = "none"] /\ UNCHANGED submitJob
    /\ proc' = [proc EXCEPT ![w] = Idle]
    /\ UNCHANGED <<txn, tries, money, late, wrong, deaths>>

\* A status job is left queued or, its attempts being spent, dead, which frees its dedupe key.
StatusJobStops(p) ==
    \E s \in {"queued", "none"} :
        statusJob' = IF proc[p].job = "status" THEN [statusJob EXCEPT ![proc[p].t] = s] ELSE statusJob

\* The process dies, or its handler throws, at any point: what was committed stands.
Die(p) ==
    /\ deaths < MaxDeaths
    /\ proc[p] # Idle
    /\ \/ JobFails(p)
       \/ /\ proc' = [proc EXCEPT ![p] = Idle]
          /\ submitJob' = IF proc[p].job = "submit"
                          THEN [submitJob EXCEPT ![proc[p].t] = "queued"] ELSE submitJob
    /\ StatusJobStops(p)
    /\ deaths' = deaths + 1
    /\ UNCHANGED <<txn, tries, money, late, wrong>>

\* Sets the check due now and queues a status job unless one is queued or running.
CheckNow(t) ==
    /\ txn' = [txn EXCEPT ![t] = Schedule(@)]
    /\ statusJob' = [statusJob EXCEPT ![t] = IF @ = "none" THEN "queued" ELSE @]
    /\ UNCHANGED <<submitJob, tries, proc, money, late, wrong, deaths>>

\* An inbound notification, matched by provider reference or by our own reference.
ProviderNotifies(t) ==
    /\ \E q \in Providers : money[t][q] # "none"
    /\ CheckNow(t)

ForceRecheck(t) ==
    /\ txn[t].state # "absent"
    /\ CheckNow(t)

(***************************************************************************)
(* The environment: providers conclude requests, deadlines pass.           *)
(***************************************************************************)
ProviderConcludes(t, q) ==
    /\ money[t][q] = "pending"
    /\ \E m \in {"paid", "refused"} : money' = [money EXCEPT ![t][q] = m]
    /\ UNCHANGED <<txn, jobs, proc, late, wrong, deaths>>

WindowCloses(t) ==
    /\ txn[t].state = "action_required"
    /\ "window" \notin late[t]
    /\ late' = [late EXCEPT ![t] = @ \cup {"window"}]
    /\ UNCHANGED <<txn, jobs, proc, money, wrong, deaths>>

CeilingPasses(t) ==
    /\ txn[t].state \in OpenStates
    /\ "ceiling" \notin late[t]
    /\ late' = [late EXCEPT ![t] = @ \cup {"ceiling"}]
    /\ UNCHANGED <<txn, jobs, proc, money, wrong, deaths>>

-----------------------------------------------------------------------------
Submission(p) == PrepareAttempt(p) \/ PrepareThrows(p) \/ CallProvider(p) \/ RecordOutcome(p)
StatusCheck(w) == SweepDefer(w) \/ Look(w) \/ AskStatus(w) \/ ApplyStatus(w)
CodeEntry(r) == AskCode(r) \/ ApplyCode(r)
Progress(p) == Submission(p) \/ StatusCheck(p) \/ CodeEntry(p) \/ FinishJob(p)

Next ==
    \/ \E p \in Procs : Progress(p) \/ Die(p)
    \/ \E r \in Requests, t \in Txns : Confirm(r, t) \/ SubmitCode(r, t)
    \/ \E w \in Workers, t \in Txns : SweepSelect(w, t) \/ ClaimSubmit(w, t) \/ ClaimStatus(w, t)
    \/ \E t \in Txns : ProviderNotifies(t) \/ ForceRecheck(t) \/ WindowCloses(t) \/ CeilingPasses(t)
    \/ \E t \in Txns, q \in Providers : ProviderConcludes(t, q)

Spec == Init /\ [][Next]_vars

(***************************************************************************)
(* A running process goes on; the worker claims due jobs and sweeps due    *)
(* checks oldest first, so none is passed over for ever (strong fairness:  *)
(* a slot is only free now and then); time passes.  Nothing obliges a      *)
(* payer, a project, an administrator or a provider to act.                *)
(***************************************************************************)
Fairness ==
    /\ \A p \in Procs : WF_vars(Progress(p))
    /\ \A t \in Txns : /\ SF_vars(\E w \in Workers : SweepSelect(w, t))
                       /\ SF_vars(\E w \in Workers : ClaimSubmit(w, t))
                       /\ SF_vars(\E w \in Workers : ClaimStatus(w, t))
                       /\ WF_vars(CeilingPasses(t))

FairSpec == Spec /\ Fairness
-----------------------------------------------------------------------------
(***************************************************************************)
(* Properties.                                                             *)
(***************************************************************************)

\* Every variable has its type.
TypeOK ==
    /\ txn \in [Txns -> TxnRow]
    /\ submitJob \in [Txns -> {"none", "queued", "running", "done", "dead"}]
    /\ tries \in [Txns -> 0..JobAttempts]
    /\ statusJob \in [Txns -> {"none", "queued", "running"}]
    /\ proc \in [Procs -> ProcState]
    /\ money \in [Txns -> [Providers -> {"none", "pending", "paid", "refused"}]]
    /\ late \in [Txns -> SUBSET {"window", "ceiling"}]
    /\ wrong \in [Txns -> 0..MaxWrong]
    /\ deaths \in 0..MaxDeaths

Holds(x, available, reserved, suspense, outside) ==
    /\ x.book["available"] = available
    /\ x.book["reserved"] = reserved
    /\ x.book["suspense"] = suspense
    /\ x.book["outside"] = outside

SettlementCount(x) ==
    x.settled["collection"] + x.settled["disbursement_settlement"] + x.settled["suspense_settlement"]

\* What the ledger must show of a transaction in its state: a disbursement is reserved while open, in
\* suspense while undetermined, gone once succeeded and back in full once failed or expired; a
\* collection is credited once and only on success.
BooksMatch(t, x) ==
    LET a == Amount[t]
    IN  /\ t \in Disbursements =>
              CASE x.state \in OpenStates -> Holds(x, -a, a, 0, 0)
                [] x.state = "undetermined" -> Holds(x, -a, 0, a, 0)
                [] x.state = "succeeded" -> Holds(x, -a, 0, 0, a)
                [] OTHER -> Holds(x, 0, 0, 0, 0)
        /\ t \notin Disbursements =>
              IF x.state = "succeeded" THEN Holds(x, a, 0, 0, -a) ELSE Holds(x, 0, 0, 0, 0)

\* The ledger says of a transaction exactly what its state says, whichever of the submission, the
\* checks, the code entry and the jobs raced to conclude it, and one settlement entry was written
\* for a success, none otherwise.
BooksFollowState ==
    \A t \in Txns :
        /\ BooksMatch(t, txn[t])
        /\ SettlementCount(txn[t]) = IF txn[t].state = "succeeded" THEN 1 ELSE 0

Live(t) == {q \in Providers : money[t][q] \in {"pending", "paid"}}

\* The requests the platform takes for failed: their provider was unavailable or rejected them.  One
\* the provider acknowledged is never among them.
TurnedDown(t) == {q \in Providers : txn[t].attempt[q] = "failed" /\ q \notin txn[t].known}

\* Apart from requests that were answered as unavailable or rejected, one provider at most holds a
\* request that may move, or has moved, the money of a transaction: the request that confirmed, the
\* submit job and a job run again never send it twice.  A payout without fallback is sent once
\* whatever was answered ("a provider that timed out may already have paid").
SentOnce ==
    \A t \in Txns :
        /\ Cardinality(Live(t) \ TurnedDown(t)) <= 1
        /\ ~FallbackAllowed(t) => Cardinality(Live(t)) <= 1

\* The submission comment "Fallback proceeds only where the platform knows no money moved": two
\* providers never both pay one transaction.
NeverPaidTwice == \A t \in Txns : Cardinality({q \in Providers : money[t][q] = "paid"}) <= 1

\* A recorded outcome is the provider's: succeeded only where the provider of the current attempt
\* paid; failed (and the reservation released) only where every request that may still move money was
\* answered as unavailable or rejected, so one acknowledged, or without any answer, is never given up.
OutcomeFollowsMoney ==
    \A t \in Txns :
        /\ txn[t].state = "succeeded" => txn[t].current # None /\ money[t][txn[t].current] = "paid"
        /\ txn[t].state = "failed" => Live(t) \subseteq TurnedDown(t)

\* Confirmations and releases never let a project spend more than it has.
AvailableNeverNegative == ProjectAvailable >= 0

\* "A terminal state is left only through reconciliation's correction path": no submission, check,
\* code or job that was under way when a transaction concluded changes it afterwards.
TerminalIsFinal ==
    [][\A t \in Txns : txn[t].state \in TerminalStates =>
          /\ txn'[t].state = txn[t].state
          /\ txn'[t].attempt = txn[t].attempt
          /\ txn'[t].book = txn[t].book]_vars

\* Once a provider acknowledged the request the transaction reaches a conclusion or the hands of
\* reconciliation, whatever process dies: the sweep keeps asking until the ceiling.
AcknowledgedIsConcluded ==
    \A t \in Txns : txn[t].state \in {"processing", "action_required"}
                       ~> txn[t].state \in TerminalStates \cup {"undetermined"}

\* The safety net of confirmation: a created transaction whose submit job is queued leaves that state,
\* whoever dies and however often the preparation throws, unless it threw at the job's last attempt.
QueuedIsSubmitted ==
    \A t \in Txns : (txn[t].state = "created" /\ submitJob[t] = "queued")
                       ~> txn[t].state # "created" \/ (submitJob[t] = "dead" /\ tries[t] = JobAttempts)

\* The submission comment: a process dying between recording the request as sent and recording its
\* outcome leaves a transaction that the sweep moves to undetermined.
SubmittedIsSwept == \A t \in Txns : txn[t].state = "submitted" ~> txn[t].state # "submitted"

\* What the code does not keep: the code attempt limit, by which no further code is taken once the
\* provider refused that many.
CodeLimitHolds == \A t \in Txns : wrong[t] <= CodeAttempts

(***************************************************************************)
(* The lifecycle implements the contract.  Where the money is is read from *)
(* the postings alone, the status from the state alone.                    *)
(***************************************************************************)
PublicStatus(s) == CASE s \in OpenStates -> "open"
                     [] s = "undetermined" -> "held"
                     [] s \in {"failed", "expired"} -> "failed"
                     [] OTHER -> s

FundsOf(t, x) == CASE Holds(x, 0, 0, 0, 0) -> "untouched"
                [] Holds(x, -Amount[t], Amount[t], 0, 0) -> "reserved"
                [] Holds(x, -Amount[t], 0, Amount[t], 0) -> "suspense"
                [] Holds(x, -Amount[t], 0, 0, Amount[t]) -> "paid_out"
                [] Holds(x, Amount[t], 0, 0, -Amount[t]) -> "credited"
                [] OTHER -> "misplaced"

Contract == INSTANCE PaymentContract
                WITH Payments <- Txns, Payouts <- Disbursements,
                     status <- [t \in Txns |-> PublicStatus(txn[t].state)],
                     funds <- [t \in Txns |-> FundsOf(t, txn[t])]

\* Every step of the lifecycle is a step of the payment contract or changes nothing it shows.
ImplementsContract == Contract!Spec
=============================================================================
