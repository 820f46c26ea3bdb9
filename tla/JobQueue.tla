------------------------------- MODULE JobQueue -------------------------------
(***************************************************************************)
(* The job table and the workers that poll it: claims under a row lock     *)
(* that skips locked rows, completion, failure with back-off, recurring    *)
(* jobs that re-arm themselves, one live job per dedupe key, workers that  *)
(* die, and the recovery of jobs that have been running for too long,      *)
(* which cannot tell a dead worker from a slow one.                        *)
(*                                                                         *)
(* Every statement of JobQueue is a database transaction of its own and a  *)
(* step here.  A slot of a worker is taken as a process of its own.        *)
(***************************************************************************)
EXTENDS Nullable, FiniteSets, FiniteSetsExt

CONSTANTS
    Slots,       \* slots of the background workers
    Kinds,       \* kinds of background work
    Recurring,   \* those that re-arm themselves (RECURRING_JOBS)
    Keyed,       \* those enqueued under a dedupe key, the kind and its subject
    Subjects,    \* what a job may be about
    MaxAttempts, \* max_attempts of a kind; a recurring job's million is never reached
    MaxJobs,     \* bound: rows of the job table
    MaxLosses    \* bound: workers lost, jobs taken from slow workers, refused statements

ASSUME QueueOK ==
    /\ Recurring \subseteq Keyed /\ Keyed \subseteq Kinds
    /\ MaxAttempts \in [Kinds \ Recurring -> Nat \ {0}]
    /\ MaxJobs \in Nat /\ MaxLosses \in Nat
    /\ None \notin Subjects \cup Kinds

VARIABLES
    job,   \* the rows of the job table
    slot,  \* what each slot is doing
    lost   \* losses so far

queueVars == <<job, slot, lost>>

Ids == 1..MaxJobs
JobStates == {"absent", "queued", "running", "done", "dead"}
Job == [kind : Kinds \cup {None}, about : Subjects \cup {None}, status : JobStates,
        attempts : Nat, due : BOOLEAN]
NoJob == [kind |-> None, about |-> None, status |-> "absent", attempts |-> 0, due |-> FALSE]

\* attempts is the number the claim returned: fail judges by it and not by the row.
Slot == [stage : {"down", "seeding", "idle", "running", "returned"}, id : 0..MaxJobs, attempts : Nat,
         outcome : {"none", "finished", "again", "threw"}, seeded : SUBSET Recurring]
Down == [stage |-> "down", id |-> 0, attempts |-> 0, outcome |-> "none", seeded |-> {}]
Free == [Down EXCEPT !.stage = "idle"]

Live(jobs) == {j \in Ids : jobs[j].status \in {"queued", "running"}}

\* The unique index on the dedupe key of live jobs.
KeyTaken(jobs, kind, about) ==
    kind \in Keyed /\ \E j \in Live(jobs) : jobs[j].kind = kind /\ jobs[j].about = about

Unused(jobs) == {j \in Ids : jobs[j] = NoJob}

\* The bound MaxJobs leaves room for what is to be enqueued.
Fits(jobs, kind, about) == KeyTaken(jobs, kind, about) \/ Unused(jobs) # {}

\* Inserts nothing where the key is taken.
Enqueued(jobs, kind, about, due) ==
    IF KeyTaken(jobs, kind, about) THEN jobs
    ELSE [jobs EXCEPT ![Min(Unused(jobs))] =
              [kind |-> kind, about |-> about, status |-> "queued", attempts |-> 0, due |-> due]]

Init ==
    /\ job = [j \in Ids |-> NoJob]
    /\ slot = [s \in Slots |-> Down]
    /\ lost = 0

\* A worker process comes up: it seeds the recurring jobs, one statement for each, and only then polls.
ComingUp(s) == slot[s].stage \in {"down", "seeding"}

Seed(s, k) ==
    /\ ComingUp(s) /\ k \notin slot[s].seeded
    /\ Fits(job, k, None)
    /\ job' = Enqueued(job, k, None, TRUE)
    /\ slot' = [slot EXCEPT ![s].stage = "seeding", ![s].seeded = @ \cup {k}]
    /\ UNCHANGED lost

Start(s) ==
    /\ ComingUp(s) /\ slot[s].seeded = Recurring
    /\ slot' = [slot EXCEPT ![s] = Free]
    /\ UNCHANGED <<job, lost>>

Starting(s) == Start(s) \/ \E k \in Recurring : Seed(s, k)

\* It stops once nothing is in flight.
Stop(s) ==
    /\ slot[s] = Free
    /\ slot' = [slot EXCEPT ![s] = Down]
    /\ UNCHANGED <<job, lost>>

\* Deferred work is asked for by whatever else runs on the store.
Enqueue(kind, about, due) ==
    /\ Fits(job, kind, about)
    /\ job' = Enqueued(job, kind, about, due)
    /\ UNCHANGED <<slot, lost>>

FallDue(j) ==
    /\ job[j].status = "queued" /\ ~job[j].due
    /\ job' = [job EXCEPT ![j].due = TRUE]
    /\ UNCHANGED <<slot, lost>>

Claim(s, j) ==
    /\ slot[s] = Free
    /\ job[j].status = "queued" /\ job[j].due
    /\ LET n == IF job[j].kind \in Recurring THEN 0 ELSE job[j].attempts + 1
       IN  /\ job' = [job EXCEPT ![j].status = "running", ![j].attempts = n]
           /\ slot' = [slot EXCEPT ![s] = [stage |-> "running", id |-> j, attempts |-> n,
                                           outcome |-> "none", seeded |-> {}]]
    /\ UNCHANGED lost

\* The handler is over: it threw, or it asked to be run again as only a recurring one does.
Return(s, outcome) ==
    /\ slot[s].stage = "running"
    /\ outcome \in {"threw", IF job[slot[s].id].kind \in Recurring THEN "again" ELSE "finished"}
    /\ slot' = [slot EXCEPT ![s].stage = "returned", ![s].outcome = outcome]

\* complete, reschedule and fail address the row by its id alone, whoever holds it now.
Complete(j) == [job EXCEPT ![j].status = "done"]

\* Mutant: a recurring job is completed like any other.
RescheduleNever(j) == Complete(j)

Reschedule(j) == [job EXCEPT ![j].status = "queued", ![j].due = FALSE, ![j].attempts = 0]

\* Mutant: the attempts are compared one too late.
FailOnceMore(j, attempts) ==
    IF job[j].kind \notin Recurring /\ attempts > MaxAttempts[job[j].kind]
    THEN [job EXCEPT ![j].status = "dead"]
    ELSE [job EXCEPT ![j].status = "queued", ![j].due = FALSE]

Fail(j, attempts) ==
    IF job[j].kind \notin Recurring /\ attempts >= MaxAttempts[job[j].kind]
    THEN [job EXCEPT ![j].status = "dead"]
    ELSE [job EXCEPT ![j].status = "queued", ![j].due = FALSE]

Recorded(s) ==
    LET j == slot[s].id
    IN  CASE slot[s].outcome = "finished" -> Complete(j)
          [] slot[s].outcome = "again" -> Reschedule(j)
          [] OTHER -> Fail(j, slot[s].attempts)

\* A statement that would give two live jobs one key is refused.
Admitted(jobs) ==
    \A j, k \in Live(jobs) :
        jobs[j].kind \in Keyed /\ jobs[j].kind = jobs[k].kind /\ jobs[j].about = jobs[k].about => j = k

Record(s) ==
    /\ slot[s].stage = "returned"
    /\ Admitted(Recorded(s))
    /\ job' = Recorded(s)
    /\ slot' = [slot EXCEPT ![s] = Free]
    /\ UNCHANGED lost

\* A refused completion is caught and recorded as a failure of the handler; a refused failure is
\* caught by nobody and ends the process.
RecordRefused(s) ==
    /\ slot[s].stage = "returned"
    /\ IF Admitted(Recorded(s)) THEN lost < MaxLosses /\ lost' = lost + 1 ELSE UNCHANGED lost
    /\ slot' = [slot EXCEPT ![s] = IF @.outcome = "threw" THEN Down ELSE [@ EXCEPT !.outcome = "threw"]]
    /\ UNCHANGED job

Die(s) ==
    /\ lost < MaxLosses
    /\ slot[s] # Down
    /\ slot' = [slot EXCEPT ![s] = Down]
    /\ lost' = lost + 1
    /\ UNCHANGED job

Held(j) == \E s \in Slots : slot[s].stage \in {"running", "returned"} /\ slot[s].id = j

Requeue(j) ==
    /\ job[j].status = "running"
    /\ job' = [job EXCEPT ![j].status = "queued"]
    /\ UNCHANGED slot

\* Mutant: only a job with attempts left is recovered.
RecoverLostAttempts(j) ==
    /\ ~Held(j) /\ Requeue(j) /\ UNCHANGED lost
    /\ job[j].kind \notin Recurring => job[j].attempts < MaxAttempts[job[j].kind]

\* recoverStale, for a job whose worker is gone and for one whose worker is still at it.
RecoverLost(j) == ~Held(j) /\ Requeue(j) /\ UNCHANGED lost

TakeFromSlow(j) == Held(j) /\ lost < MaxLosses /\ Requeue(j) /\ lost' = lost + 1

Next ==
    \/ \E s \in Slots : Starting(s) \/ Stop(s) \/ Record(s) \/ RecordRefused(s) \/ Die(s)
    \/ \E s \in Slots, j \in Ids : Claim(s, j)
    \/ \E s \in Slots, outcome \in {"finished", "again", "threw"} :
           Return(s, outcome) /\ UNCHANGED <<job, lost>>
    \/ \E j \in Ids : FallDue(j) \/ RecoverLost(j) \/ TakeFromSlow(j)
    \/ \E kind \in Kinds \ Recurring, about \in Subjects, due \in BOOLEAN : Enqueue(kind, about, due)

Spec == Init /\ [][Next]_queueVars
-----------------------------------------------------------------------------
\* The table and the slots have their types.
QueueTypeOK ==
    /\ job \in [Ids -> Job]
    /\ slot \in [Slots -> Slot]
    /\ lost \in 0..MaxLosses

\* Once a worker polls a recurring job is always there and only once, whatever its handler does and
\* whichever workers were lost or slow: otherwise the sweep, the alerts or the checkpoints would stop
\* for good.
RecurringKept ==
    (\E s \in Slots : ~ComingUp(s)) =>
        \A k \in Recurring : Cardinality({j \in Live(job) : job[j].kind = k}) = 1
=============================================================================
