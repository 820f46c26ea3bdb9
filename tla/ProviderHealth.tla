---------------------------- MODULE ProviderHealth ----------------------------
(***************************************************************************)
(* The circuit breaker of each provider account, the account's status, and *)
(* the alerts both the breaker and the recurring evaluation keep.          *)
(*                                                                         *)
(* A breaker moves in a transaction of its own and the alert about it is   *)
(* raised or cleared afterwards, outside that transaction, in steps that   *)
(* each commit: look for an alert of the fingerprint, write, notify.  The  *)
(* evaluation raises and clears the alerts of the conditions it measures,  *)
(* one after the other, from what it measured at its start.                *)
(***************************************************************************)
EXTENDS Nullable, Sequences

CONSTANTS
    Accounts,    \* provider accounts
    Conditions,  \* success rates and floats the evaluation measures
    Callers,     \* handlers that report on providers
    Evaluator,   \* the worker's evaluation
    Heard,       \* severities the policy sends
    Failures,    \* failures in the window that open a breaker
    MaxAlerts,   \* bound: alert rows
    MaxDeaths,   \* bound: processes that die
    MaxMoves     \* bound: reports, probes, passages of time, operators' steps and moves of the conditions

ASSUME HealthOK == Failures \in Nat \ {0} /\ Heard \subseteq {"warning", "critical"}

VARIABLES
    breaker,  \* each account's breaker: state, failures counted, whether its window and probe interval have passed
    account,  \* each account's status and what an operator last ordered
    alert,    \* alert rows, in order
    level,    \* severity each condition has now, "none" when it does not hold
    work,     \* what each process is doing about an alert
    moves,
    pass,     \* conditions the evaluation has yet to visit, what it measured, alerts it is to escalate
    deaths

healthVars == <<breaker, account, alert, level, work, moves, pass, deaths>>

Processes == Callers \cup {Evaluator}
Fingerprints == Accounts \cup Conditions
Rank == [s \in {"none", "warning", "critical"} |-> CASE s = "none" -> 0 [] s = "warning" -> 1 [] OTHER -> 2]
Task(stage, about, severity, row) == [stage |-> stage, about |-> about, severity |-> severity, row |-> row]
Idle == Task("idle", None, "none", 0)
Doing(w, stage) == work[w].stage = stage
\* A step of the surroundings, of which there are few.
Move == moves < MaxMoves /\ moves' = moves + 1

LiveAlerts(f) == {r \in DOMAIN alert : alert[r].about = f /\ alert[r].status \in {"open", "acknowledged"}}

HealthInit ==
    /\ breaker = [a \in Accounts |-> [state |-> "closed", count |-> 0, window |-> FALSE, probed |-> FALSE]]
    /\ account = [a \in Accounts |-> [status |-> "active", ordered |-> "none"]]
    /\ alert = <<>>
    /\ level = [c \in Conditions |-> "none"]
    /\ work = [w \in Processes |-> Idle]
    /\ pass = [todo |-> {}, seen |-> level, late |-> {}, escalating |-> FALSE]
    /\ deaths = 0 /\ moves = 0

-----------------------------------------------------------------------------
(* The breaker.                                                            *)

\* An open breaker stays open; any other opens when the window holds enough failures, and closes when
\* it does not, the breaker a probe was let through included.
RecordFailure(w, a) ==
    LET b == breaker[a]
        count == IF b.window THEN b.count + 1 ELSE 1
        open == b.state = "open" \/ count >= Failures
        opened == open /\ b.state # "open"
    IN  /\ Move /\ Doing(w, "idle") /\ w \in Callers
        /\ breaker' = [breaker EXCEPT ![a] = [state |-> IF open THEN "open" ELSE "closed", window |-> TRUE,
                                                count |-> IF count > Failures THEN Failures ELSE count,
                                                probed |-> b.probed]]
        /\ account' = IF opened /\ account[a].status = "active" THEN [account EXCEPT ![a].status = "degraded"] ELSE account
        /\ work' = IF opened THEN [work EXCEPT ![w] = Task("raise", a, "critical", 0)] ELSE work
        /\ UNCHANGED <<alert, level, pass, deaths>>

\* Mutant: the account becomes active whatever its status.
RecordSuccessRestoring(w, a) ==
    /\ Move /\ Doing(w, "idle") /\ w \in Callers
    /\ breaker' = [breaker EXCEPT ![a] = [state |-> "closed", window |-> FALSE, count |-> 0, probed |-> @.probed]]
    /\ IF breaker[a].state = "closed" THEN UNCHANGED <<account, work>>
       ELSE /\ account' = [account EXCEPT ![a].status = "active"]
            /\ work' = [work EXCEPT ![w] = Task("clear", a, "none", 0)]
    /\ UNCHANGED <<alert, level, pass, deaths>>

RecordSuccess(w, a) ==
    /\ Move /\ Doing(w, "idle") /\ w \in Callers
    /\ breaker' = [breaker EXCEPT ![a] = [state |-> "closed", window |-> FALSE, count |-> 0, probed |-> @.probed]]
    /\ IF breaker[a].state = "closed" THEN UNCHANGED <<account, work>>
       ELSE /\ account' = IF account[a].status = "degraded" THEN [account EXCEPT ![a].status = "active"] ELSE account
            /\ work' = [work EXCEPT ![w] = Task("clear", a, "none", 0)]
    /\ UNCHANGED <<alert, level, pass, deaths>>

\* A payment no other provider takes is let through, one per interval.
AllowProbe(a) ==
    /\ Move /\ breaker[a].state \in {"open", "half_open"} /\ ~breaker[a].probed
    /\ breaker' = [breaker EXCEPT ![a].state = "half_open", ![a].probed = TRUE]
    /\ UNCHANGED <<account, alert, level, work, pass, deaths>>

WindowPasses(a) ==
    /\ Move /\ breaker[a].window
    /\ breaker' = [breaker EXCEPT ![a].window = FALSE]
    /\ UNCHANGED <<account, alert, level, work, pass, deaths>>

ProbeIntervalPasses(a) ==
    /\ Move /\ breaker[a].probed
    /\ breaker' = [breaker EXCEPT ![a].probed = FALSE]
    /\ UNCHANGED <<account, alert, level, work, pass, deaths>>

SetStatus(a, status) ==
    /\ Move /\ account' = [account EXCEPT ![a] = [status |-> status, ordered |-> status]]
    /\ UNCHANGED <<breaker, alert, level, work, pass, deaths>>

-----------------------------------------------------------------------------
(* Alerts.                                                                 *)

\* Mutant: an alert is told of again only when its quiet period has passed.
RenotifyQuiet(row, severity) == Rank[severity] > Rank[row.severity] \/ row.quiet

\* An alert nobody was told of yet, its writer having died, counts as one whose quiet period has passed.
Renotify(row, severity) == Rank[severity] > Rank[row.severity] \/ ~row.notified \/ row.quiet

\* raise looks for a live alert of the fingerprint.
Raise(w) ==
    /\ Doing(w, "raise")
    /\ IF LiveAlerts(work[w].about) = {} THEN work' = [work EXCEPT ![w].stage = "insert"]
       ELSE \E r \in LiveAlerts(work[w].about) :
              work' = [work EXCEPT ![w] =
                  Task(IF Renotify(alert[r], @.severity) THEN "advance_and_notify" ELSE "advance", @.about, @.severity, r)]
    /\ UNCHANGED <<breaker, account, alert, level, pass, deaths, moves>>

\* The index refuses a second live alert of a fingerprint: raise starts again.
InsertAlert(w) ==
    /\ Doing(w, "insert") /\ Len(alert) < MaxAlerts
    /\ IF LiveAlerts(work[w].about) # {}
       THEN /\ work' = [work EXCEPT ![w].stage = "raise"]
            /\ UNCHANGED alert
       ELSE /\ alert' = Append(alert, [about |-> work[w].about, severity |-> work[w].severity, status |-> "open",
                                       notified |-> FALSE, quiet |-> FALSE, overdue |-> FALSE, escalated |-> FALSE])
            /\ work' = [work EXCEPT ![w] = Task("notify", @.about, @.severity, Len(alert) + 1)]
    /\ UNCHANGED <<breaker, account, level, pass, deaths, moves>>

\* The row is written by its identifier, cleared or not by then.
AdvanceAlert(w) ==
    LET r == work[w].row
        rose == Rank[work[w].severity] > Rank[alert[r].severity]
    IN  /\ Doing(w, "advance") \/ Doing(w, "advance_and_notify")
        /\ alert' = IF rose THEN [alert EXCEPT ![r].severity = work[w].severity, ![r].status = "open"] ELSE alert
        /\ work' = [work EXCEPT ![w] = IF Doing(w, "advance") THEN Idle ELSE [@ EXCEPT !.stage = "notify"]]
        /\ UNCHANGED <<breaker, account, level, pass, deaths, moves>>

\* clear looks for the live alert, clears it by its identifier and tells.
Clear(w) ==
    /\ Doing(w, "clear")
    /\ IF LiveAlerts(work[w].about) = {} THEN work' = [work EXCEPT ![w] = Idle]
       ELSE \E r \in LiveAlerts(work[w].about) : work' = [work EXCEPT ![w] = Task("clearing", @.about, @.severity, r)]
    /\ UNCHANGED <<breaker, account, alert, level, pass, deaths, moves>>

ClearAlert(w) ==
    /\ Doing(w, "clearing")
    /\ alert' = [alert EXCEPT ![work[w].row].status = "cleared"]
    /\ work' = [work EXCEPT ![w].stage = "notify"]
    /\ UNCHANGED <<breaker, account, level, pass, deaths, moves>>

\* A severity the policy does not send is told of only when the alert has cleared.
Notify(w) ==
    LET row == alert[work[w].row]
    IN  /\ Doing(w, "notify")
        /\ alert' = IF row.severity \in Heard \/ row.status = "cleared"
                    THEN [alert EXCEPT ![work[w].row].notified = TRUE, ![work[w].row].quiet = FALSE] ELSE alert
        /\ work' = [work EXCEPT ![w] = Idle]
        /\ UNCHANGED <<breaker, account, level, pass, deaths, moves>>

Acknowledge(r) ==
    /\ Move /\ alert[r].status = "open"
    /\ alert' = [alert EXCEPT ![r].status = "acknowledged"]
    /\ UNCHANGED <<breaker, account, level, work, pass, deaths>>

QuietElapses(r) ==
    /\ Move /\ alert[r].notified /\ ~alert[r].quiet
    /\ alert' = [alert EXCEPT ![r].quiet = TRUE]
    /\ UNCHANGED <<breaker, account, level, work, pass, deaths>>

BecomesOverdue(r) ==
    /\ Move /\ ~alert[r].overdue
    /\ alert' = [alert EXCEPT ![r].overdue = TRUE]
    /\ UNCHANGED <<breaker, account, level, work, pass, deaths>>

-----------------------------------------------------------------------------
(* The evaluation.                                                         *)

Resting == Doing(Evaluator, "idle") /\ pass.todo = {}

LevelMoves(c, l) ==
    /\ Move /\ level' = [level EXCEPT ![c] = l]
    /\ UNCHANGED <<breaker, account, alert, work, pass, deaths>>

Measure ==
    /\ Resting /\ ~pass.escalating /\ pass.late = {}
    /\ pass' = [todo |-> Conditions, seen |-> level, late |-> {}, escalating |-> TRUE]
    /\ UNCHANGED <<breaker, account, alert, level, work, deaths, moves>>

Evaluate(c) ==
    /\ Doing(Evaluator, "idle") /\ c \in pass.todo
    /\ pass' = [pass EXCEPT !.todo = @ \ {c}]
    /\ work' = [work EXCEPT ![Evaluator] = Task(IF pass.seen[c] = "none" THEN "clear" ELSE "raise", c, pass.seen[c], 0)]
    /\ UNCHANGED <<breaker, account, alert, level, deaths, moves>>

\* An alert that opens again after it was escalated is not escalated again.
Overdue == {r \in DOMAIN alert : alert[r].status = "open" /\ alert[r].severity = "critical" /\ alert[r].overdue /\ ~alert[r].escalated}

EscalateOverdue ==
    /\ Resting /\ pass.escalating
    /\ pass' = [pass EXCEPT !.late = Overdue, !.escalating = FALSE]
    /\ UNCHANGED <<breaker, account, alert, level, work, deaths, moves>>

\* Each is written by its identifier, acknowledged or cleared by then or not.
Escalate(r) ==
    /\ Resting /\ r \in pass.late
    /\ pass' = [pass EXCEPT !.late = @ \ {r}]
    /\ alert' = [alert EXCEPT ![r].escalated = TRUE]
    /\ work' = [work EXCEPT ![Evaluator] = Task("notify", None, "none", r)]
    /\ UNCHANGED <<breaker, account, level, deaths, moves>>

\* What a process has not written is not written; the evaluation starts again from the queue.
Dies(w) ==
    /\ deaths < MaxDeaths /\ ~Doing(w, "idle")
    /\ deaths' = deaths + 1
    /\ work' = [work EXCEPT ![w] = Idle]
    /\ pass' = IF w = Evaluator THEN [pass EXCEPT !.todo = {}, !.late = {}, !.escalating = FALSE] ELSE pass
    /\ UNCHANGED <<breaker, account, alert, level, moves>>

AlertStep(w) == Raise(w) \/ InsertAlert(w) \/ AdvanceAlert(w) \/ Clear(w) \/ ClearAlert(w) \/ Notify(w)
PassStep == Measure \/ (\E c \in Conditions : Evaluate(c)) \/ EscalateOverdue
            \/ (\E r \in DOMAIN alert : Escalate(r))

HealthNext ==
    \/ PassStep
    \/ \E w \in Processes : AlertStep(w) \/ Dies(w)
    \/ \E a \in Accounts, w \in Callers : RecordFailure(w, a) \/ RecordSuccess(w, a)
    \/ \E a \in Accounts : AllowProbe(a) \/ WindowPasses(a) \/ ProbeIntervalPasses(a)
    \/ \E a \in Accounts, s \in {"active", "suspended"} : SetStatus(a, s)
    \/ \E r \in DOMAIN alert : Acknowledge(r) \/ QuietElapses(r) \/ BecomesOverdue(r)
    \/ \E c \in Conditions, l \in {"none", "warning", "critical"} : LevelMoves(c, l)

\* A process goes on with what it began, and the evaluation is a recurring job.
HealthFairness == WF_healthVars(PassStep) /\ \A w \in Processes : WF_healthVars(AlertStep(w))

HealthSpec == HealthInit /\ [][HealthNext]_healthVars /\ HealthFairness

-----------------------------------------------------------------------------
\* Every variable has its type.
HealthTypeOK ==
    /\ \A a \in Accounts : /\ breaker[a].state \in {"closed", "open", "half_open"} /\ breaker[a].count \in 0..Failures
                           /\ account[a].status \in {"active", "degraded", "suspended"}
    /\ \A r \in DOMAIN alert : alert[r].about \in Fingerprints /\ alert[r].status \in {"open", "acknowledged", "cleared"}
    /\ \A w \in Processes : Doing(w, "notify") => work[w].row \in DOMAIN alert

\* A breaker that closes gives back only what a breaker took: an account an operator suspended stays
\* suspended through every failure, probe and late success.
SuspensionHolds == \A a \in Accounts : account[a].ordered = "suspended" <=> account[a].status = "suspended"

\* What an operator ordered of a provider account stands, whatever its breaker does
\* (circuit-breaker.ts); and every variable has its type.
OrdersStand == HealthTypeOK /\ SuspensionHolds

\* What the code does not keep: an account that recovered is active again, "one success closes it"
\* (circuit-breaker.ts).
RecoveredIsActive == \A a \in Accounts : account[a].status = "degraded" => breaker[a].state # "closed"

Untold(c) == \E r \in LiveAlerts(c) : ~alert[r].notified /\ alert[r].severity \in Heard

\* A measured condition's alert does not stay silent: whichever process died between writing the alert
\* and telling of it, the evaluation tells of it or clears it.
AlertsAreTold == \A c \in Conditions : Untold(c) ~> ~Untold(c)
==============================================================================
