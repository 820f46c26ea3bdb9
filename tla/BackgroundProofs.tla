---------------------------- MODULE BackgroundProofs ----------------------------
(***************************************************************************)
(* What the worker does unattended.  What the job queue keeps for the jobs *)
(* that re-arm themselves and what the delivery handler makes of its jobs, *)
(* for every number of slots, jobs, deliveries and losses: the argument    *)
(* goes in three layers, the rows of the table and what the slots know of  *)
(* them; the deliveries, their handlers and the job that carries each; and *)
(* what holds beyond that as long as no worker was lost or slow.  Then, at *)
(* the end, what an operator ordered of a provider account, for every      *)
(* number of accounts, alerts and processes.                               *)
(***************************************************************************)
EXTENDS NotificationDelivery, ProviderHealth, WellFoundedInduction, FiniteSetTheorems, TLAPS

-----------------------------------------------------------------------------
(***************************************************************************)
(* The table and the slots.                                                *)
(***************************************************************************)
\* A row is unused, a recurring job, which is live for ever, or a delivery's.
RowOK(x) ==
    \/ x = NoJob
    \/ /\ x.status # "absent"
       /\ \/ x.kind \in Recurring /\ x.about = None /\ x.status \in {"queued", "running"}
          \/ x.kind = DeliverKind /\ x.about \in Deliveries

OneOfAKind(jobs) ==
    \A i, j \in Ids : jobs[i].kind \in Recurring /\ jobs[i].kind = jobs[j].kind => i = j

TableOK == /\ job \in [Ids -> Job]
           /\ \A j \in Ids : RowOK(job[j])
           /\ OneOfAKind(job)

Seeded(jobs, k) == \E j \in Ids : jobs[j].kind = k

Holds(v) == v.stage \in {"running", "returned"}

\* What a slot knows of the table stays true of it.
SlotOK(v, jobs) ==
    /\ \A k \in v.seeded : Seeded(jobs, k)
    /\ v.stage \notin {"down", "seeding"} => \A k \in Recurring : Seeded(jobs, k)
    /\ Holds(v) => /\ v.id \in Ids /\ jobs[v.id].status # "absent"
                   /\ jobs[v.id].kind = DeliverKind => v.attempts >= 1
    /\ v.stage = "returned" =>
           v.outcome \in {"threw", IF jobs[v.id].kind \in Recurring THEN "again" ELSE "finished"}

SlotsOK == slot \in [Slots -> Slot] /\ \A s \in Slots : SlotOK(slot[s], job)

QueueInv == TableOK /\ SlotsOK /\ lost \in 0..MaxLosses

-----------------------------------------------------------------------------
\* Every step fills an unused row, moves a row on, or leaves the table alone.
Fills(j, x) ==
    /\ j \in Ids /\ job[j] = NoJob /\ job' = [job EXCEPT ![j] = x]
    /\ x \in Job /\ RowOK(x) /\ x.status = "queued"
    /\ x.kind \in Recurring => \A i \in Ids : job[i].kind # x.kind

Moves(j, x) ==
    /\ j \in Ids /\ job[j].status # "absent" /\ job' = [job EXCEPT ![j] = x]
    /\ x \in Job /\ x.status # "absent" /\ x.kind = job[j].kind /\ x.about = job[j].about
    /\ x.kind \in Recurring => x.status \in {"queued", "running"}

TableStep == job' = job \/ \E j \in Ids, x \in Job : Fills(j, x) \/ Moves(j, x)

\* Rows in use keep their kind and their subject.
Persists ==
    /\ DOMAIN job' = DOMAIN job
    /\ \A j \in Ids : job[j].status # "absent" =>
           job'[j].status # "absent" /\ job'[j].kind = job[j].kind /\ job'[j].about = job[j].about

LEMMA RowFields ==
    ASSUME NEW x \in Job, RowOK(x)
    PROVE  /\ x.kind \in Recurring => x.status \in {"queued", "running"} /\ x.about = None /\ x # NoJob
           /\ x.kind = DeliverKind => x.status # "absent" /\ x.about \in Deliveries /\ x # NoJob
           /\ x = NoJob <=> x.status = "absent"
           /\ x.status # "absent" => x.kind \in Recurring \/ x.kind = DeliverKind
           /\ DeliverKind \notin Recurring
BY QueueOK, DeliveryOK DEF RowOK, NoJob, Job, DeliverKind

LEMMA RowMoved ==
    ASSUME NEW x \in Job, NEW y \in Job, RowOK(x), x.status # "absent", y.status # "absent",
           y.kind = x.kind, y.about = x.about, y.kind \in Recurring => y.status \in {"queued", "running"}
    PROVE  RowOK(y)
BY DEF RowOK, NoJob

LEMMA TableKept ==
    ASSUME TableOK, TableStep
    PROVE  TableOK' /\ Persists
<1>1. CASE job' = job
  BY <1>1 DEF TableOK, Persists, OneOfAKind
<1>2. ASSUME NEW j \in Ids, NEW x \in Job, Fills(j, x) PROVE TableOK' /\ Persists
  <2>1. job' \in [Ids -> Job] /\ \A i \in Ids : job'[i] = IF i = j THEN x ELSE job[i]
    BY <1>2 DEF TableOK, Fills
  <2>2. \A i \in Ids : RowOK(job'[i])
    BY <1>2, <2>1 DEF TableOK, Fills
  <2>3. OneOfAKind(job')
    BY <1>2, <2>1 DEF TableOK, Fills, OneOfAKind
  <2>4. Persists
    BY <1>2, <2>1 DEF TableOK, Fills, Persists, NoJob
  <2> QED BY <2>1, <2>2, <2>3, <2>4 DEF TableOK
<1>3. ASSUME NEW j \in Ids, NEW x \in Job, Moves(j, x) PROVE TableOK' /\ Persists
  <2>1. job' \in [Ids -> Job] /\ \A i \in Ids : job'[i] = IF i = j THEN x ELSE job[i]
    BY <1>3 DEF TableOK, Moves
  <2>2. RowOK(x)
    BY <1>3, RowMoved DEF TableOK, Moves
  <2>3. \A i \in Ids : RowOK(job'[i])
    BY <2>1, <2>2 DEF TableOK
  <2>4. OneOfAKind(job')
    BY <1>3, <2>1 DEF TableOK, Moves, OneOfAKind
  <2>5. Persists
    BY <1>3, <2>1 DEF TableOK, Moves, Persists
  <2> QED BY <2>1, <2>3, <2>4, <2>5 DEF TableOK
<1> QED BY <1>1, <1>2, <1>3 DEF TableStep

LEMMA SeededKept ==
    ASSUME TableOK, Persists, NEW k \in Recurring, Seeded(job, k)
    PROVE  Seeded(job', k)
BY RowFields DEF Seeded, Persists, TableOK

LEMMA SlotKept ==
    ASSUME TableOK, Persists, NEW v \in Slot, SlotOK(v, job)
    PROVE  SlotOK(v, job')
<1>1. \A k \in v.seeded : Seeded(job', k)
  BY SeededKept DEF SlotOK, Slot
<1>2. v.stage \notin {"down", "seeding"} => \A k \in Recurring : Seeded(job', k)
  BY SeededKept DEF SlotOK
<1>3. Holds(v) => job'[v.id].status # "absent" /\ job'[v.id].kind = job[v.id].kind
  BY DEF SlotOK, Persists
<1> QED BY <1>1, <1>2, <1>3 DEF SlotOK, Holds

\* The row an insertion takes.
LEMMA LeastExists ==
    ASSUME NEW S, S \subseteq Nat, S # {}
    PROVE  Min(S) \in S
<1>1. PICK x \in S : \A y \in S : ~(<<y, x>> \in OpToRel(<, Nat))
  BY NatLessThanWellFounded, WFMin
<1>2. \A y \in S : ~(y < x)
  BY <1>1 DEF OpToRel
<1>3. \A y \in S : x =< y
  BY <1>2
<1> QED BY <1>3 DEF Min

NewJob(kind, about, due) ==
    [kind |-> kind, about |-> about, status |-> "queued", attempts |-> 0, due |-> due]

LEMMA EnqueuedStep ==
    ASSUME TableOK, NEW kind, NEW about, NEW due \in BOOLEAN,
           \/ kind \in Recurring /\ about = None
           \/ kind = DeliverKind /\ about \in Deliveries,
           Fits(job, kind, about), job' = Enqueued(job, kind, about, due)
    PROVE  /\ TableStep
           /\ TableOK' /\ Persists
           /\ Seeded(job', kind)
           /\ kind # DeliverKind => \A i \in Ids : job'[i].kind = DeliverKind => job'[i] = job[i]
           /\ kind = DeliverKind => \E j \in Ids : Fills(j, NewJob(kind, about, due))
           /\ \A i \in Ids : job[i].status # "absent" => job'[i] = job[i]
<1>1. kind \in Kinds /\ about \in Subjects \cup {None} /\ (kind \in Recurring <=> kind # DeliverKind)
  BY QueueOK, DeliveryOK
<1>2. NewJob(kind, about, due) \in Job /\ RowOK(NewJob(kind, about, due))
  BY <1>1 DEF NewJob, Job, JobStates, RowOK
<1>3. CASE KeyTaken(job, kind, about)
  <2>1. kind # DeliverKind
    BY <1>3, DeliveryOK DEF KeyTaken
  <2>2. job' = job /\ Seeded(job, kind)
    BY <1>3 DEF Enqueued, KeyTaken, Live, Seeded
  <2> QED BY <2>1, <2>2, TableKept DEF TableStep
<1>4. CASE ~KeyTaken(job, kind, about)
  <2>1. Unused(job) \subseteq Nat /\ Unused(job) # {}
    BY <1>4, QueueOK DEF Fits, Unused, Ids
  <2>2. PICK j : j = Min(Unused(job))
    OBVIOUS
  <2>3. j \in Ids /\ job[j] = NoJob
    BY <2>1, <2>2, LeastExists DEF Unused
  <2>4. job' = [job EXCEPT ![j] = NewJob(kind, about, due)]
    BY <1>4, <2>2 DEF Enqueued, NewJob
  <2>5. kind \in Recurring => \A i \in Ids : job[i].kind # kind
    <3> SUFFICES ASSUME kind \in Recurring, NEW i \in Ids, job[i].kind = kind PROVE FALSE
      OBVIOUS
    <3>1. job[i].status \in {"queued", "running"} /\ job[i].about = None
      BY RowFields DEF TableOK
    <3>2. about = None
      BY <1>1
    <3> QED BY <1>4, <3>1, <3>2, QueueOK DEF KeyTaken, Live
  <2>6. Fills(j, NewJob(kind, about, due))
    BY <1>2, <2>3, <2>4, <2>5 DEF Fills, NewJob
  <2>7. TableStep
    BY <1>2, <2>3, <2>6 DEF TableStep
  <2>8. Seeded(job', kind)
    BY <2>3, <2>4 DEF Seeded, NewJob, TableOK
  <2>9. kind # DeliverKind => \A i \in Ids : job'[i].kind = DeliverKind => job'[i] = job[i]
    BY <2>3, <2>4 DEF NewJob, TableOK
  <2>10. \A i \in Ids : job[i].status # "absent" => job'[i] = job[i]
    BY <2>3, <2>4 DEF NoJob, TableOK
  <2> QED BY <2>3, <2>6, <2>7, <2>8, <2>9, <2>10, TableKept
<1> QED BY <1>3, <1>4

\* One slot changes, the others see the table change.
LEMMA SlotWritten ==
    ASSUME TableOK, SlotsOK, Persists, NEW s \in Slots, NEW v \in Slot, SlotOK(v, job'),
           slot' = [slot EXCEPT ![s] = v]
    PROVE  SlotsOK'
<1>1. slot' \in [Slots -> Slot] /\ \A r \in Slots : slot'[r] = IF r = s THEN v ELSE slot[r]
  BY DEF SlotsOK
<1>2. ASSUME NEW r \in Slots PROVE SlotOK(slot'[r], job')
  <2>1. slot[r] \in Slot /\ SlotOK(slot[r], job)
    BY DEF SlotsOK
  <2>2. SlotOK(slot[r], job')
    BY <2>1, SlotKept
  <2> QED BY <1>1, <2>2
<1> QED BY <1>1, <1>2 DEF SlotsOK

LEMMA SlotsUnchanged ==
    ASSUME TableOK, SlotsOK, Persists, slot' = slot
    PROVE  SlotsOK'
<1>1. ASSUME NEW r \in Slots PROVE SlotOK(slot'[r], job')
  <2>1. slot[r] \in Slot /\ SlotOK(slot[r], job)
    BY DEF SlotsOK
  <2> QED BY <2>1, SlotKept
<1> QED BY <1>1 DEF SlotsOK

-----------------------------------------------------------------------------
(***************************************************************************)
(* The statements of the queue.                                            *)
(***************************************************************************)
LEMMA StillTable == TableOK /\ job' = job => TableOK' /\ Persists
BY TableKept DEF TableStep

LEMMA SlotRecords ==
    /\ Down \in Slot /\ Free \in Slot
    /\ Down.stage = "down" /\ Down.seeded = {} /\ Free.stage = "idle" /\ Free.seeded = {}
    /\ ~Holds(Down) /\ ~Holds(Free)
BY QueueOK DEF Down, Free, Slot, Holds

LEMMA SeedStep ==
    ASSUME QueueInv, NEW s \in Slots, NEW k \in Recurring, Seed(s, k)
    PROVE  /\ QueueInv' /\ Persists /\ lost' = lost
           /\ ~Holds(slot[s]) /\ ~Holds(slot'[s]) /\ \A r \in Slots : r # s => slot'[r] = slot[r]
           /\ \A i \in Ids : job'[i].kind = DeliverKind => job'[i] = job[i]
           /\ \A i \in Ids : job[i].status # "absent" => job'[i] = job[i]
<1> DEFINE v == [slot[s] EXCEPT !.stage = "seeding", !.seeded = @ \cup {k}]
<1>1. /\ TableOK' /\ Persists /\ Seeded(job', k)
      /\ \A i \in Ids : job'[i].kind = DeliverKind => job'[i] = job[i]
      /\ \A i \in Ids : job[i].status # "absent" => job'[i] = job[i]
  <2>1. k # DeliverKind
    BY QueueOK, DeliveryOK
  <2> QED BY <2>1, EnqueuedStep DEF Seed, QueueInv
<1>2. slot[s] \in Slot /\ SlotOK(slot[s], job) /\ slot[s].stage \in {"down", "seeding"}
  BY DEF QueueInv, SlotsOK, Seed, ComingUp
<1>3. SlotOK(slot[s], job')
  BY <1>1, <1>2, SlotKept DEF QueueInv
<1>4. v \in Slot /\ v.stage = "seeding" /\ v.seeded = slot[s].seeded \cup {k}
  BY <1>2 DEF Slot
<1>5. SlotOK(v, job')
  BY <1>1, <1>3, <1>4 DEF SlotOK, Holds
<1>6. slot' = [slot EXCEPT ![s] = v] /\ lost' = lost
  BY DEF Seed
<1> HIDE DEF v
<1>7. SlotsOK'
  BY <1>1, <1>4, <1>5, <1>6, SlotWritten DEF QueueInv
<1>8. \A r \in Slots : slot'[r] = IF r = s THEN v ELSE slot[r]
  BY <1>6 DEF QueueInv, SlotsOK
<1> QED BY <1>1, <1>2, <1>4, <1>6, <1>7, <1>8 DEF QueueInv, Holds

LEMMA StartStep ==
    ASSUME QueueInv, NEW s \in Slots, Start(s) \/ Stop(s)
    PROVE  /\ QueueInv' /\ Persists /\ lost' = lost /\ job' = job
           /\ ~Holds(slot[s]) /\ ~Holds(slot'[s]) /\ \A r \in Slots : r # s => slot'[r] = slot[r]
<1>1. TableOK' /\ Persists /\ job' = job /\ lost' = lost
  BY StillTable DEF Start, Stop, QueueInv
<1>2. slot[s] \in Slot /\ SlotOK(slot[s], job) /\ slot[s].stage \in {"down", "seeding", "idle"}
  BY SlotRecords DEF QueueInv, SlotsOK, Start, Stop, ComingUp
<1>3. PICK v \in {Down, Free} : slot' = [slot EXCEPT ![s] = v] /\ (v = Free => slot[s].seeded = Recurring)
  <2>1. CASE Start(s)
    BY <2>1, Zenon DEF Start
  <2>2. CASE Stop(s)
    <3>1. slot' = [slot EXCEPT ![s] = Down] /\ Down # Free
      BY <2>2, SlotRecords DEF Stop
    <3> WITNESS Down \in {Down, Free}
    <3> QED BY <3>1
  <2> QED BY <2>1, <2>2
<1>4. v \in Slot /\ SlotOK(v, job')
  BY <1>1, <1>2, <1>3, SlotRecords DEF SlotOK, Holds
<1>5. SlotsOK'
  BY <1>1, <1>3, <1>4, SlotWritten DEF QueueInv
<1>6. \A r \in Slots : slot'[r] = IF r = s THEN v ELSE slot[r]
  BY <1>3 DEF QueueInv, SlotsOK
<1> QED BY <1>1, <1>2, <1>3, <1>5, <1>6, SlotRecords DEF QueueInv, Holds

\* The row of a job moves on by itself.
LEMMA RowStep ==
    ASSUME QueueInv, NEW j \in Ids, FallDue(j) \/ Requeue(j), lost' \in 0..MaxLosses
    PROVE  /\ QueueInv' /\ Persists /\ slot' = slot
           /\ \A i \in Ids : i # j => job'[i] = job[i]
           /\ job[j].status \in {"queued", "running"} /\ job'[j].status = "queued"
<1>1. job[j] \in Job /\ job[j].status \in {"queued", "running"} /\ slot' = slot
  BY DEF QueueInv, TableOK, FallDue, Requeue
<1>2. PICK x \in Job : /\ job' = [job EXCEPT ![j] = x] /\ x.status = "queued"
                       /\ x.kind = job[j].kind /\ x.about = job[j].about
  <2>1. CASE FallDue(j)
    <3>1. [job[j] EXCEPT !.due = TRUE] \in Job /\ job' = [job EXCEPT ![j] = [job[j] EXCEPT !.due = TRUE]]
      BY <1>1, <2>1 DEF FallDue, Job
    <3>2. job[j].status = "queued"
      BY <2>1 DEF FallDue
    <3> QED BY <1>1, <3>1, <3>2 DEF Job
  <2>2. CASE Requeue(j)
    <3>1. /\ [job[j] EXCEPT !.status = "queued"] \in Job
          /\ job' = [job EXCEPT ![j] = [job[j] EXCEPT !.status = "queued"]]
      BY <1>1, <2>2 DEF Requeue, Job, JobStates
    <3> QED BY <1>1, <3>1 DEF Job
  <2> QED BY <2>1, <2>2
<1>3. Moves(j, x)
  BY <1>1, <1>2 DEF Moves
<1>4. TableOK' /\ Persists
  BY <1>3, TableKept DEF TableStep, QueueInv
<1>5. job'[j] = x /\ \A i \in Ids : i # j => job'[i] = job[i]
  BY <1>2 DEF QueueInv, TableOK
<1> QED BY <1>1, <1>2, <1>4, <1>5, SlotsUnchanged DEF QueueInv

LEMMA ClaimStep ==
    ASSUME QueueInv, NEW s \in Slots, NEW j \in Ids, Claim(s, j)
    PROVE  /\ QueueInv' /\ Persists
           /\ ~Holds(slot[s]) /\ slot'[s].stage = "running" /\ slot'[s].id = j
           /\ \A r \in Slots : r # s => slot'[r] = slot[r]
           /\ \A i \in Ids : i # j => job'[i] = job[i]
           /\ job[j].status = "queued" /\ job'[j].status = "running" /\ lost' = lost
<1> DEFINE n == IF job[j].kind \in Recurring THEN 0 ELSE job[j].attempts + 1
           x == [job[j] EXCEPT !.status = "running", !.attempts = n]
           v == [stage |-> "running", id |-> j, attempts |-> n, outcome |-> "none", seeded |-> {}]
<1>1. job[j] \in Job /\ job[j].status = "queued" /\ slot[s] = Free
  BY DEF QueueInv, TableOK, Claim
<1>2. n \in Nat /\ (job[j].kind = DeliverKind => n >= 1)
  <2>1. DeliverKind \notin Recurring
    BY QueueOK, DeliveryOK
  <2> QED BY <1>1, <2>1 DEF Job
<1>3. job' = [job EXCEPT ![j] = x] /\ slot' = [slot EXCEPT ![s] = v] /\ lost' = lost
  BY <1>1 DEF Claim, QueueInv, TableOK
<1> HIDE DEF n
<1>4. x \in Job /\ x.status = "running" /\ x.kind = job[j].kind /\ x.about = job[j].about
  BY <1>1, <1>2 DEF Job, JobStates
<1>5. v \in Slot /\ v.stage = "running" /\ v.id = j /\ v.attempts = n /\ v.seeded = {}
  <2>1. j \in 0..MaxJobs
    BY QueueOK DEF Ids
  <2> QED BY <1>2, <2>1 DEF Slot
<1> HIDE DEF x, v
<1>6. Moves(j, x)
  BY <1>1, <1>3, <1>4 DEF Moves
<1>7. TableOK' /\ Persists
  BY <1>4, <1>6, TableKept DEF TableStep, QueueInv
<1>8. job'[j] = x /\ \A i \in Ids : i # j => job'[i] = job[i]
  BY <1>3 DEF QueueInv, TableOK
<1>9. SlotOK(slot[s], job) /\ SlotOK(slot[s], job')
  BY <1>1, <1>7, SlotRecords, SlotKept DEF QueueInv, SlotsOK
<1>10. SlotOK(v, job')
  BY <1>1, <1>2, <1>4, <1>5, <1>8, <1>9, SlotRecords DEF SlotOK, Holds
<1>11. SlotsOK'
  BY <1>3, <1>5, <1>7, <1>10, SlotWritten DEF QueueInv
<1>12. \A r \in Slots : slot'[r] = IF r = s THEN v ELSE slot[r]
  BY <1>3 DEF QueueInv, SlotsOK
<1> QED BY <1>1, <1>3, <1>4, <1>5, <1>7, <1>8, <1>11, <1>12, SlotRecords DEF QueueInv

\* A table whose jobs are these and the kinds its rows have is never refused: of the jobs that have a
\* key there is one each.
LEMMA AlwaysAdmitted ==
    ASSUME QueueInv, NEW jobs, \A i \in Ids : jobs[i].kind = job[i].kind
    PROVE  Admitted(jobs)
<1> SUFFICES ASSUME NEW i \in Ids, NEW k \in Ids, jobs[i].kind \in Keyed, jobs[i].kind = jobs[k].kind
             PROVE  i = k
  BY DEF Admitted, Live
<1>1. RowOK(job[i]) /\ job[i] \in Job /\ job[i].kind \in Keyed /\ job[i].kind = job[k].kind
  BY DEF QueueInv, TableOK
<1>2. job[i].kind # None /\ job[i].kind # DeliverKind
  BY <1>1, QueueOK, DeliveryOK
<1>3. job[i].kind \in Recurring
  BY <1>1, <1>2 DEF RowOK, NoJob
<1> QED BY <1>1, <1>3 DEF QueueInv, TableOK, OneOfAKind

\* What complete, reschedule or fail makes of the slot's job: a delivery's is over, dead if it threw.
RecordedAs(s, j, x) ==
    /\ Recorded(s) = [job EXCEPT ![j] = x]
    /\ x \in Job /\ x.kind = job[j].kind /\ x.about = job[j].about /\ x.status # "absent"
    /\ x.kind \in Recurring => x.status = "queued"
    /\ x.kind = DeliverKind /\ slot[s].outcome # "finished" => x.status = "dead"
    /\ x.kind = DeliverKind => x.status \in {"done", "dead"}

LEMMA RecordedRow ==
    ASSUME QueueInv, NEW s \in Slots, slot[s].stage = "returned"
    PROVE  /\ slot[s].id \in Ids /\ job[slot[s].id].status # "absent"
           /\ \E x : RecordedAs(s, slot[s].id, x)
<1> DEFINE v == slot[s]  j == v.id
<1>1. /\ v \in Slot /\ SlotOK(v, job) /\ j \in Ids /\ job[j] \in Job /\ job[j].status # "absent"
  BY DEF QueueInv, SlotsOK, TableOK, SlotOK, Holds
<1>2. DeliverKind \notin Recurring /\ MaxAttempts[DeliverKind] = 1
  BY QueueOK, DeliveryOK
<1>3. v.outcome \in {"threw", IF job[j].kind \in Recurring THEN "again" ELSE "finished"}
  BY <1>1 DEF SlotOK
<1>4. CASE v.outcome = "finished"
  <2> DEFINE x == [job[j] EXCEPT !.status = "done"]
  <2>1. Recorded(s) = [job EXCEPT ![j] = x]
    BY <1>4 DEF Recorded, Complete
  <2>2. x \in Job /\ x.kind = job[j].kind /\ x.about = job[j].about /\ x.status = "done"
    BY <1>1 DEF Job, JobStates
  <2>3. x.kind \notin Recurring
    BY <1>3, <1>4, <2>2
  <2>4. RecordedAs(s, j, x)
    BY <1>4, <2>1, <2>2, <2>3 DEF RecordedAs
  <2> QED BY <1>1, <2>4
<1>5. CASE v.outcome = "again"
  <2> DEFINE x == [job[j] EXCEPT !.status = "queued", !.due = FALSE, !.attempts = 0]
  <2>1. Recorded(s) = [job EXCEPT ![j] = x]
    BY <1>5 DEF Recorded, Reschedule
  <2>2. x \in Job /\ x.kind = job[j].kind /\ x.about = job[j].about /\ x.status = "queued"
    BY <1>1 DEF Job, JobStates
  <2>3. x.kind # DeliverKind
    BY <1>2, <1>3, <1>5, <2>2
  <2>4. RecordedAs(s, j, x)
    BY <2>1, <2>2, <2>3 DEF RecordedAs
  <2> QED BY <1>1, <2>4
<1>6. CASE v.outcome = "threw"
  <2>1. Recorded(s) = Fail(j, v.attempts)
    BY <1>6 DEF Recorded
  <2>2. CASE job[j].kind \notin Recurring /\ v.attempts >= MaxAttempts[job[j].kind]
    <3> DEFINE x == [job[j] EXCEPT !.status = "dead"]
    <3>1. Recorded(s) = [job EXCEPT ![j] = x]
      BY <2>1, <2>2 DEF Fail
    <3>2. x \in Job /\ x.kind = job[j].kind /\ x.about = job[j].about /\ x.status = "dead"
      BY <1>1 DEF Job, JobStates
    <3>3. RecordedAs(s, j, x)
      BY <2>2, <3>1, <3>2 DEF RecordedAs
    <3> QED BY <1>1, <3>3
  <2>3. CASE ~(job[j].kind \notin Recurring /\ v.attempts >= MaxAttempts[job[j].kind])
    <3> DEFINE x == [job[j] EXCEPT !.status = "queued", !.due = FALSE]
    <3>1. Recorded(s) = [job EXCEPT ![j] = x]
      BY <2>1, <2>3 DEF Fail
    <3>2. x \in Job /\ x.kind = job[j].kind /\ x.about = job[j].about /\ x.status = "queued"
      BY <1>1 DEF Job, JobStates
    <3>3. job[j].kind # DeliverKind
      BY <1>1, <1>2, <2>3 DEF SlotOK, Holds
    <3>4. RecordedAs(s, j, x)
      BY <3>1, <3>2, <3>3 DEF RecordedAs
    <3> QED BY <1>1, <3>4
  <2> QED BY <2>2, <2>3
<1> QED BY <1>3, <1>4, <1>5, <1>6

LEMMA RecordedAdmitted ==
    ASSUME QueueInv, NEW s \in Slots, slot[s].stage = "returned"
    PROVE  Admitted(Recorded(s))
<1>1. PICK x : slot[s].id \in Ids /\ RecordedAs(s, slot[s].id, x)
  BY RecordedRow
<1>2. \A i \in Ids : Recorded(s)[i].kind = job[i].kind
  BY <1>1 DEF RecordedAs, QueueInv, TableOK
<1> QED BY <1>2, AlwaysAdmitted

LEMMA RecordStep ==
    ASSUME QueueInv, NEW s \in Slots, Record(s)
    PROVE  /\ QueueInv' /\ Persists /\ lost' = lost
           /\ slot[s].stage = "returned" /\ slot[s].id \in Ids /\ slot'[s] = Free
           /\ \A r \in Slots : r # s => slot'[r] = slot[r]
           /\ \A i \in Ids : i # slot[s].id => job'[i] = job[i]
           /\ job[slot[s].id].kind = DeliverKind /\ slot[s].outcome # "finished" =>
                  job'[slot[s].id].status = "dead"
           /\ job[slot[s].id].kind = DeliverKind =>
                  job'[slot[s].id].status \in {"done", "dead"}
<1> DEFINE v == slot[s]  j == v.id
<1>1. v \in Slot /\ SlotOK(v, job) /\ v.stage = "returned" /\ j \in Ids /\ job[j].status # "absent"
  BY RecordedRow DEF QueueInv, SlotsOK, Record
<1>2. job' = Recorded(s) /\ slot' = [slot EXCEPT ![s] = Free] /\ lost' = lost
  BY DEF Record
<1>3. PICK x : RecordedAs(s, j, x)
  BY <1>1, RecordedRow
<1> HIDE DEF v
<1>4. Moves(j, x)
  BY <1>1, <1>2, <1>3 DEF Moves, RecordedAs
<1>5. TableOK' /\ Persists
  BY <1>1, <1>3, <1>4, TableKept DEF TableStep, QueueInv, RecordedAs
<1>6. job'[j] = x /\ \A i \in Ids : i # j => job'[i] = job[i]
  BY <1>1, <1>2, <1>3 DEF QueueInv, TableOK, RecordedAs
<1>7. SlotOK(v, job')
  BY <1>1, <1>5, SlotKept DEF QueueInv
<1>8. SlotOK(Free, job')
  BY <1>1, <1>7, SlotRecords DEF SlotOK, Holds
<1>9. SlotsOK'
  BY <1>2, <1>5, <1>8, SlotRecords, SlotWritten DEF QueueInv
<1>10. \A r \in Slots : slot'[r] = IF r = s THEN Free ELSE slot[r]
  BY <1>2 DEF QueueInv, SlotsOK
<1>11. QueueInv'
  BY <1>2, <1>5, <1>9 DEF QueueInv
<1> QED BY <1>1, <1>2, <1>3, <1>5, <1>6, <1>10, <1>11 DEF v, RecordedAs

LEMMA SlotLeaves ==
    ASSUME QueueInv, NEW s \in Slots, RecordRefused(s) \/ Die(s)
    PROVE  /\ QueueInv' /\ Persists /\ job' = job
           /\ \A r \in Slots : r # s => slot'[r] = slot[r]
           /\ \/ slot'[s] = Down
              \/ /\ slot[s].stage = "returned"
                 /\ slot'[s] = [slot[s] EXCEPT !.outcome = "threw"]
           /\ lost' = lost + 1
<1> DEFINE threw == [slot[s] EXCEPT !.outcome = "threw"]
<1>1. lost' \in 0..MaxLosses /\ lost' = lost + 1 /\ job' = job
  <2>1. CASE Die(s)
    BY <2>1, QueueOK DEF QueueInv, Die
  <2>2. CASE RecordRefused(s)
    <3>1. Admitted(Recorded(s))
      BY <2>2, RecordedAdmitted DEF RecordRefused
    <3> QED BY <2>2, <3>1, QueueOK DEF QueueInv, RecordRefused
  <2> QED BY <2>1, <2>2
<1>2. TableOK' /\ Persists
  BY <1>1, StillTable DEF QueueInv
<1>3. slot[s] \in Slot /\ SlotOK(slot[s], job')
  BY <1>1 DEF QueueInv, SlotsOK
<1>4. PICK v : /\ slot' = [slot EXCEPT ![s] = v]
               /\ v = Down \/ (v = threw /\ slot[s].stage = "returned")
  BY <1>3 DEF Die, RecordRefused, QueueInv, SlotsOK
<1>5. threw \in Slot /\ threw.stage = slot[s].stage /\ threw.id = slot[s].id /\ threw.outcome = "threw"
      /\ threw.attempts = slot[s].attempts /\ threw.seeded = slot[s].seeded
  BY <1>3 DEF Slot
<1> HIDE DEF threw
<1>6. v \in Slot
  BY <1>4, <1>5, SlotRecords
<1>7. CASE v = Down
  <2>1. SlotOK(v, job')
    BY <1>7, SlotRecords DEF SlotOK, Holds
  <2>2. SlotsOK' /\ \A r \in Slots : slot'[r] = IF r = s THEN v ELSE slot[r]
    BY <1>2, <1>4, <1>6, <2>1, SlotWritten DEF QueueInv, SlotsOK
  <2> QED BY <1>1, <1>2, <1>7, <2>2 DEF QueueInv
<1>8. CASE v = threw /\ slot[s].stage = "returned"
  <2>1. SlotOK(v, job')
    BY <1>3, <1>5, <1>8 DEF SlotOK, Holds
  <2>2. SlotsOK' /\ \A r \in Slots : slot'[r] = IF r = s THEN v ELSE slot[r]
    BY <1>2, <1>4, <1>6, <2>1, SlotWritten DEF QueueInv, SlotsOK
  <2> QED BY <1>1, <1>2, <1>8, <2>2 DEF QueueInv, threw
<1> QED BY <1>4, <1>7, <1>8

\* A handler is over.
LEMMA ReturnStep ==
    ASSUME QueueInv, NEW s \in Slots, NEW outcome, Return(s, outcome),
           TableOK', Persists, lost' = lost
    PROVE  /\ QueueInv'
           /\ slot[s].stage = "running" /\ slot[s].id \in Ids /\ job[slot[s].id].status # "absent"
           /\ slot'[s].stage = "returned" /\ slot'[s].id = slot[s].id /\ slot'[s].outcome = outcome
           /\ \A r \in Slots : r # s => slot'[r] = slot[r]
<1> DEFINE v == [slot[s] EXCEPT !.stage = "returned", !.outcome = outcome]
<1>1. slot[s] \in Slot /\ SlotOK(slot[s], job) /\ slot[s].stage = "running"
  BY DEF QueueInv, SlotsOK, Return
<1>2. slot[s].id \in Ids /\ job[slot[s].id].status # "absent"
      /\ job'[slot[s].id].kind = job[slot[s].id].kind
  BY <1>1 DEF SlotOK, Holds, Persists
<1>3. SlotOK(slot[s], job')
  BY <1>1, SlotKept DEF QueueInv
<1>4. outcome \in {"threw", IF job[slot[s].id].kind \in Recurring THEN "again" ELSE "finished"}
  BY DEF Return
<1>5. v \in Slot /\ v.stage = "returned" /\ v.id = slot[s].id /\ v.outcome = outcome
      /\ v.attempts = slot[s].attempts /\ v.seeded = slot[s].seeded
  BY <1>1, <1>4 DEF Slot
<1>6. slot' = [slot EXCEPT ![s] = v]
  BY DEF Return
<1> HIDE DEF v
<1>7. SlotOK(v, job')
  BY <1>1, <1>2, <1>3, <1>4, <1>5 DEF SlotOK, Holds
<1>8. SlotsOK' /\ \A r \in Slots : slot'[r] = IF r = s THEN v ELSE slot[r]
  BY <1>5, <1>6, <1>7, SlotWritten DEF QueueInv, SlotsOK
<1> QED BY <1>1, <1>2, <1>5, <1>8 DEF QueueInv

-----------------------------------------------------------------------------
(***************************************************************************)
(* Deliveries, their handlers and the jobs that carry them.                *)
(***************************************************************************)
DeliveriesTyped ==
    /\ delivery \in [Deliveries -> Delivery]
    /\ handler \in [Slots -> Handler]
    /\ active \in BOOLEAN
    /\ posts \in [Deliveries -> Nat]

\* The attempt a handler is at was made, or is about to be.
HandlerOK(s) ==
    handler[s].stage # "none" =>
        /\ Delivering(s)
        /\ handler[s].stage = "post" => handler[s].attempt <= posts[Subject(s)] + 1
        /\ handler[s].stage = "save" => handler[s].attempt <= posts[Subject(s)]
        /\ handler[s].stage # "retry" /\ ~handler[s].active => ~active

DeliveryCounted(d) ==
    /\ delivery[d].attempt <= posts[d]
    /\ delivery[d].status = "exhausted" => posts[d] >= MaxTries \/ ~active

\* A row that is the delivery's job, and no slot is about to record it as finished.
IsJobOf(j, d) == j \in Ids /\ job[j].kind = DeliverKind /\ job[j].about = d
FinishedBy(s, j) == slot[s].stage = "returned" /\ slot[s].id = j /\ slot[s].outcome = "finished"
Carries(j, d) ==
    /\ IsJobOf(j, d)
    /\ job[j].status \in {"queued", "running", "dead"}
    /\ \A s \in Slots : ~FinishedBy(s, j)

\* A delivery that is not there yet has no job.
NotYet(d) == delivery[d].status = "absent" => \A j \in Ids : ~IsJobOf(j, d)

DeliveryInv ==
    /\ QueueInv
    /\ DeliveriesTyped
    /\ \A s \in Slots : HandlerOK(s)
    /\ \A d \in Deliveries : DeliveryCounted(d)
    /\ \A d \in Deliveries : delivery[d].status = "pending" => \E j \in Ids : Carries(j, d)
    /\ \A d \in Deliveries : NotYet(d)

\* As long as nothing was lost: a slot holds a running job of its own.
HeldOnce ==
    /\ \A s \in Slots : Holds(slot[s]) => job[slot[s].id].status = "running"
    /\ \A r, s \in Slots : Holds(slot[r]) /\ Holds(slot[s]) /\ slot[r].id = slot[s].id => r = s

\* One job at a time is queued or run for a delivery,
Carrying(j, d) ==
    /\ IsJobOf(j, d)
    /\ job[j].status \in {"queued", "running"}
    /\ \A s \in Slots : ~(slot[s].stage = "returned" /\ slot[s].id = j)

OneCarrier == \A d \in Deliveries : \A i, j \in Ids : Carrying(i, d) /\ Carrying(j, d) => i = j

\* and the delivery's row knows of every request but the one its handler has just made.
Saving(j) == \E s \in Slots : slot[s].stage = "running" /\ slot[s].id = j /\ handler[s].stage = "save"

Tallied(d) ==
    /\ posts[d] <= MaxTries /\ delivery[d].attempt <= MaxTries
    /\ delivery[d].status = "pending" => delivery[d].attempt < MaxTries
    /\ delivery[d].status = "absent" => posts[d] = 0 /\ delivery[d].attempt = 0
    /\ \A j \in Ids : Carrying(j, d) /\ ~Saving(j) => posts[d] = delivery[d].attempt

HandlerTallies(s) ==
    /\ handler[s].stage = "post" => /\ handler[s].attempt = delivery[Subject(s)].attempt + 1
                                    /\ handler[s].attempt <= MaxTries
    /\ handler[s].stage = "save" => handler[s].attempt = posts[Subject(s)]

AllCounted == \A d \in Deliveries : Tallied(d)
HandlersCount == \A s \in Slots : HandlerTallies(s)

Lossless == HeldOnce /\ OneCarrier /\ AllCounted /\ HandlersCount

Inv == DeliveryInv /\ (lost = 0 => Lossless)

-----------------------------------------------------------------------------
(***************************************************************************)
(* Steps of the queue, which no handler takes part in.                     *)
(***************************************************************************)
LEMMA SubjectOf ==
    ASSUME DeliveryInv, NEW s \in Slots, Delivering(s)
    PROVE  /\ slot[s] \in Slot /\ slot[s].id \in Ids /\ job[slot[s].id] \in Job
           /\ IsJobOf(slot[s].id, Subject(s)) /\ job[slot[s].id].status # "absent"
           /\ Subject(s) \in Deliveries
           /\ delivery[Subject(s)] \in Delivery /\ delivery[Subject(s)].status # "absent"
           /\ posts[Subject(s)] \in Nat
           /\ handler[s] \in Handler
<1>1. slot[s] \in Slot /\ slot[s].id \in Ids /\ job[slot[s].id].status # "absent"
  BY DEF DeliveryInv, QueueInv, SlotsOK, SlotOK, Holds, Delivering
<1>2. job[slot[s].id] \in Job /\ RowOK(job[slot[s].id]) /\ job[slot[s].id].kind = DeliverKind
  BY <1>1 DEF DeliveryInv, QueueInv, TableOK, Delivering
<1>3. IsJobOf(slot[s].id, Subject(s)) /\ Subject(s) \in Deliveries
  BY <1>1, <1>2, RowFields DEF IsJobOf, Subject
<1>4. delivery[Subject(s)] \in Delivery /\ posts[Subject(s)] \in Nat /\ handler[s] \in Handler
  BY <1>3 DEF DeliveryInv, DeliveriesTyped
<1>5. delivery[Subject(s)].status # "absent"
  BY <1>1, <1>3 DEF DeliveryInv, NotYet
<1> QED BY <1>1, <1>2, <1>3, <1>4, <1>5

\* A handler that goes on is at the same job for the same delivery.
LEMMA StillDelivering ==
    ASSUME DeliveryInv, Persists, NEW s \in Slots, Delivering(s), slot'[s] = slot[s]
    PROVE  Delivering(s)' /\ Subject(s)' = Subject(s)
<1>1. slot[s].id \in Ids /\ job[slot[s].id].status # "absent"
  BY SubjectOf
<1> QED BY <1>1 DEF Persists, Delivering, Subject

LEMMA JobPersists ==
    ASSUME DeliveryInv, Persists, NEW d \in Deliveries, NEW j, IsJobOf(j, d)
    PROVE  IsJobOf(j, d)'
<1>1. j \in Ids /\ RowOK(job[j]) /\ job[j] \in Job
  BY DEF DeliveryInv, QueueInv, TableOK, IsJobOf
<1>2. job[j].status # "absent"
  BY <1>1, RowFields DEF IsJobOf
<1> QED BY <1>1, <1>2 DEF IsJobOf, Persists

LEMMA CarryKept ==
    ASSUME DeliveryInv, Persists, NEW d \in Deliveries, NEW j \in Ids, Carries(j, d),
           job'[j].status \in {"queued", "running", "dead"},
           \A s \in Slots : FinishedBy(s, j)' => FinishedBy(s, j)
    PROVE  Carries(j, d)'
BY JobPersists DEF Carries

Quiet ==
    /\ UNCHANGED deliveryVars
    /\ \A s \in Slots : handler[s].stage # "none" => slot'[s] = slot[s]

LEMMA QuietStep ==
    ASSUME DeliveryInv, QueueInv', Persists, Quiet,
           \A d \in Deliveries : \A j \in Ids : Carries(j, d) => Carries(j, d)',
           \A d \in Deliveries : \A j \in Ids : IsJobOf(j, d)' => IsJobOf(j, d)
    PROVE  DeliveryInv'
<1>1. UNCHANGED <<delivery, handler, active, posts>>
  BY DEF Quiet, deliveryVars
<1>2. DeliveriesTyped'
  BY <1>1 DEF DeliveryInv, DeliveriesTyped
<1>3. ASSUME NEW s \in Slots PROVE HandlerOK(s)'
  <2>1. CASE handler[s].stage = "none"
    BY <1>1, <2>1 DEF HandlerOK
  <2>2. CASE handler[s].stage # "none"
    <3>1. HandlerOK(s) /\ Delivering(s) /\ slot'[s] = slot[s]
      BY <2>2 DEF DeliveryInv, HandlerOK, Quiet
    <3>2. Delivering(s)' /\ Subject(s)' = Subject(s)
      BY <3>1, StillDelivering
    <3> QED BY <1>1, <2>2, <3>1, <3>2 DEF HandlerOK
  <2> QED BY <2>1, <2>2
<1>4. \A d \in Deliveries : DeliveryCounted(d)'
  BY <1>1 DEF DeliveryInv, DeliveryCounted
<1>5. \A d \in Deliveries : delivery'[d].status = "pending" => \E j \in Ids : Carries(j, d)'
  BY <1>1 DEF DeliveryInv
<1>6. \A d \in Deliveries : NotYet(d)'
  BY <1>1 DEF DeliveryInv, NotYet
<1> QED BY <1>2, <1>3, <1>4, <1>5, <1>6 DEF DeliveryInv

LEMMA QuietLossless ==
    ASSUME DeliveryInv, Lossless, Persists, Quiet, HeldOnce',
           \A d \in Deliveries : \A j \in Ids : Carrying(j, d)' => Carrying(j, d)
    PROVE  Lossless'
<1>1. UNCHANGED <<delivery, handler, active, posts>>
  BY DEF Quiet, deliveryVars
<1>2. OneCarrier'
  BY DEF Lossless, OneCarrier
<1>3. \A j \in Ids : Saving(j) => Saving(j)'
  BY <1>1 DEF Quiet, Saving
<1>4. AllCounted'
  BY <1>1, <1>3 DEF Lossless, AllCounted, Tallied
<1>5. ASSUME NEW s \in Slots, handler'[s].stage # "none" PROVE Subject(s)' = Subject(s)
  <2>1. Delivering(s) /\ slot'[s] = slot[s]
    BY <1>1, <1>5 DEF DeliveryInv, HandlerOK, Quiet
  <2> QED BY <2>1, StillDelivering
<1>6. HandlersCount'
  BY <1>1, <1>5 DEF Lossless, HandlersCount, HandlerTallies
<1> QED BY <1>2, <1>4, <1>6 DEF Lossless

\* The slots with a handler at work do not change where the slot that changes was not running.
LEMMA QuietOf ==
    ASSUME DeliveryInv, UNCHANGED deliveryVars, NEW s \in Slots, slot[s].stage # "running",
           \A r \in Slots : r # s => slot'[r] = slot[r]
    PROVE  Quiet
BY DEF Quiet, DeliveryInv, HandlerOK, Delivering

LEMMA QuietAll ==
    ASSUME UNCHANGED deliveryVars, slot' = slot
    PROVE  Quiet
BY DEF Quiet

LEMMA SeedKeeps ==
    ASSUME Inv, NEW s \in Slots, NEW k \in Recurring, Queue(Seed(s, k))
    PROVE  Inv'
<1>1. /\ QueueInv' /\ Persists /\ lost' = lost
      /\ ~Holds(slot[s]) /\ ~Holds(slot'[s]) /\ \A r \in Slots : r # s => slot'[r] = slot[r]
      /\ \A i \in Ids : job'[i].kind = DeliverKind => job'[i] = job[i]
      /\ \A i \in Ids : job[i].status # "absent" => job'[i] = job[i]
  BY SeedStep DEF Inv, DeliveryInv, Queue
<1>2. Quiet /\ DeliveryInv
  BY <1>1, QuietOf DEF Inv, Queue, Holds
<1>3. ASSUME NEW d \in Deliveries, NEW j \in Ids, Carries(j, d) PROVE Carries(j, d)'
  <2>1. job'[j] = job[j]
    BY <1>1, <1>3 DEF Carries
  <2>2. \A r \in Slots : FinishedBy(r, j)' => FinishedBy(r, j)
    BY <1>1 DEF FinishedBy, Holds
  <2> QED BY <1>1, <1>2, <1>3, <2>1, <2>2, CarryKept DEF Carries
<1>4. \A d \in Deliveries : \A j \in Ids : IsJobOf(j, d)' => IsJobOf(j, d)
  BY <1>1 DEF IsJobOf
<1>5. DeliveryInv'
  BY <1>1, <1>2, <1>3, <1>4, QuietStep
<1>6. ASSUME Lossless PROVE Lossless'
  <2>1. HeldOnce'
    <3>1. \A r \in Slots : Holds(slot'[r]) => slot'[r] = slot[r]
      BY <1>1
    <3>2. \A r \in Slots : Holds(slot[r]) => slot[r].id \in Ids /\ job[slot[r].id].status # "absent"
      BY DEF Inv, DeliveryInv, QueueInv, SlotsOK, SlotOK
    <3>3. \A r \in Slots : Holds(slot'[r]) => job'[slot'[r].id].status = "running"
      BY <1>1, <1>6, <3>1, <3>2 DEF Lossless, HeldOnce
    <3> QED BY <1>6, <3>1, <3>3 DEF Lossless, HeldOnce
  <2>2. ASSUME NEW d \in Deliveries, NEW j \in Ids, Carrying(j, d)' PROVE Carrying(j, d)
    <3>1. job'[j] = job[j]
      BY <1>1, <2>2 DEF Carrying, IsJobOf
    <3> QED BY <1>1, <2>2, <3>1 DEF Carrying, IsJobOf, Holds
  <2> QED BY <1>1, <1>2, <1>6, <2>1, <2>2, QuietLossless
<1> QED BY <1>1, <1>5, <1>6 DEF Inv

LEMMA StartKeeps ==
    ASSUME Inv, NEW s \in Slots, Queue(Start(s)) \/ Queue(Stop(s))
    PROVE  Inv'
<1>1. /\ QueueInv' /\ Persists /\ lost' = lost /\ job' = job
      /\ ~Holds(slot[s]) /\ ~Holds(slot'[s]) /\ \A r \in Slots : r # s => slot'[r] = slot[r]
  BY StartStep DEF Inv, DeliveryInv, Queue
<1>2. Quiet /\ DeliveryInv
  BY <1>1, QuietOf DEF Inv, Queue, Holds
<1>3. ASSUME NEW d \in Deliveries, NEW j \in Ids, Carries(j, d) PROVE Carries(j, d)'
  <2>1. \A r \in Slots : FinishedBy(r, j)' => FinishedBy(r, j)
    BY <1>1 DEF FinishedBy, Holds
  <2> QED BY <1>1, <1>2, <1>3, <2>1, CarryKept DEF Carries
<1>4. DeliveryInv'
  BY <1>1, <1>2, <1>3, QuietStep DEF IsJobOf
<1>5. ASSUME Lossless PROVE Lossless'
  <2>1. HeldOnce'
    <3>1. \A r \in Slots : Holds(slot'[r]) => slot'[r] = slot[r]
      BY <1>1
    <3> QED BY <1>1, <1>5, <3>1 DEF Lossless, HeldOnce
  <2>2. \A d \in Deliveries : \A j \in Ids : Carrying(j, d)' => Carrying(j, d)
    BY <1>1 DEF Carrying, IsJobOf, Holds
  <2> QED BY <1>1, <1>2, <1>5, <2>1, <2>2, QuietLossless
<1> QED BY <1>1, <1>4, <1>5 DEF Inv

LEMMA ClaimKeeps ==
    ASSUME Inv, NEW s \in Slots, NEW j \in Ids, Queue(Claim(s, j))
    PROVE  Inv'
<1>1. /\ QueueInv' /\ Persists /\ lost' = lost
      /\ ~Holds(slot[s]) /\ slot'[s].stage = "running" /\ slot'[s].id = j
      /\ \A r \in Slots : r # s => slot'[r] = slot[r]
      /\ \A i \in Ids : i # j => job'[i] = job[i]
      /\ job[j].status = "queued" /\ job'[j].status = "running"
  BY ClaimStep DEF Inv, DeliveryInv, Queue
<1>2. Quiet /\ DeliveryInv
  BY <1>1, QuietOf DEF Inv, Queue, Holds
<1>3. ASSUME NEW d \in Deliveries, NEW i \in Ids, Carries(i, d) PROVE Carries(i, d)'
  <2>1. \A r \in Slots : FinishedBy(r, i)' => FinishedBy(r, i)
    BY <1>1 DEF FinishedBy
  <2>2. job'[i].status \in {"queued", "running", "dead"}
    BY <1>1, <1>3 DEF Carries
  <2> QED BY <1>1, <1>2, <1>3, <2>1, <2>2, CarryKept
<1>4. \A d \in Deliveries : \A i \in Ids : IsJobOf(i, d)' => IsJobOf(i, d)
  BY <1>1 DEF IsJobOf, Persists
<1>5. DeliveryInv'
  BY <1>1, <1>2, <1>3, <1>4, QuietStep
<1>6. ASSUME Lossless PROVE Lossless'
  <2>1. HeldOnce'
    <3>1. \A r \in Slots : Holds(slot[r]) =>
              slot[r].id \in Ids /\ job[slot[r].id].status = "running" /\ slot[r].id # j /\ r # s
      BY <1>1, <1>6 DEF Inv, DeliveryInv, QueueInv, SlotsOK, SlotOK, Lossless, HeldOnce
    <3>2. \A r \in Slots : Holds(slot'[r]) => job'[slot'[r].id].status = "running"
      BY <1>1, <3>1
    <3>3. \A r, t \in Slots : Holds(slot'[r]) /\ Holds(slot'[t]) /\ slot'[r].id = slot'[t].id => r = t
      BY <1>1, <1>6, <3>1 DEF Lossless, HeldOnce
    <3> QED BY <3>2, <3>3 DEF HeldOnce
  <2>2. \A d \in Deliveries : \A i \in Ids : Carrying(i, d)' => Carrying(i, d)
    BY <1>1, <1>4 DEF Carrying, Holds
  <2> QED BY <1>1, <1>2, <1>6, <2>1, <2>2, QuietLossless
<1> QED BY <1>1, <1>5, <1>6 DEF Inv

LEMMA RecordKeeps ==
    ASSUME Inv, NEW s \in Slots, Queue(Record(s))
    PROVE  Inv'
<1>1. /\ QueueInv' /\ Persists /\ lost' = lost
      /\ slot[s].stage = "returned" /\ slot[s].id \in Ids /\ slot'[s] = Free
      /\ \A r \in Slots : r # s => slot'[r] = slot[r]
      /\ \A i \in Ids : i # slot[s].id => job'[i] = job[i]
      /\ job[slot[s].id].kind = DeliverKind /\ slot[s].outcome # "finished" =>
             job'[slot[s].id].status = "dead"
      /\ job[slot[s].id].kind = DeliverKind => job'[slot[s].id].status \in {"done", "dead"}
  BY RecordStep DEF Inv, DeliveryInv, Queue
<1>2. Quiet /\ DeliveryInv
  BY <1>1, QuietOf DEF Inv, Queue
<1>3. Free.stage = "idle" /\ ~Holds(Free)
  BY SlotRecords
<1>4. ASSUME NEW d \in Deliveries, NEW i \in Ids, Carries(i, d) PROVE Carries(i, d)'
  <2>1. \A r \in Slots : FinishedBy(r, i)' => FinishedBy(r, i)
    BY <1>1, <1>3 DEF FinishedBy
  <2>2. job'[i].status \in {"queued", "running", "dead"}
    BY <1>1, <1>4 DEF Carries, IsJobOf, FinishedBy
  <2> QED BY <1>1, <1>2, <1>4, <2>1, <2>2, CarryKept
<1>5. job[slot[s].id].status # "absent"
  BY <1>1 DEF Inv, DeliveryInv, QueueInv, SlotsOK, SlotOK, Holds
<1>6. \A d \in Deliveries : \A i \in Ids : IsJobOf(i, d)' => IsJobOf(i, d)
  BY <1>1, <1>5 DEF IsJobOf, Persists
<1>7. DeliveryInv'
  BY <1>1, <1>2, <1>4, <1>6, QuietStep
<1>8. ASSUME Lossless PROVE Lossless'
  <2>1. HeldOnce'
    <3>1. \A r \in Slots : Holds(slot'[r]) => r # s /\ slot'[r] = slot[r]
      BY <1>1, <1>3
    <3>2. \A r \in Slots : Holds(slot[r]) =>
              slot[r].id \in Ids /\ job[slot[r].id].status = "running" /\ (r # s => slot[r].id # slot[s].id)
      BY <1>1, <1>8 DEF Inv, DeliveryInv, QueueInv, SlotsOK, SlotOK, Lossless, HeldOnce, Holds
    <3>3. \A r \in Slots : Holds(slot'[r]) => job'[slot'[r].id].status = "running"
      BY <1>1, <3>1, <3>2
    <3> QED BY <1>8, <3>1, <3>3 DEF Lossless, HeldOnce
  <2>2. ASSUME NEW d \in Deliveries, NEW i \in Ids, Carrying(i, d)' PROVE Carrying(i, d)
    <3>1. IsJobOf(i, d) /\ i # slot[s].id
      BY <1>1, <1>6, <2>2 DEF Carrying, IsJobOf
    <3> QED BY <1>1, <2>2, <3>1 DEF Carrying
  <2> QED BY <1>1, <1>2, <1>8, <2>1, <2>2, QuietLossless
<1> QED BY <1>1, <1>7, <1>8 DEF Inv

LEMMA RefusedKeeps ==
    ASSUME Inv, NEW s \in Slots, Queue(RecordRefused(s))
    PROVE  Inv'
<1>1. /\ QueueInv' /\ Persists /\ job' = job /\ lost' = lost + 1
      /\ \A r \in Slots : r # s => slot'[r] = slot[r]
      /\ \/ slot'[s] = Down
         \/ slot[s].stage = "returned" /\ slot'[s] = [slot[s] EXCEPT !.outcome = "threw"]
  BY SlotLeaves DEF Inv, DeliveryInv, Queue
<1>2. slot[s].stage = "returned" /\ Quiet /\ DeliveryInv
  BY <1>1, QuietOf DEF Inv, Queue, RecordRefused
<1>3. slot'[s].stage = "down" \/ slot'[s].outcome = "threw"
  BY <1>1, SlotRecords DEF Inv, DeliveryInv, QueueInv, SlotsOK, Slot
<1>4. ASSUME NEW d \in Deliveries, NEW i \in Ids, Carries(i, d) PROVE Carries(i, d)'
  <2>1. \A r \in Slots : FinishedBy(r, i)' => FinishedBy(r, i)
    BY <1>1, <1>3 DEF FinishedBy
  <2> QED BY <1>1, <1>2, <1>4, <2>1, CarryKept DEF Carries
<1>5. DeliveryInv'
  BY <1>1, <1>2, <1>4, QuietStep DEF IsJobOf
<1>6. lost' # 0
  BY <1>1 DEF Inv, DeliveryInv, QueueInv
<1> QED BY <1>5, <1>6 DEF Inv

LEMMA RowKeeps ==
    ASSUME Inv, NEW j \in Ids, Queue(FallDue(j)) \/ Queue(RecoverLost(j)) \/ Queue(TakeFromSlow(j))
    PROVE  Inv'
<1>1. /\ FallDue(j) \/ Requeue(j)
      /\ lost' \in 0..MaxLosses /\ (lost' = lost \/ lost' = lost + 1)
      /\ lost' = lost => FallDue(j) \/ ~Held(j)
      /\ UNCHANGED deliveryVars
  <2>1. CASE Queue(FallDue(j))
    BY <2>1 DEF Queue, FallDue, Inv, DeliveryInv, QueueInv
  <2>2. CASE Queue(RecoverLost(j))
    BY <2>2 DEF Queue, RecoverLost, Inv, DeliveryInv, QueueInv
  <2>3. CASE Queue(TakeFromSlow(j))
    BY <2>3, QueueOK DEF Queue, TakeFromSlow, Inv, DeliveryInv, QueueInv
  <2> QED BY <2>1, <2>2, <2>3
<1>2. /\ QueueInv' /\ Persists /\ slot' = slot
      /\ \A i \in Ids : i # j => job'[i] = job[i]
      /\ job[j].status \in {"queued", "running"} /\ job'[j].status = "queued"
  BY <1>1, RowStep DEF Inv, DeliveryInv
<1>3. Quiet /\ DeliveryInv
  BY <1>1, <1>2, QuietAll DEF Inv
<1>4. ASSUME NEW d \in Deliveries, NEW i \in Ids, Carries(i, d) PROVE Carries(i, d)'
  <2>1. \A r \in Slots : FinishedBy(r, i)' => FinishedBy(r, i)
    BY <1>2 DEF FinishedBy
  <2>2. job'[i].status \in {"queued", "running", "dead"}
    BY <1>2, <1>4 DEF Carries
  <2> QED BY <1>2, <1>3, <1>4, <2>1, <2>2, CarryKept
<1>5. \A d \in Deliveries : \A i \in Ids : IsJobOf(i, d)' => IsJobOf(i, d)
  BY <1>2 DEF IsJobOf, Persists
<1>6. DeliveryInv'
  BY <1>2, <1>3, <1>4, <1>5, QuietStep
<1>7. ASSUME Lossless, lost' = lost PROVE Lossless'
  <2>1. \A s \in Slots : Holds(slot[s]) => slot[s].id # j
    <3> SUFFICES ASSUME NEW s \in Slots, Holds(slot[s]), slot[s].id = j PROVE FALSE
      OBVIOUS
    <3>1. job[j].status = "running"
      BY <1>7 DEF Lossless, HeldOnce
    <3>2. Held(j)
      BY DEF Held, Holds
    <3> QED BY <1>1, <1>7, <3>1, <3>2 DEF FallDue
  <2>2. \A s \in Slots : Holds(slot[s]) => slot[s].id \in Ids
    BY DEF Inv, DeliveryInv, QueueInv, SlotsOK, SlotOK
  <2>3. HeldOnce'
    BY <1>2, <1>7, <2>1, <2>2 DEF Lossless, HeldOnce
  <2>4. \A d \in Deliveries : \A i \in Ids : Carrying(i, d)' => Carrying(i, d)
    BY <1>2, <1>5 DEF Carrying
  <2> QED BY <1>2, <1>3, <1>7, <2>3, <2>4, QuietLossless
<1>8. lost' = 0 => lost' = lost /\ lost = 0
  BY <1>1 DEF Inv, DeliveryInv, QueueInv
<1> QED BY <1>6, <1>7, <1>8 DEF Inv

LEMMA OtherKeeps ==
    ASSUME Inv, NEW s \in Slots, NEW outcome, OtherReturns(s, outcome)
    PROVE  Inv'
<1>1. TableOK' /\ Persists /\ job' = job /\ lost' = lost /\ UNCHANGED deliveryVars
  BY StillTable DEF OtherReturns, Inv, DeliveryInv, QueueInv
<1>2. /\ QueueInv'
      /\ slot[s].stage = "running" /\ slot[s].id \in Ids /\ job[slot[s].id].status # "absent"
      /\ slot'[s].stage = "returned" /\ slot'[s].id = slot[s].id
      /\ \A r \in Slots : r # s => slot'[r] = slot[r]
  BY <1>1, ReturnStep DEF OtherReturns, Inv, DeliveryInv
<1>3. job[slot[s].id].kind # DeliverKind
  BY DEF OtherReturns, Delivering
<1>4. Quiet /\ DeliveryInv
  BY <1>1, <1>2 DEF Quiet, Inv, DeliveryInv, HandlerOK, OtherReturns
<1>5. ASSUME NEW d \in Deliveries, NEW i \in Ids, Carries(i, d) PROVE Carries(i, d)'
  <2>1. \A r \in Slots : FinishedBy(r, i)' => FinishedBy(r, i)
    BY <1>2, <1>3, <1>5 DEF FinishedBy, Carries, IsJobOf
  <2> QED BY <1>1, <1>4, <1>5, <2>1, CarryKept DEF Carries
<1>6. DeliveryInv'
  BY <1>1, <1>2, <1>4, <1>5, QuietStep DEF IsJobOf
<1>7. ASSUME Lossless PROVE Lossless'
  <2>1. HeldOnce'
    <3>1. \A r \in Slots : (Holds(slot'[r]) <=> Holds(slot[r])) /\ (Holds(slot[r]) => slot'[r].id = slot[r].id)
      BY <1>2 DEF Holds
    <3> QED BY <1>1, <1>7, <3>1 DEF Lossless, HeldOnce
  <2>2. \A d \in Deliveries : \A i \in Ids : Carrying(i, d)' => Carrying(i, d)
    BY <1>1, <1>2 DEF Carrying, IsJobOf
  <2> QED BY <1>1, <1>4, <1>7, <2>1, <2>2, QuietLossless
<1> QED BY <1>1, <1>6, <1>7 DEF Inv

-----------------------------------------------------------------------------
(***************************************************************************)
(* The statements of a handler.                                            *)
(***************************************************************************)
LEMMA HandlerMoves ==
    ASSUME DeliveryInv, QueueInv', Persists, NEW s \in Slots, NEW h \in Handler,
           handler' = [handler EXCEPT ![s] = h], active' = active,
           \A r \in Slots : r # s => slot'[r] = slot[r],
           delivery' \in [Deliveries -> Delivery], posts' \in [Deliveries -> Nat],
           \A d \in Deliveries : posts[d] <= posts'[d],
           HandlerOK(s)',
           \A d \in Deliveries : DeliveryCounted(d)',
           \A d \in Deliveries : delivery'[d].status = "pending" => \E j \in Ids : Carries(j, d)',
           \A d \in Deliveries : NotYet(d)'
    PROVE  DeliveryInv'
<1>1. handler' \in [Slots -> Handler] /\ \A r \in Slots : r # s => handler'[r] = handler[r]
  BY DEF DeliveryInv, DeliveriesTyped
<1>2. DeliveriesTyped'
  BY <1>1 DEF DeliveryInv, DeliveriesTyped
<1>3. ASSUME NEW r \in Slots, r # s PROVE HandlerOK(r)'
  <2>1. CASE handler[r].stage = "none"
    BY <1>1, <1>3, <2>1 DEF HandlerOK
  <2>2. CASE handler[r].stage # "none"
    <3>1. HandlerOK(r) /\ Delivering(r) /\ slot'[r] = slot[r] /\ handler'[r] = handler[r]
      BY <1>1, <1>3, <2>2 DEF DeliveryInv, HandlerOK
    <3>2. Delivering(r)' /\ Subject(r)' = Subject(r)
      BY <3>1, StillDelivering
    <3>3. Subject(r) \in Deliveries /\ handler[r].attempt \in Nat /\ posts[Subject(r)] \in Nat
      BY <3>1, SubjectOf DEF Handler
    <3>4. posts'[Subject(r)] \in Nat /\ posts[Subject(r)] <= posts'[Subject(r)]
      BY <3>3
    <3>5. /\ handler[r].stage = "post" => handler[r].attempt <= posts[Subject(r)] + 1
          /\ handler[r].stage = "save" => handler[r].attempt <= posts[Subject(r)]
          /\ handler[r].stage # "retry" /\ ~handler[r].active => ~active
      BY <2>2, <3>1 DEF HandlerOK
    <3>6. /\ handler[r].stage = "post" => handler[r].attempt <= posts'[Subject(r)] + 1
          /\ handler[r].stage = "save" => handler[r].attempt <= posts'[Subject(r)]
      BY <3>3, <3>4, <3>5
    <3> QED BY <3>1, <3>2, <3>5, <3>6 DEF HandlerOK
  <2> QED BY <2>1, <2>2
<1>4. \A r \in Slots : HandlerOK(r)'
  BY <1>3
<1> QED BY <1>2, <1>4 DEF DeliveryInv

\* As long as nothing was lost no two slots work on one delivery.
LEMMA Alone ==
    ASSUME DeliveryInv, Lossless, NEW s \in Slots, Delivering(s)
    PROVE  /\ Carrying(slot[s].id, Subject(s))
           /\ \A j \in Ids : Carrying(j, Subject(s)) => j = slot[s].id
           /\ \A r \in Slots : Delivering(r) /\ Subject(r) = Subject(s) => r = s
           /\ handler[s].stage # "save" => ~Saving(slot[s].id)
<1>1. ASSUME NEW r \in Slots, Delivering(r) PROVE Carrying(slot[r].id, Subject(r)) /\ slot[r].id \in Ids
  <2>1. IsJobOf(slot[r].id, Subject(r)) /\ slot[r].id \in Ids /\ slot[r].stage = "running"
    BY <1>1, SubjectOf DEF Delivering
  <2>2. job[slot[r].id].status = "running"
    BY <2>1 DEF Lossless, HeldOnce, Holds
  <2>3. \A t \in Slots : ~(slot[t].stage = "returned" /\ slot[t].id = slot[r].id)
    BY <2>1 DEF Lossless, HeldOnce, Holds
  <2> QED BY <2>1, <2>2, <2>3 DEF Carrying
<1>2. Subject(s) \in Deliveries
  BY SubjectOf
<1>3. \A j \in Ids : Carrying(j, Subject(s)) => j = slot[s].id
  BY <1>1, <1>2 DEF Lossless, OneCarrier
<1>4. ASSUME NEW r \in Slots, slot[r].stage = "running", slot[r].id = slot[s].id PROVE r = s
  BY <1>4 DEF Lossless, HeldOnce, Holds, Delivering
<1>5. ASSUME NEW r \in Slots, Delivering(r), Subject(r) = Subject(s) PROVE r = s
  BY <1>1, <1>3, <1>4, <1>5 DEF Delivering
<1> QED BY <1>1, <1>3, <1>4, <1>5 DEF Saving

\* What the step of one handler leaves to be shown.
LEMMA LosslessMoves ==
    ASSUME DeliveryInv, Lossless, Persists, NEW s \in Slots, Delivering(s), NEW h,
           NEW d \in Deliveries, d = Subject(s),
           handler' = [handler EXCEPT ![s] = h],
           \A r \in Slots : r # s => slot'[r] = slot[r],
           \A e \in Deliveries : e # d => delivery'[e] = delivery[e] /\ posts'[e] = posts[e],
           \A e \in Deliveries : e # d => \A j \in Ids : Carrying(j, e)' => Carrying(j, e),
           HeldOnce',
           \A i, j \in Ids : Carrying(i, d)' /\ Carrying(j, d)' => i = j,
           Tallied(d)', HandlerTallies(s)'
    PROVE  Lossless'
<1>1. \A r \in Slots : r # s => handler'[r] = handler[r]
  BY DEF DeliveryInv, DeliveriesTyped
<1>2. OneCarrier'
  BY DEF Lossless, OneCarrier
<1>3. slot[s].stage = "running" /\ slot[s].id \in Ids /\ IsJobOf(slot[s].id, d)
  BY SubjectOf DEF Delivering
<1>4. ASSUME NEW e \in Deliveries, e # d PROVE Tallied(e)'
  <2>1. ASSUME NEW j \in Ids, Carrying(j, e)', ~Saving(j)' PROVE posts'[e] = delivery'[e].attempt
    <3>1. Carrying(j, e) /\ j # slot[s].id
      BY <1>3, <1>4, <2>1 DEF Carrying, IsJobOf
    <3>2. ~Saving(j)
      BY <1>1, <2>1, <3>1 DEF Saving
    <3> QED BY <1>4, <3>1, <3>2 DEF Lossless, AllCounted, Tallied
  <2>2. Tallied(e) /\ delivery'[e] = delivery[e] /\ posts'[e] = posts[e]
    BY <1>4 DEF Lossless, AllCounted
  <2> QED BY <2>1, <2>2 DEF Tallied
<1>5. AllCounted'
  BY <1>4 DEF AllCounted
<1>6. ASSUME NEW r \in Slots, r # s PROVE HandlerTallies(r)'
  <2>1. CASE handler[r].stage = "none"
    BY <1>1, <1>6, <2>1 DEF HandlerTallies
  <2>2. CASE handler[r].stage # "none"
    <3>1. Delivering(r) /\ slot'[r] = slot[r] /\ handler'[r] = handler[r]
      BY <1>1, <1>6, <2>2 DEF DeliveryInv, HandlerOK
    <3>2. Subject(r)' = Subject(r) /\ Subject(r) \in Deliveries
      BY <3>1, StillDelivering, SubjectOf
    <3>3. Subject(r) # d
      BY <1>6, <3>1, Alone
    <3>4. delivery'[Subject(r)] = delivery[Subject(r)] /\ posts'[Subject(r)] = posts[Subject(r)]
      BY <3>2, <3>3
    <3> QED BY <3>1, <3>2, <3>4 DEF Lossless, HandlersCount, HandlerTallies
  <2> QED BY <2>1, <2>2
<1>7. HandlersCount'
  BY <1>6 DEF HandlersCount
<1> QED BY <1>2, <1>5, <1>7 DEF Lossless

\* The handler goes on: no slot and no row of the table changes.
LEMMA GoesOn ==
    ASSUME Inv, NEW s \in Slots, Delivering(s), NEW h \in Handler, NEW d \in Deliveries, d = Subject(s),
           handler' = [handler EXCEPT ![s] = h], UNCHANGED <<job, slot, lost, active>>,
           delivery' \in [Deliveries -> Delivery], posts' \in [Deliveries -> Nat],
           \A e \in Deliveries : e # d => delivery'[e] = delivery[e] /\ posts'[e] = posts[e],
           posts[d] <= posts'[d], DeliveryCounted(d)', delivery'[d].status # "absent",
           delivery'[d].status = "pending" => delivery[d].status = "pending",
           HandlerOK(s)',
           Lossless => Tallied(d)' /\ HandlerTallies(s)'
    PROVE  Inv'
<1>1. DeliveryInv /\ QueueInv' /\ Persists
  <2>1. TableOK' /\ Persists
    BY StillTable DEF Inv, DeliveryInv, QueueInv
  <2> QED BY <2>1, SlotsUnchanged DEF Inv, DeliveryInv, QueueInv
<1>2. \A j \in Ids : \A e \in Deliveries : (IsJobOf(j, e)' <=> IsJobOf(j, e)) /\ (Carries(j, e)' <=> Carries(j, e))
                                           /\ (Carrying(j, e)' <=> Carrying(j, e))
  BY DEF IsJobOf, Carries, Carrying, FinishedBy
<1>3. \A e \in Deliveries : posts[e] <= posts'[e]
  BY <1>1 DEF DeliveryInv, DeliveriesTyped
<1>4. \A e \in Deliveries : DeliveryCounted(e)'
  BY DEF Inv, DeliveryInv, DeliveryCounted
<1>5. \A e \in Deliveries : delivery'[e].status = "pending" => \E j \in Ids : Carries(j, e)'
  BY <1>1, <1>2 DEF DeliveryInv
<1>6. \A e \in Deliveries : NotYet(e)'
  BY <1>1, <1>2 DEF DeliveryInv, NotYet
<1>7. DeliveryInv'
  BY <1>1, <1>3, <1>4, <1>5, <1>6, HandlerMoves
<1>8. ASSUME Lossless PROVE Lossless'
  <2>1. HeldOnce'
    BY <1>8 DEF Lossless, HeldOnce
  <2>2. \A i, j \in Ids : Carrying(i, d)' /\ Carrying(j, d)' => i = j
    BY <1>2, <1>8 DEF Lossless, OneCarrier
  <2> QED BY <1>1, <1>2, <1>8, <2>1, <2>2, LosslessMoves
<1> QED BY <1>7, <1>8 DEF Inv

LEMMA FinishStep ==
    ASSUME DeliveryInv, NEW s \in Slots, Delivering(s), NEW outcome, Finish(s, outcome),
           TableOK', Persists, lost' = lost
    PROVE  /\ QueueInv'
           /\ slot[s].stage = "running" /\ slot[s].id \in Ids
           /\ slot'[s].stage = "returned" /\ slot'[s].id = slot[s].id /\ slot'[s].outcome = outcome
           /\ outcome \in {"finished", "threw"}
           /\ \A r \in Slots : r # s => slot'[r] = slot[r]
           /\ handler' = [handler EXCEPT ![s] = NoHandler] /\ NoHandler \in Handler
           /\ HandlerOK(s)' /\ HandlerTallies(s)'
           /\ \A r \in Slots : (Holds(slot'[r]) <=> Holds(slot[r])) /\ (Holds(slot[r]) => slot'[r].id = slot[r].id)
<1>1. /\ QueueInv'
      /\ slot[s].stage = "running" /\ slot[s].id \in Ids
      /\ slot'[s].stage = "returned" /\ slot'[s].id = slot[s].id /\ slot'[s].outcome = outcome
      /\ \A r \in Slots : r # s => slot'[r] = slot[r]
  BY ReturnStep DEF Finish, DeliveryInv
<1>2. outcome \in {"finished", "threw"}
  <2>1. job[slot[s].id].kind \notin Recurring
    BY QueueOK, DeliveryOK DEF Delivering
  <2> QED BY <2>1 DEF Finish, Return
<1>3. handler' = [handler EXCEPT ![s] = NoHandler] /\ NoHandler \in Handler
  BY DEF Finish, NoHandler, Handler
<1>4. handler'[s].stage = "none"
  BY <1>3 DEF NoHandler, DeliveryInv, DeliveriesTyped
<1>5. HandlerOK(s)' /\ HandlerTallies(s)'
  BY <1>4 DEF HandlerOK, HandlerTallies
<1> QED BY <1>1, <1>2, <1>3, <1>5 DEF Holds

\* The handler ends and leaves no other job behind.
LEMMA Ends ==
    ASSUME Inv, NEW s \in Slots, Delivering(s), NEW outcome, Finish(s, outcome),
           NEW d \in Deliveries, d = Subject(s),
           UNCHANGED <<job, lost, active, posts>>, delivery' \in [Deliveries -> Delivery],
           \A e \in Deliveries : e # d => delivery'[e] = delivery[e],
           DeliveryCounted(d)', delivery'[d].status # "absent",
           delivery'[d].status = "pending" => delivery[d].status = "pending" /\ outcome # "finished",
           Lossless => /\ delivery'[d].attempt <= MaxTries
                       /\ delivery'[d].status = "pending" => delivery'[d].attempt < MaxTries
    PROVE  Inv'
<1>1. DeliveryInv /\ TableOK' /\ Persists
  BY StillTable DEF Inv, DeliveryInv, QueueInv
<1>2. /\ QueueInv'
      /\ slot[s].stage = "running" /\ slot[s].id \in Ids
      /\ slot'[s].stage = "returned" /\ slot'[s].id = slot[s].id /\ slot'[s].outcome = outcome
      /\ outcome \in {"finished", "threw"}
      /\ \A r \in Slots : r # s => slot'[r] = slot[r]
      /\ handler' = [handler EXCEPT ![s] = NoHandler] /\ NoHandler \in Handler
      /\ HandlerOK(s)' /\ HandlerTallies(s)'
      /\ \A r \in Slots : (Holds(slot'[r]) <=> Holds(slot[r])) /\ (Holds(slot[r]) => slot'[r].id = slot[r].id)
  BY <1>1, FinishStep
<1>3. \A j \in Ids : \A e \in Deliveries : (IsJobOf(j, e)' <=> IsJobOf(j, e)) /\ (Carrying(j, e)' => Carrying(j, e))
  BY <1>2 DEF IsJobOf, Carrying
<1>4. IsJobOf(slot[s].id, d)
  BY <1>1, SubjectOf
<1>5. ASSUME NEW e \in Deliveries, delivery'[e].status = "pending" PROVE \E j \in Ids : Carries(j, e)'
  <2>1. delivery[e].status = "pending" /\ (e = d => outcome # "finished")
    BY <1>5
  <2>2. PICK j \in Ids : Carries(j, e)
    BY <1>1, <2>1 DEF DeliveryInv
  <2>3. \A r \in Slots : FinishedBy(r, j)' => FinishedBy(r, j)
    BY <1>2, <1>4, <2>1, <2>2 DEF FinishedBy, Carries, IsJobOf
  <2>4. Carries(j, e)'
    BY <1>1, <2>2, <2>3, CarryKept DEF Carries
  <2> QED BY <2>4
<1>6. \A e \in Deliveries : DeliveryCounted(e)'
  BY <1>1 DEF DeliveryInv, DeliveryCounted
<1>7. \A e \in Deliveries : NotYet(e)'
  BY <1>1, <1>3 DEF DeliveryInv, NotYet
<1>8. posts' \in [Deliveries -> Nat] /\ \A e \in Deliveries : posts[e] <= posts'[e]
  BY <1>1 DEF DeliveryInv, DeliveriesTyped
<1>9. DeliveryInv'
  BY <1>1, <1>2, <1>5, <1>6, <1>7, <1>8, HandlerMoves
<1>10. ASSUME Lossless PROVE Lossless'
  <2>1. HeldOnce'
    BY <1>2, <1>10 DEF Lossless, HeldOnce
  <2>2. \A j \in Ids : ~Carrying(j, d)'
    <3>1. \A j \in Ids : Carrying(j, d) => j = slot[s].id
      BY <1>1, <1>10, Alone
    <3>2. \A j \in Ids : j = slot[s].id => ~Carrying(j, d)'
      BY <1>2 DEF Carrying
    <3> QED BY <1>3, <3>1, <3>2
  <2>3. posts'[d] <= MaxTries
    BY <1>10 DEF Lossless, AllCounted, Tallied
  <2>4. Tallied(d)'
    BY <1>10, <2>2, <2>3 DEF Tallied
  <2> QED BY <1>1, <1>2, <1>3, <1>10, <2>1, <2>2, <2>4, LosslessMoves
<1> QED BY <1>9, <1>10 DEF Inv

LEMMA ReadKeeps ==
    ASSUME Inv, NEW s \in Slots, ReadDelivery(s)
    PROVE  Inv'
<1>1. DeliveryInv /\ Delivering(s) /\ handler[s].stage = "none" /\ UNCHANGED <<job, lost, delivery, active, posts>>
  BY DEF Inv, ReadDelivery, At
<1>2. PICK d \in Deliveries : d = Subject(s)
  BY <1>1, SubjectOf
<1>3. /\ delivery[d] \in Delivery /\ delivery[d].status # "absent" /\ posts[d] \in Nat
      /\ DeliveryCounted(d) /\ delivery \in [Deliveries -> Delivery] /\ posts \in [Deliveries -> Nat]
      /\ active \in BOOLEAN
  BY <1>1, <1>2, SubjectOf DEF DeliveryInv, DeliveriesTyped
<1>4. DeliveryCounted(d)' /\ delivery' = delivery /\ posts' = posts
  BY <1>1, <1>3 DEF DeliveryCounted
<1>5. ASSUME Lossless PROVE Tallied(d) /\ posts[d] = delivery[d].attempt
  <2>1. Carrying(slot[s].id, d) /\ ~Saving(slot[s].id) /\ slot[s].id \in Ids
    BY <1>1, <1>2, <1>5, Alone, SubjectOf
  <2> QED BY <1>5, <2>1 DEF Lossless, AllCounted, Tallied
<1>6. CASE delivery[d].status # "pending"
  <2>1. Finish(s, "finished")
    BY <1>2, <1>6 DEF ReadDelivery
  <2>2. Lossless => delivery'[d].attempt <= MaxTries
    BY <1>4, <1>5 DEF Tallied
  <2> QED BY <1>1, <1>2, <1>3, <1>4, <1>6, <2>1, <2>2, Ends
<1>7. CASE delivery[d].status = "pending"
  <2> DEFINE h == [stage |-> "post", attempt |-> delivery[d].attempt + 1, active |-> active, ok |-> FALSE]
  <2>1. handler' = [handler EXCEPT ![s] = h] /\ slot' = slot
    BY <1>2, <1>7 DEF ReadDelivery
  <2>2. h \in Handler /\ h.stage = "post" /\ h.attempt = delivery[d].attempt + 1 /\ h.active = active
    BY <1>3 DEF Handler, Delivery
  <2> HIDE DEF h
  <2>3. handler'[s] = h
    BY <1>1, <2>1 DEF DeliveryInv, DeliveriesTyped
  <2>4. Delivering(s)' /\ Subject(s)' = d
    BY <1>1, <1>2, <2>1 DEF Delivering, Subject
  <2>5. HandlerOK(s)'
    <3>1. h.attempt <= posts[d] + 1
      BY <1>3, <2>2 DEF DeliveryCounted, Delivery
    <3> QED BY <1>1, <1>4, <2>2, <2>3, <2>4, <3>1 DEF HandlerOK
  <2>6. ASSUME Lossless PROVE Tallied(d)' /\ HandlerTallies(s)'
    <3>1. h.attempt <= MaxTries
      BY <1>3, <1>5, <1>7, <2>2, <2>6, DeliveryOK DEF Tallied, Delivery
    <3>2. HandlerTallies(s)'
      BY <1>4, <2>2, <2>3, <2>4, <3>1 DEF HandlerTallies
    <3>3. Tallied(d)'
      BY <1>4, <1>5, <2>6 DEF Tallied
    <3> QED BY <3>2, <3>3
  <2>7. posts[d] <= posts'[d]
    BY <1>3, <1>4
  <2> QED BY <1>1, <1>2, <1>3, <1>4, <1>7, <2>1, <2>2, <2>5, <2>6, <2>7, GoesOn
<1> QED BY <1>6, <1>7

LEMMA PostKeeps ==
    ASSUME Inv, NEW s \in Slots, PostDelivery(s)
    PROVE  Inv'
<1>1. DeliveryInv /\ Delivering(s) /\ handler[s].stage = "post" /\ UNCHANGED <<job, slot, lost, delivery, active>>
  BY DEF Inv, PostDelivery, At, queueVars
<1>2. PICK d \in Deliveries : d = Subject(s)
  BY <1>1, SubjectOf
<1>3. /\ delivery[d] \in Delivery /\ delivery[d].status # "absent" /\ posts[d] \in Nat /\ handler[s] \in Handler
      /\ DeliveryCounted(d) /\ delivery \in [Deliveries -> Delivery] /\ posts \in [Deliveries -> Nat]
      /\ active \in BOOLEAN
  BY <1>1, <1>2, SubjectOf DEF DeliveryInv, DeliveriesTyped
<1>4. PICK ok \in BOOLEAN : handler' = [handler EXCEPT ![s].stage = "save", ![s].ok = ok]
  BY DEF PostDelivery
<1> DEFINE h == [handler[s] EXCEPT !.stage = "save", !.ok = ok]
<1>5. handler' = [handler EXCEPT ![s] = h]
  BY <1>1, <1>4 DEF DeliveryInv, DeliveriesTyped
<1>6. h \in Handler /\ h.stage = "save" /\ h.attempt = handler[s].attempt /\ h.active = handler[s].active
  BY <1>3 DEF Handler
<1> HIDE DEF h
<1>7. handler'[s] = h
  BY <1>1, <1>5 DEF DeliveryInv, DeliveriesTyped
<1>8. /\ posts' \in [Deliveries -> Nat] /\ posts'[d] = posts[d] + 1
      /\ \A e \in Deliveries : e # d => posts'[e] = posts[e]
  BY <1>2, <1>3 DEF PostDelivery
<1>9. Delivering(s)' /\ Subject(s)' = d
  BY <1>1, <1>2 DEF Delivering, Subject
<1>10. HandlerOK(s)'
  <2>1. handler[s].attempt <= posts[d] + 1 /\ (~handler[s].active => ~active)
    BY <1>1, <1>2 DEF DeliveryInv, HandlerOK
  <2> QED BY <1>1, <1>6, <1>7, <1>8, <1>9, <2>1 DEF HandlerOK
<1>11. DeliveryCounted(d)'
  BY <1>1, <1>3, <1>8, DeliveryOK DEF DeliveryCounted, Delivery
<1>12. ASSUME Lossless PROVE Tallied(d)' /\ HandlerTallies(s)'
  <2>1. Carrying(slot[s].id, d) /\ ~Saving(slot[s].id) /\ slot[s].id \in Ids
        /\ \A j \in Ids : Carrying(j, d) => j = slot[s].id
    BY <1>1, <1>2, <1>12, Alone, SubjectOf
  <2>2. Tallied(d) /\ posts[d] = delivery[d].attempt
    BY <1>12, <2>1 DEF Lossless, AllCounted, Tallied
  <2>3. handler[s].attempt = delivery[d].attempt + 1 /\ handler[s].attempt <= MaxTries
    BY <1>1, <1>2, <1>12 DEF Lossless, HandlersCount, HandlerTallies
  <2>4. HandlerTallies(s)'
    BY <1>6, <1>7, <1>8, <1>9, <2>2, <2>3 DEF HandlerTallies
  <2>5. \A j \in Ids : Carrying(j, d)' => Saving(j)'
    <3>1. \A j \in Ids : Carrying(j, d)' => j = slot[s].id
      BY <1>1, <2>1 DEF Carrying, IsJobOf
    <3>2. \A j \in Ids : j = slot[s].id => Saving(j)'
      BY <1>1, <1>6, <1>7 DEF Saving, Delivering
    <3> QED BY <3>1, <3>2
  <2>6. Tallied(d)'
    BY <1>1, <1>3, <1>8, <2>2, <2>3, <2>5 DEF Tallied
  <2> QED BY <2>4, <2>6
<1>13. posts[d] <= posts'[d]
  BY <1>3, <1>8
<1> QED BY <1>1, <1>2, <1>3, <1>5, <1>6, <1>8, <1>10, <1>11, <1>12, <1>13, GoesOn

LEMMA SaveKeeps ==
    ASSUME Inv, NEW s \in Slots, SaveDelivery(s)
    PROVE  Inv'
<1> DEFINE h == handler[s]
           status == IF Verdict(h) = "pending" THEN delivery[Subject(s)].status ELSE Verdict(h)
<1>1. DeliveryInv /\ Delivering(s) /\ h.stage = "save" /\ UNCHANGED <<job, lost, active, posts>>
  BY DEF Inv, SaveDelivery, At
<1>2. PICK d \in Deliveries : d = Subject(s)
  BY <1>1, SubjectOf
<1>3. /\ delivery[d] \in Delivery /\ delivery[d].status # "absent" /\ posts[d] \in Nat /\ h \in Handler
      /\ delivery \in [Deliveries -> Delivery] /\ posts \in [Deliveries -> Nat]
      /\ active \in BOOLEAN
  BY <1>1, <1>2, SubjectOf DEF DeliveryInv, DeliveriesTyped
<1>4. h.attempt \in Nat /\ h.active \in BOOLEAN /\ h.attempt <= posts[d] /\ (~h.active => ~active)
  BY <1>1, <1>2, <1>3 DEF DeliveryInv, HandlerOK, Handler
<1>5. /\ Verdict(h) \in {"delivered", "exhausted", "pending"}
      /\ Verdict(h) = "exhausted" => h.attempt >= MaxTries \/ ~h.active
      /\ Verdict(h) = "pending" => h.attempt < MaxTries
  BY <1>4, DeliveryOK DEF Verdict
<1> HIDE DEF h
<1>6. /\ delivery' \in [Deliveries -> Delivery]
      /\ \A e \in Deliveries : e # d => delivery'[e] = delivery[e]
      /\ delivery'[d].attempt = h.attempt /\ delivery'[d].status = status
  <2>1. status \in {"pending", "delivered", "exhausted"}
    BY <1>2, <1>3, <1>5 DEF Delivery
  <2>2. [status |-> status, attempt |-> h.attempt] \in Delivery
    BY <1>4, <2>1 DEF Delivery
  <2>3. delivery' = [delivery EXCEPT ![d] = [status |-> status, attempt |-> h.attempt]]
    BY <1>2, <1>3 DEF SaveDelivery, h
  <2> HIDE DEF status
  <2> QED BY <1>3, <2>2, <2>3
<1>7. delivery'[d].status # "absent" /\ DeliveryCounted(d)'
  <2>1. posts' = posts /\ active' = active /\ posts[d] >= h.attempt
    BY <1>1, <1>3, <1>4
  <2>2. delivery[d].status = "exhausted" => posts[d] >= MaxTries \/ ~active
    BY <1>1 DEF DeliveryInv, DeliveryCounted
  <2>3. h.attempt >= MaxTries => posts[d] >= MaxTries
    BY <1>3, <1>4, <2>1, DeliveryOK
  <2>4. status # "absent" /\ (status = "exhausted" => posts[d] >= MaxTries \/ ~active)
    BY <1>2, <1>3, <1>4, <1>5, <2>2, <2>3
  <2> QED BY <1>3, <1>6, <2>1, <2>4 DEF DeliveryCounted
<1>8. ASSUME Lossless PROVE Tallied(d) /\ h.attempt = posts[d] /\ h.attempt <= MaxTries
  BY <1>1, <1>2, <1>8 DEF Lossless, AllCounted, Tallied, HandlersCount, HandlerTallies, h
<1>9. CASE Verdict(h) = "pending"
  <2> DEFINE g == [h EXCEPT !.stage = "retry"]
  <2>1. handler' = [handler EXCEPT ![s] = g] /\ slot' = slot
    BY <1>1, <1>9 DEF SaveDelivery, h, DeliveryInv, DeliveriesTyped
  <2>2. g \in Handler /\ g.stage = "retry"
    BY <1>3 DEF Handler
  <2> HIDE DEF g
  <2>3. handler'[s] = g
    BY <1>1, <2>1 DEF DeliveryInv, DeliveriesTyped
  <2>4. Delivering(s)' /\ Subject(s)' = d
    BY <1>1, <1>2, <2>1 DEF Delivering, Subject
  <2>5. HandlerOK(s)'
    BY <2>2, <2>3, <2>4 DEF HandlerOK
  <2>6. ASSUME Lossless PROVE Tallied(d)' /\ HandlerTallies(s)'
    <3>1. HandlerTallies(s)'
      BY <2>2, <2>3 DEF HandlerTallies
    <3>2. Tallied(d)'
      BY <1>1, <1>5, <1>6, <1>7, <1>8, <1>9, <2>6 DEF Tallied
    <3> QED BY <3>1, <3>2
  <2>7. delivery'[d].status = "pending" => delivery[d].status = "pending"
    BY <1>2, <1>6, <1>9
  <2>8. posts' \in [Deliveries -> Nat] /\ posts[d] <= posts'[d] /\ \A e \in Deliveries : posts'[e] = posts[e]
    BY <1>1, <1>3
  <2> QED BY <1>1, <1>2, <1>6, <1>7, <2>1, <2>2, <2>5, <2>6, <2>7, <2>8, GoesOn
<1>10. CASE Verdict(h) # "pending"
  <2>1. Finish(s, "finished")
    BY <1>10 DEF SaveDelivery, h
  <2>2. delivery'[d].status # "pending"
    BY <1>6, <1>10
  <2>3. Lossless => delivery'[d].attempt <= MaxTries
    BY <1>6, <1>8
  <2> QED BY <1>1, <1>2, <1>6, <1>7, <2>1, <2>2, <2>3, Ends
<1> QED BY <1>9, <1>10

LEMMA ThrowKeeps ==
    ASSUME Inv, NEW s \in Slots, Throw(s)
    PROVE  Inv'
<1>1. DeliveryInv /\ Delivering(s) /\ Finish(s, "threw") /\ UNCHANGED <<job, lost, delivery, active, posts>>
  BY DEF Inv, Throw
<1>2. PICK d \in Deliveries : d = Subject(s)
  BY <1>1, SubjectOf
<1>3. delivery[d].status # "absent" /\ DeliveryCounted(d) /\ delivery \in [Deliveries -> Delivery]
  BY <1>1, <1>2, SubjectOf DEF DeliveryInv, DeliveriesTyped
<1>4. delivery' = delivery /\ DeliveryCounted(d)'
  BY <1>1, <1>3 DEF DeliveryCounted
<1>5. Lossless => /\ delivery'[d].attempt <= MaxTries
                  /\ delivery'[d].status = "pending" => delivery'[d].attempt < MaxTries
  BY <1>4 DEF Lossless, AllCounted, Tallied
<1> QED BY <1>1, <1>2, <1>3, <1>4, <1>5, Ends

\* The next attempt's job is there before the handler's own is over.
LEMMA RetryKeeps ==
    ASSUME Inv, NEW s \in Slots, EnqueueRetry(s)
    PROVE  Inv'
<1>1. DeliveryInv /\ Delivering(s) /\ handler[s].stage = "retry" /\ Finish(s, "finished")
      /\ UNCHANGED <<lost, delivery, active, posts>>
  BY DEF Inv, EnqueueRetry, At
<1>2. PICK d \in Deliveries : d = Subject(s)
  BY <1>1, SubjectOf
<1>3. slot[s].id \in Ids /\ IsJobOf(slot[s].id, d) /\ delivery[d].status # "absent"
  BY <1>1, <1>2, SubjectOf
<1> DEFINE x == NewJob(DeliverKind, d, FALSE)
<1>4. TableOK' /\ Persists /\ (\A i \in Ids : job[i].status # "absent" => job'[i] = job[i])
      /\ \E k \in Ids : Fills(k, x)
  BY <1>1, <1>2, EnqueuedStep DEF EnqueueRetry, DeliveryInv, QueueInv
<1>5. PICK k \in Ids : Fills(k, x)
  BY <1>4
<1>6. /\ QueueInv'
      /\ slot[s].stage = "running"
      /\ slot'[s].stage = "returned" /\ slot'[s].id = slot[s].id
      /\ \A r \in Slots : r # s => slot'[r] = slot[r]
      /\ handler' = [handler EXCEPT ![s] = NoHandler] /\ NoHandler \in Handler
      /\ HandlerOK(s)' /\ HandlerTallies(s)'
      /\ \A r \in Slots : (Holds(slot'[r]) <=> Holds(slot[r])) /\ (Holds(slot[r]) => slot'[r].id = slot[r].id)
  BY <1>1, <1>4, FinishStep
<1>7. job[k] = NoJob /\ job'[k] = x /\ \A i \in Ids : i # k => job'[i] = job[i]
  BY <1>1, <1>5 DEF Fills, DeliveryInv, QueueInv, TableOK
<1>8. x.kind = DeliverKind /\ x.about = d /\ x.status = "queued"
  BY DEF NewJob
<1> HIDE DEF x
<1>9. \A r \in Slots : Holds(slot[r]) => slot[r].id \in Ids /\ slot[r].id # k
  BY <1>1, <1>7 DEF DeliveryInv, QueueInv, SlotsOK, SlotOK, NoJob
<1>10. \A r \in Slots : slot'[r].stage = "returned" => slot'[r].id # k
  BY <1>6, <1>9 DEF Holds
<1>11. IsJobOf(k, d)' /\ Carries(k, d)'
  BY <1>7, <1>8, <1>10 DEF IsJobOf, Carries, FinishedBy
<1>12. \A e \in Deliveries : \A i \in Ids : IsJobOf(i, e)' => IsJobOf(i, e) \/ (i = k /\ e = d)
  BY <1>7, <1>8 DEF IsJobOf
<1>13. ASSUME NEW e \in Deliveries, delivery'[e].status = "pending" PROVE \E j \in Ids : Carries(j, e)'
  <2>1. CASE e = d
    BY <1>11, <2>1
  <2>2. CASE e # d
    <3>1. PICK j \in Ids : Carries(j, e)
      BY <1>1, <1>13 DEF DeliveryInv
    <3>2. \A r \in Slots : FinishedBy(r, j)' => FinishedBy(r, j)
      BY <1>3, <1>6, <2>2, <3>1 DEF FinishedBy, Carries, IsJobOf
    <3>3. job'[j] = job[j]
      BY <1>4, <3>1 DEF Carries
    <3>4. Carries(j, e)'
      BY <1>1, <1>4, <3>1, <3>2, <3>3, CarryKept DEF Carries
    <3> QED BY <3>4
  <2> QED BY <2>1, <2>2
<1>14. \A e \in Deliveries : NotYet(e)'
  BY <1>1, <1>3, <1>12 DEF DeliveryInv, NotYet
<1>15. \A e \in Deliveries : DeliveryCounted(e)'
  BY <1>1 DEF DeliveryInv, DeliveryCounted
<1>16. /\ posts' \in [Deliveries -> Nat] /\ \A e \in Deliveries : posts[e] <= posts'[e]
       /\ delivery' \in [Deliveries -> Delivery]
  BY <1>1 DEF DeliveryInv, DeliveriesTyped
<1>17. DeliveryInv'
  BY <1>1, <1>4, <1>6, <1>13, <1>14, <1>15, <1>16, HandlerMoves
<1>18. ASSUME Lossless PROVE Lossless'
  <2>1. /\ Carrying(slot[s].id, d) /\ ~Saving(slot[s].id)
        /\ \A j \in Ids : Carrying(j, d) => j = slot[s].id
    BY <1>1, <1>2, <1>18, Alone
  <2>2. HeldOnce'
    BY <1>6, <1>7, <1>9, <1>18 DEF Lossless, HeldOnce
  <2>3. \A e \in Deliveries : e # d => \A j \in Ids : Carrying(j, e)' => Carrying(j, e)
    <3> SUFFICES ASSUME NEW e \in Deliveries, e # d, NEW j \in Ids, Carrying(j, e)' PROVE Carrying(j, e)
      OBVIOUS
    <3>1. IsJobOf(j, e)' /\ IsJobOf(j, e)
      BY <1>12 DEF Carrying
    <3>2. j # k /\ job'[j] = job[j] /\ j # slot[s].id
      BY <1>3, <1>7, <1>8, <3>1 DEF IsJobOf
    <3> QED BY <1>6, <3>1, <3>2 DEF Carrying
  <2>4. \A j \in Ids : Carrying(j, d)' => j = k
    <3> SUFFICES ASSUME NEW j \in Ids, Carrying(j, d)', j # k PROVE FALSE
      OBVIOUS
    <3>1. Carrying(j, d) /\ j # slot[s].id
      BY <1>6, <1>7 DEF Carrying, IsJobOf
    <3> QED BY <2>1, <3>1
  <2>5. posts[d] = delivery[d].attempt /\ Tallied(d)
    BY <1>3, <1>18, <2>1 DEF Lossless, AllCounted, Tallied
  <2>6. Tallied(d)'
    BY <1>1, <2>5 DEF Tallied
  <2> QED BY <1>1, <1>2, <1>4, <1>6, <1>18, <2>2, <2>3, <2>4, <2>6, LosslessMoves
<1> QED BY <1>1, <1>17, <1>18 DEF Inv

LEMMA DieKeeps ==
    ASSUME Inv, NEW s \in Slots, DieDelivering(s)
    PROVE  Inv'
<1>1. /\ QueueInv' /\ Persists /\ job' = job /\ lost' = lost + 1
      /\ \A r \in Slots : r # s => slot'[r] = slot[r]
  BY SlotLeaves DEF Inv, DeliveryInv, DieDelivering
<1>2. slot'[s] = Down /\ Down.stage = "down"
  BY SlotRecords DEF DieDelivering, Die, Inv, DeliveryInv, QueueInv, SlotsOK
<1>3. handler' = [handler EXCEPT ![s] = NoHandler] /\ NoHandler \in Handler /\ UNCHANGED <<delivery, active, posts>>
  BY DEF DieDelivering, NoHandler, Handler
<1>4. DeliveryInv
  BY DEF Inv
<1>5. HandlerOK(s)'
  BY <1>3, <1>4 DEF HandlerOK, NoHandler, DeliveryInv, DeliveriesTyped
<1>6. ASSUME NEW e \in Deliveries, delivery'[e].status = "pending" PROVE \E j \in Ids : Carries(j, e)'
  <2>1. PICK j \in Ids : Carries(j, e)
    BY <1>3, <1>4, <1>6 DEF DeliveryInv
  <2>2. \A r \in Slots : FinishedBy(r, j)' => FinishedBy(r, j)
    BY <1>1, <1>2 DEF FinishedBy
  <2>3. Carries(j, e)'
    BY <1>1, <1>4, <2>1, <2>2, CarryKept DEF Carries
  <2> QED BY <2>3
<1>7. \A e \in Deliveries : DeliveryCounted(e)' /\ NotYet(e)'
  BY <1>1, <1>3, <1>4 DEF DeliveryInv, DeliveryCounted, NotYet, IsJobOf
<1>8. /\ posts' \in [Deliveries -> Nat] /\ \A e \in Deliveries : posts[e] <= posts'[e]
      /\ delivery' \in [Deliveries -> Delivery]
  BY <1>3, <1>4 DEF DeliveryInv, DeliveriesTyped
<1>9. DeliveryInv'
  BY <1>1, <1>3, <1>4, <1>5, <1>6, <1>7, <1>8, HandlerMoves
<1>10. lost' # 0
  BY <1>1, <1>4 DEF DeliveryInv, QueueInv
<1> QED BY <1>9, <1>10 DEF Inv

LEMMA CreateKeeps ==
    ASSUME Inv, NEW d \in Deliveries, CreateDelivery(d)
    PROVE  Inv'
<1> DEFINE x == NewJob(DeliverKind, d, TRUE)
<1>1. /\ DeliveryInv /\ delivery[d].status = "absent" /\ UNCHANGED <<slot, lost, handler, active, posts>>
      /\ delivery' = [delivery EXCEPT ![d].status = "pending"]
      /\ Fits(job, DeliverKind, d) /\ job' = Enqueued(job, DeliverKind, d, TRUE)
  BY DEF Inv, CreateDelivery, Enqueue
<1>2. TableOK' /\ Persists /\ (\A i \in Ids : job[i].status # "absent" => job'[i] = job[i])
      /\ \E k \in Ids : Fills(k, x)
  BY <1>1, EnqueuedStep DEF DeliveryInv, QueueInv
<1>3. PICK k \in Ids : Fills(k, x)
  BY <1>2
<1>4. QueueInv'
  BY <1>1, <1>2, SlotsUnchanged DEF DeliveryInv, QueueInv
<1>5. job[k] = NoJob /\ job'[k] = x /\ \A i \in Ids : i # k => job'[i] = job[i]
  BY <1>1, <1>3 DEF Fills, DeliveryInv, QueueInv, TableOK
<1>6. x.kind = DeliverKind /\ x.about = d /\ x.status = "queued"
  BY DEF NewJob
<1> HIDE DEF x
<1>7. \A r \in Slots : Holds(slot[r]) => slot[r].id \in Ids /\ slot[r].id # k
  BY <1>1, <1>5 DEF DeliveryInv, QueueInv, SlotsOK, SlotOK, NoJob
<1>8. /\ delivery' \in [Deliveries -> Delivery]
      /\ \A e \in Deliveries : e # d => delivery'[e] = delivery[e]
      /\ delivery'[d].status = "pending" /\ delivery'[d].attempt = delivery[d].attempt
  BY <1>1 DEF DeliveryInv, DeliveriesTyped, Delivery
<1>9. \A e \in Deliveries : \A i \in Ids : IsJobOf(i, e)' => IsJobOf(i, e) \/ (i = k /\ e = d)
  BY <1>5, <1>6 DEF IsJobOf
<1>10. Carries(k, d)'
  BY <1>1, <1>5, <1>6, <1>7 DEF IsJobOf, Carries, FinishedBy, Holds
<1>11. \A j \in Ids : ~IsJobOf(j, d)
  BY <1>1 DEF DeliveryInv, NotYet
<1>12. ASSUME NEW r \in Slots, handler[r].stage # "none"
       PROVE  /\ Delivering(r) /\ Delivering(r)' /\ Subject(r)' = Subject(r)
              /\ Subject(r) \in Deliveries /\ Subject(r) # d
  <2>1. Delivering(r)
    BY <1>1, <1>12 DEF DeliveryInv, HandlerOK
  <2>2. IsJobOf(slot[r].id, Subject(r)) /\ slot[r].id \in Ids /\ Subject(r) \in Deliveries
    BY <1>1, <2>1, SubjectOf
  <2> QED BY <1>1, <1>2, <1>11, <2>1, <2>2, StillDelivering
<1>13. DeliveryInv'
  <2>1. DeliveriesTyped'
    BY <1>1, <1>8 DEF DeliveryInv, DeliveriesTyped
  <2>2. ASSUME NEW r \in Slots PROVE HandlerOK(r)'
    BY <1>1, <1>12 DEF DeliveryInv, HandlerOK
  <2>3. ASSUME NEW e \in Deliveries PROVE DeliveryCounted(e)'
    BY <1>1, <1>8 DEF DeliveryInv, DeliveryCounted
  <2>4. ASSUME NEW e \in Deliveries, delivery'[e].status = "pending" PROVE \E j \in Ids : Carries(j, e)'
    <3>1. CASE e = d
      BY <1>10, <3>1
    <3>2. CASE e # d
      <4>1. PICK j \in Ids : Carries(j, e)
        BY <1>1, <1>8, <2>4, <3>2 DEF DeliveryInv
      <4>2. job'[j] = job[j]
        BY <1>2, <4>1 DEF Carries
      <4>3. \A r \in Slots : FinishedBy(r, j)' => FinishedBy(r, j)
        BY <1>1 DEF FinishedBy
      <4>4. Carries(j, e)'
        BY <1>1, <1>2, <4>1, <4>2, <4>3, CarryKept DEF Carries
      <4> QED BY <4>4
    <3> QED BY <3>1, <3>2
  <2>5. \A e \in Deliveries : NotYet(e)'
    BY <1>1, <1>8, <1>9 DEF DeliveryInv, NotYet
  <2> QED BY <1>4, <2>1, <2>2, <2>3, <2>4, <2>5 DEF DeliveryInv
<1>14. ASSUME Lossless PROVE Lossless'
  <2>1. HeldOnce'
    BY <1>1, <1>5, <1>7, <1>14 DEF Lossless, HeldOnce
  <2>2. \A e \in Deliveries : \A j \in Ids : Carrying(j, e)' => Carrying(j, e) \/ (j = k /\ e = d)
    <3> SUFFICES ASSUME NEW e \in Deliveries, NEW j \in Ids, Carrying(j, e)', j # k \/ e # d
                 PROVE  Carrying(j, e)
      OBVIOUS
    <3>1. j # k
      BY <1>5, <1>6 DEF Carrying, IsJobOf
    <3>2. job'[j] = job[j] /\ slot' = slot
      BY <1>1, <1>5, <3>1
    <3> QED BY <3>2 DEF Carrying, IsJobOf
  <2>3. \A j \in Ids : Carrying(j, d)' => j = k
    BY <1>11, <2>2 DEF Carrying
  <2>4. OneCarrier'
    BY <1>14, <2>2, <2>3 DEF Lossless, OneCarrier
  <2>5. \A j \in Ids : Saving(j)' <=> Saving(j)
    BY <1>1 DEF Saving
  <2>6. ASSUME NEW e \in Deliveries, e # d PROVE Tallied(e)'
    BY <1>1, <1>8, <1>14, <2>2, <2>5, <2>6 DEF Lossless, AllCounted, Tallied
  <2>7. Tallied(d)'
    <3>1. posts[d] = 0 /\ delivery[d].attempt = 0
      BY <1>1, <1>14 DEF Lossless, AllCounted, Tallied
    <3> QED BY <1>1, <1>8, <3>1, DeliveryOK DEF Tallied
  <2>8. ASSUME NEW r \in Slots PROVE HandlerTallies(r)'
    BY <1>1, <1>8, <1>12, <1>14 DEF Lossless, HandlersCount, HandlerTallies
  <2> QED BY <2>1, <2>4, <2>6, <2>7, <2>8 DEF Lossless, AllCounted, HandlersCount
<1> QED BY <1>1, <1>13, <1>14 DEF Inv

LEMMA ReplaceKeeps == Inv /\ ReplaceEndpoint => Inv'
<1> SUFFICES ASSUME Inv, ReplaceEndpoint PROVE Inv'
  OBVIOUS
<1>1. DeliveryInv /\ UNCHANGED <<job, slot, lost, delivery, handler, posts>> /\ active /\ active' = FALSE
  BY DEF Inv, ReplaceEndpoint, queueVars
<1>2. TableOK' /\ Persists
  BY <1>1, StillTable DEF DeliveryInv, QueueInv
<1>3. QueueInv'
  BY <1>1, <1>2, SlotsUnchanged DEF DeliveryInv, QueueInv
<1>4. \A r \in Slots : HandlerOK(r)'
  BY <1>1 DEF DeliveryInv, HandlerOK, Delivering, Subject
<1>5. \A e \in Deliveries : DeliveryCounted(e)' /\ NotYet(e)'
  BY <1>1 DEF DeliveryInv, DeliveryCounted, NotYet, IsJobOf
<1>6. \A e \in Deliveries : delivery'[e].status = "pending" => \E j \in Ids : Carries(j, e)'
  BY <1>1 DEF DeliveryInv, Carries, IsJobOf, FinishedBy
<1>7. DeliveriesTyped'
  BY <1>1 DEF DeliveryInv, DeliveriesTyped
<1>8. Lossless => Lossless'
  BY <1>1 DEF Lossless, HeldOnce, OneCarrier, AllCounted, HandlersCount, Tallied, HandlerTallies,
              Carrying, Saving, IsJobOf, Subject
<1> QED BY <1>1, <1>3, <1>4, <1>5, <1>6, <1>7, <1>8 DEF Inv, DeliveryInv

LEMMA StutterKeeps == Inv /\ UNCHANGED allVars => Inv'
<1> SUFFICES ASSUME Inv, UNCHANGED allVars PROVE Inv'
  OBVIOUS
<1>1. UNCHANGED <<job, slot, lost, delivery, handler, active, posts>>
  BY DEF allVars, queueVars, deliveryVars
<1>2. DeliveryInv'
  BY <1>1 DEF Inv, DeliveryInv, QueueInv, TableOK, SlotsOK, OneOfAKind, SlotOK, Seeded, DeliveriesTyped, HandlerOK,
              Delivering, Subject, DeliveryCounted, NotYet, Carries, IsJobOf, FinishedBy
<1>3. Lossless => Lossless'
  BY <1>1 DEF Lossless, HeldOnce, OneCarrier, AllCounted, HandlersCount, Tallied, HandlerTallies,
              Carrying, Saving, IsJobOf, Subject
<1> QED BY <1>1, <1>2, <1>3 DEF Inv

LEMMA InitInv == DeliveryInit => Inv
<1> SUFFICES ASSUME DeliveryInit PROVE Inv
  OBVIOUS
<1>1. /\ \A j \in Ids : job[j] = NoJob
      /\ NoJob \in Job /\ NoJob.status = "absent" /\ NoJob.kind = None
      /\ None \notin Recurring /\ None # DeliverKind
  BY QueueOK, DeliveryOK DEF DeliveryInit, Init, NoJob, Job, JobStates
<1>2. TableOK
  BY <1>1 DEF DeliveryInit, Init, TableOK, RowOK, OneOfAKind
<1>3. SlotsOK
  <2>1. \A s \in Slots : slot[s] = Down /\ SlotOK(slot[s], job)
    BY SlotRecords DEF DeliveryInit, Init, SlotOK, Holds
  <2> QED BY <2>1, SlotRecords DEF DeliveryInit, Init, SlotsOK
<1>4. lost = 0 /\ QueueInv
  BY <1>2, <1>3, QueueOK DEF DeliveryInit, Init, QueueInv
<1>5. /\ \A d \in Deliveries : delivery[d].status = "absent" /\ delivery[d].attempt = 0 /\ posts[d] = 0
      /\ \A s \in Slots : handler[s].stage = "none"
      /\ \A d \in Deliveries : \A j \in Ids : ~IsJobOf(j, d)
      /\ \A s \in Slots : ~Holds(slot[s])
  BY <1>1, SlotRecords DEF DeliveryInit, Init, NoHandler, IsJobOf
<1>6. DeliveriesTyped
  BY DEF DeliveryInit, DeliveriesTyped, Delivery, Handler, NoHandler
<1>7. DeliveryInv
  BY <1>4, <1>5, <1>6 DEF DeliveryInv, HandlerOK, DeliveryCounted, NotYet
<1>8. Lossless
  BY <1>5, DeliveryOK DEF Lossless, HeldOnce, OneCarrier, AllCounted, HandlersCount, Tallied, HandlerTallies, Carrying
<1> QED BY <1>7, <1>8 DEF Inv

LEMMA NextInv == Inv /\ [DeliveryNext]_allVars => Inv'
<1> SUFFICES ASSUME Inv, [DeliveryNext]_allVars PROVE Inv'
  OBVIOUS
<1>1. ASSUME NEW s \in Slots, Deliver(s) PROVE Inv'
  BY <1>1, ReadKeeps, PostKeeps, SaveKeeps, RetryKeeps DEF Deliver
<1>2. ASSUME NEW s \in Slots, Throw(s) PROVE Inv'
  BY <1>2, ThrowKeeps
<1>3. ASSUME NEW s \in Slots, OtherWork(s) PROVE Inv'
  BY <1>3, OtherKeeps DEF OtherWork
<1>4. ASSUME NEW s \in Slots, DieDelivering(s) PROVE Inv'
  BY <1>4, DieKeeps
<1>5. ASSUME NEW s \in Slots, Queue(Starting(s)) PROVE Inv'
  BY <1>5, SeedKeeps, StartKeeps DEF Starting, Queue
<1>6. ASSUME NEW s \in Slots, Queue(Stop(s)) PROVE Inv'
  BY <1>6, StartKeeps
<1>7. ASSUME NEW s \in Slots, Queue(Record(s)) PROVE Inv'
  BY <1>7, RecordKeeps
<1>8. ASSUME NEW s \in Slots, Queue(RecordRefused(s)) PROVE Inv'
  BY <1>8, RefusedKeeps
<1>9. ASSUME NEW s \in Slots, NEW j \in Ids, Queue(Claim(s, j)) PROVE Inv'
  BY <1>9, ClaimKeeps
<1>10. ASSUME NEW j \in Ids, Queue(FallDue(j)) \/ Queue(RecoverLost(j)) \/ Queue(TakeFromSlow(j)) PROVE Inv'
  BY <1>10, RowKeeps
<1>11. ASSUME NEW d \in Deliveries, CreateDelivery(d) PROVE Inv'
  BY <1>11, CreateKeeps
<1> QED BY <1>1, <1>2, <1>3, <1>4, <1>5, <1>6, <1>7, <1>8, <1>9, <1>10, <1>11, ReplaceKeeps, StutterKeeps
        DEF DeliveryNext

-----------------------------------------------------------------------------
(***************************************************************************)
(* The theorems.                                                           *)
(***************************************************************************)
\* The table, the slots, the deliveries and their handlers keep their types.
THEOREM DeliveryTypeCorrect == DeliverySpec => []DeliveryTypeOK
<1>1. Inv => DeliveryTypeOK
  BY DEF Inv, DeliveryInv, QueueInv, TableOK, SlotsOK, DeliveriesTyped, DeliveryTypeOK, QueueTypeOK
<1> QED BY <1>1, InitInv, NextInv, PTL DEF DeliverySpec

\* Once a worker polls, each recurring job (RECURRING_JOBS of worker.module.ts) is live and there once,
\* whatever its handler does and whichever workers were lost, slow or started beside it.
THEOREM RecurringJobsKept == DeliverySpec => []RecurringKept
<1>1. ASSUME Inv PROVE RecurringKept
  <2> SUFFICES ASSUME NEW s \in Slots, ~ComingUp(s), NEW k \in Recurring
               PROVE  Cardinality({j \in Live(job) : job[j].kind = k}) = 1
    BY DEF RecurringKept
  <2>1. TableOK /\ SlotOK(slot[s], job)
    BY <1>1 DEF Inv, DeliveryInv, QueueInv, SlotsOK
  <2>2. PICK j \in Ids : job[j].kind = k
    BY <2>1 DEF SlotOK, ComingUp, Seeded
  <2>3. job[j].status \in {"queued", "running"}
    BY <2>1, <2>2, RowFields DEF TableOK
  <2>4. {i \in Live(job) : job[i].kind = k} = {j}
    BY <2>1, <2>2, <2>3 DEF TableOK, OneOfAKind, Live
  <2> QED BY <2>4, FS_Singleton
<1>2. Inv => RecurringKept
  BY <1>1
<1> QED BY <1>2, InitInv, NextInv, PTL DEF DeliverySpec

\* A notification that is pending is carried by a job that is queued, runs, or died of an error, through
\* every loss of a worker between two statements of deliver (notification.service.ts).
THEOREM PendingAlwaysCarried == DeliverySpec => []PendingIsCarried
<1>1. Inv => PendingIsCarried
  BY DEF Inv, DeliveryInv, PendingIsCarried, Carries, IsJobOf, JobsOf
<1> QED BY <1>1, InitInv, NextInv, PTL DEF DeliverySpec

\* A notification is given up only after it was posted notification.max_attempts times or its endpoint
\* was replaced; and while no worker was lost or slow one job at a time carries it, the next one queued
\* when the handler of the last is over, and it is posted no more often than that.
THEOREM RetriesAsPromised == DeliverySpec => []RetriesHold
<1>1. ASSUME Inv PROVE GivenUpAfterTries
  BY <1>1 DEF Inv, DeliveryInv, DeliveryCounted, GivenUpAfterTries
<1>2. ASSUME Inv, lost = 0, NEW d \in Deliveries
      PROVE  Cardinality((JobsOf(d) \cap Live(job)) \ Returned) <= 1 /\ posts[d] <= MaxTries
  <2> DEFINE S == (JobsOf(d) \cap Live(job)) \ Returned
  <2>1. \A j \in S : j \in Ids /\ Carrying(j, d)
    BY DEF JobsOf, Live, Returned, Carrying, IsJobOf
  <2>2. \A i, j \in S : i = j
    BY <1>2, <2>1 DEF Inv, Lossless, OneCarrier
  <2>3. posts[d] <= MaxTries
    BY <1>2 DEF Inv, Lossless, AllCounted, Tallied
  <2> HIDE DEF S
  <2>4. S = {} \/ \E j \in S : S = {j}
    BY <2>2
  <2>5. Cardinality({}) = 0 /\ \A j \in S : Cardinality({j}) = 1
    BY FS_EmptySet, FS_Singleton
  <2>6. Cardinality(S) <= 1
    BY <2>4, <2>5
  <2> QED BY <2>3, <2>6 DEF S
<1>3. Inv => OneCarrierUnlessLost /\ GivenUpAfterTries
  BY <1>1, <1>2 DEF OneCarrierUnlessLost
<1>4. DeliveryTypeOK /\ OneCarrierUnlessLost /\ GivenUpAfterTries => RetriesHold
  BY DEF RetriesHold
<1> QED BY <1>3, <1>4, InitInv, NextInv, DeliveryTypeCorrect, PTL DEF DeliverySpec

-----------------------------------------------------------------------------
(***************************************************************************)
(* The health of the providers.  An alert's row is written by the number   *)
(* it was found under, and rows are never taken away.                      *)
(***************************************************************************)
Severities == {"none", "warning", "critical"}

BreakerRow == [state : {"closed", "open", "half_open"}, count : 0..Failures, window : BOOLEAN, probed : BOOLEAN]
AccountRow == [status : {"active", "degraded", "suspended"}, ordered : {"none", "active", "suspended"}]
AlertRow == [about : Fingerprints, severity : Severities, status : {"open", "acknowledged", "cleared"},
             notified : BOOLEAN, quiet : BOOLEAN, overdue : BOOLEAN, escalated : BOOLEAN]
WorkRow == [stage : {"idle", "raise", "insert", "advance", "advance_and_notify", "clear", "clearing", "notify"},
            about : Fingerprints \cup {None}, severity : Severities, row : Nat]
PassRow == [todo : SUBSET Conditions, seen : [Conditions -> Severities], late : SUBSET Nat, escalating : BOOLEAN]

HealthTyped ==
    /\ breaker \in [Accounts -> BreakerRow]
    /\ account \in [Accounts -> AccountRow]
    /\ alert \in Seq(AlertRow)
    /\ level \in [Conditions -> Severities]
    /\ work \in [Processes -> WorkRow]
    /\ pass \in PassRow

\* Who is to write a row has found it, and who is to insert one knows what about.
Sound(x, rows) ==
    /\ x.stage \in {"advance", "advance_and_notify", "clearing", "notify"} => x.row \in DOMAIN rows
    /\ x.stage \in {"raise", "insert"} => x.about \in Fingerprints

HealthInv ==
    /\ HealthTyped
    /\ \A w \in Processes : Sound(work[w], alert)
    /\ pass.late \subseteq DOMAIN alert
    /\ SuspensionHolds

LEMMA IdleRow == Idle \in WorkRow /\ Idle.stage = "idle" /\ Idle.about = None /\ Idle.severity = "none" /\ Idle.row = 0
BY DEF Idle, Task, WorkRow, Severities

\* A process goes on, and rows are added or written.
LEMMA WorkGoesOn ==
    ASSUME HealthInv, UNCHANGED <<breaker, account, level>>,
           alert' \in Seq(AlertRow), DOMAIN alert \subseteq DOMAIN alert',
           pass' \in PassRow, pass'.late \subseteq DOMAIN alert',
           NEW w \in Processes, NEW y \in WorkRow, work' = [work EXCEPT ![w] = y], Sound(y, alert')
    PROVE  HealthInv'
<1>1. HealthTyped'
  BY DEF HealthInv, HealthTyped
<1>2. ASSUME NEW v \in Processes PROVE Sound(work[v], alert)'
  <2>1. CASE v = w
    BY <2>1 DEF HealthInv, HealthTyped, Sound
  <2>2. CASE v # w
    BY <2>2 DEF HealthInv, HealthTyped, Sound
  <2> QED BY <2>1, <2>2
<1>3. SuspensionHolds'
  BY DEF HealthInv, SuspensionHolds
<1> QED BY <1>1, <1>2, <1>3 DEF HealthInv

LEMMA RowWritten ==
    ASSUME alert \in Seq(AlertRow), NEW r \in DOMAIN alert, NEW x \in AlertRow
    PROVE  [alert EXCEPT ![r] = x] \in Seq(AlertRow) /\ DOMAIN [alert EXCEPT ![r] = x] = DOMAIN alert
OBVIOUS

LEMMA RowAppended ==
    ASSUME alert \in Seq(AlertRow), NEW x \in AlertRow
    PROVE  /\ Append(alert, x) \in Seq(AlertRow) /\ DOMAIN alert \subseteq DOMAIN Append(alert, x)
           /\ Len(alert) + 1 \in DOMAIN Append(alert, x) /\ Len(alert) + 1 \in Nat
OBVIOUS

\* The breaker and the operator's orders.
LEMMA BreakersKeep ==
    ASSUME HealthInv, UNCHANGED <<alert, level, pass>>, breaker' \in [Accounts -> BreakerRow],
           account' \in [Accounts -> AccountRow], SuspensionHolds',
           work' \in [Processes -> WorkRow], \A w \in Processes : Sound(work'[w], alert)
    PROVE  HealthInv'
BY DEF HealthInv, HealthTyped

LEMMA FailureKeeps ==
    ASSUME HealthInv, NEW w, NEW a \in Accounts, RecordFailure(w, a)
    PROVE  HealthInv'
<1> DEFINE b == breaker[a]
           count == IF b.window THEN b.count + 1 ELSE 1
           open == b.state = "open" \/ count >= Failures
           opened == open /\ b.state # "open"
           c == IF count > Failures THEN Failures ELSE count
           row == [state |-> IF open THEN "open" ELSE "closed", window |-> TRUE, count |-> c, probed |-> b.probed]
           told == Task("raise", a, "critical", 0)
<1>1. b \in BreakerRow /\ Failures \in Nat \ {0}
  BY HealthOK DEF HealthInv, HealthTyped
<1>2. w \in Processes /\ UNCHANGED <<alert, level, pass>>
  BY DEF RecordFailure, Processes
<1>3. count \in Nat
  BY <1>1 DEF BreakerRow
<1>4. c \in 0..Failures
  <2> HIDE DEF count
  <2> QED BY <1>1, <1>3
<1>5. breaker' = [breaker EXCEPT ![a] = row]
  BY DEF RecordFailure
<1>6. /\ account' = IF opened /\ account[a].status = "active" THEN [account EXCEPT ![a].status = "degraded"] ELSE account
      /\ work' = IF opened THEN [work EXCEPT ![w] = told] ELSE work
  BY DEF RecordFailure
<1>7. told \in WorkRow /\ Sound(told, alert)
  BY DEF Task, WorkRow, Severities, Sound, Fingerprints
<1> HIDE DEF opened, open, c, told
<1>8. row \in BreakerRow
  BY <1>1, <1>4 DEF BreakerRow
<1>9. breaker' \in [Accounts -> BreakerRow]
  <2> HIDE DEF row
  <2> QED BY <1>5, <1>8 DEF HealthInv, HealthTyped
<1>10. account' \in [Accounts -> AccountRow] /\ SuspensionHolds'
  BY <1>6 DEF HealthInv, HealthTyped, AccountRow, SuspensionHolds
<1>11. work' \in [Processes -> WorkRow] /\ \A v \in Processes : Sound(work'[v], alert)
  BY <1>2, <1>6, <1>7 DEF HealthInv, HealthTyped
<1> QED BY <1>2, <1>9, <1>10, <1>11, BreakersKeep

LEMMA SuccessKeeps ==
    ASSUME HealthInv, NEW w, NEW a \in Accounts, RecordSuccess(w, a)
    PROVE  HealthInv'
<1> DEFINE row == [state |-> "closed", window |-> FALSE, count |-> 0, probed |-> breaker[a].probed]
           told == Task("clear", a, "none", 0)
<1>1. breaker[a] \in BreakerRow /\ Failures \in Nat \ {0}
  BY HealthOK DEF HealthInv, HealthTyped
<1>2. w \in Processes /\ UNCHANGED <<alert, level, pass>>
  BY DEF RecordSuccess, Processes
<1>3. breaker' = [breaker EXCEPT ![a] = row] /\ row \in BreakerRow
  BY <1>1 DEF RecordSuccess, BreakerRow
<1>4. /\ account' = account \/ (account[a].status = "degraded" /\ account' = [account EXCEPT ![a].status = "active"])
      /\ work' = work \/ work' = [work EXCEPT ![w] = told]
  BY DEF RecordSuccess
<1>5. told \in WorkRow /\ Sound(told, alert)
  BY DEF Task, WorkRow, Severities, Sound, Fingerprints
<1> HIDE DEF row, told
<1>6. breaker' \in [Accounts -> BreakerRow]
  BY <1>3 DEF HealthInv, HealthTyped
<1>7. account' \in [Accounts -> AccountRow] /\ SuspensionHolds'
  BY <1>4 DEF HealthInv, HealthTyped, AccountRow, SuspensionHolds
<1>8. work' \in [Processes -> WorkRow] /\ \A v \in Processes : Sound(work'[v], alert)
  BY <1>2, <1>4, <1>5 DEF HealthInv, HealthTyped
<1> QED BY <1>2, <1>6, <1>7, <1>8, BreakersKeep

LEMMA SurroundingsKeep ==
    ASSUME HealthInv, NEW a \in Accounts,
           \/ AllowProbe(a) \/ WindowPasses(a) \/ ProbeIntervalPasses(a)
           \/ \E s \in {"active", "suspended"} : SetStatus(a, s)
    PROVE  HealthInv'
<1>1. CASE AllowProbe(a) \/ WindowPasses(a) \/ ProbeIntervalPasses(a)
  <2>1. breaker[a] \in BreakerRow
    BY DEF HealthInv, HealthTyped
  <2>2. \E x \in BreakerRow : breaker' = [breaker EXCEPT ![a] = x]
    <3>1. CASE AllowProbe(a)
      <4> DEFINE x == [breaker[a] EXCEPT !.state = "half_open", !.probed = TRUE]
      <4>1. x \in BreakerRow /\ breaker' = [breaker EXCEPT ![a] = x]
        BY <2>1, <3>1 DEF AllowProbe, BreakerRow
      <4> QED BY <4>1
    <3>2. CASE WindowPasses(a)
      <4> DEFINE x == [breaker[a] EXCEPT !.window = FALSE]
      <4>1. x \in BreakerRow /\ breaker' = [breaker EXCEPT ![a] = x]
        BY <2>1, <3>2 DEF WindowPasses, BreakerRow
      <4> QED BY <4>1
    <3>3. CASE ProbeIntervalPasses(a)
      <4> DEFINE x == [breaker[a] EXCEPT !.probed = FALSE]
      <4>1. x \in BreakerRow /\ breaker' = [breaker EXCEPT ![a] = x]
        BY <2>1, <3>3 DEF ProbeIntervalPasses, BreakerRow
      <4> QED BY <4>1
    <3> QED BY <1>1, <3>1, <3>2, <3>3
  <2>3. UNCHANGED <<account, alert, level, work, pass>>
    BY <1>1 DEF AllowProbe, WindowPasses, ProbeIntervalPasses
  <2> QED BY <2>2, <2>3, BreakersKeep DEF HealthInv, HealthTyped, SuspensionHolds
<1>2. ASSUME NEW s \in {"active", "suspended"}, SetStatus(a, s) PROVE HealthInv'
  BY <1>2, BreakersKeep DEF SetStatus, HealthInv, HealthTyped, AccountRow, SuspensionHolds
<1> QED BY <1>1, <1>2


\* Who goes on with an alert.
LEMMA RaiseKeeps ==
    ASSUME HealthInv, NEW w \in Processes, Raise(w)
    PROVE  HealthInv'
<1>1. work[w] \in WorkRow /\ work[w].about \in Fingerprints /\ UNCHANGED <<breaker, account, alert, level, pass>>
  BY DEF Raise, Doing, HealthInv, HealthTyped, Sound
<1>2. CASE LiveAlerts(work[w].about) = {}
  <2> DEFINE y == [work[w] EXCEPT !.stage = "insert"]
  <2>1. y \in WorkRow /\ Sound(y, alert)
    BY <1>1 DEF WorkRow, Sound
  <2>2. work' = [work EXCEPT ![w] = y]
    BY <1>2 DEF Raise
  <2> HIDE DEF y
  <2> QED BY <1>1, <2>1, <2>2, WorkGoesOn DEF HealthInv, HealthTyped
<1>3. CASE LiveAlerts(work[w].about) # {}
  <2>1. PICK r \in LiveAlerts(work[w].about) :
            work' = [work EXCEPT ![w] = Task(IF Renotify(alert[r], @.severity) THEN "advance_and_notify" ELSE "advance",
                                             @.about, @.severity, r)]
    BY <1>3 DEF Raise
  <2> DEFINE y == Task(IF Renotify(alert[r], work[w].severity) THEN "advance_and_notify" ELSE "advance",
                       work[w].about, work[w].severity, r)
  <2>2. r \in DOMAIN alert /\ r \in Nat
    BY <2>1 DEF LiveAlerts, HealthInv, HealthTyped
  <2>3. y \in WorkRow /\ Sound(y, alert)
    BY <1>1, <2>2 DEF Task, WorkRow, Sound
  <2>4. work' = [work EXCEPT ![w] = y]
    BY <1>1, <2>1
  <2> HIDE DEF y
  <2> QED BY <1>1, <2>3, <2>4, WorkGoesOn DEF HealthInv, HealthTyped
<1> QED BY <1>2, <1>3

LEMMA InsertKeeps ==
    ASSUME HealthInv, NEW w \in Processes, InsertAlert(w)
    PROVE  HealthInv'
<1>1. work[w] \in WorkRow /\ work[w].about \in Fingerprints /\ UNCHANGED <<breaker, account, level, pass>>
  BY DEF InsertAlert, Doing, HealthInv, HealthTyped, Sound
<1>2. CASE LiveAlerts(work[w].about) # {}
  <2> DEFINE y == [work[w] EXCEPT !.stage = "raise"]
  <2>1. y \in WorkRow /\ Sound(y, alert)
    BY <1>1 DEF WorkRow, Sound
  <2>2. work' = [work EXCEPT ![w] = y] /\ UNCHANGED alert
    BY <1>2 DEF InsertAlert
  <2> HIDE DEF y
  <2> QED BY <1>1, <2>1, <2>2, WorkGoesOn DEF HealthInv, HealthTyped
<1>3. CASE LiveAlerts(work[w].about) = {}
  <2> DEFINE x == [about |-> work[w].about, severity |-> work[w].severity, status |-> "open",
                   notified |-> FALSE, quiet |-> FALSE, overdue |-> FALSE, escalated |-> FALSE]
             y == Task("notify", work[w].about, work[w].severity, Len(alert) + 1)
  <2>1. alert' = Append(alert, x) /\ work' = [work EXCEPT ![w] = y]
    BY <1>3 DEF InsertAlert
  <2>2. x \in AlertRow
    BY <1>1 DEF WorkRow, AlertRow
  <2> HIDE DEF x
  <2>3. /\ alert' \in Seq(AlertRow) /\ DOMAIN alert \subseteq DOMAIN alert'
        /\ Len(alert) + 1 \in DOMAIN alert' /\ Len(alert) + 1 \in Nat
    BY <2>1, <2>2, RowAppended DEF HealthInv, HealthTyped
  <2>4. y \in WorkRow /\ Sound(y, alert')
    BY <1>1, <2>3 DEF Task, WorkRow, Sound
  <2> HIDE DEF y
  <2>5. pass' \in PassRow /\ pass'.late \subseteq DOMAIN alert'
    BY <1>1, <2>3 DEF HealthInv, HealthTyped
  <2> QED BY <1>1, <2>1, <2>3, <2>4, <2>5, WorkGoesOn
<1> QED BY <1>2, <1>3

\* A row that is written stays one.
LEMMA WrittenGoesOn ==
    ASSUME HealthInv, UNCHANGED <<breaker, account, level>>, pass' \in PassRow, pass'.late \subseteq DOMAIN alert,
           NEW r \in DOMAIN alert, NEW x \in AlertRow, alert' = [alert EXCEPT ![r] = x],
           NEW w \in Processes, NEW y \in WorkRow, work' = [work EXCEPT ![w] = y], Sound(y, alert)
    PROVE  HealthInv'
<1>1. alert' \in Seq(AlertRow) /\ DOMAIN alert' = DOMAIN alert
  BY RowWritten DEF HealthInv, HealthTyped
<1>2. Sound(y, alert')
  BY <1>1 DEF Sound
<1> QED BY <1>1, <1>2, WorkGoesOn

LEMMA RowOf ==
    ASSUME HealthInv, NEW r \in DOMAIN alert
    PROVE  alert[r] \in AlertRow /\ alert = [alert EXCEPT ![r] = alert[r]] /\ r \in Nat
BY DEF HealthInv, HealthTyped

LEMMA AdvanceKeeps ==
    ASSUME HealthInv, NEW w \in Processes, AdvanceAlert(w)
    PROVE  HealthInv'
<1> DEFINE r == work[w].row
           rose == Rank[work[w].severity] > Rank[alert[r].severity]
           x == IF rose THEN [alert[r] EXCEPT !.severity = work[w].severity, !.status = "open"] ELSE alert[r]
           y == IF Doing(w, "advance") THEN Idle ELSE [work[w] EXCEPT !.stage = "notify"]
<1>1. /\ work[w] \in WorkRow /\ r \in DOMAIN alert /\ UNCHANGED <<breaker, account, level, pass>>
      /\ pass \in PassRow /\ pass.late \subseteq DOMAIN alert
  BY DEF AdvanceAlert, Doing, HealthInv, HealthTyped, Sound
<1>2. alert[r] \in AlertRow /\ alert = [alert EXCEPT ![r] = alert[r]]
  BY <1>1, RowOf
<1>3. work' = [work EXCEPT ![w] = y]
  BY DEF AdvanceAlert
<1>4. y \in WorkRow /\ Sound(y, alert)
  BY <1>1, IdleRow DEF WorkRow, Sound
<1>5. alert' = [alert EXCEPT ![r] = x]
  <2>1. CASE rose
    BY <1>1, <1>2, <2>1 DEF AdvanceAlert, HealthInv, HealthTyped
  <2>2. CASE ~rose
    BY <1>2, <2>2 DEF AdvanceAlert
  <2> QED BY <2>1, <2>2
<1>6. x \in AlertRow
  <2> HIDE DEF rose
  <2> QED BY <1>1, <1>2 DEF AlertRow, WorkRow
<1> HIDE DEF x, y, r
<1> QED BY <1>1, <1>3, <1>4, <1>5, <1>6, WrittenGoesOn

LEMMA ClearKeeps ==
    ASSUME HealthInv, NEW w \in Processes, Clear(w)
    PROVE  HealthInv'
<1>1. work[w] \in WorkRow /\ UNCHANGED <<breaker, account, alert, level, pass>>
  BY DEF Clear, HealthInv, HealthTyped
<1>2. CASE LiveAlerts(work[w].about) = {}
  BY <1>1, <1>2, IdleRow, WorkGoesOn DEF Clear, HealthInv, HealthTyped, Sound
<1>3. CASE LiveAlerts(work[w].about) # {}
  <2>1. PICK r \in LiveAlerts(work[w].about) :
            work' = [work EXCEPT ![w] = Task("clearing", @.about, @.severity, r)]
    BY <1>3 DEF Clear
  <2> DEFINE y == Task("clearing", work[w].about, work[w].severity, r)
  <2>2. r \in DOMAIN alert /\ r \in Nat
    BY <2>1 DEF LiveAlerts, HealthInv, HealthTyped
  <2>3. y \in WorkRow /\ Sound(y, alert)
    BY <1>1, <2>2 DEF Task, WorkRow, Sound
  <2>4. work' = [work EXCEPT ![w] = y]
    BY <1>1, <2>1
  <2> HIDE DEF y
  <2> QED BY <1>1, <2>3, <2>4, WorkGoesOn DEF HealthInv, HealthTyped
<1> QED BY <1>2, <1>3

LEMMA ClearingKeeps ==
    ASSUME HealthInv, NEW w \in Processes, ClearAlert(w)
    PROVE  HealthInv'
<1> DEFINE r == work[w].row
           x == [alert[r] EXCEPT !.status = "cleared"]
           y == [work[w] EXCEPT !.stage = "notify"]
<1>1. /\ work[w] \in WorkRow /\ r \in DOMAIN alert /\ UNCHANGED <<breaker, account, level, pass>>
      /\ pass \in PassRow /\ pass.late \subseteq DOMAIN alert
  BY DEF ClearAlert, Doing, HealthInv, HealthTyped, Sound
<1>2. work' = [work EXCEPT ![w] = y] /\ y \in WorkRow /\ Sound(y, alert)
  BY <1>1 DEF ClearAlert, WorkRow, Sound
<1>3. alert' = [alert EXCEPT ![r] = x]
  BY DEF ClearAlert
<1>4. x \in AlertRow
  BY <1>1, RowOf DEF AlertRow
<1> HIDE DEF x, y, r
<1> QED BY <1>1, <1>2, <1>3, <1>4, WrittenGoesOn

LEMMA NotifyKeeps ==
    ASSUME HealthInv, NEW w \in Processes, Notify(w)
    PROVE  HealthInv'
<1> DEFINE r == work[w].row
           heard == alert[r].severity \in Heard \/ alert[r].status = "cleared"
           x == IF heard THEN [alert[r] EXCEPT !.notified = TRUE, !.quiet = FALSE] ELSE alert[r]
<1>1. /\ r \in DOMAIN alert /\ UNCHANGED <<breaker, account, level, pass>>
      /\ pass \in PassRow /\ pass.late \subseteq DOMAIN alert
  BY DEF Notify, Doing, HealthInv, HealthTyped, Sound
<1>2. work' = [work EXCEPT ![w] = Idle] /\ Sound(Idle, alert)
  BY IdleRow DEF Notify, Sound
<1>3. alert[r] \in AlertRow /\ alert = [alert EXCEPT ![r] = alert[r]]
  BY <1>1, RowOf
<1>4. alert' = [alert EXCEPT ![r] = x]
  <2>1. CASE heard
    BY <1>1, <1>3, <2>1 DEF Notify, HealthInv, HealthTyped
  <2>2. CASE ~heard
    BY <1>3, <2>2 DEF Notify
  <2> QED BY <2>1, <2>2
<1>5. x \in AlertRow
  <2> HIDE DEF heard
  <2> QED BY <1>3 DEF AlertRow
<1> HIDE DEF x, r
<1> QED BY <1>1, <1>2, <1>4, <1>5, IdleRow, WrittenGoesOn

\* What others make of a row: nobody's task changes.
LEMMA RowsKeep ==
    ASSUME HealthInv, NEW r \in DOMAIN alert, Acknowledge(r) \/ QuietElapses(r) \/ BecomesOverdue(r)
    PROVE  HealthInv'
<1>1. UNCHANGED <<breaker, account, level, work, pass>>
  BY DEF Acknowledge, QuietElapses, BecomesOverdue
<1>2. alert[r] \in AlertRow
  BY RowOf
<1>3. \E x \in AlertRow : alert' = [alert EXCEPT ![r] = x]
  <2>1. CASE Acknowledge(r)
    <3> DEFINE x == [alert[r] EXCEPT !.status = "acknowledged"]
    <3>1. x \in AlertRow /\ alert' = [alert EXCEPT ![r] = x]
      BY <1>2, <2>1 DEF Acknowledge, AlertRow
    <3> QED BY <3>1
  <2>2. CASE QuietElapses(r)
    <3> DEFINE x == [alert[r] EXCEPT !.quiet = TRUE]
    <3>1. x \in AlertRow /\ alert' = [alert EXCEPT ![r] = x]
      BY <1>2, <2>2 DEF QuietElapses, AlertRow
    <3> QED BY <3>1
  <2>3. CASE BecomesOverdue(r)
    <3> DEFINE x == [alert[r] EXCEPT !.overdue = TRUE]
    <3>1. x \in AlertRow /\ alert' = [alert EXCEPT ![r] = x]
      BY <1>2, <2>3 DEF BecomesOverdue, AlertRow
    <3> QED BY <3>1
  <2> QED BY <2>1, <2>2, <2>3
<1>4. alert' \in Seq(AlertRow) /\ DOMAIN alert' = DOMAIN alert
  BY <1>3, RowWritten DEF HealthInv, HealthTyped
<1> QED BY <1>1, <1>4 DEF HealthInv, HealthTyped, Sound, SuspensionHolds

\* The evaluation.
LEMMA PassKeeps ==
    ASSUME HealthInv, PassStep
    PROVE  HealthInv'
<1>0. pass \in PassRow /\ pass.late \subseteq DOMAIN alert /\ Evaluator \in Processes
  BY DEF HealthInv, HealthTyped, Processes
<1>1. CASE Measure
  <2>1. pass' \in PassRow /\ pass'.late = {}
    BY <1>1 DEF Measure, PassRow, HealthInv, HealthTyped
  <2> QED BY <1>1, <2>1 DEF Measure, HealthInv, HealthTyped, SuspensionHolds
<1>2. ASSUME NEW c \in Conditions, Evaluate(c) PROVE HealthInv'
  <2> DEFINE y == Task(IF pass.seen[c] = "none" THEN "clear" ELSE "raise", c, pass.seen[c], 0)
  <2>1. pass.seen[c] \in Severities /\ UNCHANGED <<breaker, account, alert, level>>
    BY <1>0, <1>2 DEF Evaluate, PassRow
  <2>2. y \in WorkRow /\ Sound(y, alert)
    BY <2>1 DEF Task, WorkRow, Sound, Fingerprints
  <2>3. work' = [work EXCEPT ![Evaluator] = y]
    BY <1>2 DEF Evaluate
  <2> HIDE DEF y
  <2>4. pass' = [pass EXCEPT !.todo = @ \ {c}]
    BY <1>2 DEF Evaluate
  <2>5. pass' \in PassRow /\ pass'.late \subseteq DOMAIN alert
    BY <1>0, <2>4 DEF PassRow
  <2> QED BY <1>0, <2>1, <2>2, <2>3, <2>5, WorkGoesOn DEF HealthInv, HealthTyped
<1>3. CASE EscalateOverdue
  <2>1. Overdue \subseteq DOMAIN alert /\ Overdue \subseteq Nat
    BY DEF Overdue, HealthInv, HealthTyped
  <2>2. pass' = [pass EXCEPT !.late = Overdue, !.escalating = FALSE]
    BY <1>3 DEF EscalateOverdue
  <2>3. pass' \in PassRow /\ pass'.late \subseteq DOMAIN alert
    BY <1>0, <2>1, <2>2 DEF PassRow
  <2> QED BY <1>3, <2>3 DEF EscalateOverdue, HealthInv, HealthTyped, SuspensionHolds
<1>4. ASSUME NEW r \in DOMAIN alert, Escalate(r) PROVE HealthInv'
  <2> DEFINE x == [alert[r] EXCEPT !.escalated = TRUE]
             y == Task("notify", None, "none", r)
  <2>1. UNCHANGED <<breaker, account, level>> /\ alert' = [alert EXCEPT ![r] = x] /\ work' = [work EXCEPT ![Evaluator] = y]
    BY <1>4 DEF Escalate
  <2>2. x \in AlertRow /\ r \in Nat
    BY RowOf DEF AlertRow
  <2>3. y \in WorkRow /\ Sound(y, alert)
    BY <2>2 DEF Task, WorkRow, Sound, Severities
  <2> HIDE DEF x, y
  <2>4. pass' = [pass EXCEPT !.late = @ \ {r}]
    BY <1>4 DEF Escalate
  <2>5. pass' \in PassRow /\ pass'.late \subseteq DOMAIN alert
    BY <1>0, <2>4 DEF PassRow
  <2> QED BY <1>0, <2>1, <2>2, <2>3, <2>5, WrittenGoesOn
<1> QED BY <1>1, <1>2, <1>3, <1>4 DEF PassStep

LEMMA DeathKeeps ==
    ASSUME HealthInv, NEW w \in Processes, Dies(w)
    PROVE  HealthInv'
<1>0. pass \in PassRow /\ pass.late \subseteq DOMAIN alert
  BY DEF HealthInv, HealthTyped
<1>1. UNCHANGED <<breaker, account, alert, level>> /\ work' = [work EXCEPT ![w] = Idle] /\ Sound(Idle, alert)
  BY IdleRow DEF Dies, Sound
<1>2. pass' = IF w = Evaluator THEN [pass EXCEPT !.todo = {}, !.late = {}, !.escalating = FALSE] ELSE pass
  BY DEF Dies
<1>3. pass' \in PassRow /\ pass'.late \subseteq DOMAIN alert
  BY <1>0, <1>2 DEF PassRow
<1> QED BY <1>1, <1>3, IdleRow, WorkGoesOn DEF HealthInv, HealthTyped

LEMMA HealthStarts == HealthInit => HealthInv
<1> SUFFICES ASSUME HealthInit PROVE HealthInv
  OBVIOUS
<1>1. breaker \in [Accounts -> BreakerRow] /\ account \in [Accounts -> AccountRow]
  BY HealthOK DEF HealthInit, BreakerRow, AccountRow
<1>2. alert \in Seq(AlertRow) /\ DOMAIN alert = {} /\ level \in [Conditions -> Severities]
  BY DEF HealthInit, Severities
<1>3. work \in [Processes -> WorkRow] /\ \A w \in Processes : Sound(work[w], alert)
  BY IdleRow DEF HealthInit, Sound
<1>4. pass \in PassRow /\ pass.late = {}
  BY <1>2 DEF HealthInit, PassRow
<1>5. SuspensionHolds
  BY DEF HealthInit, SuspensionHolds
<1> QED BY <1>1, <1>2, <1>3, <1>4, <1>5 DEF HealthInv, HealthTyped

LEMMA HealthGoesOn == HealthInv /\ [HealthNext]_healthVars => HealthInv'
<1> SUFFICES ASSUME HealthInv, [HealthNext]_healthVars PROVE HealthInv'
  OBVIOUS
<1>1. ASSUME NEW w \in Processes, AlertStep(w) \/ Dies(w) PROVE HealthInv'
  BY <1>1, RaiseKeeps, InsertKeeps, AdvanceKeeps, ClearKeeps, ClearingKeeps, NotifyKeeps, DeathKeeps DEF AlertStep
<1>2. ASSUME NEW c \in Conditions, NEW l \in {"none", "warning", "critical"}, LevelMoves(c, l) PROVE HealthInv'
  BY <1>2 DEF LevelMoves, HealthInv, HealthTyped, Severities, SuspensionHolds
<1>3. CASE UNCHANGED healthVars
  BY <1>3 DEF healthVars, HealthInv, HealthTyped, SuspensionHolds
<1> QED BY <1>1, <1>2, <1>3, PassKeeps, FailureKeeps, SuccessKeeps, SurroundingsKeep, RowsKeep DEF HealthNext

\* An account that an operator suspended stays suspended, and no other is, through every failure,
\* probe and late success that CircuitBreaker records, and whichever process dies on the way.
THEOREM OrdersAlwaysStand == HealthSpec => []OrdersStand
<1>1. ASSUME HealthInv PROVE HealthTypeOK
  <2>1. ASSUME NEW a \in Accounts
        PROVE  /\ breaker[a].state \in {"closed", "open", "half_open"} /\ breaker[a].count \in 0..Failures
               /\ account[a].status \in {"active", "degraded", "suspended"}
    BY <1>1 DEF HealthInv, HealthTyped, BreakerRow, AccountRow
  <2>2. ASSUME NEW r \in DOMAIN alert
        PROVE  alert[r].about \in Fingerprints /\ alert[r].status \in {"open", "acknowledged", "cleared"}
    BY <1>1, RowOf DEF AlertRow
  <2>3. ASSUME NEW w \in Processes, Doing(w, "notify") PROVE work[w].row \in DOMAIN alert
    BY <1>1, <2>3 DEF HealthInv, Sound, Doing
  <2> QED BY <2>1, <2>2, <2>3 DEF HealthTypeOK
<1>2. HealthInv => OrdersStand
  BY <1>1 DEF HealthInv, OrdersStand
<1> QED BY <1>2, HealthStarts, HealthGoesOn, PTL DEF HealthSpec
===============================================================================
