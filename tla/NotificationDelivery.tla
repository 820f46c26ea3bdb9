------------------------- MODULE NotificationDelivery -------------------------
(***************************************************************************)
(* Notifications to projects on top of the job queue.  A delivery and its  *)
(* job commit with the state change they report; the handler reads the     *)
(* delivery, posts it, records the answer and, where it must try again,    *)
(* enqueues a job for the next attempt, each in a statement of its own.    *)
(* Delivery jobs have no dedupe key and one attempt: retrying is the       *)
(* handler's business, not the queue's.                                    *)
(***************************************************************************)
EXTENDS JobQueue

CONSTANTS
    Deliveries,  \* rows of notification_delivery, replays among them
    MaxTries     \* setting notification.max_attempts

DeliverKind == "notification.deliver"

ASSUME DeliveryOK ==
    /\ Deliveries \subseteq Subjects
    /\ DeliverKind \in Kinds \ Keyed
    /\ MaxAttempts[DeliverKind] = 1
    /\ MaxTries \in Nat \ {0}

VARIABLES
    delivery,  \* the rows of notification_delivery
    handler,   \* what the delivery handler of each slot knows
    active,    \* whether the endpoint is still the project's active one
    posts      \* history: requests made to the endpoint for each delivery

deliveryVars == <<delivery, handler, active, posts>>
allVars == <<queueVars, deliveryVars>>

Delivery == [status : {"absent", "pending", "delivered", "exhausted"}, attempt : Nat]

Handler == [stage : {"none", "post", "save", "retry"}, attempt : Nat, active : BOOLEAN, ok : BOOLEAN]
NoHandler == [stage |-> "none", attempt |-> 0, active |-> FALSE, ok |-> FALSE]

Subject(s) == job[slot[s].id].about
Delivering(s) == slot[s].stage = "running" /\ job[slot[s].id].kind = DeliverKind
At(s, stage) == Delivering(s) /\ handler[s].stage = stage

DeliveryInit ==
    /\ Init
    /\ delivery = [d \in Deliveries |-> [status |-> "absent", attempt |-> 0]]
    /\ handler = [s \in Slots |-> NoHandler]
    /\ active = TRUE
    /\ posts = [d \in Deliveries |-> 0]

\* A delivery is created with its job, for a state change or as the replay of another delivery.
CreateDelivery(d) ==
    /\ active
    /\ delivery[d].status = "absent"
    /\ delivery' = [delivery EXCEPT ![d].status = "pending"]
    /\ Enqueue(DeliverKind, d, TRUE)
    /\ UNCHANGED <<handler, active, posts>>

\* Another endpoint becomes the active one; deliveries keep the endpoint they were created for.
ReplaceEndpoint ==
    /\ active
    /\ active' = FALSE
    /\ UNCHANGED <<queueVars, delivery, handler, posts>>

Finish(s, outcome) ==
    /\ Return(s, outcome)
    /\ handler' = [handler EXCEPT ![s] = NoHandler]

\* The first statement of deliver.
ReadDelivery(s) ==
    /\ At(s, "none")
    /\ LET d == delivery[Subject(s)]
       IN  \/ /\ d.status # "pending"
              /\ Finish(s, "finished")
           \/ /\ d.status = "pending"
              /\ handler' = [handler EXCEPT ![s] = [stage |-> "post", attempt |-> d.attempt + 1,
                                                    active |-> active, ok |-> FALSE]]
              /\ UNCHANGED slot
    /\ UNCHANGED <<job, lost, delivery, active, posts>>

\* The request, answered with a success or not at all, and the row that records the attempt.
PostDelivery(s) ==
    /\ At(s, "post")
    /\ \E ok \in BOOLEAN : handler' = [handler EXCEPT ![s].stage = "save", ![s].ok = ok]
    /\ posts' = [posts EXCEPT ![Subject(s)] = @ + 1]
    /\ UNCHANGED <<queueVars, delivery, active>>

\* Mutant: the attempt just made is counted twice.
VerdictEarly(h) == IF h.ok THEN "delivered"
                   ELSE IF h.attempt + 1 >= MaxTries \/ ~h.active THEN "exhausted" ELSE "pending"

\* Mutant: a status the table does not know.
VerdictGivenUp(h) == IF h.ok THEN "delivered"
                     ELSE IF h.attempt >= MaxTries \/ ~h.active THEN "given_up" ELSE "pending"

Verdict(h) == IF h.ok THEN "delivered"
              ELSE IF h.attempt >= MaxTries \/ ~h.active THEN "exhausted" ELSE "pending"

\* The row is set by its id alone, whatever another handler made of it since it was read.
SaveDelivery(s) ==
    /\ At(s, "save")
    /\ LET h == handler[s]
       IN  /\ delivery' = [delivery EXCEPT ![Subject(s)] = [status |-> IF Verdict(h) = "pending"
                                                                       THEN @.status ELSE Verdict(h),
                                                            attempt |-> h.attempt]]
           /\ IF Verdict(h) = "pending"
              THEN handler' = [handler EXCEPT ![s].stage = "retry"] /\ UNCHANGED slot
              ELSE Finish(s, "finished")
    /\ UNCHANGED <<job, lost, active, posts>>

\* Mutant: the next attempt is left to the queue.
EnqueueRetryForgotten(s) ==
    /\ At(s, "retry")
    /\ Finish(s, "finished")
    /\ UNCHANGED <<job, lost, delivery, active, posts>>

EnqueueRetry(s) ==
    /\ At(s, "retry")
    /\ Fits(job, DeliverKind, Subject(s))
    /\ job' = Enqueued(job, DeliverKind, Subject(s), FALSE)
    /\ Finish(s, "finished")
    /\ UNCHANGED <<lost, delivery, active, posts>>

\* A statement fails, or the endpoint's secret does not open.
Throw(s) ==
    /\ Delivering(s)
    /\ Finish(s, "threw")
    /\ UNCHANGED <<job, lost, delivery, active, posts>>

\* Handlers of recurring jobs, of which the queue sees the end only.
OtherReturns(s, outcome) ==
    /\ slot[s].stage = "running" /\ ~Delivering(s)
    /\ Return(s, outcome)
    /\ UNCHANGED <<job, lost, deliveryVars>>

Deliver(s) == ReadDelivery(s) \/ PostDelivery(s) \/ SaveDelivery(s) \/ EnqueueRetry(s)
OtherWork(s) == \E outcome \in {"finished", "again", "threw"} : OtherReturns(s, outcome)
DieDelivering(s) ==
    /\ Die(s)
    /\ handler' = [handler EXCEPT ![s] = NoHandler]
    /\ UNCHANGED <<delivery, active, posts>>

Queue(A) == A /\ UNCHANGED deliveryVars

DeliveryNext ==
    \/ \E s \in Slots : Deliver(s) \/ Throw(s) \/ OtherWork(s) \/ DieDelivering(s)
    \/ \E s \in Slots : Queue(Starting(s)) \/ Queue(Stop(s)) \/ Queue(Record(s)) \/ Queue(RecordRefused(s))
    \/ \E s \in Slots, j \in Ids : Queue(Claim(s, j))
    \/ \E j \in Ids : Queue(FallDue(j)) \/ Queue(RecoverLost(j)) \/ Queue(TakeFromSlow(j))
    \/ \E d \in Deliveries : CreateDelivery(d)
    \/ ReplaceEndpoint

DeliverySpec == DeliveryInit /\ [][DeliveryNext]_allVars

(***************************************************************************)
(* Workers are restarted, a handler that runs comes to its end, back-off   *)
(* passes, lost jobs are recovered, and due jobs are claimed oldest first, *)
(* so none is passed over for ever.                                        *)
(***************************************************************************)
DeliveryFairness ==
    /\ \A s \in Slots : /\ WF_allVars(Queue(Starting(s)))
                        /\ WF_allVars(Deliver(s) \/ OtherWork(s))
                        /\ WF_allVars(Queue(Record(s)))
    /\ \A j \in Ids : /\ WF_allVars(Queue(FallDue(j)))
                      /\ WF_allVars(Queue(RecoverLost(j)))
                      /\ SF_allVars(\E s \in Slots : Queue(Claim(s, j)))

DeliveryFairSpec == DeliverySpec /\ DeliveryFairness
-----------------------------------------------------------------------------
\* The queue's variables and the deliveries' have their types.
DeliveryTypeOK ==
    /\ QueueTypeOK
    /\ delivery \in [Deliveries -> Delivery]
    /\ handler \in [Slots -> Handler]
    /\ active \in BOOLEAN
    /\ posts \in [Deliveries -> Nat]

JobsOf(d) == {j \in Ids : job[j].kind = DeliverKind /\ job[j].about = d}

\* A pending delivery is carried by a job queued or running, through every death and recovery between
\* the handler's statements.  Only a handler that threw leaves it with a dead job and nothing else.
PendingIsCarried ==
    \A d \in Deliveries : delivery[d].status = "pending" =>
        \E j \in JobsOf(d) : job[j].status \in {"queued", "running", "dead"}

\* A delivery is given up only after the endpoint was really tried that often, or once it was replaced:
\* handlers that work on one delivery at a time never count an attempt nobody made.
GivenUpAfterTries ==
    \A d \in Deliveries : delivery[d].status = "exhausted" => posts[d] >= MaxTries \/ ~active

Returned == {slot[s].id : s \in {r \in Slots : slot[r].stage = "returned"}}

\* While no worker was lost or slow a delivery is carried by one job at a time, the next one queued
\* only when the handler of the last is over, and it is posted no more often than it may be.
OneCarrierUnlessLost ==
    lost = 0 => \A d \in Deliveries :
                    /\ Cardinality((JobsOf(d) \cap Live(job)) \ Returned) <= 1
                    /\ posts[d] <= MaxTries

\* A delivery is given up only when its tries are used up, and one job carries it unless one was lost
\* (notification.service.ts, job-queue.ts); and every variable has its type.
RetriesHold == DeliveryTypeOK /\ OneCarrierUnlessLost /\ GivenUpAfterTries

\* A pending delivery comes to an end: delivered, exhausted, or its job died of an error.
DeliveryConcludes ==
    \A d \in Deliveries : delivery[d].status = "pending"
                             ~> \/ delivery[d].status # "pending"
                                \/ \E j \in JobsOf(d) : job[j].status = "dead"
==============================================================================
