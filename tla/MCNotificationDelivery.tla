------------------------ MODULE MCNotificationDelivery ------------------------
(***************************************************************************)
(* Instances of what the worker does unattended: deliveries on the job     *)
(* queue, and the health of the providers.  A behaviour plays one of the   *)
(* two scenes while the other is at its start.                             *)
(***************************************************************************)
EXTENDS NotificationDelivery, ProviderHealth, TLC

CONSTANTS s1, s2, n1, a1, k1, h1, h2, ev

VARIABLE scene

MCMaxAttempts == [k \in Kinds \ Recurring |-> 1]

WorkVars == <<scene, allVars, healthVars>>
WorkInit == scene \in {"deliveries", "health"} /\ DeliveryInit /\ HealthInit
WorkNext ==
    /\ UNCHANGED scene
    /\ IF scene = "deliveries" THEN DeliveryNext ELSE UNCHANGED allVars
    /\ IF scene = "health" THEN HealthNext ELSE UNCHANGED healthVars

\* The fairness of each component, in its scene.
Delivers(A) == scene = "deliveries" /\ A /\ UNCHANGED <<scene, healthVars>>
Evaluates(A) == scene = "health" /\ A /\ UNCHANGED <<scene, allVars>>
WorkFairness ==
    /\ \A s \in Slots : /\ WF_WorkVars(Delivers(Queue(Starting(s))))
                        /\ WF_WorkVars(Delivers(Deliver(s) \/ OtherWork(s)))
                        /\ WF_WorkVars(Delivers(Queue(Record(s))))
    /\ \A j \in Ids : /\ WF_WorkVars(Delivers(Queue(FallDue(j))))
                      /\ WF_WorkVars(Delivers(Queue(RecoverLost(j))))
                      /\ SF_WorkVars(Delivers(\E s \in Slots : Queue(Claim(s, j))))
    /\ WF_WorkVars(Evaluates(PassStep))
    /\ \A w \in Processes : WF_WorkVars(Evaluates(AlertStep(w)))

WorkSpec == WorkInit /\ [][WorkNext]_WorkVars /\ WorkFairness
=============================================================================
