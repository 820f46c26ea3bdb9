--------------------------- MODULE PreviewReferences ---------------------------
(***************************************************************************)
(* Previews under a project's own references: the reads a preview is       *)
(* raised after, each a statement of its own with other calls in between,  *)
(* the two unique indexes that decide what the reads cannot, the           *)
(* confirmation of what was answered and the sweep of closed windows.      *)
(*                                                                         *)
(* An intent stands for direction, route, amount and payer.  A preview is  *)
(* named by the call that inserted it, as is the transaction it became.    *)
(***************************************************************************)
EXTENDS Nullable, FiniteSets

CONSTANTS
    Callers, References, Intents,
    Unconfirmed  \* expired previews of a payer in an hour that raise an alert

ASSUME ReferencesOK == Unconfirmed \in Nat \ {0}

VARIABLES
    caller,    \* each call: stage, what it asked for, the preview it was answered with
    offered,   \* the preview each call inserted: its status, and whether its window closed
    payments,  \* the transaction each preview became
    payerAlerts

referenceVars == <<caller, offered, payments, payerAlerts>>

NotOffered == [status |-> "none", over |-> FALSE]

ReferencesInit ==
    /\ caller \in [Callers -> [stage : {"asking"}, reference : References, intent : Intents, answer : {None}]]
    /\ offered = [c \in Callers |-> NotOffered]
    /\ payments = [c \in Callers |-> "none"]
    /\ payerAlerts = {}

AtStage(c, stage) == caller[c].stage = stage
Answer(c, p) == caller' = [caller EXCEPT ![c].stage = "answered", ![c].answer = p]
Advance(c, stage) == caller' = [caller EXCEPT ![c].stage = stage]
Of(c) == {p \in Callers : caller[p].reference = caller[c].reference}
Alike(c, p) == caller[c].intent = caller[p].intent
Pends(p) == payments[p] = "open"

-----------------------------------------------------------------------------
\* Mutant: the original is returned whatever it was raised for.
RetriedWhatever(c, p) == caller[c].reference = caller[p].reference /\ ~offered[p].over

\* The same intent, and a window that has not closed.
Retried(c, p) == Alike(c, p) /\ ~offered[p].over

\* Another intent is refused, even where its window closed and no sweep came by; the same intent
\* past its window goes on, to be refused by the index.
ReadOpen(c) ==
    /\ AtStage(c, "asking")
    /\ LET open == {p \in Of(c) : offered[p].status = "open"}
       IN  IF \E p \in open : Retried(c, p) THEN Answer(c, CHOOSE p \in open : Retried(c, p))
           ELSE Advance(c, IF \E p \in open : ~Alike(c, p) THEN "refused" ELSE "not_open")
    /\ UNCHANGED <<offered, payments, payerAlerts>>

ReadConfirmed(c) ==
    /\ AtStage(c, "not_open")
    /\ Advance(c, IF \E p \in Of(c) : payments[p] # "none" THEN "refused" ELSE "not_confirmed")
    /\ UNCHANGED <<offered, payments, payerAlerts>>

ReadPending(c) ==
    /\ AtStage(c, "not_confirmed")
    /\ Advance(c, IF \E p \in Callers : Pends(p) /\ Alike(c, p) THEN "refused" ELSE "inserting")
    /\ UNCHANGED <<offered, payments, payerAlerts>>

\* Mutant: nothing but the reads stands before the insertion.
InsertUnindexed(c) ==
    /\ AtStage(c, "inserting")
    /\ offered' = [offered EXCEPT ![c].status = "open"] /\ Answer(c, c)
    /\ UNCHANGED <<payments, payerAlerts>>

\* preview_open_project_reference admits one open preview of a reference.
InsertPreview(c) ==
    /\ AtStage(c, "inserting")
    /\ IF \E p \in Of(c) : offered[p].status = "open"
       THEN Advance(c, "refused") /\ UNCHANGED offered
       ELSE offered' = [offered EXCEPT ![c].status = "open"] /\ Answer(c, c)
    /\ UNCHANGED <<payments, payerAlerts>>

-----------------------------------------------------------------------------
\* One transaction under the locks that Confirmation opens up; a transaction's reference is unique too.
ConfirmPreview(p) ==
    /\ offered[p].status = "open" /\ ~offered[p].over
    /\ \A q \in Callers : ~(Pends(q) /\ Alike(p, q))
    /\ \A q \in Of(p) : payments[q] = "none"
    /\ offered' = [offered EXCEPT ![p].status = "confirmed"]
    /\ payments' = [payments EXCEPT ![p] = "open"]
    /\ UNCHANGED <<caller, payerAlerts>>

Concludes(p) ==
    /\ Pends(p)
    /\ payments' = [payments EXCEPT ![p] = "concluded"]
    /\ UNCHANGED <<caller, offered, payerAlerts>>

ClosesWindow(p) ==
    /\ offered[p].status = "open" /\ ~offered[p].over
    /\ offered' = [offered EXCEPT ![p].over = TRUE]
    /\ UNCHANGED <<caller, payments, payerAlerts>>

\* The worker's sweep: the payers of the previews it closes are counted after it closed them all.
ExpireOpen ==
    LET closed == {p \in Callers : offered[p].status = "open" /\ offered[p].over}
        now == [p \in Callers |-> IF p \in closed THEN [offered[p] EXCEPT !.status = "expired"] ELSE offered[p]]
    IN  /\ closed # {}
        /\ offered' = now
        /\ payerAlerts' = payerAlerts \cup {caller[p].intent : p \in
              {q \in closed : Cardinality({r \in Callers : Alike(q, r) /\ now[r].status = "expired"}) >= Unconfirmed}}
        /\ UNCHANGED <<caller, payments>>

CallerStep(c) == ReadOpen(c) \/ ReadConfirmed(c) \/ ReadPending(c) \/ InsertPreview(c)
ReferencesNext == ExpireOpen \/ \E c \in Callers : CallerStep(c) \/ ConfirmPreview(c) \/ Concludes(c) \/ ClosesWindow(c)
ReferencesSpec == ReferencesInit /\ [][ReferencesNext]_referenceVars

-----------------------------------------------------------------------------
\* Every variable has its type.
ReferencesTypeOK ==
    /\ \A c \in Callers : caller[c].answer \in Callers \cup {None}
    /\ \A c \in Callers : offered[c].status \in {"none", "open", "confirmed", "expired"}
    /\ payments \in [Callers -> {"none", "open", "concluded"}] /\ payerAlerts \subseteq Intents

\* Who retries a reference is answered with a preview of what was asked, calls for one reference that
\* hold a preview still open hold the same, and what one confirms of a reference, once, is what they hold.
ReferenceHolds ==
    \A c, d \in {x \in Callers : AtStage(x, "answered")} :
        LET p == caller[c].answer  q == caller[d].answer
        IN  /\ p \in Of(c) /\ Alike(c, p)
            /\ d \in Of(c) /\ {offered[p].status, offered[q].status} \in {{"open"}, {"confirmed"}} => p = q

\* A reference has one payment, and who retries it is answered with what was asked
\* (preview.service.ts); and every variable has its type.
ReferencesHold == ReferencesTypeOK /\ ReferenceHolds
================================================================================
