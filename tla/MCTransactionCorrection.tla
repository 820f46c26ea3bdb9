----------------------- MODULE MCTransactionCorrection -----------------------
(***************************************************************************)
(* Instances of TransactionCorrection for TLC.                             *)
(***************************************************************************)
EXTENDS TransactionCorrection, TLC

CONSTANTS d1, d2, c1, p1, p2, w1, w2, r1

MCAmount == [t \in Txns |-> IF t = d1 THEN 2 ELSE 3]
\* The collection by itself, or the payouts together.
MCTogether == {Disbursements, Txns \ Disbursements}

\* Bound: the worker serves the collection, while the payouts contend for the balance without it.
PayoutsUnserved ==
    \A t \in Disbursements : submitJob[t] \in {"none", "queued"} /\ statusJob[t] = "none" /\ late[t] = {}
UnservedNext == CorrectionNext /\ PayoutsUnserved' /\ \A w \in Workers : proc'[w].t \notin Disbursements
MCSpec == CorrectionInit /\ [][UnservedNext]_correctionVars
=============================================================================
