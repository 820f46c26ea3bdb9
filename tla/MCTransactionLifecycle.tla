----------------------- MODULE MCTransactionLifecycle -----------------------
(***************************************************************************)
(* Instances of TransactionLifecycle for TLC.                              *)
(***************************************************************************)
EXTENDS TransactionLifecycle, TLC

CONSTANTS d1, d2, c1, p1, p2, w1, w2, r1

\* Disbursements reserve different amounts, so one recipe cannot stand in for another.
MCAmount == [t \in Txns |-> IF t = d1 THEN 2 ELSE 3]

ProviderSymmetry == Permutations(Providers)
WorkerSymmetry == Permutations(Workers)
Symmetry == ProviderSymmetry \cup WorkerSymmetry
\* Payments of one kind at a time.
MCTogether == {{t} : t \in Txns}
=============================================================================
