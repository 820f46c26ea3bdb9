-------------------------- MODULE MCLedgerCheckpoint --------------------------
(***************************************************************************)
(* Instances of LedgerCheckpoint for TLC.                                  *)
(***************************************************************************)
EXTENDS LedgerCheckpoint, TLC

CONSTANTS a1, a2, b1, s1, s2, k1, k2

Symmetry == Permutations(Creditors) \cup Permutations(Spenders) \cup Permutations(Checkpointers)
=============================================================================
