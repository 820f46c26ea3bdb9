------------------------------- MODULE Orders -------------------------------
(***************************************************************************)
(* A finite set put in order: the ORDER BY of a statement, the comparison  *)
(* given to a sort.                                                        *)
(***************************************************************************)
EXTENDS Integers, FiniteSets, Functions

InOrder(S, before(_, _)) ==
    CHOOSE s \in Injection(1..Cardinality(S), S) : \A i, j \in DOMAIN s : i < j => before(s[i], s[j])
=============================================================================
