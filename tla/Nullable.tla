------------------------------- MODULE Nullable -------------------------------
(***************************************************************************)
(* The null of an optional column, and what reading one comes to.          *)
(***************************************************************************)
EXTENDS Integers

CONSTANT None

Or(value, default) == IF value = None THEN default ELSE value
AtLeast(floor, n) == IF floor # None /\ n < floor THEN floor ELSE n
AtMost(ceiling, n) == IF ceiling # None /\ n > ceiling THEN ceiling ELSE n
==============================================================================
