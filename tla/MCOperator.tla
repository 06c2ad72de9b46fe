---------------------------- MODULE MCOperator ----------------------------
(* Instances of Operator for TLC. *)
EXTENDS Operator

PlanPage == [i \in {0} |-> [lo |-> 1, hi |-> 1]]
=============================================================================
