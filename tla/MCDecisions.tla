---------------------------- MODULE MCDecisions ----------------------------
(* Instances of Decisions for TLC: the first decision blocks an instance.  *)
EXTENDS Decisions

CONSTANT i

MCAffected == [d \in {1, 2} |-> IF d = 1 THEN {i} ELSE {}]
=============================================================================
