---------------------------- MODULE MCAssurance ----------------------------
(* The bounds of Assurance are numbers, which the configurations give.     *)
EXTENDS Assurance
=============================================================================
