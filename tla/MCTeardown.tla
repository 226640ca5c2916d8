----------------------------- MODULE MCTeardown -----------------------------
(* Instances of Teardown for TLC. *)
EXTENDS Teardown, TLC
=============================================================================
