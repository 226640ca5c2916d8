------------------------- MODULE MCMissionTransaction -------------------------
(* An instance of MissionTransaction for TLC. *)
EXTENDS MissionTransaction, TLC

E(k, b) == [key |-> k, body |-> b]

MCEvents == {E("a", 1), E("b", 1), E("end", 1)}
MCFinals == {E("end", 1)}

(* Two requests that share an event; the second one ends the mission. *)
MCBatches == {{E("a", 1), E("b", 1)}, {E("a", 1), E("end", 1)}}
=============================================================================
