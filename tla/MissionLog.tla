------------------------------ MODULE MissionLog ------------------------------
(***************************************************************************)
(* What a mission ledger promises its writers (scripts/fleet_mission_state  *)
(* .py, append_events): a log that only grows, one publication of fresh     *)
(* idempotency keys at a time, and that its final event closes.             *)
(***************************************************************************)
EXTENDS Sequences, Integers

CONSTANTS
  Events,  \* requests: records with an idempotency key
  Finals   \* those that end the mission (mission_terminal)

VARIABLE log  \* the publications, each a set of events

Recorded(l) == UNION {l[n] : n \in DOMAIN l}

(* No two requests of S use one idempotency key for different contents.     *)
Consistent(S) == \A e, f \in S : e.key = f.key => e = f

Fresh(S, l) == {e \in S : \A f \in Recorded(l) : f.key # e.key}

Closed(l) == Recorded(l) \cap Finals # {}

Init == log = <<>>

Publish(S) ==
  /\ S # {} /\ Consistent(S) /\ Fresh(S, log) = S
  /\ ~Closed(log)
  /\ log' = Append(log, S)

Next == \E S \in SUBSET Events : Publish(S)

Spec == Init /\ [][Next]_log

(* Each request is recorded once: no two publications, and no two events of   *)
(* one publication, share an idempotency key.                                 *)
RequestsOnce ==
  \A m, n \in DOMAIN log : \A e \in log[m], f \in log[n] :
    e.key = f.key => m = n /\ e = f
=============================================================================
