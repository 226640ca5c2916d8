----------------------------- MODULE LaunchOnce -----------------------------
(***************************************************************************)
(* What dispatch promises of a request, whoever repeats it and whatever is *)
(* cut short: it is launched only once granted, at most once, and closed   *)
(* once and for good.  A request in Stragglers may be launched after it    *)
(* was closed; the others may not.                                         *)
(***************************************************************************)
EXTENDS Naturals

CONSTANTS Requests, Stragglers

VARIABLES stage, launches
vars == <<stage, launches>>

Init ==
    /\ stage = [r \in Requests |-> "asked"]
    /\ launches = [r \in Requests |-> 0]

Grant(r) ==
    /\ stage[r] = "asked"
    /\ stage' = [stage EXCEPT ![r] = "granted"]
    /\ UNCHANGED launches

Launch(r) ==
    /\ stage[r] = "granted" \/ (stage[r] = "closed" /\ r \in Stragglers)
    /\ launches[r] = 0
    /\ launches' = [launches EXCEPT ![r] = 1]
    /\ UNCHANGED stage

Close(r) ==
    /\ stage[r] = "granted"
    /\ stage' = [stage EXCEPT ![r] = "closed"]
    /\ UNCHANGED launches

Next == \E r \in Requests : Grant(r) \/ Launch(r) \/ Close(r)
Spec == Init /\ [][Next]_vars
=============================================================================
