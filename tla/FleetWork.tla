----------------------------- MODULE FleetWork ------------------------------
(***************************************************************************)
(* What the leases of scripts/fleet_leases.py promise: which runs are at   *)
(* work and which features are being torn down.  A run begins at most      *)
(* once, only together with runs it may be at work with and never in a     *)
(* feature that is being torn down.  A teardown is the only one of its     *)
(* feature, and what is still at work there ends before it begins.         *)
(***************************************************************************)
CONSTANTS
    Runs, Features,
    FeatureOf,  \* of a run
    Together    \* the sets of runs that may be at work at the same time

VARIABLES
    stage,   \* run -> "waiting", "working" or "over"
    closed   \* the features being torn down
vars == <<stage, closed>>

Working(s) == {r \in Runs : s[r] = "working"}
Ended(R) == [r \in Runs |-> IF r \in R THEN "over" ELSE stage[r]]

Init ==
    /\ stage = [r \in Runs |-> "waiting"]
    /\ closed = {}

Begin(r) ==
    /\ stage[r] = "waiting"
    /\ FeatureOf[r] \notin closed
    /\ Working(stage) \cup {r} \in Together
    /\ stage' = [stage EXCEPT ![r] = "working"]
    /\ UNCHANGED closed

End ==
    /\ \E R \in SUBSET Runs : stage' = Ended(R)
    /\ UNCHANGED closed

Close(f) ==
    /\ f \notin closed
    /\ \E R \in SUBSET {r \in Runs : FeatureOf[r] = f} : stage' = Ended(R)
    /\ \A r \in Working(stage') : FeatureOf[r] # f
    /\ closed' = closed \cup {f}

Open(f) ==
    /\ f \in closed
    /\ closed' = closed \ {f}
    /\ UNCHANGED stage

Next ==
    \/ \E r \in Runs : Begin(r)
    \/ End
    \/ \E f \in Features : Close(f) \/ Open(f)

Spec == Init /\ [][Next]_vars
=============================================================================
