---------------------------- MODULE MCFleetRuns -----------------------------
(* Instances of FleetRuns for TLC.                                         *)
EXTENDS FleetRuns, TLC

CONSTANTS r1, r2, f1, i1, i2, s1, s2, p1, c1, c2

\* Two runs of one feature and role on two panes.
OneFeature == [r \in {r1, r2} |-> f1]
OneRun == [r \in {r1} |-> f1]
OneRunInstance == [r \in {r1} |-> i1]
OneRunSurface == [r \in {r1} |-> s1]
OneRunRole == [r \in {r1} |-> p1]
TwoInstances == r1 :> i1 @@ r2 :> i2
OneInstance == [r \in {r1, r2} |-> i1]
TwoSurfaces == r1 :> s1 @@ r2 :> s2
OneSurface == [r \in {r1, r2} |-> s1]
OneRole == [r \in {r1, r2} |-> p1]
NoCloser == [c \in {} |-> f1]
OneCloser == [c \in {c1} |-> f1]
BothClose == [c \in {c1, c2} |-> f1]
=============================================================================
