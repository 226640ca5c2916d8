------------------------------- MODULE Leases -------------------------------
(***************************************************************************)
(* The lease store of scripts/fleet_leases.py: lease directories under     *)
(* runs/locks, closing markers beside them, and what the store reads to    *)
(* decide who may be reclaimed - the lifecycle ledger and the cmux tree.   *)
(*                                                                         *)
(* Every operation of the store runs under the flock of locks/.coordinator *)
(* (coordinated), so operations do not interleave with each other; the     *)
(* ledger and the tree change beside them.  An operation can still be cut  *)
(* short, by a signal or by an error, and each one below comes with what   *)
(* it then leaves.  The processes that call the store are in FleetRuns.    *)
(***************************************************************************)
EXTENDS Naturals, FiniteSets

CONSTANTS
    Runs,          \* attempts to run one task on one instance, by run_id
    Remote,        \* those on interactive (frontier) instances
    Heavy,         \* local runs of resource class local_heavy
    Features, Instances, Roles, Surfaces,
    FeatureOf, InstanceOf, RoleOf, SurfaceOf,  \* of a run; an instance is one of its feature
    MaxLocal,      \* max_parallel_local_workers
    RoleLimit,     \* the role's concurrency
    Closers,       \* teardowns, by close_id
    Closes,        \* the feature a teardown closes
    Free,          \* no lease directory of that name
    Broken,        \* a lease directory without readable metadata
    Nobody,        \* no closing marker
    Malformed      \* an unreadable one

ASSUME ConstantsAssumption ==
    /\ Remote \subseteq Runs /\ Heavy \subseteq Runs \ Remote
    /\ FeatureOf \in [Runs -> Features] /\ InstanceOf \in [Runs -> Instances]
    /\ RoleOf \in [Runs -> Roles] /\ SurfaceOf \in [Runs -> Surfaces]
    /\ MaxLocal \in Nat /\ RoleLimit \in Nat
    /\ Closes \in [Closers -> Features]
    /\ Free \notin Runs /\ Broken \notin Runs /\ Free # Broken
    /\ Nobody \notin Closers /\ Malformed \notin Closers /\ Nobody # Malformed

VARIABLES
    holder,      \* name -> the run whose metadata the lease carries
    litter,      \* names of leases with a leftover temporary beside lease.json
    closing,     \* feature -> close_id of its closing marker
    event,       \* run -> status of its latest ledger event
    workspaces,  \* features whose workspace is in the cmux tree
    panes        \* surfaces in the cmux tree

store == <<holder, litter, closing, event>>
tree == <<workspaces, panes>>

Statuses == {"none", "preparing", "dispatched", "running", "done", "abandoned", "indeterminate"}
Terminal == {"done", "abandoned", "indeterminate"}

InstanceName(r) == <<"instance", InstanceOf[r]>>
HeavyName == <<"heavy", 1>>
SlotName(k) == <<"slot", k>>
RoleName(p, k) == <<"role", <<p, k>> >>
LeaseNames ==
    ({"instance"} \X Instances) \cup {HeavyName} \cup ({"slot"} \X (1 .. MaxLocal))
        \cup ({"role"} \X (Roles \X (1 .. RoleLimit)))

\* The order in which acquire creates a run's leases and release removes them.
AcquireOrder == [instance |-> 1, heavy |-> 2, slot |-> 3, role |-> 4]
ReleaseOrder == [instance |-> 1, slot |-> 2, role |-> 3, heavy |-> 4]
Prefixes(N, order) ==
    {P \in SUBSET N : \A n \in P, m \in N \ P : order[n[1]] < order[m[1]]}

StoreInit ==
    /\ holder = [n \in LeaseNames |-> Free]
    /\ litter = {}
    /\ closing = [f \in Features |-> Nobody]
    /\ event = [r \in Runs |-> "none"]
    /\ workspaces = Features
    /\ panes = Surfaces

StoreTypeOK ==
    /\ holder \in [LeaseNames -> Runs \cup {Free, Broken}]
    /\ litter \subseteq LeaseNames
    /\ closing \in [Features -> Closers \cup {Nobody, Malformed}]
    /\ event \in [Runs -> Statuses]
    /\ workspaces \subseteq Features
    /\ panes \subseteq Surfaces

Holds(r) == {n \in LeaseNames : holder[n] = r}
Owns(r, N) == \A n \in N : holder[n] = r
Absent(r) == FeatureOf[r] \notin workspaces \/ SurfaceOf[r] \notin panes
InFeature(f) == {r \in Runs : FeatureOf[r] = f}

----------------------------------------------------------------------------
(* The ledger: the first terminal event of a run is its last.              *)

RecordedOver(r, status) ==  \* mutant: a later event replaces a terminal one
    event' = [event EXCEPT ![r] = status]
Recorded(r, status) ==
    event' = [event EXCEPT ![r] = IF @ \in Terminal THEN @ ELSE status]

----------------------------------------------------------------------------
(* reconcile.  A run is reclaimed when its latest event is terminal and    *)
(* does not retain the lease, or when the tree was read and lacks its      *)
(* workspace or surface; the latter is first recorded as abandoned.        *)

Settled(r) == event[r] \in Terminal \ {"indeterminate"}
ReclaimableSettled(scope, probed) ==  \* mutant: nobody is reclaimed for being absent
    {r \in scope : Holds(r) # {} /\ Settled(r)}
Reclaimable(scope, probed) ==
    {r \in scope : Holds(r) # {} /\ (Settled(r) \/ (probed /\ Absent(r)))}
Swept(R) == [n \in LeaseNames |-> IF holder[n] \in R THEN Free ELSE holder[n]]
Abandoned(R) ==
    [r \in Runs |-> IF r \in R /\ event[r] \notin Terminal THEN "abandoned" ELSE event[r]]

\* quarantine_lease raises on a lease with a leftover temporary.
Sweepable(R) == \A r \in R : Holds(r) \cap litter = {}

ReconcileAll(scope, probed) ==
    LET R == Reclaimable(scope, probed) IN
    /\ Sweepable(R)
    /\ holder' = Swept(R)
    /\ event' = Abandoned(R)

\* Cut short by a signal or an error within run r, after some other runs: the
\* order of runs and names is that of the file names, which says nothing of them.
ReconcilePart(scope) ==
    \E probed \in BOOLEAN : \E r \in Reclaimable(scope, probed) :
        \E R \in SUBSET (Reclaimable(scope, probed) \ {r}), N \in SUBSET (Holds(r) \ litter) :
            /\ Sweepable(R)
            /\ holder' = [n \in LeaseNames |-> IF n \in N THEN Free ELSE Swept(R)[n]]
            /\ event' = Abandoned(R \cup {r})

----------------------------------------------------------------------------
(* acquire and acquire_frontier, after their reconciliation left "after".  *)

FirstFree(K) == {k \in K : \A j \in K : k <= j}
Requests(r, after) ==
    IF r \in Remote
    THEN {{InstanceName(r)}}
    ELSE {{InstanceName(r), SlotName(k), RoleName(RoleOf[r], j)}
              \cup (IF r \in Heavy THEN {HeavyName} ELSE {}) :
          k \in FirstFree({k \in 1 .. MaxLocal : after[SlotName(k)] = Free}),
          j \in FirstFree({j \in 1 .. RoleLimit : after[RoleName(RoleOf[r], j)] = Free})}

AdmissibleWhileClosing(r, after, N) ==  \* mutant: acquire asks no closing marker
    /\ \A n \in LeaseNames : after[n] # Broken
    /\ \A n \in LeaseNames : after[n] \in Runs \ {r} => SurfaceOf[after[n]] # SurfaceOf[r]
    /\ \A n \in N : after[n] = Free
Admissible(r, after, N) ==
    /\ \A n \in LeaseNames : after[n] # Broken
    /\ closing[FeatureOf[r]] = Nobody
    /\ \A n \in LeaseNames : after[n] \in Runs \ {r} => SurfaceOf[after[n]] # SurfaceOf[r]
    /\ \A n \in N : after[n] = Free

Granted(r, after, N) == holder' = [n \in LeaseNames |-> IF n \in N THEN r ELSE after[n]]

\* Cut short: some leases made, perhaps one without metadata.  An error, rather
\* than a signal, removes what was made: nothing then remains.
GrantedPart(r, after, N) ==
    \E P \in Prefixes(N, AcquireOrder) : \E X \in {X \in SUBSET (N \ P) : Cardinality(X) <= 1} :
        /\ P \cup X \in Prefixes(N, AcquireOrder)
        /\ holder' = [n \in LeaseNames |->
                        IF n \in P THEN r ELSE IF n \in X THEN Broken ELSE after[n]]

----------------------------------------------------------------------------
(* release: all must be owned, then each is removed up to one with litter. *)

Removable(N) ==
    {n \in N : \A m \in N \cap litter : ReleaseOrder[n[1]] < ReleaseOrder[m[1]]}
ReleaseUnchecked(r, N) ==  \* mutant: release removes by name, whoever owns it
    holder' = [n \in LeaseNames |-> IF n \in Removable(N) THEN Free ELSE holder[n]]
Release(r, N) ==
    holder' = IF Owns(r, N)
              THEN [n \in LeaseNames |-> IF n \in Removable(N) THEN Free ELSE holder[n]]
              ELSE holder

\* Cut short: some removed, perhaps one left as an empty directory.
ReleasePart(r, N) ==
    /\ Owns(r, N)
    /\ \E P \in Prefixes(N, ReleaseOrder) : \E X \in {X \in SUBSET (N \ P) : Cardinality(X) <= 1} :
        /\ P \cup X \in Prefixes(N, ReleaseOrder) /\ P \cup X \subseteq Removable(N)
        /\ holder' = [n \in LeaseNames |->
                        IF n \in P THEN Free ELSE IF n \in X THEN Broken ELSE holder[n]]

----------------------------------------------------------------------------
(* begin_close, after its reconciliation of the feature left "after".      *)

ClosableUnmarked(f, after) ==  \* mutant: any marker refuses the teardown
    /\ \A n \in LeaseNames : after[n] # Broken /\ after[n] \notin InFeature(f)
    /\ closing[f] = Nobody
Closable(f, after) ==
    /\ \A n \in LeaseNames : after[n] # Broken /\ after[n] \notin InFeature(f)
    /\ closing[f] = Nobody \/ (closing[f] \in Closers /\ f \notin workspaces)
=============================================================================
